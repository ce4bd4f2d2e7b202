----------------------------- MODULE MCAccounts -----------------------------
(***************************************************************************)
(* The workloads: an empty server and its first users; two administrators  *)
(* and a member; sign-in with two-factor login; and the two-factor policy  *)
(* against registrations, enrolments and bans.                             *)
(***************************************************************************)
EXTENDS Accounts

CONSTANTS u1, u2, u3

Workload(k, a, m, e) == [kinds |-> k, admins |-> a, members |-> m, enrolled |-> e]

MCWorkloads ==
    {Workload({"setup", "register", "settings"}, {}, {}, {}),
     Workload({"setup", "enable", "settings"}, {}, {}, {}),
     Workload({"patch", "delete"}, {u1, u2}, {u3}, {}),
     Workload({"login", "enable", "delete"}, {u1, u2}, {}, {u2}),
     Workload({"settings", "register"}, {u1}, {}, {u1}),
     Workload({"settings", "enable", "disable"}, {u1}, {u2}, {u1}),
     Workload({"settings", "patch"}, {u1}, {u2}, {u1})}
=============================================================================
