---------------------------- MODULE RateLimiter ----------------------------
(***************************************************************************)
(* The sliding-window limiter with lockouts (auth/ratelimit.go).  Every    *)
(* method runs under one mutex, so a call is one action, made by any       *)
(* goroutine at any time; a ticker calls Cleanup.  The clock is a number   *)
(* of ticks and several calls may fall into one tick.  A timestamp is kept *)
(* as the number of the granted request it stands for.                     *)
(***************************************************************************)
EXTENDS Integers, Sequences, FiniteSets

CONSTANTS Keys,
          Policies,   \* the limits and windows each key is called with
          Durations,  \* durations of Lockout
          MaxWindow,  \* the argument of Cleanup: 15 minutes in router.go
          MaxTime,    \* bound on the clock
          MaxGrants   \* bound on the requests granted to a key between resets

(* A key is called with one window and perhaps several limits (the routes  *)
(* that share an IP's key), or with limit 1 and a window an administrator  *)
(* may change (slow mode).                                                 *)
ASSUME PoliciesAssumption ==
  /\ Policies \in [Keys -> SUBSET [limit : Nat \ {0}, window : Nat]]
  /\ \A k \in Keys : \/ \A p, q \in Policies[k] : p.window = q.window
                     \/ \A p \in Policies[k] : p.limit = 1
ASSUME TimesAssumption ==
  Durations \subseteq Nat /\ MaxWindow \in Nat /\ MaxTime \in Nat /\ MaxGrants \in Nat

VARIABLES now,
          windows,   \* RateLimiter.windows: the granted requests remembered
          lockouts,  \* RateLimiter.lockouts: expiresAt, 0 when there is none
          granted,   \* history: the requests granted since the last Reset
          until      \* history: when the last Lockout since a Reset ends

vars == <<now, windows, lockouts, granted, until>>

Init ==
  /\ now = 0
  /\ windows = [k \in Keys |-> {}]
  /\ lockouts = [k \in Keys |-> 0]
  /\ granted = [k \in Keys |-> <<>>]
  /\ until = [k \in Keys |-> 0]
-----------------------------------------------------------------------------
LockedOut(k) == now < lockouts[k]

(* Mutant: off by one, the window is a tick too short. *)
ValidTooFew(k, window) == {i \in windows[k] : granted[k][i].at > now - window + 1}

(* The timestamps inside the window that ends now. *)
Valid(k, window) == {i \in windows[k] : granted[k][i].at > now - window}

(* Allow(key, limit, window) returns false ... *)
Refuse(k, p) ==
  /\ LockedOut(k) \/ Cardinality(Valid(k, p.window)) >= p.limit
  /\ IF LockedOut(k)
       THEN UNCHANGED <<windows, lockouts>>
       ELSE /\ windows' = [windows EXCEPT ![k] = Valid(k, p.window)]
            /\ lockouts' = [lockouts EXCEPT ![k] = 0]
  /\ UNCHANGED <<now, granted, until>>

(* ... or true: only then the request is recorded. *)
Grant(k, p) ==
  /\ ~LockedOut(k) /\ Cardinality(Valid(k, p.window)) < p.limit
  /\ Len(granted[k]) < MaxGrants
  /\ windows' = [windows EXCEPT ![k] = Valid(k, p.window) \cup {Len(granted[k]) + 1}]
  /\ lockouts' = [lockouts EXCEPT ![k] = 0]
  /\ granted' = [granted EXCEPT ![k] =
       Append(@, [at |-> now, limit |-> p.limit, window |-> p.window])]
  /\ UNCHANGED <<now, until>>

Lockout(k, d) ==
  /\ lockouts' = [lockouts EXCEPT ![k] = now + d]
  /\ until' = [until EXCEPT ![k] = now + d]
  /\ UNCHANGED <<now, windows, granted>>

(* The answer is LockedOut(k); a lockout that has ended is deleted. *)
IsLockedOut(k) ==
  /\ lockouts' = [lockouts EXCEPT ![k] = IF LockedOut(k) THEN @ ELSE 0]
  /\ UNCHANGED <<now, windows, granted, until>>

(* Mutant: only the lockout is cleared. *)
ResetKeepsWindow(k) ==
  /\ lockouts' = [lockouts EXCEPT ![k] = 0]
  /\ granted' = [granted EXCEPT ![k] = <<>>]
  /\ until' = [until EXCEPT ![k] = 0]
  /\ UNCHANGED <<now, windows>>

Reset(k) ==
  /\ windows' = [windows EXCEPT ![k] = {}]
  /\ lockouts' = [lockouts EXCEPT ![k] = 0]
  /\ granted' = [granted EXCEPT ![k] = <<>>]
  /\ until' = [until EXCEPT ![k] = 0]
  /\ UNCHANGED now

Stale(k) == \A i \in windows[k] : granted[k][i].at <= now - MaxWindow

(* Mutant: a lockout is evicted together with the timestamps of its key. *)
CleanupEvictsLockouts ==
  /\ windows' = [k \in Keys |-> IF Stale(k) THEN {} ELSE windows[k]]
  /\ lockouts' = [k \in Keys |-> IF Stale(k) THEN 0 ELSE lockouts[k]]
  /\ UNCHANGED <<now, granted, until>>

(* Entries without a recent timestamp and lockouts that have ended go. *)
Cleanup ==
  /\ windows' = [k \in Keys |-> IF Stale(k) THEN {} ELSE windows[k]]
  /\ lockouts' = [k \in Keys |-> IF now > lockouts[k] THEN 0 ELSE lockouts[k]]
  /\ UNCHANGED <<now, granted, until>>

Tick ==
  /\ now < MaxTime
  /\ now' = now + 1
  /\ UNCHANGED <<windows, lockouts, granted, until>>

(* Any caller may make any call. *)
Next ==
  \/ \E k \in Keys :
       \/ \E p \in Policies[k] : Refuse(k, p) \/ Grant(k, p)
       \/ \E d \in Durations : Lockout(k, d)
       \/ IsLockedOut(k) \/ Reset(k)
  \/ Cleanup \/ Tick

Spec == Init /\ [][Next]_vars
-----------------------------------------------------------------------------
(* Type correctness of the limiter. *)
TypeOK ==
  /\ now \in Nat
  /\ lockouts \in [Keys -> Nat]
  /\ until \in [Keys -> Nat]
  /\ granted \in [Keys -> Seq([at : Nat, limit : Nat \ {0}, window : Nat])]
  /\ windows \in [Keys -> SUBSET Nat]
  /\ \A k \in Keys : windows[k] \subseteq 1..Len(granted[k])

Lesser(a, b) == IF a < b THEN a ELSE b

(* Allow: of the requests granted to a key since its last Reset, any one   *)
(* and the one "limit" requests before it are at least a window apart,     *)
(* whatever Cleanup forgets in between and however slow mode is changed:   *)
(* except that a window longer than Cleanup's maxWindow is only enforced   *)
(* up to maxWindow.                                                        *)
WindowRespected ==
  \A k \in Keys : \A n \in 1..Len(granted[k]) :
    LET g == granted[k][n]
    IN  n > g.limit =>
          g.at - granted[k][n - g.limit].at >= Lesser(g.window, MaxWindow)

(* Lockout: "prevents any requests from key for duration": nothing, and in *)
(* particular no Cleanup, ends a lockout early.                            *)
LockoutKept == \A k \in Keys : now < until[k] => LockedOut(k)
=============================================================================
