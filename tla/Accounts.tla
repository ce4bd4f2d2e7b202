------------------------------ MODULE Accounts ------------------------------
(***************************************************************************)
(* User rows, sessions, invites, two-factor challenges and the two         *)
(* settings that govern sign-in, under concurrent HTTP requests.  A        *)
(* request is a goroutine that reads, decides and writes in separate       *)
(* statements; what is one transaction or one critical section of a store  *)
(* in auth/totp.go is one action.  Passwords are right here: LoginLockout  *)
(* has the wrong ones.                                                     *)
(***************************************************************************)
EXTENDS Integers, FiniteSets

CONSTANTS
    Users,        \* rows of the users table
    Requests,     \* requests served at the same time
    Challenges,   \* partial tokens
    Nobody,       \* a user or challenge that is not one
    MaxUses,      \* max_uses of the invite that is followed
    MaxFailures,  \* wrong codes after which a challenge is dropped
    Workloads     \* the administrators and members at the start, those of them
                  \* with two-factor login, and the kinds of request made

Kinds == {"setup", "register", "login", "enable", "disable", "delete", "patch", "settings"}

ASSUME AccountsAssumption ==
    /\ Nobody \notin Users \union Challenges
    /\ MaxUses \in Nat /\ MaxFailures \in Nat \ {0}
    /\ \A w \in Workloads :
         /\ w.kinds \subseteq Kinds
         /\ w.admins \subseteq Users /\ w.members \subseteq Users \ w.admins
         /\ w.members = {} \/ w.admins # {}
         /\ w.enrolled \subseteq w.admins \union w.members

VARIABLES
    kinds,             \* the kinds of request, fixed at the start
    user,              \* the users table
    sessions,          \* users with a session
    invite, uses,      \* the invite's state, its use_count
    require2FA, registrationOpen,   \* the settings table
    entry,             \* PartialAuthStore: user and failures of each challenge
    pending,           \* PendingTOTPStore: users with an enrolment
    req,               \* the position and the locals of each request
    joined,            \* history: users created with the invite
    wrong,             \* history: wrong codes for a challenge before it was spent
    spent, issued,     \* history: challenges consumed, sessions each has led to
    escaped,           \* history: users the two-factor policy has missed in a race
    late,              \* history: accounts deleted during their own sign-in
    waived             \* history: an administrator was removed by a request whose
                       \* own administrator was gone, or a deleted one was unbanned

history == <<joined, wrong, spent, issued, escaped, late, waived>>
invites == <<invite, uses>>
settings == <<require2FA, registrationOpen>>
stores == <<entry, pending>>
data == <<kinds, user, sessions, invites, settings, stores, history>>
vars == <<data, req>>

NoRow == [role |-> "none", banned |-> FALSE, totp |-> FALSE, deleted |-> FALSE]
NewRow(role) == [NoRow EXCEPT !.role = role]
Rows == [role : {"none", "member", "admin"}, banned : BOOLEAN, totp : BOOLEAN,
         deleted : BOOLEAN]

Exists(u) == user[u].role # "none"
Active(u) == Exists(u) /\ ~user[u].banned
ActiveAdmins == {u \in Users : user[u].role = "admin" /\ ~user[u].banned}

NoUpdate == [require |-> "keep", open |-> "keep"]
Updates == [require : {"keep", "on", "off"}, open : {"keep", "on", "off"}]

Idle == [pc |-> "idle", user |-> Nobody, other |-> Nobody, up |-> NoUpdate, raced |-> FALSE]

Unissued == [state |-> "unissued", user |-> Nobody, failures |-> 0]

Init ==
    \E w \in Workloads :
      /\ kinds = w.kinds
      /\ user = [u \in Users |->
                   [role |-> IF u \in w.admins THEN "admin"
                             ELSE IF u \in w.members THEN "member" ELSE "none",
                    banned |-> FALSE, totp |-> u \in w.enrolled, deleted |-> FALSE]]
      /\ sessions = w.admins \union w.members
      /\ invite = "none" /\ uses = 0
      /\ require2FA = FALSE
      /\ registrationOpen \in BOOLEAN /\ (registrationOpen => w.admins # {})
      /\ entry = [c \in Challenges |-> Unissued] /\ pending = {}
      /\ req = [r \in Requests |-> Idle]
      /\ joined = {} /\ wrong = [c \in Challenges |-> 0]
      /\ spent = {} /\ issued = [c \in Challenges |-> 0]
      /\ escaped = {} /\ late = {} /\ waived = FALSE

-----------------------------------------------------------------------------
(* A request starts, goes on, and ends. *)

Start(r, kind, pc, u, o) ==
    /\ req[r] = Idle /\ kind \in kinds
    /\ req' = [req EXCEPT ![r] = [Idle EXCEPT !.pc = pc, !.user = u, !.other = o]]

At(r, pc) == req[r].pc = pc

Move(r, pc, raced) ==
    req' = [req EXCEPT ![r] = [pc |-> pc, user |-> @.user, other |-> @.other, up |-> @.up,
                               raced |-> raced]]

Goto(r, pc) == Move(r, pc, FALSE)

End(r) == req' = [req EXCEPT ![r] = Idle]

(* AuthMiddleware refuses a banned user; adminAuthMiddleware asks for the  *)
(* session and the role.                                                   *)
Authenticated(u) == u \in sessions /\ Active(u)
AdminSession(u) == u \in sessions /\ user[u].role = "admin"

(* A settings request has counted the users without two-factor login and   *)
(* is about to require it.                                                 *)
PolicyPending == \E q \in Requests : At(q, "commit") /\ req[q].up.require = "on"

(* User u is active without two-factor login from now on. *)
Misses(u, missed) ==
    escaped' = IF missed THEN escaped \union {u} ELSE escaped

(* issueSession, and the same in handleRegister and handleSetup *)
CreateSession(r) ==
    LET u == req[r].user  c == req[r].other IN
    /\ At(r, "session")
    /\ sessions' = sessions \union {u}
    /\ issued' = [d \in Challenges |-> IF d = c THEN issued[d] + 1 ELSE issued[d]]
    /\ End(r)
    /\ UNCHANGED <<kinds, user, invites, settings, stores, joined, wrong, spent, escaped, late, waived>>

-----------------------------------------------------------------------------
(* handleSetup *)

SetupGate(r) ==
    /\ \A u \in Users : ~Exists(u)
    /\ Start(r, "setup", "setup", Nobody, Nobody)
    /\ UNCHANGED data

SetupCreate(r, u) ==
    /\ At(r, "setup") /\ ~Exists(u)
    /\ user' = [user EXCEPT ![u] = NewRow("admin")]
    /\ req' = [req EXCEPT ![r] = [Idle EXCEPT !.pc = "session", !.user = u]]
    /\ Misses(u, req[r].raced \/ PolicyPending)
    /\ UNCHANGED <<kinds, sessions, invites, settings, stores, joined, wrong, spent, issued, late, waived>>

-----------------------------------------------------------------------------
(* handleRegister, handleCreateInvite, and the invite's end: handleRevokeInvite *)
(* or its expiry                                                           *)

RegisterOpen(r, u) ==
    /\ registrationOpen
    /\ Start(r, "register", "register", u, Nobody)
    /\ UNCHANGED data

(* Mutant: the policy is not asked. *)
RegisterPolicyUnasked(r) ==
    /\ At(r, "register")
    /\ Goto(r, "create")
    /\ UNCHANGED data

RegisterPolicy(r) ==
    /\ At(r, "register")
    /\ \/ require2FA /\ End(r)
       \/ ~require2FA /\ Goto(r, "create")
    /\ UNCHANGED data

InviteUsable == invite = "live" /\ uses < MaxUses

(* Mutant: the use is counted although the name is taken. *)
CreateUserBurnsInvite(r) ==
    LET u == req[r].user IN
    /\ At(r, "create")
    /\ uses' = IF InviteUsable THEN uses + 1 ELSE uses
    /\ IF InviteUsable /\ ~Exists(u)
       THEN /\ user' = [user EXCEPT ![u] = NewRow("member")]
            /\ joined' = joined \union {u}
            /\ Misses(u, req[r].raced \/ PolicyPending)
            /\ Goto(r, "session")
       ELSE End(r) /\ UNCHANGED <<user, joined, escaped>>
    /\ UNCHANGED <<kinds, sessions, invite, settings, stores, wrong, spent, issued, late, waived>>

CreateUserWithInvite(r) ==
    LET u == req[r].user IN
    /\ At(r, "create")
    /\ \/ /\ InviteUsable /\ ~Exists(u)
          /\ uses' = uses + 1
          /\ user' = [user EXCEPT ![u] = NewRow("member")]
          /\ joined' = joined \union {u}
          /\ Misses(u, req[r].raced \/ PolicyPending)
          /\ Goto(r, "session")
       \/ /\ ~InviteUsable \/ Exists(u)
          /\ End(r) /\ UNCHANGED <<uses, user, joined, escaped>>
    /\ UNCHANGED <<kinds, sessions, invite, settings, stores, wrong, spent, issued, late, waived>>

CreateInvite ==
    /\ "register" \in kinds /\ invite = "none" /\ \E u \in Users : Authenticated(u)
    /\ invite' = "live"
    /\ UNCHANGED <<kinds, user, sessions, uses, settings, stores, req, history>>

RevokeInvite ==
    /\ "register" \in kinds /\ invite = "live"
    /\ invite' = "revoked"
    /\ UNCHANGED <<kinds, user, sessions, uses, settings, stores, req, history>>

-----------------------------------------------------------------------------
(* handleLogin: the row is read once, and judged after the password. *)

LoginFetch(r, u) ==
    /\ Active(u) /\ ~user[u].deleted
    /\ Start(r, "login", IF user[u].totp THEN "challenge" ELSE "login", u, Nobody)
    /\ UNCHANGED data

LoginPolicy(r) ==
    /\ At(r, "login")
    /\ \/ require2FA /\ End(r)
       \/ ~require2FA /\ Goto(r, "session")
    /\ UNCHANGED data

Issue(r, c) ==
    /\ At(r, "challenge") /\ entry[c].state = "unissued"
    /\ entry' = [entry EXCEPT ![c] = [state |-> "live", user |-> req[r].user, failures |-> 0]]
    /\ End(r)
    /\ UNCHANGED <<kinds, user, sessions, invites, settings, pending, history>>

(* cleanupExpiredLocked *)
ExpireChallenge(c) ==
    /\ entry[c].state = "live"
    /\ entry' = [entry EXCEPT ![c] = [@ EXCEPT !.state = "gone"]]
    /\ UNCHANGED <<kinds, user, sessions, invites, settings, pending, req, history>>

-----------------------------------------------------------------------------
(* handleVerifyTOTP *)

Lookup(r, c) ==
    /\ entry[c].state = "live"
    /\ Start(r, "login", "verify", entry[c].user, c)
    /\ UNCHANGED data

VerifyFetch(r) ==
    /\ At(r, "verify")
    /\ \/ user[req[r].user].totp /\ Goto(r, "code")
       \/ ~user[req[r].user].totp /\ End(r)
    /\ UNCHANGED data

(* Mutant: the count starts anew. *)
RegisterFailureForgets(r) ==
    LET c == req[r].other IN
    /\ At(r, "code")
    /\ wrong' = [wrong EXCEPT ![c] = IF c \in spent \/ @ = MaxFailures THEN @ ELSE @ + 1]
    /\ End(r)
    /\ UNCHANGED <<kinds, user, sessions, invites, settings, stores, joined, spent, issued, escaped, late, waived>>

RegisterFailure(r) ==
    LET c == req[r].other  e == entry[c] IN
    /\ At(r, "code")
    /\ \/ e.state # "live" /\ UNCHANGED entry
       \/ /\ e.state = "live"
          /\ entry' = [entry EXCEPT ![c] =
               [state |-> IF e.failures + 1 >= MaxFailures THEN "gone" ELSE "live",
                user |-> e.user, failures |-> e.failures + 1]]
    /\ wrong' = [wrong EXCEPT ![c] = IF c \in spent \/ @ = MaxFailures THEN @ ELSE @ + 1]
    /\ End(r)
    /\ UNCHANGED <<kinds, user, sessions, invites, settings, pending, joined, spent, issued, escaped, late, waived>>

(* Mutant: the challenge of the earlier Lookup is trusted. *)
ConsumeUnchecked(r) ==
    LET c == req[r].other IN
    /\ At(r, "code")
    /\ entry' = [entry EXCEPT ![c] = [@ EXCEPT !.state = "gone"]]
    /\ spent' = spent \union {c}
    /\ Goto(r, "session")
    /\ UNCHANGED <<kinds, user, sessions, invites, settings, pending, joined, wrong, issued, escaped, late, waived>>

Consume(r) ==
    LET c == req[r].other IN
    /\ At(r, "code")
    /\ \/ /\ entry[c].state = "live"
          /\ entry' = [entry EXCEPT ![c] = [@ EXCEPT !.state = "gone"]]
          /\ spent' = spent \union {c}
          /\ Goto(r, "session")
       \/ entry[c].state # "live" /\ End(r) /\ UNCHANGED <<entry, spent>>
    /\ UNCHANGED <<kinds, user, sessions, invites, settings, pending, joined, wrong, issued, escaped, late, waived>>

-----------------------------------------------------------------------------
(* handleEnableTOTP, handleConfirmTOTP, handleDisableTOTP *)

EnableTOTP(u) ==
    /\ "enable" \in kinds /\ Authenticated(u) /\ u \notin pending
    /\ pending' = pending \union {u}
    /\ UNCHANGED <<kinds, user, sessions, invites, settings, entry, req, history>>

ConfirmTOTP(r, u) ==
    /\ Authenticated(u) /\ u \in pending
    /\ Start(r, "enable", "confirm", u, Nobody)
    /\ UNCHANGED data

ConfirmUpdate(r) ==
    LET u == req[r].user IN
    /\ At(r, "confirm")
    /\ user' = [user EXCEPT ![u] = [@ EXCEPT !.totp = TRUE]]
    /\ escaped' = escaped \ {u}
    /\ Goto(r, "confirmed")
    /\ UNCHANGED <<kinds, sessions, invites, settings, stores, joined, wrong, spent, issued,
                   late, waived>>

DisableTOTP(r, u) ==
    /\ Authenticated(u) /\ ~require2FA
    /\ Start(r, "disable", "disable", u, Nobody)
    /\ UNCHANGED data

(* PendingTOTPStore.Delete: the end of a confirmation, the start of disabling. *)
DeletePending(r) ==
    /\ \/ At(r, "confirmed") /\ End(r)
       \/ At(r, "disable") /\ Move(r, "clear", req[r].raced)
    /\ pending' = pending \ {req[r].user}
    /\ UNCHANGED <<kinds, user, sessions, invites, settings, entry, history>>

DisableUpdate(r) ==
    LET u == req[r].user IN
    /\ At(r, "clear")
    /\ user' = [user EXCEPT ![u] = [@ EXCEPT !.totp = FALSE]]
    /\ Misses(u, req[r].raced \/ PolicyPending)
    /\ End(r)
    /\ UNCHANGED <<kinds, sessions, invites, settings, stores, joined, wrong, spent, issued,
                   late, waived>>

-----------------------------------------------------------------------------
(* handlePatchSettings with validateRequire2FAUpdate *)

Target(update, current) == update = "on" \/ (update = "keep" /\ current)

PatchSettings(r, up) ==
    /\ req[r] = Idle /\ "settings" \in kinds /\ \E a \in Users : AdminSession(a)
    /\ req' = [req EXCEPT ![r] = [Idle EXCEPT !.up = up, !.pc =
                 IF Target(up.require, require2FA) THEN "open" ELSE "commit"]]
    /\ UNCHANGED data

CheckOpen(r) ==
    /\ At(r, "open")
    /\ \/ Target(req[r].up.open, registrationOpen) /\ End(r)
       \/ ~Target(req[r].up.open, registrationOpen) /\ Goto(r, "count")
    /\ UNCHANGED data

CountUsersWithoutTOTP(r) ==
    /\ At(r, "count")
    /\ \/ /\ \A u \in Users : Active(u) => user[u].totp
          /\ Goto(r, "commit") /\ escaped' = {}
       \/ /\ \E u \in Users : Active(u) /\ ~user[u].totp
          /\ End(r) /\ UNCHANGED escaped
    /\ UNCHANGED <<kinds, user, sessions, invites, settings, stores, joined, wrong, spent,
                   issued, late, waived>>

(* Requests that have asked for the policy before, or never ask. *)
Overtaken(q) == req[q].pc \in {"setup", "create", "disable", "clear"}

CommitSettings(r) ==
    LET up == req[r].up IN
    /\ At(r, "commit")
    /\ require2FA' = Target(up.require, require2FA)
    /\ registrationOpen' = Target(up.open, registrationOpen)
    /\ req' = [q \in Requests |->
                 IF q = r THEN Idle
                 ELSE IF up.require = "on" /\ Overtaken(q) THEN [req[q] EXCEPT !.raced = TRUE]
                 ELSE req[q]]
    /\ UNCHANGED <<kinds, user, sessions, invites, stores, history>>

-----------------------------------------------------------------------------
(* handlePatchUser, handleDeleteAccount, the ends of sessions *)

PatchUser(r, a, t) ==
    /\ AdminSession(a) /\ Exists(t) /\ a # t
    /\ Start(r, "patch", "patch", t, a)
    /\ UNCHANGED data

(* What the request asks for: a role or none, a ban, its end, or neither. *)
PatchCommit(r, role, ban) ==
    LET t == req[r].user
        old == user[t]
        row == [role |-> IF role = "keep" THEN old.role ELSE role,
                banned |-> ban = "ban" \/ (ban = "keep" /\ old.banned),
                totp |-> old.totp, deleted |-> old.deleted] IN
    /\ At(r, "patch")
    /\ user' = [user EXCEPT ![t] = row]
    /\ waived' = \/ waived
                 \/ t \in ActiveAdmins /\ req[r].other \notin ActiveAdmins
                 \/ row.deleted /\ ban = "unban"
    /\ Misses(t, /\ old.banned /\ ~row.banned /\ ~row.totp
                 /\ require2FA \/ PolicyPending)
    /\ End(r)
    /\ UNCHANGED <<kinds, sessions, invites, settings, stores, joined, wrong, spent, issued,
                   late>>

DeleteAccountStart(r, u) ==
    /\ Authenticated(u)
    /\ Start(r, "delete", "delete", u, Nobody)
    /\ UNCHANGED data

(* Mutant: the other administrators are counted banned or not. *)
LastAdminAmongAll(u) == user[u].role = "admin" /\ {a \in Users : user[a].role = "admin"} = {u}

LastAdmin(u) == user[u].role = "admin" /\ ActiveAdmins \subseteq {u}

Deleted(row) == [role |-> row.role, banned |-> TRUE, totp |-> FALSE, deleted |-> TRUE]

(* Sign-ins past the read of the row, and an enrolment that will write it. *)
SignInSteps == {"login", "code", "session", "confirm"}
SigningIn(u) == \E q \in Requests : req[q].user = u /\ req[q].pc \in SignInSteps

(* Mutant: the sessions are left to expire. *)
DeleteAccountKeepsSessions(r) ==
    LET u == req[r].user IN
    /\ At(r, "delete")
    /\ \/ LastAdmin(u) /\ UNCHANGED <<user, late>>
       \/ /\ ~LastAdmin(u)
          /\ user' = [user EXCEPT ![u] = Deleted(@)]
          /\ late' = IF SigningIn(u) THEN late \union {u} ELSE late
    /\ End(r)
    /\ UNCHANGED <<kinds, sessions, invites, settings, stores, joined, wrong, spent, issued,
                   escaped, waived>>

DeleteAccount(r) ==
    LET u == req[r].user IN
    /\ At(r, "delete")
    /\ \/ LastAdmin(u) /\ UNCHANGED <<user, sessions, late>>
       \/ /\ ~LastAdmin(u)
          /\ user' = [user EXCEPT ![u] = Deleted(@)]
          /\ sessions' = sessions \ {u}
          /\ late' = IF SigningIn(u) THEN late \union {u} ELSE late
    /\ End(r)
    /\ UNCHANGED <<kinds, invites, settings, stores, joined, wrong, spent, issued, escaped,
                   waived>>

(* handleLogout, handleForceLogout, DeleteExpiredSessions *)
EndSessions(u) ==
    /\ "login" \in kinds /\ u \in sessions
    /\ sessions' = sessions \ {u}
    /\ UNCHANGED <<kinds, user, invites, settings, stores, req, history>>

Next ==
    \/ \E r \in Requests :
         \/ CreateSession(r) \/ SetupGate(r)
         \/ RegisterPolicy(r) \/ CreateUserWithInvite(r)
         \/ LoginPolicy(r) \/ VerifyFetch(r) \/ RegisterFailure(r) \/ Consume(r)
         \/ ConfirmUpdate(r) \/ DeletePending(r) \/ DisableUpdate(r)
         \/ CheckOpen(r) \/ CountUsersWithoutTOTP(r) \/ CommitSettings(r)
         \/ DeleteAccount(r)
         \/ \E u \in Users :
              \/ SetupCreate(r, u) \/ RegisterOpen(r, u) \/ LoginFetch(r, u)
              \/ ConfirmTOTP(r, u) \/ DisableTOTP(r, u) \/ DeleteAccountStart(r, u)
              \/ \E a \in Users : PatchUser(r, a, u)
         \/ \E c \in Challenges : Issue(r, c) \/ Lookup(r, c)
         \/ \E up \in Updates : PatchSettings(r, up)
         \/ \E role \in {"keep", "member", "admin"}, ban \in {"keep", "ban", "unban"} :
              PatchCommit(r, role, ban)
    \/ CreateInvite \/ RevokeInvite
    \/ \E c \in Challenges : ExpireChallenge(c)
    \/ \E u \in Users : EnableTOTP(u) \/ EndSessions(u)

Spec == Init /\ [][Next]_vars

-----------------------------------------------------------------------------
Steps == {"idle", "session", "setup", "register", "create", "login", "challenge", "verify",
          "code", "confirm", "confirmed", "disable", "clear", "open", "count", "commit",
          "patch", "delete"}

Entries == [state : {"unissued", "live", "gone"}, user : Users \union {Nobody},
            failures : 0 .. MaxFailures]

Reqs == [pc : Steps, user : Users \union {Nobody},
         other : Users \union Challenges \union {Nobody}, up : Updates, raced : BOOLEAN]

(* Type correctness; in particular a session belongs to a stored user. *)
TypeOK ==
    /\ kinds \subseteq Kinds
    /\ user \in [Users -> Rows]
    /\ sessions \subseteq {u \in Users : Exists(u)} /\ pending \subseteq Users
    /\ invite \in {"none", "live", "revoked"} /\ uses \in 0 .. MaxUses
    /\ require2FA \in BOOLEAN /\ registrationOpen \in BOOLEAN
    /\ entry \in [Challenges -> Entries] /\ req \in [Requests -> Reqs]
    /\ joined \subseteq Users /\ escaped \subseteq Users /\ late \subseteq Users
    /\ wrong \in [Challenges -> 0 .. MaxFailures] /\ spent \subseteq Challenges
    /\ issued \in [Challenges -> Nat] /\ waived \in BOOLEAN

(* A server that has users has an administrator who can act: neither the   *)
(* deletion of accounts nor changes of roles and bans take the last one    *)
(* away.  The exceptions: a change by a request whose own administrator    *)
(* has lost the role or been banned meanwhile, and a deleted administrator *)
(* who was unbanned and is counted by the guard of DeleteAccount.          *)
AdminRemains ==
    (\E u \in Users : Exists(u)) /\ ~waived => \E a \in ActiveAdmins : ~user[a].deleted

(* An invite creates as many users as its use_count says, and never more   *)
(* than max_uses, however many registrations use it at once.               *)
InviteRespected == uses = Cardinality(joined) /\ uses <= MaxUses

(* A two-factor challenge leads to at most one session, however many       *)
(* requests present it with the right code at once.                        *)
OneSessionPerChallenge == \A c \in Challenges : issued[c] <= 1

(* A challenge is not honoured after MaxFailures wrong codes, however the  *)
(* requests that carry them overlap.                                       *)
FewGuesses == \A c \in spent : wrong[c] < MaxFailures

(* While two-factor login is required, every active user has it, except    *)
(* those whose registration, opt-out or unban overlapped the change of the *)
(* setting, or whom an unban brought back under it.                        *)
EveryoneEnrolled ==
    require2FA => \A u \in Users \ escaped : Active(u) => user[u].totp

(* A deleted account has no session, unless it was deleted while one of    *)
(* its own sign-ins was past the read of its row.                          *)
DeletedSignedOut == \A u \in sessions \ late : ~user[u].deleted
=============================================================================
