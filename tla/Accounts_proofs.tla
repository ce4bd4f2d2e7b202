-------------------------- MODULE Accounts_proofs --------------------------
(***************************************************************************)
(* Proofs about Accounts, for any users, requests and challenges, any      *)
(* bounds, and workloads that mix all kinds of request.                    *)
(***************************************************************************)
EXTENDS Accounts, TLAPS

SomeUser == \E u \in Users : Exists(u)

(* What a request's locals refer to, by its position. *)
RequestOK(r) ==
    /\ req[r].pc \in {"register", "create"} => req[r].user \in Users
    /\ req[r].pc \in {"session", "login", "challenge", "verify", "code", "confirm",
                      "confirmed", "disable", "clear", "patch", "delete"} =>
         req[r].user \in Users /\ Exists(req[r].user)
    /\ req[r].pc \in {"register", "create", "login"} => req[r].other = Nobody
    /\ req[r].pc \in {"verify", "code"} =>
         req[r].other \in Challenges /\ entry[req[r].other].state # "unissued"
    /\ req[r].pc = "session" => req[r].other \in Challenges \union {Nobody}
    /\ req[r].pc = "patch" => req[r].other \in Users \ {req[r].user}
    /\ req[r].pc \in {"open", "count", "commit"} => SomeUser

RequestsOK == \A r \in Requests : RequestOK(r)

(* Users come before the invite, the settings and the challenges. *)
UsersFirst ==
    /\ invite # "none" => SomeUser
    /\ require2FA => SomeUser
    /\ \A u \in Users : user[u].deleted => Exists(u)
    /\ \A c \in Challenges : entry[c].state = "live" =>
         /\ entry[c].user \in Users /\ Exists(entry[c].user)
         /\ entry[c].failures < MaxFailures

WellFormed == TypeOK /\ RequestsOK /\ UsersFirst

-----------------------------------------------------------------------------
(* Request r is now at p with these locals, the others where they were. *)
Now(r, p, u, o, up, b) ==
    /\ req' \in [Requests -> Reqs]
    /\ \A q \in Requests \ {r} : req'[q] = req[q]
    /\ req'[r].pc = p /\ req'[r].user = u /\ req'[r].other = o
    /\ req'[r].up = up /\ req'[r].raced = b

Moved(r, p) == Now(r, p, req[r].user, req[r].other, req[r].up, FALSE)
Ended(r) == Now(r, "idle", Nobody, Nobody, NoUpdate, FALSE)

(* The steps of a request that only read, or only forget an enrolment. *)
Looks(r) ==
    \/ SetupGate(r) \/ RegisterPolicy(r) \/ LoginPolicy(r) \/ VerifyFetch(r) \/ CheckOpen(r)
    \/ DeletePending(r)
    \/ End(r) /\ UNCHANGED data
    \/ \E u \in Users :
         \/ RegisterOpen(r, u) \/ LoginFetch(r, u) \/ ConfirmTOTP(r, u) \/ DisableTOTP(r, u)
         \/ DeleteAccountStart(r, u) \/ \E a \in Users : PatchUser(r, a, u)
    \/ \E c \in Challenges : Lookup(r, c)
    \/ \E up \in Updates : PatchSettings(r, up)

Quiet ==
    /\ UNCHANGED <<kinds, user, sessions, invite, uses, require2FA, registrationOpen,
        entry>>
    /\ UNCHANGED history /\ pending' \subseteq pending

(* The policy is not on, or has marked the request already. *)
KeepsMark(r) ==
    Overtaken(r)' => ~require2FA \/ (Overtaken(r) /\ req'[r].raced = req[r].raced)

(* What the invariants need to know of such a step. *)
Looked(r) ==
    /\ Quiet
    /\ req' \in [Requests -> Reqs]
    /\ \A q \in Requests \ {r} : req'[q] = req[q]
    /\ RequestOK(r)'
    /\ req'[r].pc = "session" => req'[r].other = Nobody
    /\ KeepsMark(r)
    /\ req'[r].pc = "commit" => req'[r].up.require # "on"
    /\ req'[r].pc \in SignInSteps =>
         \/ ~user[req'[r].user].deleted
         \/ user[req'[r].user].totp
         \/ req'[r].user \in sessions
         \/ req[r].user = req'[r].user /\ req[r].pc \in SignInSteps

(* The branches of the other steps that write. *)
Created(r) ==
    LET u == req[r].user IN
    /\ u \in Users /\ At(r, "create") /\ InviteUsable /\ ~Exists(u)
    /\ uses' = uses + 1
    /\ user' = [user EXCEPT ![u] = NewRow("member")]
    /\ joined' = joined \union {u}
    /\ Misses(u, req[r].raced \/ PolicyPending)
    /\ Now(r, "session", u, Nobody, req[r].up, FALSE)
    /\ UNCHANGED <<kinds, sessions, invite, require2FA, registrationOpen, entry, pending,
                   wrong, spent, issued, late, waived>>

Consumed(r) ==
    LET c == req[r].other IN
    /\ c \in Challenges /\ At(r, "code") /\ entry[c].state = "live"
    /\ req[r].user \in Users /\ Exists(req[r].user)
    /\ entry' = [entry EXCEPT ![c] = [entry[c] EXCEPT !.state = "gone"]]
    /\ spent' = spent \union {c}
    /\ Moved(r, "session")
    /\ UNCHANGED <<kinds, user, sessions, invite, uses, require2FA, registrationOpen,
        pending,
                   joined, wrong, issued, escaped, late, waived>>

Counted(r) ==
    /\ At(r, "count") /\ SomeUser
    /\ \A u \in Users : Active(u) => user[u].totp
    /\ escaped' = {}
    /\ Moved(r, "commit")
    /\ UNCHANGED <<kinds, user, sessions, invite, uses, require2FA, registrationOpen, entry,
                   pending, joined, wrong, spent, issued, late, waived>>

Removed(r) ==
    LET u == req[r].user IN
    /\ u \in Users /\ Exists(u) /\ At(r, "delete") /\ ~LastAdmin(u)
    /\ user' = [user EXCEPT ![u] = Deleted(user[u])]
    /\ sessions' = sessions \ {u}
    /\ late' = IF SigningIn(u) THEN late \union {u} ELSE late
    /\ Ended(r)
    /\ UNCHANGED <<kinds, invite, uses, require2FA, registrationOpen, entry, pending,
        joined,
                   wrong, spent, issued, escaped, waived>>


(* Every step is one of these. *)
Step ==
    \/ \E r \in Requests :
         \/ Looked(r) \/ Created(r) \/ Consumed(r) \/ Counted(r) \/ Removed(r)
         \/ CreateSession(r) /\ Ended(r)
         \/ RegisterFailure(r) /\ Ended(r)
         \/ DisableUpdate(r) /\ Ended(r)
         \/ ConfirmUpdate(r) /\ Moved(r, "confirmed")
         \/ \E c \in Challenges : Issue(r, c) /\ Ended(r)
         \/ \E role \in {"keep", "member", "admin"}, ban \in {"keep", "ban", "unban"} :
              PatchCommit(r, role, ban) /\ Ended(r)
         \/ \E u \in Users :
              SetupCreate(r, u) /\ Now(r, "session", u, Nobody, NoUpdate, FALSE)
         \/ CommitSettings(r)
    \/ \E c \in Challenges : ExpireChallenge(c)
    \/ \E u \in Users : EnableTOTP(u) \/ EndSessions(u)
    \/ CreateInvite \/ RevokeInvite
    \/ UNCHANGED vars

(* A request that starts stands at its first step with the user it is      *)
(* about.                                                                  *)
LEMMA StartNow ==
    ASSUME TypeOK, NEW r \in Requests, NEW kind, NEW p \in Steps,
           NEW u \in Users \union {Nobody},
               NEW o \in Users \union Challenges \union {Nobody},
           Start(r, kind, p, u, o)
    PROVE  Now(r, p, u, o, NoUpdate, FALSE)
  BY DEF Now, TypeOK, Start, Reqs, Idle, Updates, NoUpdate

(* A request that moves on keeps its user and its update. *)
LEMMA MoveNow ==
    ASSUME TypeOK, NEW r \in Requests, NEW p \in Steps, NEW b \in BOOLEAN, Move(r, p, b)
    PROVE  Now(r, p, req[r].user, req[r].other, req[r].up, b)
  BY DEF Now, TypeOK, Move, Reqs

(* A request that ends leaves nothing behind in its slot. *)
LEMMA EndNow ==
    ASSUME TypeOK, NEW r \in Requests, End(r)
    PROVE  Ended(r)
  BY DEF Ended, Now, TypeOK, End, Reqs, Idle, Steps, Updates, NoUpdate

(* Every step that only reads changes the request's position and no data. *)
LEMMA LookFacts ==
    ASSUME WellFormed, NEW r \in Requests, Looks(r)
    PROVE  Looked(r)
<1> USE DEF WellFormed
<1>0. UNCHANGED data => Quiet
  BY DEF Quiet, data, invites, settings, stores
<1>1. ASSUME End(r), Quiet PROVE Looked(r)
  BY <1>1, EndNow DEF Ended, Now, Looked, KeepsMark, Overtaken, RequestOK, SignInSteps
<1>2. CASE SetupGate(r)
  <2>1. Now(r, "setup", Nobody, Nobody, NoUpdate, FALSE)
    BY <1>2, StartNow DEF SetupGate, Steps
  <2>2. ~require2FA
    BY <1>2 DEF SetupGate, UsersFirst, SomeUser
  <2>3. KeepsMark(r)
    BY <2>2 DEF KeepsMark
  <2> QED
    BY <1>0, <1>2, <2>1, <2>3 DEF SetupGate, Now, Looked, RequestOK, SignInSteps
<1>3. ASSUME NEW u \in Users, RegisterOpen(r, u) PROVE Looked(r)
  <2>1. Now(r, "register", u, Nobody, NoUpdate, FALSE)
    BY <1>3, StartNow DEF RegisterOpen, Steps
  <2> QED
    BY <1>0, <1>3, <2>1 DEF RegisterOpen, Now, Looked, KeepsMark, Overtaken, RequestOK,
        SignInSteps
<1>4. CASE RegisterPolicy(r)
  <2>1. CASE require2FA
    BY <1>0, <1>1, <1>4, <2>1 DEF RegisterPolicy
  <2>2. CASE ~require2FA
    <3>1. Now(r, "create", req[r].user, req[r].other, req[r].up, FALSE)
      BY <1>4, <2>2, MoveNow DEF RegisterPolicy, Goto, Steps
    <3>2. req[r].user \in Users /\ req[r].other = Nobody
      BY <1>4 DEF RegisterPolicy, At, RequestsOK, RequestOK
    <3>3. KeepsMark(r)
      BY <2>2 DEF KeepsMark
    <3> QED
      BY <1>0, <1>4, <3>1, <3>2, <3>3 DEF RegisterPolicy, Now, Looked, RequestOK,
          SignInSteps
  <2> QED
    BY <2>1, <2>2
<1>5. ASSUME NEW u \in Users, LoginFetch(r, u) PROVE Looked(r)
  <2> DEFINE p == IF user[u].totp THEN "challenge" ELSE "login"
  <2>1. Now(r, p, u, Nobody, NoUpdate, FALSE)
    BY <1>5, StartNow DEF LoginFetch, Steps
  <2>2. Exists(u) /\ ~user[u].deleted /\ UNCHANGED data
    BY <1>5 DEF LoginFetch, Active
  <2>3. Exists(u)'
    BY <2>2 DEF Exists, data
  <2> QED
    BY <1>0, <2>1, <2>2, <2>3 DEF Now, Looked, KeepsMark, Overtaken, RequestOK, SignInSteps
<1>6. CASE LoginPolicy(r)
  <2>1. CASE require2FA
    BY <1>0, <1>1, <1>6, <2>1 DEF LoginPolicy
  <2>2. CASE ~require2FA
    <3>1. Now(r, "session", req[r].user, req[r].other, req[r].up, FALSE) /\ UNCHANGED data
      BY <1>6, <2>2, MoveNow DEF LoginPolicy, Goto, Steps
    <3>2. /\ req[r].user \in Users /\ Exists(req[r].user) /\ req[r].other = Nobody
          /\ req[r].pc = "login"
      BY <1>6 DEF LoginPolicy, At, RequestsOK, RequestOK
    <3>3. Exists(req[r].user)'
      BY <3>1, <3>2 DEF Now, Exists, data
    <3> QED
      BY <1>0, <3>1, <3>2, <3>3 DEF Now, Looked, KeepsMark, Overtaken, RequestOK,
          SignInSteps
  <2> QED
    BY <2>1, <2>2
<1>7. ASSUME NEW c \in Challenges, Lookup(r, c) PROVE Looked(r)
  <2>1. entry[c].user \in Users /\ Exists(entry[c].user) /\ entry[c].state = "live"
    BY <1>7 DEF Lookup, UsersFirst
  <2>2. Now(r, "verify", entry[c].user, c, NoUpdate, FALSE) /\ UNCHANGED data
    BY <1>7, <2>1, StartNow DEF Lookup, Steps
  <2>3. /\ UNCHANGED <<user, entry>> /\ req'[r].pc = "verify"
        /\ req'[r].user = entry[c].user /\ req'[r].other = c
    BY <2>2 DEF Now, data, stores
  <2>4. RequestOK(r)'
    BY <2>1, <2>3 DEF RequestOK, Exists
  <2> QED
    BY <1>0, <2>2, <2>3, <2>4 DEF Now, Looked, KeepsMark, Overtaken, SignInSteps
<1>8. CASE VerifyFetch(r)
  <2>1. CASE ~user[req[r].user].totp
    BY <1>0, <1>1, <1>8, <2>1 DEF VerifyFetch
  <2>2. CASE user[req[r].user].totp
    <3>1. Now(r, "code", req[r].user, req[r].other, req[r].up, FALSE) /\ UNCHANGED data
      BY <1>8, <2>2, MoveNow DEF VerifyFetch, Goto, Steps
    <3>2. /\ req[r].user \in Users /\ Exists(req[r].user)
          /\ req[r].other \in Challenges /\ entry[req[r].other].state # "unissued"
      BY <1>8 DEF VerifyFetch, At, RequestsOK, RequestOK
    <3>3. /\ UNCHANGED <<user, entry>> /\ req'[r].user = req[r].user
          /\ req'[r].other = req[r].other /\ req'[r].pc = "code"
      BY <3>1 DEF Now, data, stores
    <3>4. RequestOK(r)'
      BY <3>2, <3>3 DEF RequestOK, Exists
    <3> QED
      BY <1>0, <2>2, <3>1, <3>4 DEF Now, Looked, KeepsMark, Overtaken
  <2> QED
    BY <2>1, <2>2
<1>9. ASSUME NEW u \in Users, NEW k, NEW p \in {"confirm", "disable", "delete"},
             Authenticated(u), Start(r, k, p, u, Nobody), p = "disable" => ~require2FA,
             UNCHANGED data
      PROVE  Looked(r)
  <2>1. Now(r, p, u, Nobody, NoUpdate, FALSE)
    BY <1>9, StartNow DEF Steps
  <2>2. u \in sessions /\ Exists(u) /\ Exists(u)'
    BY <1>9 DEF Authenticated, Active, Exists, data
  <2>3. KeepsMark(r)
    <3>1. CASE p = "disable"
      BY <1>9, <3>1 DEF KeepsMark
    <3>2. CASE p # "disable"
      BY <2>1, <3>2 DEF Now, KeepsMark, Overtaken
    <3> QED
      BY <3>1, <3>2
  <2>4. RequestOK(r)'
    BY <1>9, <2>1, <2>2 DEF Now, RequestOK
  <2> QED
    BY <1>0, <1>9, <2>1, <2>2, <2>3, <2>4 DEF Now, Looked, SignInSteps
<1>10. ASSUME NEW a \in Users, NEW u \in Users, PatchUser(r, a, u) PROVE Looked(r)
  <2>1. Now(r, "patch", u, a, NoUpdate, FALSE)
    BY <1>10, StartNow DEF PatchUser, Steps
  <2>2. a # u /\ Exists(u) /\ Exists(u)'
    BY <1>10 DEF PatchUser, Exists, data
  <2> QED
    BY <1>0, <1>10, <2>1, <2>2 DEF PatchUser, Now, Looked, KeepsMark, Overtaken, RequestOK,
        SignInSteps
<1>11. ASSUME NEW up \in Updates, PatchSettings(r, up) PROVE Looked(r)
  <2> DEFINE p == IF Target(up.require, require2FA) THEN "open" ELSE "commit"
  <2>1. Now(r, p, Nobody, Nobody, up, FALSE)
    BY <1>11 DEF PatchSettings, Idle, Now, TypeOK, Reqs, Steps, Updates
  <2>2. SomeUser /\ UNCHANGED data
    BY <1>11 DEF PatchSettings, AdminSession, SomeUser, Exists
  <2>3. SomeUser'
    BY <2>2 DEF SomeUser, Exists, data
  <2>4. p = "commit" => up.require # "on"
    BY DEF Target
  <2> QED
    BY <1>0, <2>1, <2>2, <2>3, <2>4 DEF Now, Looked, KeepsMark, Overtaken, RequestOK,
        SignInSteps
<1>12. CASE CheckOpen(r)
  <2>1. CASE Target(req[r].up.open, registrationOpen)
    BY <1>0, <1>1, <1>12, <2>1 DEF CheckOpen
  <2>2. CASE ~Target(req[r].up.open, registrationOpen)
    <3>1. Now(r, "count", req[r].user, req[r].other, req[r].up, FALSE) /\ UNCHANGED data
      BY <1>12, <2>2, MoveNow DEF CheckOpen, Goto, Steps
    <3>2. SomeUser
      BY <1>12 DEF CheckOpen, At, RequestsOK, RequestOK
    <3>3. SomeUser'
      BY <3>1, <3>2 DEF SomeUser, Exists, data
    <3> QED
      BY <1>0, <3>1, <3>3 DEF Now, Looked, KeepsMark, Overtaken, RequestOK, SignInSteps
  <2> QED
    BY <2>1, <2>2
<1>13. CASE DeletePending(r)
  <2>1. Quiet
    BY <1>13 DEF DeletePending, Quiet, invites, settings
  <2>2. CASE End(r)
    BY <1>1, <2>1, <2>2
  <2>3. CASE At(r, "disable") /\ Move(r, "clear", req[r].raced)
    <3>1. Now(r, "clear", req[r].user, req[r].other, req[r].up, req[r].raced)
      BY <2>3, MoveNow DEF TypeOK, Reqs, Steps
    <3>2. req[r].user \in Users /\ Exists(req[r].user) /\ req[r].pc = "disable"
      BY <2>3 DEF At, RequestsOK, RequestOK
    <3>3. Exists(req[r].user)'
      BY <2>1, <3>1, <3>2 DEF Quiet, Now, Exists
    <3> QED
      BY <2>1, <3>1, <3>2, <3>3 DEF Now, Looked, KeepsMark, Overtaken, RequestOK,
          SignInSteps
  <2> QED
    BY <1>13, <2>2, <2>3 DEF DeletePending
<1> QED
  BY <1>0, <1>1, <1>2, <1>3, <1>4, <1>5, <1>6, <1>7, <1>8, <1>9, <1>10, <1>11, <1>12, <1>13
  DEF Looks, ConfirmTOTP, DisableTOTP, DeleteAccountStart

-----------------------------------------------------------------------------
(* A registration either ends or stores the user and counts the invite. *)
LEMMA CreateFacts ==
    ASSUME WellFormed, NEW r \in Requests, CreateUserWithInvite(r)
    PROVE  Looked(r) \/ Created(r)
<1>1. CASE InviteUsable /\ ~Exists(req[r].user)
  <2>1. Now(r, "session", req[r].user, req[r].other, req[r].up, FALSE)
    BY <1>1, MoveNow DEF CreateUserWithInvite, Goto, Steps, WellFormed
  <2>2. req[r].user \in Users /\ req[r].other = Nobody
    BY DEF CreateUserWithInvite, At, WellFormed, RequestsOK, RequestOK
  <2> QED
    BY <1>1, <2>1, <2>2 DEF CreateUserWithInvite, Created, settings, stores
<1>2. CASE ~(InviteUsable /\ ~Exists(req[r].user))
  <2>1. End(r) /\ UNCHANGED data
    BY <1>2 DEF CreateUserWithInvite, data, invites, settings, stores, history
  <2> QED
    BY <2>1, LookFacts DEF Looks
<1> QED
  BY <1>1, <1>2

(* A presented challenge either is refused or is spent and earns a         *)
(* session.                                                                *)
LEMMA ConsumeFacts ==
    ASSUME WellFormed, NEW r \in Requests, Consume(r)
    PROVE  Looked(r) \/ Consumed(r)
<1>1. CASE entry[req[r].other].state = "live"
  <2>1. Moved(r, "session")
    BY <1>1, MoveNow DEF Consume, Goto, Moved, Steps, WellFormed
  <2>2. /\ req[r].user \in Users /\ Exists(req[r].user)
        /\ req[r].other \in Challenges
    BY DEF Consume, At, WellFormed, RequestsOK, RequestOK
  <2> QED
    BY <1>1, <2>1, <2>2 DEF Consume, Consumed, invites, settings
<1>2. CASE entry[req[r].other].state # "live"
  <2>1. End(r) /\ UNCHANGED data
    BY <1>2 DEF Consume, data, invites, settings, stores, history
  <2> QED
    BY <2>1, LookFacts DEF Looks
<1> QED
  BY <1>1, <1>2

(* The count of users without two-factor login stops or lets the change    *)
(* pass.                                                                   *)
LEMMA CountFacts ==
    ASSUME WellFormed, NEW r \in Requests, CountUsersWithoutTOTP(r)
    PROVE  Looked(r) \/ Counted(r)
<1>1. CASE \A u \in Users : Active(u) => user[u].totp
  <2>1. Moved(r, "commit")
    BY <1>1, MoveNow DEF CountUsersWithoutTOTP, Goto, Moved, Steps, WellFormed
  <2>2. SomeUser
    BY DEF CountUsersWithoutTOTP, At, WellFormed, RequestsOK, RequestOK
  <2> QED
    BY <1>1, <2>1, <2>2 DEF CountUsersWithoutTOTP, Counted, invites, settings, stores
<1>2. CASE ~(\A u \in Users : Active(u) => user[u].totp)
  <2>1. End(r) /\ UNCHANGED data
    BY <1>2 DEF CountUsersWithoutTOTP, data, invites, settings, stores, history
  <2> QED
    BY <2>1, LookFacts DEF Looks
<1> QED
  BY <1>1, <1>2

(* A deletion is refused by the guard or removes the user's data at once. *)
LEMMA RemoveFacts ==
    ASSUME WellFormed, NEW r \in Requests, DeleteAccount(r)
    PROVE  Looked(r) \/ Removed(r)
<1>1. CASE ~LastAdmin(req[r].user)
  <2>1. Ended(r)
    BY EndNow DEF DeleteAccount, WellFormed
  <2>2. req[r].user \in Users /\ Exists(req[r].user)
    BY DEF DeleteAccount, At, WellFormed, RequestsOK, RequestOK
  <2> QED
    BY <1>1, <2>1, <2>2 DEF DeleteAccount, Removed, invites, settings, stores
<1>2. CASE LastAdmin(req[r].user)
  <2>1. End(r) /\ UNCHANGED data
    BY <1>2 DEF DeleteAccount, data, invites, settings, stores, history
  <2> QED
    BY <2>1, LookFacts DEF Looks
<1> QED
  BY <1>1, <1>2

(* The cases are all there are. *)
LEMMA StepCases ==
    ASSUME WellFormed, [Next]_vars
    PROVE  Step
<1>1. ASSUME NEW r \in Requests, End(r) PROVE Ended(r)
  BY <1>1, EndNow DEF WellFormed
<1>2. ASSUME NEW r \in Requests,
             CreateSession(r) \/ RegisterFailure(r) \/ DisableUpdate(r)
      PROVE  Ended(r)
  BY <1>1, <1>2 DEF CreateSession, RegisterFailure, DisableUpdate
<1>3. ASSUME NEW r \in Requests, ConfirmUpdate(r) PROVE Moved(r, "confirmed")
  BY <1>3, MoveNow DEF ConfirmUpdate, Goto, Moved, Steps, WellFormed
<1>4. ASSUME NEW r \in Requests, NEW c \in Challenges, Issue(r, c) PROVE Ended(r)
  BY <1>1, <1>4 DEF Issue
<1>5. ASSUME NEW r \in Requests, NEW role \in {"keep", "member", "admin"},
             NEW ban \in {"keep", "ban", "unban"}, PatchCommit(r, role, ban)
      PROVE  Ended(r)
  BY <1>1, <1>5 DEF PatchCommit
<1>6. ASSUME NEW r \in Requests, NEW u \in Users, SetupCreate(r, u)
      PROVE  Now(r, "session", u, Nobody, NoUpdate, FALSE)
  BY <1>6 DEF SetupCreate, Now, WellFormed, TypeOK, Reqs, Idle, Steps, Updates, NoUpdate
<1> QED
  BY <1>2, <1>3, <1>4, <1>5, <1>6, LookFacts, CreateFacts, ConsumeFacts, CountFacts,
      RemoveFacts
  DEF Next, Looks, Step

(* A step keeps the types. *)
LEMMA TypeOKStep ==
    ASSUME WellFormed, [Next]_vars
    PROVE  TypeOK'
<1>1. ASSUME NEW r \in Requests, Looked(r) PROVE TypeOK'
  BY <1>1 DEF Looked, Quiet, history, WellFormed, TypeOK, Exists
<1>2. ASSUME NEW r \in Requests, Created(r) PROVE TypeOK'
  <2>1. user' \in [Users -> Rows] /\ \A v \in Users : Exists(v) => Exists(v)'
    BY <1>2 DEF Created, WellFormed, TypeOK, Exists, Rows, NewRow, NoRow
  <2>2. uses' \in 0 .. MaxUses
    BY SMTT(30), ZenonT(30), <1>2, AccountsAssumption DEF Created, InviteUsable, WellFormed, TypeOK, Exists
  <2>3. joined' \subseteq Users /\ escaped' \subseteq Users
    BY <1>2 DEF Created, Misses, WellFormed, TypeOK, Exists
  <2> QED
    BY <1>2, <2>1, <2>2, <2>3 DEF Created, Now, WellFormed, TypeOK, Exists
<1>3. ASSUME NEW r \in Requests, Consumed(r) PROVE TypeOK'
  <2> DEFINE c == req[r].other
  <2>1. c \in Challenges /\ entry[c] \in Entries
    BY <1>3 DEF Consumed, WellFormed, TypeOK
  <2>2. [entry[c] EXCEPT !.state = "gone"] \in Entries
    BY <2>1 DEF Entries
  <2>3. entry' \in [Challenges -> Entries]
    BY <1>3, <2>1, <2>2 DEF Consumed, WellFormed, TypeOK
  <2> QED
    BY <1>3, <2>3 DEF Consumed, Moved, Now, WellFormed, TypeOK, Exists
<1>4. ASSUME NEW r \in Requests, Counted(r) PROVE TypeOK'
  BY <1>4, AccountsAssumption DEF Counted, Moved, Now, At, WellFormed, TypeOK, Exists
<1>5. ASSUME NEW r \in Requests, Removed(r) PROVE TypeOK'
  <2> DEFINE u == req[r].user
  <2>1. u \in Users /\ user[u] \in Rows
    BY <1>5 DEF Removed, WellFormed, TypeOK
  <2>2. Deleted(user[u]) \in Rows /\ Deleted(user[u]).role = user[u].role
    BY <2>1 DEF Deleted, Rows
  <2>3. user' \in [Users -> Rows] /\ \A v \in Users : Exists(v) => Exists(v)'
    BY <1>5, <2>1, <2>2 DEF Removed, WellFormed, TypeOK, Exists
  <2>4. sessions' \subseteq sessions /\ late' \subseteq Users
    BY <1>5 DEF Removed, WellFormed, TypeOK
  <2> QED
    BY <1>5, <2>3, <2>4 DEF Removed, Ended, Now, WellFormed, TypeOK, Exists
<1>6. ASSUME NEW r \in Requests, CreateSession(r), Ended(r) PROVE TypeOK'
  <2>1. req[r].user \in Users /\ Exists(req[r].user)
    BY <1>6 DEF CreateSession, At, WellFormed, RequestsOK, RequestOK
  <2> QED
    BY <1>6, <2>1 DEF CreateSession, Ended, Now, WellFormed, TypeOK, Exists, invites,
        settings, stores
<1>7. ASSUME NEW r \in Requests, RegisterFailure(r), Ended(r) PROVE TypeOK'
  <2> DEFINE c == req[r].other
             e == entry[c]
             f == [state |-> IF e.failures + 1 >= MaxFailures THEN "gone" ELSE "live",
                   user |-> e.user, failures |-> e.failures + 1]
             w == IF c \in spent \/ wrong[c] = MaxFailures THEN wrong[c] ELSE wrong[c] + 1
  <2>1. c \in Challenges /\ e \in Entries /\ wrong[c] \in 0 .. MaxFailures
    BY <1>7 DEF RegisterFailure, At, WellFormed, TypeOK, RequestsOK, RequestOK
  <2>2. wrong' = [wrong EXCEPT ![c] = w]
    BY <1>7 DEF RegisterFailure
  <2>3. w \in 0 .. MaxFailures
    <3>1. \A n \in 0 .. MaxFailures : n # MaxFailures => n + 1 \in 0 .. MaxFailures
      BY AccountsAssumption
    <3> QED
      BY <2>1, <3>1
  <2>4. wrong' \in [Challenges -> 0 .. MaxFailures]
    BY <2>1, <2>2, <2>3 DEF WellFormed, TypeOK
  <2>5. entry' \in [Challenges -> Entries]
    <3>1. CASE e.state # "live"
      BY <1>7, <3>1 DEF RegisterFailure, WellFormed, TypeOK
    <3>2. CASE e.state = "live"
      <4>1. entry' = [entry EXCEPT ![c] = f]
        BY <1>7, <3>2 DEF RegisterFailure
      <4>2. e.failures < MaxFailures
        BY <2>1, <3>2 DEF WellFormed, UsersFirst
      <4>3. f \in Entries
        BY <2>1, <4>2, AccountsAssumption DEF Entries
      <4> QED
        BY <2>1, <4>1, <4>3 DEF WellFormed, TypeOK
    <3> QED
      BY <3>1, <3>2
  <2> QED
    BY <1>7, <2>4, <2>5 DEF RegisterFailure, Ended, Now, WellFormed, TypeOK, Exists,
        invites, settings
<1>8. ASSUME NEW r \in Requests, DisableUpdate(r), Ended(r) PROVE TypeOK'
  <2> DEFINE u == req[r].user
             row == [user[u] EXCEPT !.totp = FALSE]
  <2>1. u \in Users /\ user[u] \in Rows
    BY <1>8 DEF DisableUpdate, At, WellFormed, TypeOK, RequestsOK, RequestOK
  <2>2. row \in Rows /\ row.role = user[u].role
    BY <2>1 DEF Rows
  <2>3. user' = [user EXCEPT ![u] = row]
    BY <1>8 DEF DisableUpdate
  <2>4. user' \in [Users -> Rows] /\ \A v \in Users : Exists(v) => Exists(v)'
    BY <2>1, <2>2, <2>3 DEF WellFormed, TypeOK, Exists
  <2>5. escaped' \subseteq Users
    BY <1>8, <2>1 DEF DisableUpdate, Misses, WellFormed, TypeOK
  <2> QED
    BY <1>8, <2>4, <2>5 DEF DisableUpdate, Ended, Moved, Now, WellFormed, TypeOK, invites,
        settings, stores
<1>9. ASSUME NEW r \in Requests, ConfirmUpdate(r), Moved(r, "confirmed") PROVE TypeOK'
  <2> DEFINE u == req[r].user
             row == [user[u] EXCEPT !.totp = TRUE]
  <2>1. u \in Users /\ user[u] \in Rows
    BY <1>9 DEF ConfirmUpdate, At, WellFormed, TypeOK, RequestsOK, RequestOK
  <2>2. row \in Rows /\ row.role = user[u].role
    BY <2>1 DEF Rows
  <2>3. user' = [user EXCEPT ![u] = row]
    BY <1>9 DEF ConfirmUpdate
  <2>4. user' \in [Users -> Rows] /\ \A v \in Users : Exists(v) => Exists(v)'
    BY <2>1, <2>2, <2>3 DEF WellFormed, TypeOK, Exists
  <2>5. escaped' \subseteq Users
    BY <1>9, <2>1 DEF ConfirmUpdate, Misses, WellFormed, TypeOK
  <2> QED
    BY <1>9, <2>4, <2>5 DEF ConfirmUpdate, Ended, Moved, Now, WellFormed, TypeOK, invites,
        settings, stores
<1>10. ASSUME NEW r \in Requests, NEW c \in Challenges, Issue(r, c), Ended(r) PROVE TypeOK'
  <2>1. entry' \in [Challenges -> Entries]
    BY <1>10, AccountsAssumption DEF Issue, At, Entries, WellFormed, TypeOK, RequestsOK,
        RequestOK
  <2> QED
    BY <1>10, <2>1 DEF Issue, Ended, Now, WellFormed, TypeOK, Exists, history, invites,
        settings
<1>11. ASSUME NEW r \in Requests, NEW role \in {"keep", "member", "admin"},
                  NEW ban \in {"keep", "ban", "unban"}, PatchCommit(r, role, ban),
                      Ended(r) PROVE TypeOK'
  <2> DEFINE t == req[r].user
             old == user[t]
             row == [role |-> IF role = "keep" THEN old.role ELSE role,
                     banned |-> ban = "ban" \/ (ban = "keep" /\ old.banned),
                     totp |-> old.totp, deleted |-> old.deleted]
  <2>1. t \in Users /\ old \in Rows /\ Exists(t)
    BY <1>11 DEF PatchCommit, At, WellFormed, TypeOK, RequestsOK, RequestOK
  <2>2. user' = [user EXCEPT ![t] = row]
    BY <1>11 DEF PatchCommit
  <2>3. row \in Rows /\ row.role # "none"
    BY <2>1 DEF Rows, Exists
  <2>4. user' \in [Users -> Rows] /\ \A v \in Users : Exists(v) => Exists(v)'
    BY <2>1, <2>2, <2>3 DEF WellFormed, TypeOK, Exists
  <2>5. escaped' \subseteq Users /\ waived' \in BOOLEAN
    BY <1>11, <2>1 DEF PatchCommit, Misses, WellFormed, TypeOK
  <2> QED
    BY <1>11, <2>4, <2>5 DEF PatchCommit, Ended, Now, WellFormed, TypeOK, Exists, invites,
        settings, stores
<1>12. ASSUME NEW r \in Requests, NEW u \in Users, SetupCreate(r, u),
                  Now(r, "session", u, Nobody, NoUpdate, FALSE) PROVE TypeOK'
  <2>1. user' \in [Users -> Rows] /\ \A v \in Users : Exists(v) => Exists(v)'
    BY <1>12 DEF SetupCreate, WellFormed, TypeOK, Exists, Rows, NewRow, NoRow
  <2> QED
    BY <1>12, <2>1 DEF SetupCreate, Now, Misses, WellFormed, TypeOK, Exists, invites,
        settings, stores
<1>13. ASSUME NEW r \in Requests, CommitSettings(r) PROVE TypeOK'
  <2>1. ASSUME NEW q \in Requests
        PROVE  req[q] \in Reqs /\ [req[q] EXCEPT !.raced = TRUE] \in Reqs
    <3>1. req[q] \in Reqs
      BY DEF WellFormed, TypeOK
    <3> QED
      BY <3>1 DEF Reqs
  <2>2. Idle \in Reqs
    BY DEF Idle, Reqs, Steps, Updates, NoUpdate
  <2>3. req' \in [Requests -> Reqs]
    BY <1>13, <2>1, <2>2 DEF CommitSettings
  <2>4. require2FA' \in BOOLEAN /\ registrationOpen' \in BOOLEAN
    BY <1>13 DEF CommitSettings, Target
  <2> QED
    BY <1>13, <2>3, <2>4 DEF CommitSettings, WellFormed, TypeOK, Exists, history, invites,
        stores
<1>14. ASSUME NEW c \in Challenges, ExpireChallenge(c) PROVE TypeOK'
  <2>1. entry[c] \in Entries
    BY DEF WellFormed, TypeOK
  <2>2. [entry[c] EXCEPT !.state = "gone"] \in Entries
    BY <2>1 DEF Entries
  <2> QED
    BY <1>14, <2>2 DEF ExpireChallenge, WellFormed, TypeOK, Exists, history, invites,
        settings
<1>15. ASSUME NEW u \in Users, EnableTOTP(u) PROVE TypeOK'
  BY <1>15, AccountsAssumption DEF EnableTOTP, history, invites, settings, WellFormed,
      TypeOK, Exists, Authenticated
<1>16. ASSUME NEW u \in Users, EndSessions(u) PROVE TypeOK'
  BY <1>16, AccountsAssumption DEF EndSessions, history, invites, settings, stores,
      WellFormed, TypeOK, Exists
<1>17. CASE CreateInvite
  BY <1>17, AccountsAssumption DEF CreateInvite, history, settings, stores, WellFormed,
      TypeOK, Exists
<1>18. CASE RevokeInvite
  BY <1>18, AccountsAssumption DEF RevokeInvite, history, settings, stores, WellFormed,
      TypeOK, Exists
<1>19. CASE UNCHANGED vars
  BY <1>19 DEF vars, data, history, invites, settings, stores, At, WellFormed, TypeOK,
      Exists
<1> QED
  BY <1>1, <1>2, <1>3, <1>4, <1>5, <1>6, <1>7, <1>8, <1>9, <1>10, <1>11, <1>12, <1>13,
      <1>14, <1>15, <1>16, <1>17, <1>18, <1>19, StepCases DEF Step

(* A step keeps what the requests refer to. *)
LEMMA RequestsOKStep ==
    ASSUME WellFormed, [Next]_vars
    PROVE  RequestsOK'
<1>1. ASSUME NEW r \in Requests, Looked(r) PROVE RequestsOK'
  BY <1>1 DEF Looked, Quiet, history, WellFormed, TypeOK, RequestsOK, RequestOK, Exists,
      SomeUser
<1>2. ASSUME NEW r \in Requests, Created(r) PROVE RequestsOK'
  BY <1>2, AccountsAssumption DEF Created, Now, At, WellFormed, TypeOK, RequestsOK,
      RequestOK, Exists, SomeUser, Rows, NewRow, NoRow
<1>3. ASSUME NEW r \in Requests, Consumed(r) PROVE RequestsOK'
  BY <1>3, AccountsAssumption DEF Consumed, Moved, Now, At, WellFormed, TypeOK, RequestsOK,
      RequestOK, Exists, SomeUser, Entries
<1>4. ASSUME NEW r \in Requests, Counted(r) PROVE RequestsOK'
  <2>1. UNCHANGED <<user, entry>> /\ SomeUser
    BY <1>4 DEF Counted
  <2>2. RequestOK(r)'
    BY <1>4, <2>1, AccountsAssumption
       DEF Counted, Moved, Now, At, WellFormed, RequestsOK, RequestOK, Exists, SomeUser
  <2> QED
    BY <1>4, <2>1, <2>2
       DEF Counted, Moved, Now, WellFormed, RequestsOK, RequestOK, Exists, SomeUser
<1>5. ASSUME NEW r \in Requests, Removed(r) PROVE RequestsOK'
  <2>1. UNCHANGED entry /\ \A v \in Users : Exists(v) => Exists(v)'
    BY <1>5 DEF Removed, Deleted, Exists, WellFormed, TypeOK
  <2>2. SomeUser => SomeUser'
    BY <2>1 DEF SomeUser
  <2> QED
    BY <1>5, <2>1, <2>2 DEF Removed, Ended, Now, WellFormed, RequestsOK, RequestOK
<1>6. ASSUME NEW r \in Requests, CreateSession(r), Ended(r) PROVE RequestsOK'
  <2>1. UNCHANGED <<user, entry>>
    BY <1>6 DEF CreateSession, stores
  <2> QED
    BY <1>6, <2>1 DEF Ended, Now, WellFormed, RequestsOK, RequestOK, Exists, SomeUser
<1>7. ASSUME NEW r \in Requests, RegisterFailure(r), Ended(r) PROVE RequestsOK'
  <2>1. /\ UNCHANGED user
        /\ \A d \in Challenges : entry[d].state # "unissued" => entry'[d].state # "unissued"
    BY <1>7 DEF RegisterFailure, WellFormed, TypeOK
  <2> QED
    BY <1>7, <2>1 DEF Ended, Now, WellFormed, RequestsOK, RequestOK, Exists, SomeUser
<1>8. ASSUME NEW r \in Requests, DisableUpdate(r), Ended(r) PROVE RequestsOK'
  BY <1>8, AccountsAssumption DEF DisableUpdate, Ended, Now, At, invites, settings, stores,
      WellFormed, TypeOK, RequestsOK, RequestOK, Exists, SomeUser, Rows, NewRow, NoRow
<1>9. ASSUME NEW r \in Requests, ConfirmUpdate(r), Moved(r, "confirmed") PROVE RequestsOK'
  BY <1>9, AccountsAssumption DEF ConfirmUpdate, Moved, Now, At, invites, settings, stores,
      WellFormed, TypeOK, RequestsOK, RequestOK, Exists, SomeUser, Rows, NewRow, NoRow
<1>10. ASSUME NEW r \in Requests, NEW c \in Challenges, Issue(r, c),
    Ended(r) PROVE RequestsOK'
  <2>1. /\ UNCHANGED user
        /\ \A d \in Challenges : entry[d].state # "unissued" => entry'[d].state # "unissued"
    BY <1>10 DEF Issue, WellFormed, TypeOK
  <2> QED
    BY <1>10, <2>1 DEF Ended, Now, WellFormed, RequestsOK, RequestOK, Exists, SomeUser
<1>11. ASSUME NEW r \in Requests, NEW role \in {"keep", "member", "admin"},
                  NEW ban \in {"keep", "ban", "unban"}, PatchCommit(r, role, ban),
                      Ended(r) PROVE RequestsOK'
  <2> DEFINE t == req[r].user
             old == user[t]
             row == [role |-> IF role = "keep" THEN old.role ELSE role,
                     banned |-> ban = "ban" \/ (ban = "keep" /\ old.banned),
                     totp |-> old.totp, deleted |-> old.deleted]
  <2>1. t \in Users /\ old \in Rows /\ Exists(t)
    BY <1>11 DEF PatchCommit, At, WellFormed, TypeOK, RequestsOK, RequestOK
  <2>2. user' = [user EXCEPT ![t] = row]
    BY <1>11 DEF PatchCommit
  <2>3. row.role # "none"
    BY <2>1 DEF Exists
  <2>4. UNCHANGED entry /\ \A v \in Users : Exists(v) => Exists(v)'
    BY <1>11, <2>1, <2>2, <2>3 DEF PatchCommit, stores, Exists, WellFormed, TypeOK
  <2>5. SomeUser => SomeUser'
    BY <2>4 DEF SomeUser
  <2> QED
    BY <1>11, <2>4, <2>5 DEF Ended, Now, WellFormed, RequestsOK, RequestOK
<1>12. ASSUME NEW r \in Requests, NEW u \in Users, SetupCreate(r, u),
                  Now(r, "session", u, Nobody, NoUpdate, FALSE) PROVE RequestsOK'
  BY <1>12, AccountsAssumption DEF SetupCreate, Now, At, invites, settings, stores,
      WellFormed, TypeOK, RequestsOK, RequestOK, Exists, SomeUser, Rows, NewRow, NoRow
<1>13. ASSUME NEW r \in Requests, CommitSettings(r) PROVE RequestsOK'
  BY <1>13, AccountsAssumption DEF CommitSettings, At, Idle, history, invites, stores,
      WellFormed, TypeOK, RequestsOK, RequestOK, Exists, SomeUser
<1>14. ASSUME NEW c \in Challenges, ExpireChallenge(c) PROVE RequestsOK'
  BY <1>14, AccountsAssumption DEF ExpireChallenge, history, invites, settings, WellFormed,
      TypeOK, RequestsOK, RequestOK, Exists, SomeUser, Entries
<1>15. ASSUME NEW u \in Users, EnableTOTP(u) PROVE RequestsOK'
  BY <1>15, AccountsAssumption DEF EnableTOTP, history, invites, settings, WellFormed,
      TypeOK, RequestsOK, RequestOK, Exists, SomeUser
<1>16. ASSUME NEW u \in Users, EndSessions(u) PROVE RequestsOK'
  BY <1>16, AccountsAssumption DEF EndSessions, history, invites, settings, stores,
      WellFormed, TypeOK, RequestsOK, RequestOK, Exists, SomeUser
<1>17. CASE CreateInvite
  BY <1>17, AccountsAssumption DEF CreateInvite, history, settings, stores, WellFormed,
      TypeOK, RequestsOK, RequestOK, Exists, SomeUser
<1>18. CASE RevokeInvite
  BY <1>18, AccountsAssumption DEF RevokeInvite, history, settings, stores, WellFormed,
      TypeOK, RequestsOK, RequestOK, Exists, SomeUser
<1>19. CASE UNCHANGED vars
  BY <1>19 DEF vars, data, history, invites, settings, stores, At, WellFormed, TypeOK,
      RequestsOK, RequestOK, Exists, SomeUser
<1> QED
  BY <1>1, <1>2, <1>3, <1>4, <1>5, <1>6, <1>7, <1>8, <1>9, <1>10, <1>11, <1>12, <1>13,
      <1>14, <1>15, <1>16, <1>17, <1>18, <1>19, StepCases DEF Step

(* A step keeps users ahead of what they own. *)
LEMMA UsersFirstStep ==
    ASSUME WellFormed, [Next]_vars
    PROVE  UsersFirst'
<1>1. ASSUME NEW r \in Requests, Looked(r) PROVE UsersFirst'
  BY <1>1 DEF Looked, Quiet, history, WellFormed, TypeOK, UsersFirst, Exists, SomeUser
<1>2. ASSUME NEW r \in Requests, Created(r) PROVE UsersFirst'
  BY <1>2, AccountsAssumption DEF Created, Now, At, WellFormed, TypeOK, UsersFirst, Exists,
      SomeUser, Rows, NewRow, NoRow, InviteUsable
<1>3. ASSUME NEW r \in Requests, Consumed(r) PROVE UsersFirst'
  BY <1>3, AccountsAssumption DEF Consumed, Moved, Now, At, WellFormed, TypeOK, UsersFirst,
      Exists, SomeUser, Entries
<1>4. ASSUME NEW r \in Requests, Counted(r) PROVE UsersFirst'
  BY <1>4 DEF Counted, WellFormed, TypeOK, UsersFirst, Exists, SomeUser
<1>5. ASSUME NEW r \in Requests, Removed(r) PROVE UsersFirst'
  BY <1>5, AccountsAssumption DEF Removed, Ended, Now, At, Deleted, WellFormed, TypeOK,
      UsersFirst, Exists, SomeUser, Rows, NewRow, NoRow, RequestsOK, RequestOK
<1>6. ASSUME NEW r \in Requests, CreateSession(r), Ended(r) PROVE UsersFirst'
  BY <1>6 DEF CreateSession, invites, settings, stores, WellFormed, TypeOK, UsersFirst,
      Exists, SomeUser
<1>7. ASSUME NEW r \in Requests, RegisterFailure(r), Ended(r) PROVE UsersFirst'
  <2> DEFINE c == req[r].other
             e == entry[c]
  <2>1. c \in Challenges /\ e \in Entries
    BY <1>7 DEF RegisterFailure, At, WellFormed, TypeOK, RequestsOK, RequestOK
  <2>2. /\ UNCHANGED <<user, invite, require2FA>>
        /\ \A d \in Challenges \ {c} : entry'[d] = entry[d]
    BY <1>7 DEF RegisterFailure, invites, settings, WellFormed, TypeOK
  <2>3. \A d \in Challenges : d = c /\ entry'[d].state = "live" =>
          e.state = "live" /\ entry'[d].user = e.user /\ entry'[d].failures < MaxFailures
    <3>1. CASE e.state # "live"
      BY <1>7, <3>1 DEF RegisterFailure
    <3>2. CASE e.state = "live"
      <4> DEFINE f == [state |-> IF e.failures + 1 >= MaxFailures THEN "gone" ELSE "live",
                       user |-> e.user, failures |-> e.failures + 1]
      <4>1. \A d \in Challenges : d = c => entry'[d] = f
        BY <1>7, <3>2 DEF RegisterFailure, WellFormed, TypeOK
      <4>2. f.state = "live" => f.failures < MaxFailures
        BY <2>1, AccountsAssumption DEF Entries
      <4>3. f.user = e.user
        OBVIOUS
      <4> HIDE DEF f
      <4> QED
        BY <3>2, <4>1, <4>2, <4>3
    <3> QED
      BY <3>1, <3>2
  <2> QED
    BY <2>1, <2>2, <2>3 DEF WellFormed, UsersFirst, Exists, SomeUser
<1>8. ASSUME NEW r \in Requests, DisableUpdate(r), Ended(r) PROVE UsersFirst'
  <2>1. UNCHANGED <<invite, require2FA, entry>>
    BY <1>8 DEF DisableUpdate, invites, settings, stores
  <2>2. \A v \in Users : (user'[v].deleted <=> user[v].deleted) /\ (Exists(v)' <=> Exists(v))
    BY <1>8 DEF DisableUpdate, WellFormed, TypeOK, Rows, Exists
  <2> QED
    BY <2>1, <2>2 DEF WellFormed, UsersFirst, SomeUser
<1>9. ASSUME NEW r \in Requests, ConfirmUpdate(r), Moved(r, "confirmed") PROVE UsersFirst'
  <2>1. UNCHANGED <<invite, require2FA, entry>>
    BY <1>9 DEF ConfirmUpdate, invites, settings, stores
  <2>2. \A v \in Users : (user'[v].deleted <=> user[v].deleted) /\ (Exists(v)' <=> Exists(v))
    BY <1>9 DEF ConfirmUpdate, WellFormed, TypeOK, Rows, Exists
  <2> QED
    BY <2>1, <2>2 DEF WellFormed, UsersFirst, SomeUser
<1>10. ASSUME NEW r \in Requests, NEW c \in Challenges, Issue(r, c),
    Ended(r) PROVE UsersFirst'
  <2>1. UNCHANGED <<user, invite, require2FA>>
    BY <1>10 DEF Issue, invites, settings
  <2>2. req[r].user \in Users /\ Exists(req[r].user)
    BY <1>10 DEF Issue, At, WellFormed, RequestsOK, RequestOK
  <2>3. entry' = [entry EXCEPT ![c] = [state |-> "live", user |-> req[r].user, failures |-> 0]]
    BY <1>10 DEF Issue
  <2>4. /\ entry'[c].user = req[r].user /\ entry'[c].failures = 0
        /\ \A d \in Challenges \ {c} : entry'[d] = entry[d]
    BY <2>3 DEF WellFormed, TypeOK
  <2> QED
    BY <2>1, <2>2, <2>4, AccountsAssumption DEF WellFormed, UsersFirst, Exists, SomeUser
<1>11. ASSUME NEW r \in Requests, NEW role \in {"keep", "member", "admin"},
                  NEW ban \in {"keep", "ban", "unban"}, PatchCommit(r, role, ban),
                      Ended(r) PROVE UsersFirst'
  BY <1>11, AccountsAssumption DEF PatchCommit, Ended, Now, At, invites, settings, stores,
      WellFormed, TypeOK, UsersFirst, Exists, SomeUser, Rows, NewRow, NoRow, RequestsOK,
      RequestOK
<1>12. ASSUME NEW r \in Requests, NEW u \in Users, SetupCreate(r, u),
                  Now(r, "session", u, Nobody, NoUpdate, FALSE) PROVE UsersFirst'
  BY <1>12, AccountsAssumption DEF SetupCreate, Now, At, invites, settings, stores,
      WellFormed, TypeOK, UsersFirst, Exists, SomeUser, Rows, NewRow, NoRow, RequestsOK,
      RequestOK
<1>13. ASSUME NEW r \in Requests, CommitSettings(r) PROVE UsersFirst'
  BY <1>13, AccountsAssumption DEF CommitSettings, At, Idle, history, invites, stores,
      WellFormed, TypeOK, UsersFirst, Exists, SomeUser, RequestsOK, RequestOK, Target
<1>14. ASSUME NEW c \in Challenges, ExpireChallenge(c) PROVE UsersFirst'
  BY <1>14, AccountsAssumption DEF ExpireChallenge, history, invites, settings, WellFormed,
      TypeOK, UsersFirst, Exists, SomeUser, Entries
<1>15. ASSUME NEW u \in Users, EnableTOTP(u) PROVE UsersFirst'
  BY <1>15 DEF EnableTOTP, history, invites, settings, WellFormed, TypeOK, UsersFirst,
      Exists, SomeUser
<1>16. ASSUME NEW u \in Users, EndSessions(u) PROVE UsersFirst'
  BY <1>16 DEF EndSessions, history, invites, settings, stores, WellFormed, TypeOK,
      UsersFirst, Exists, SomeUser
<1>17. CASE CreateInvite
  BY <1>17, AccountsAssumption DEF CreateInvite, history, settings, stores, WellFormed,
      TypeOK, UsersFirst, Exists, SomeUser, Authenticated, Active
<1>18. CASE RevokeInvite
  BY <1>18, AccountsAssumption DEF RevokeInvite, history, settings, stores, WellFormed,
      TypeOK, UsersFirst, Exists, SomeUser
<1>19. CASE UNCHANGED vars
  BY <1>19 DEF vars, data, history, invites, settings, stores, At, WellFormed, TypeOK,
      UsersFirst, Exists, SomeUser
<1> QED
  BY <1>1, <1>2, <1>3, <1>4, <1>5, <1>6, <1>7, <1>8, <1>9, <1>10, <1>11, <1>12, <1>13,
      <1>14, <1>15, <1>16, <1>17, <1>18, <1>19, StepCases DEF Step

-----------------------------------------------------------------------------
(* The server starts with no request, no challenge and nobody deleted. *)
LEMMA WellFormedInit == Init => WellFormed
<1> SUFFICES ASSUME Init PROVE WellFormed
  OBVIOUS
<1> USE AccountsAssumption
<1>1. PICK w \in Workloads :
        /\ kinds = w.kinds /\ sessions = w.admins \union w.members
        /\ user = [u \in Users |->
                     [role |-> IF u \in w.admins THEN "admin"
                               ELSE IF u \in w.members THEN "member" ELSE "none",
                      banned |-> FALSE, totp |-> u \in w.enrolled, deleted |-> FALSE]]
  BY DEF Init
<1>2. /\ invite = "none" /\ uses = 0 /\ require2FA = FALSE /\ registrationOpen \in BOOLEAN
      /\ entry = [c \in Challenges |-> Unissued] /\ pending = {}
      /\ req = [r \in Requests |-> Idle]
      /\ joined = {} /\ wrong = [c \in Challenges |-> 0]
      /\ spent = {} /\ issued = [c \in Challenges |-> 0]
      /\ escaped = {} /\ late = {} /\ waived = FALSE
  BY DEF Init
<1>3. user \in [Users -> Rows]
  BY <1>1 DEF Rows
<1>4. sessions \subseteq {u \in Users : Exists(u)}
  BY <1>1 DEF Exists
<1>5. entry \in [Challenges -> Entries] /\ req \in [Requests -> Reqs]
  BY SMTT(30), <1>2 DEF Entries, Reqs, Unissued, Idle, Steps, Updates, NoUpdate
<1>6. TypeOK
  <2>1. kinds \subseteq Kinds
    BY <1>1
  <2>2. require2FA \in BOOLEAN /\ waived \in BOOLEAN
    BY <1>2
  <2>3. wrong \in [Challenges -> 0 .. MaxFailures] /\ issued \in [Challenges -> Nat]
    BY <1>2
  <2> QED
    BY <1>2, <1>3, <1>4, <1>5, <2>1, <2>2, <2>3 DEF TypeOK
<1>7. RequestsOK /\ UsersFirst
  BY <1>1, <1>2 DEF RequestsOK, RequestOK, UsersFirst, Idle, Unissued
<1> QED
  BY <1>6, <1>7 DEF WellFormed

(* In every reachable state the tables, the stores and the requests fit    *)
(* together, whatever the workload and however the requests overlap.       *)
THEOREM AccountsWellFormed == Spec => []WellFormed
<1>1. WellFormed /\ [Next]_vars => WellFormed'
  BY TypeOKStep, RequestsOKStep, UsersFirstStep DEF WellFormed
<1> QED
  BY WellFormedInit, <1>1, PTL DEF Spec

(* The tables, the stores and the requests keep their types.               *)
THEOREM AccountsTypeCorrect == Spec => []TypeOK
<1>1. WellFormed => TypeOK
  BY DEF WellFormed
<1> QED
  BY AccountsWellFormed, <1>1, PTL
=============================================================================
