----------------------- MODULE Accounts_safety_proofs -----------------------
(***************************************************************************)
(* The safety properties of Accounts, each with the invariant that makes   *)
(* it inductive.  Accounts_proofs shows the states well formed and         *)
(* reduces the steps to a few cases.                                       *)
(***************************************************************************)
EXTENDS Accounts_proofs, FiniteSetTheorems

(* A challenge that can still be consumed has led to nothing yet and has   *)
(* room for a wrong code; one that was consumed is followed by at most one *)
(* request or session.                                                     *)
ChallengeInv ==
    /\ \A c \in Challenges :
         /\ entry[c].state = "unissued" => c \notin spent /\ wrong[c] = 0
         /\ entry[c].state = "live" =>
              c \notin spent /\ wrong[c] = entry[c].failures
         /\ c \notin spent => issued[c] = 0
         /\ issued[c] <= 1
         /\ \A r \in Requests : At(r, "session") /\ req[r].other = c =>
              c \in spent /\ issued[c] = 0
    /\ \A q, r \in Requests :
         At(q, "session") /\ At(r, "session") /\ req[q].other = req[r].other
           /\ req[r].other \in Challenges => q = r
    /\ FewGuesses

(* Until the exception happens, a deleted account stays banned, so the     *)
(* guard of DeleteAccount counts administrators who can act.               *)
AdminInv ==
    ~waived => /\ \A u \in Users : user[u].deleted => user[u].banned
               /\ SomeUser => ActiveAdmins # {}

InviteInv ==
    /\ IsFiniteSet(joined) /\ InviteRespected
    /\ \A u \in joined : Exists(u)

(* Who is on the way to being without two-factor login is marked before    *)
(* the policy takes effect.                                                *)
EnrolledInv ==
    /\ require2FA \/ PolicyPending => \A u \in Users \ escaped : Active(u) => user[u].totp
    /\ require2FA => \A r \in Requests : Overtaken(r) => req[r].raced

(* Nothing can sign a deleted account in, unless it was on its way. *)
DeletedInv ==
    \A u \in Users \ late : user[u].deleted =>
      u \notin sessions /\ ~user[u].totp /\ ~SigningIn(u)

-----------------------------------------------------------------------------
(* A step keeps the account of the challenges. *)
LEMMA ChallengeStep ==
    ASSUME WellFormed, ChallengeInv, [Next]_vars
    PROVE  ChallengeInv'
<1>1. ASSUME NEW r \in Requests, Looked(r) PROVE ChallengeInv'
  <2>1. UNCHANGED <<entry, wrong, spent, issued>>
    BY <1>1 DEF Looked, Quiet, history
  <2>2. \A q \in Requests : At(q, "session")' /\ req'[q].other \in Challenges =>
                             At(q, "session") /\ req[q].other = req'[q].other
    BY <1>1, AccountsAssumption DEF Looked, At
  <2> QED
    BY <2>1, <2>2 DEF ChallengeInv, FewGuesses
<1>2. ASSUME NEW r \in Requests, Created(r) PROVE ChallengeInv'
  BY <1>2, AccountsAssumption DEF Created, Now, At, ChallengeInv, FewGuesses
<1>3. ASSUME NEW r \in Requests, Consumed(r) PROVE ChallengeInv'
  <2> DEFINE c == req[r].other
  <2>1. c \in Challenges /\ entry'[c].state = "gone"
    BY <1>3 DEF Consumed, WellFormed, TypeOK, Entries
  <2>2. /\ spent' = spent \union {c} /\ UNCHANGED <<wrong, issued>>
        /\ \A d \in Challenges \ {c} : entry'[d] = entry[d]
    BY <1>3 DEF Consumed, WellFormed, TypeOK
  <2>3. c \notin spent /\ issued[c] = 0 /\ wrong[c] < MaxFailures
    BY <1>3 DEF Consumed, ChallengeInv, WellFormed, UsersFirst
  <2>4. /\ \A q \in Requests \ {r} : req'[q] = req[q]
        /\ At(r, "session")' /\ req'[r].other = c
    BY <1>3 DEF Consumed, Moved, Now, At
  <2>5. \A q \in Requests \ {r} : At(q, "session")' => req'[q].other # c
    BY <2>1, <2>3, <2>4 DEF ChallengeInv, At
  <2>6. FewGuesses'
    BY <2>2, <2>3 DEF ChallengeInv, FewGuesses
  <2>7. \A d \in Challenges \ {c}, q \in Requests :
          At(q, "session")' /\ req'[q].other = d => At(q, "session") /\ req[q].other = d
    BY <2>4 DEF At
  <2>8. ASSUME NEW p \in Requests, NEW q \in Requests, At(p, "session")', At(q, "session")',
               req'[p].other = req'[q].other, req'[q].other \in Challenges
        PROVE  p = q
    BY <2>4, <2>5, <2>8 DEF ChallengeInv, At
  <2> QED
    BY <2>1, <2>2, <2>3, <2>6, <2>7, <2>8 DEF ChallengeInv
<1>4. ASSUME NEW r \in Requests, Counted(r) PROVE ChallengeInv'
  BY <1>4, AccountsAssumption DEF Counted, Moved, Now, At, ChallengeInv, FewGuesses
<1>5. ASSUME NEW r \in Requests, Removed(r) PROVE ChallengeInv'
  BY <1>5, AccountsAssumption DEF Removed, Ended, Now, At, Deleted, ChallengeInv, FewGuesses
<1>6. ASSUME NEW r \in Requests, CreateSession(r), Ended(r) PROVE ChallengeInv'
  BY <1>6, AccountsAssumption DEF CreateSession, Ended, Now, At, invites, settings, stores,
      ChallengeInv, FewGuesses, At, WellFormed, TypeOK, RequestsOK, RequestOK
<1>7. ASSUME NEW r \in Requests, RegisterFailure(r), Ended(r) PROVE ChallengeInv'
  <2> DEFINE c == req[r].other
             e == entry[c]
  <2>1. c \in Challenges /\ e \in Entries /\ wrong[c] \in 0 .. MaxFailures
    BY <1>7 DEF RegisterFailure, At, WellFormed, TypeOK, RequestsOK, RequestOK
  <2>2. /\ UNCHANGED <<spent, issued>>
        /\ \A d \in Challenges \ {c} : entry'[d] = entry[d] /\ wrong'[d] = wrong[d]
        /\ c \in spent => wrong'[c] = wrong[c]
    BY <1>7, <2>1 DEF RegisterFailure, WellFormed, TypeOK
  <2>3. entry'[c].state # "unissued"
    BY <1>7, <2>1 DEF RegisterFailure, At, WellFormed, TypeOK, RequestsOK, RequestOK
  <2>4. entry'[c].state = "live" => c \notin spent /\ wrong'[c] = entry'[c].failures
    <3>1. SUFFICES ASSUME entry'[c].state = "live"
                   PROVE  c \notin spent /\ wrong'[c] = entry'[c].failures
      OBVIOUS
    <3>2. e.state = "live" /\ entry'[c].failures = e.failures + 1
      BY <1>7, <2>1, <3>1 DEF RegisterFailure, WellFormed, TypeOK
    <3>3. c \notin spent /\ wrong[c] = e.failures /\ e.failures < MaxFailures
      BY <2>1, <3>2 DEF ChallengeInv, WellFormed, UsersFirst
    <3>4. wrong[c] # MaxFailures
      BY <2>1, <3>3, AccountsAssumption DEF Entries
    <3>5. wrong'[c] = wrong[c] + 1
      BY <1>7, <2>1, <3>3, <3>4 DEF RegisterFailure, WellFormed, TypeOK
    <3> QED
      BY <3>2, <3>3, <3>5
  <2>5. \A q \in Requests : At(q, "session")' => At(q, "session") /\ req'[q] = req[q]
    BY <1>7 DEF Ended, Now, At
  <2>6. FewGuesses'
    BY <2>2, <2>1 DEF ChallengeInv, FewGuesses, WellFormed, TypeOK
  <2> QED
    BY <2>2, <2>3, <2>4, <2>5, <2>6 DEF ChallengeInv
<1>8. ASSUME NEW r \in Requests, DisableUpdate(r), Ended(r) PROVE ChallengeInv'
  BY <1>8, AccountsAssumption DEF DisableUpdate, Ended, Now, At, invites, settings, stores,
      ChallengeInv, FewGuesses
<1>9. ASSUME NEW r \in Requests, ConfirmUpdate(r), Moved(r, "confirmed") PROVE ChallengeInv'
  BY <1>9, AccountsAssumption DEF ConfirmUpdate, Moved, Now, At, invites, settings, stores,
      ChallengeInv, FewGuesses
<1>10. ASSUME NEW r \in Requests, NEW c \in Challenges, Issue(r, c),
    Ended(r) PROVE ChallengeInv'
  BY <1>10, AccountsAssumption DEF Issue, Ended, Now, At, history, invites, settings,
      ChallengeInv, FewGuesses, At, WellFormed, TypeOK
<1>11. ASSUME NEW r \in Requests, NEW role \in {"keep", "member", "admin"},
                  NEW ban \in {"keep", "ban", "unban"}, PatchCommit(r, role, ban),
                      Ended(r) PROVE ChallengeInv'
  BY SMTT(30), ZenonT(30), <1>11, AccountsAssumption DEF PatchCommit, Ended, Now, At, invites, settings, stores,
      ChallengeInv, FewGuesses
<1>12. ASSUME NEW r \in Requests, NEW u \in Users, SetupCreate(r, u),
                  Now(r, "session", u, Nobody, NoUpdate, FALSE) PROVE ChallengeInv'
  BY <1>12, AccountsAssumption DEF SetupCreate, Now, At, invites, settings, stores,
      ChallengeInv, FewGuesses
<1>13. ASSUME NEW r \in Requests, CommitSettings(r) PROVE ChallengeInv'
  BY <1>13, AccountsAssumption DEF CommitSettings, At, Idle, history, invites, stores,
      ChallengeInv, FewGuesses, At, WellFormed, TypeOK
<1>14. ASSUME NEW c \in Challenges, ExpireChallenge(c) PROVE ChallengeInv'
  BY <1>14, AccountsAssumption DEF ExpireChallenge, history, invites, settings,
      ChallengeInv, FewGuesses, At, WellFormed, TypeOK, Entries
<1>15. ASSUME NEW u \in Users, EnableTOTP(u) PROVE ChallengeInv'
  BY <1>15 DEF EnableTOTP, history, invites, settings, ChallengeInv, FewGuesses, At
<1>16. ASSUME NEW u \in Users, EndSessions(u) PROVE ChallengeInv'
  BY <1>16 DEF EndSessions, history, invites, settings, stores, ChallengeInv, FewGuesses, At
<1>17. CASE CreateInvite
  BY <1>17 DEF CreateInvite, history, settings, stores, ChallengeInv, FewGuesses, At
<1>18. CASE RevokeInvite
  BY <1>18 DEF RevokeInvite, history, settings, stores, ChallengeInv, FewGuesses, At
<1>19. CASE UNCHANGED vars
  BY <1>19 DEF vars, data, history, invites, settings, stores, At, ChallengeInv,
      FewGuesses, At, WellFormed, TypeOK
<1> QED
  BY <1>1, <1>2, <1>3, <1>4, <1>5, <1>6, <1>7, <1>8, <1>9, <1>10, <1>11, <1>12, <1>13,
      <1>14, <1>15, <1>16, <1>17, <1>18, <1>19, StepCases DEF Step

(* A step keeps an administrator. *)
LEMMA AdminStep ==
    ASSUME WellFormed, AdminInv, [Next]_vars
    PROVE  AdminInv'
<1>1. ASSUME NEW r \in Requests, Looked(r) PROVE AdminInv'
  BY <1>1 DEF Looked, Quiet, history, AdminInv, ActiveAdmins, SomeUser, Exists
<1>2. ASSUME NEW r \in Requests, Created(r) PROVE AdminInv'
  BY <1>2, AccountsAssumption DEF Created, Now, At, AdminInv, ActiveAdmins, SomeUser,
      Exists, InviteUsable, UsersFirst, WellFormed, TypeOK, NewRow, NoRow
<1>3. ASSUME NEW r \in Requests, Consumed(r) PROVE AdminInv'
  BY <1>3 DEF Consumed, AdminInv, ActiveAdmins, SomeUser, Exists
<1>4. ASSUME NEW r \in Requests, Counted(r) PROVE AdminInv'
  BY <1>4 DEF Counted, AdminInv, ActiveAdmins, SomeUser, Exists
<1>5. ASSUME NEW r \in Requests, Removed(r) PROVE AdminInv'
  <2> DEFINE u == req[r].user
  <2>1. user[u] \in Rows /\ user'[u] = Deleted(user[u])
    BY <1>5 DEF Removed, WellFormed, TypeOK
  <2>2. \A v \in Users \ {u} : user'[v] = user[v]
    BY <1>5 DEF Removed, WellFormed, TypeOK
  <2>3. ~waived => \E a \in ActiveAdmins : a # u
    BY <1>5 DEF Removed, AdminInv, LastAdmin, ActiveAdmins, SomeUser
  <2>4. \A a \in ActiveAdmins : a # u => a \in ActiveAdmins'
    BY <2>2 DEF ActiveAdmins
  <2>5. ~waived => \A v \in Users : user'[v].deleted => user'[v].banned
    BY <2>1, <2>2 DEF AdminInv, Deleted
  <2> QED
    BY <1>5, <2>3, <2>4, <2>5 DEF Removed, AdminInv
<1>6. ASSUME NEW r \in Requests, CreateSession(r), Ended(r) PROVE AdminInv'
  BY <1>6 DEF CreateSession, invites, settings, stores, AdminInv, ActiveAdmins, SomeUser,
      Exists
<1>7. ASSUME NEW r \in Requests, RegisterFailure(r), Ended(r) PROVE AdminInv'
  BY <1>7 DEF RegisterFailure, invites, settings, AdminInv, ActiveAdmins, SomeUser, Exists
<1>8. ASSUME NEW r \in Requests, DisableUpdate(r), Ended(r) PROVE AdminInv'
  BY <1>8, AccountsAssumption DEF DisableUpdate, Ended, Now, At, invites, settings, stores,
      AdminInv, ActiveAdmins, SomeUser, Exists, RequestsOK, RequestOK, WellFormed, TypeOK,
      Rows, NewRow, NoRow
<1>9. ASSUME NEW r \in Requests, ConfirmUpdate(r), Moved(r, "confirmed") PROVE AdminInv'
  BY <1>9, AccountsAssumption DEF ConfirmUpdate, Moved, Now, At, invites, settings, stores,
      AdminInv, ActiveAdmins, SomeUser, Exists, RequestsOK, RequestOK, WellFormed, TypeOK,
      Rows, NewRow, NoRow
<1>10. ASSUME NEW r \in Requests, NEW c \in Challenges, Issue(r, c),
    Ended(r) PROVE AdminInv'
  BY <1>10 DEF Issue, history, invites, settings, AdminInv, ActiveAdmins, SomeUser, Exists
<1>11. ASSUME NEW r \in Requests, NEW role \in {"keep", "member", "admin"},
                  NEW ban \in {"keep", "ban", "unban"}, PatchCommit(r, role, ban),
                      Ended(r) PROVE AdminInv'
  <2> DEFINE t == req[r].user
             old == user[t]
             row == [role |-> IF role = "keep" THEN old.role ELSE role,
                     banned |-> ban = "ban" \/ (ban = "keep" /\ old.banned),
                     totp |-> old.totp, deleted |-> old.deleted]
  <2>1. t \in Users /\ old \in Rows /\ Exists(t)
    BY <1>11 DEF PatchCommit, At, WellFormed, TypeOK, RequestsOK, RequestOK
  <2>2. user' = [user EXCEPT ![t] = row]
    BY <1>11 DEF PatchCommit
  <2>3. user'[t] = row /\ \A u \in Users \ {t} : user'[u] = user[u]
    BY <2>1, <2>2 DEF WellFormed, TypeOK
  <2>4. ASSUME ~waived'
        PROVE  (\A u \in Users : user'[u].deleted => user'[u].banned) /\ ActiveAdmins' # {}
    <3>1. /\ ~waived /\ ~(old.deleted /\ ban = "unban")
          /\ t \in ActiveAdmins => req[r].other \in ActiveAdmins
      BY <1>11, <2>4 DEF PatchCommit
    <3>2. \A u \in Users : user'[u].deleted => user'[u].banned
      BY <2>1, <2>3, <3>1 DEF AdminInv, Rows
    <3>3. req[r].other \in Users \ {t}
      BY <1>11 DEF PatchCommit, At, WellFormed, RequestsOK, RequestOK
    <3>4. \E b \in ActiveAdmins : b # t
      BY <2>1, <3>1, <3>3 DEF AdminInv, SomeUser, ActiveAdmins
    <3>5. \A b \in ActiveAdmins : b # t => b \in ActiveAdmins'
      BY <2>3 DEF ActiveAdmins
    <3> QED
      BY <3>2, <3>4, <3>5
  <2> QED
    BY <2>4 DEF AdminInv
<1>12. ASSUME NEW r \in Requests, NEW u \in Users, SetupCreate(r, u),
                  Now(r, "session", u, Nobody, NoUpdate, FALSE) PROVE AdminInv'
  BY <1>12, AccountsAssumption DEF SetupCreate, Now, At, invites, settings, stores,
      AdminInv, ActiveAdmins, SomeUser, Exists, RequestsOK, RequestOK, WellFormed, TypeOK,
      Rows, NewRow, NoRow
<1>13. ASSUME NEW r \in Requests, CommitSettings(r) PROVE AdminInv'
  BY <1>13 DEF CommitSettings, history, invites, stores, AdminInv, ActiveAdmins, SomeUser,
      Exists
<1>14. ASSUME NEW c \in Challenges, ExpireChallenge(c) PROVE AdminInv'
  BY <1>14 DEF ExpireChallenge, history, invites, settings, AdminInv, ActiveAdmins,
      SomeUser, Exists
<1>15. ASSUME NEW u \in Users, EnableTOTP(u) PROVE AdminInv'
  BY <1>15 DEF EnableTOTP, history, invites, settings, AdminInv, ActiveAdmins, SomeUser,
      Exists
<1>16. ASSUME NEW u \in Users, EndSessions(u) PROVE AdminInv'
  BY <1>16 DEF EndSessions, history, invites, settings, stores, AdminInv, ActiveAdmins,
      SomeUser, Exists
<1>17. CASE CreateInvite
  BY <1>17 DEF CreateInvite, history, settings, stores, AdminInv, ActiveAdmins, SomeUser,
      Exists
<1>18. CASE RevokeInvite
  BY <1>18 DEF RevokeInvite, history, settings, stores, AdminInv, ActiveAdmins, SomeUser,
      Exists
<1>19. CASE UNCHANGED vars
  BY <1>19 DEF vars, data, history, invites, settings, stores, At, AdminInv, ActiveAdmins,
      SomeUser, Exists
<1> QED
  BY <1>1, <1>2, <1>3, <1>4, <1>5, <1>6, <1>7, <1>8, <1>9, <1>10, <1>11, <1>12, <1>13,
      <1>14, <1>15, <1>16, <1>17, <1>18, <1>19, StepCases DEF Step

(* A step keeps the invite's count. *)
LEMMA InviteStep ==
    ASSUME WellFormed, InviteInv, [Next]_vars
    PROVE  InviteInv'
<1>1. ASSUME NEW r \in Requests, Looked(r) PROVE InviteInv'
  BY <1>1 DEF Looked, Quiet, history, InviteInv, InviteRespected, Exists
<1>2. ASSUME NEW r \in Requests, Created(r) PROVE InviteInv'
  <2> DEFINE u == req[r].user
  <2>1. u \notin joined
    BY <1>2 DEF Created, InviteInv
  <2>2. Cardinality(joined') = Cardinality(joined) + 1 /\ IsFiniteSet(joined')
    BY <1>2, <2>1, FS_AddElement DEF Created, InviteInv
  <2>3. uses \in 0 .. MaxUses /\ uses < MaxUses
    BY <1>2 DEF Created, InviteUsable, WellFormed, TypeOK
  <2>4. uses' = uses + 1 /\ uses' <= MaxUses
    BY <1>2, <2>3, AccountsAssumption DEF Created
  <2>5. \A v \in joined' : Exists(v)'
    BY <1>2 DEF Created, InviteInv, Exists, NewRow, NoRow, WellFormed, TypeOK
  <2> QED
    BY <2>2, <2>4, <2>5 DEF InviteInv, InviteRespected
<1>3. ASSUME NEW r \in Requests, Consumed(r) PROVE InviteInv'
  BY <1>3 DEF Consumed, InviteInv, InviteRespected, Exists
<1>4. ASSUME NEW r \in Requests, Counted(r) PROVE InviteInv'
  BY <1>4 DEF Counted, InviteInv, InviteRespected, Exists
<1>5. ASSUME NEW r \in Requests, Removed(r) PROVE InviteInv'
  BY <1>5, AccountsAssumption DEF Removed, Ended, Now, At, Deleted, InviteInv,
      InviteRespected, Exists, RequestsOK, RequestOK, WellFormed, TypeOK, Rows, NewRow,
      NoRow
<1>6. ASSUME NEW r \in Requests, CreateSession(r), Ended(r) PROVE InviteInv'
  BY <1>6 DEF CreateSession, invites, settings, stores, InviteInv, InviteRespected, Exists
<1>7. ASSUME NEW r \in Requests, RegisterFailure(r), Ended(r) PROVE InviteInv'
  BY <1>7 DEF RegisterFailure, invites, settings, InviteInv, InviteRespected, Exists
<1>8. ASSUME NEW r \in Requests, DisableUpdate(r), Ended(r) PROVE InviteInv'
  BY <1>8, AccountsAssumption DEF DisableUpdate, Ended, Now, At, invites, settings, stores,
      InviteInv, InviteRespected, Exists, RequestsOK, RequestOK, WellFormed, TypeOK, Rows,
      NewRow, NoRow
<1>9. ASSUME NEW r \in Requests, ConfirmUpdate(r), Moved(r, "confirmed") PROVE InviteInv'
  BY <1>9, AccountsAssumption DEF ConfirmUpdate, Moved, Now, At, invites, settings, stores,
      InviteInv, InviteRespected, Exists, RequestsOK, RequestOK, WellFormed, TypeOK, Rows,
      NewRow, NoRow
<1>10. ASSUME NEW r \in Requests, NEW c \in Challenges, Issue(r, c),
    Ended(r) PROVE InviteInv'
  BY <1>10 DEF Issue, history, invites, settings, InviteInv, InviteRespected, Exists
<1>11. ASSUME NEW r \in Requests, NEW role \in {"keep", "member", "admin"},
                  NEW ban \in {"keep", "ban", "unban"}, PatchCommit(r, role, ban),
                      Ended(r) PROVE InviteInv'
  BY <1>11, AccountsAssumption DEF PatchCommit, Ended, Now, At, invites, settings, stores,
      InviteInv, InviteRespected, Exists, RequestsOK, RequestOK, WellFormed, TypeOK, Rows,
      NewRow, NoRow
<1>12. ASSUME NEW r \in Requests, NEW u \in Users, SetupCreate(r, u),
                  Now(r, "session", u, Nobody, NoUpdate, FALSE) PROVE InviteInv'
  BY <1>12, AccountsAssumption DEF SetupCreate, Now, At, invites, settings, stores,
      InviteInv, InviteRespected, Exists, RequestsOK, RequestOK, WellFormed, TypeOK, Rows,
      NewRow, NoRow
<1>13. ASSUME NEW r \in Requests, CommitSettings(r) PROVE InviteInv'
  BY <1>13 DEF CommitSettings, history, invites, stores, InviteInv, InviteRespected, Exists
<1>14. ASSUME NEW c \in Challenges, ExpireChallenge(c) PROVE InviteInv'
  BY <1>14 DEF ExpireChallenge, history, invites, settings, InviteInv, InviteRespected,
      Exists
<1>15. ASSUME NEW u \in Users, EnableTOTP(u) PROVE InviteInv'
  BY <1>15 DEF EnableTOTP, history, invites, settings, InviteInv, InviteRespected, Exists
<1>16. ASSUME NEW u \in Users, EndSessions(u) PROVE InviteInv'
  BY <1>16 DEF EndSessions, history, invites, settings, stores, InviteInv, InviteRespected,
      Exists
<1>17. CASE CreateInvite
  BY <1>17 DEF CreateInvite, history, settings, stores, InviteInv, InviteRespected, Exists
<1>18. CASE RevokeInvite
  BY <1>18 DEF RevokeInvite, history, settings, stores, InviteInv, InviteRespected, Exists
<1>19. CASE UNCHANGED vars
  BY <1>19 DEF vars, data, history, invites, settings, stores, At, InviteInv,
      InviteRespected, Exists
<1> QED
  BY <1>1, <1>2, <1>3, <1>4, <1>5, <1>6, <1>7, <1>8, <1>9, <1>10, <1>11, <1>12, <1>13,
      <1>14, <1>15, <1>16, <1>17, <1>18, <1>19, StepCases DEF Step

(* A step keeps the policy, or marks whom it misses. *)
LEMMA EnrolledStep ==
    ASSUME WellFormed, EnrolledInv, [Next]_vars
    PROVE  EnrolledInv'
<1>1. ASSUME NEW r \in Requests, Looked(r) PROVE EnrolledInv'
  <2>1. UNCHANGED <<user, require2FA, escaped>>
    BY <1>1 DEF Looked, Quiet, history
  <2>2. PolicyPending' => PolicyPending
    BY <1>1 DEF Looked, PolicyPending, At
  <2>3. ASSUME require2FA, NEW q \in Requests, Overtaken(q)' PROVE req'[q].raced
    <3>1. CASE q = r
      BY <1>1, <2>3, <3>1 DEF Looked, KeepsMark, EnrolledInv
    <3>2. CASE q # r
      BY <1>1, <2>3, <3>2 DEF Looked, Overtaken, EnrolledInv
    <3> QED
      BY <3>1, <3>2
  <2> QED
    BY <2>1, <2>2, <2>3 DEF EnrolledInv, Active, Exists
<1>2. ASSUME NEW r \in Requests, Created(r) PROVE EnrolledInv'
  <2> DEFINE t == req[r].user
  <2>1. /\ t \in Users /\ \A u \in Users \ {t} : user'[u] = user[u]
        /\ require2FA' = require2FA /\ Overtaken(r)
        /\ escaped' = IF req[r].raced \/ PolicyPending THEN escaped \union {t} ELSE escaped
    BY <1>2 DEF Created, WellFormed, TypeOK, Misses, At, Overtaken
  <2>2. \A q \in Requests : /\ q # r => req'[q] = req[q]
                            /\ q = r => req'[q].pc = "session"
    BY <1>2 DEF Created, Now
  <2>3. (PolicyPending' => PolicyPending) /\ \A q \in Requests : Overtaken(q)' => q # r
    BY <2>2 DEF PolicyPending, At, Overtaken
  <2>4. require2FA => req[r].raced
    BY <2>1 DEF EnrolledInv
  <2> HIDE DEF t
  <2>5. ASSUME require2FA' \/ PolicyPending', NEW u \in Users \ escaped', Active(u)'
        PROVE  user'[u].totp
    <3>1. u # t /\ u \notin escaped /\ (require2FA \/ PolicyPending)
      BY <2>1, <2>3, <2>4, <2>5
    <3> QED
      BY <2>1, <2>5, <3>1 DEF EnrolledInv, Active, Exists
  <2> QED
    BY <2>1, <2>2, <2>3, <2>5 DEF EnrolledInv, Overtaken
<1>3. ASSUME NEW r \in Requests, Consumed(r) PROVE EnrolledInv'
  BY <1>3, AccountsAssumption DEF Consumed, Moved, Now, At, EnrolledInv, PolicyPending,
      Overtaken, Active, Exists
<1>4. ASSUME NEW r \in Requests, Counted(r) PROVE EnrolledInv'
  BY <1>4, AccountsAssumption DEF Counted, Moved, Now, At, EnrolledInv, PolicyPending,
      Overtaken, Active, Exists
<1>5. ASSUME NEW r \in Requests, Removed(r) PROVE EnrolledInv'
  BY <1>5, AccountsAssumption DEF Removed, Ended, Now, At, Deleted, EnrolledInv,
      PolicyPending, Overtaken, Active, Exists, WellFormed, TypeOK, Rows
<1>6. ASSUME NEW r \in Requests, CreateSession(r), Ended(r) PROVE EnrolledInv'
  BY <1>6, AccountsAssumption DEF CreateSession, Ended, Now, At, invites, settings, stores,
      EnrolledInv, PolicyPending, Overtaken, Active, Exists
<1>7. ASSUME NEW r \in Requests, RegisterFailure(r), Ended(r) PROVE EnrolledInv'
  BY <1>7, AccountsAssumption DEF RegisterFailure, Ended, Now, At, invites, settings,
      EnrolledInv, PolicyPending, Overtaken, Active, Exists
<1>8. ASSUME NEW r \in Requests, DisableUpdate(r), Ended(r) PROVE EnrolledInv'
  <2> DEFINE u == req[r].user
  <2>1. u \in Users /\ user[u] \in Rows
    BY <1>8 DEF DisableUpdate, At, WellFormed, TypeOK, RequestsOK, RequestOK
  <2>2. \A v \in Users : Active(v)' => Active(v) /\ (v # u => user'[v] = user[v])
    BY <1>8, <2>1 DEF DisableUpdate, Active, Exists, WellFormed, TypeOK, Rows
  <2>3. UNCHANGED require2FA /\ escaped \subseteq escaped'
    BY <1>8 DEF DisableUpdate, Misses, settings
  <2>4. PolicyPending' => PolicyPending
    BY <1>8 DEF Ended, Now, PolicyPending, At
  <2>5. require2FA' => \A q \in Requests : Overtaken(q)' => req'[q].raced
    BY <1>8, <2>3 DEF Ended, Now, EnrolledInv, Overtaken
  <2>6. require2FA \/ PolicyPending => \A v \in Users : v = u => v \in escaped'
    BY <1>8, <2>1, <2>2 DEF DisableUpdate, EnrolledInv, Overtaken, Misses, At
  <2>7. ASSUME require2FA' \/ PolicyPending', NEW v \in Users \ escaped', Active(v)'
        PROVE  user'[v].totp
    <3>1. require2FA \/ PolicyPending
      BY <2>3, <2>4, <2>7
    <3>2. v # u
      BY <2>6, <2>7, <3>1
    <3>3. v \in Users \ escaped
      BY <2>3, <2>7
    <3>4. Active(v) /\ user'[v] = user[v]
      BY <2>2, <2>7, <3>2
    <3> QED
      BY <3>1, <3>3, <3>4 DEF EnrolledInv
  <2> QED
    BY <2>5, <2>7 DEF EnrolledInv
<1>9. ASSUME NEW r \in Requests, ConfirmUpdate(r), Moved(r, "confirmed") PROVE EnrolledInv'
  <2> DEFINE u == req[r].user
  <2>1. u \in Users /\ user[u] \in Rows
    BY <1>9 DEF ConfirmUpdate, At, WellFormed, TypeOK, RequestsOK, RequestOK
  <2>2. user'[u].totp /\ \A v \in Users \ {u} : user'[v] = user[v]
    BY <1>9, <2>1 DEF ConfirmUpdate, WellFormed, TypeOK, Rows
  <2>3. UNCHANGED require2FA /\ escaped' = escaped \ {u}
    BY <1>9 DEF ConfirmUpdate, settings
  <2>4. PolicyPending' => PolicyPending
    BY <1>9 DEF Moved, Now, PolicyPending, At
  <2>5. require2FA' => \A q \in Requests : Overtaken(q)' => req'[q].raced
    BY <1>9, <2>3 DEF Moved, Now, EnrolledInv, Overtaken
  <2>6. \A v \in Users \ {u} : Active(v)' => Active(v)
    BY <2>2 DEF Active, Exists
  <2> QED
    BY <2>2, <2>3, <2>4, <2>5, <2>6 DEF EnrolledInv
<1>10. ASSUME NEW r \in Requests, NEW c \in Challenges, Issue(r, c),
    Ended(r) PROVE EnrolledInv'
  BY <1>10, AccountsAssumption DEF Issue, Ended, Now, At, history, invites, settings,
      EnrolledInv, PolicyPending, Overtaken, Active, Exists
<1>11. ASSUME NEW r \in Requests, NEW role \in {"keep", "member", "admin"},
                  NEW ban \in {"keep", "ban", "unban"}, PatchCommit(r, role, ban),
                      Ended(r) PROVE EnrolledInv'
  <2> DEFINE t == req[r].user
             old == user[t]
             row == [role |-> IF role = "keep" THEN old.role ELSE role,
                     banned |-> ban = "ban" \/ (ban = "keep" /\ old.banned),
                     totp |-> old.totp, deleted |-> old.deleted]
  <2>1. t \in Users /\ old \in Rows /\ Exists(t)
    BY <1>11 DEF PatchCommit, At, WellFormed, TypeOK, RequestsOK, RequestOK
  <2>2. user' = [user EXCEPT ![t] = row]
    BY <1>11 DEF PatchCommit
  <2>3. user'[t] = row /\ \A u \in Users \ {t} : user'[u] = user[u]
    BY <2>1, <2>2 DEF WellFormed, TypeOK
  <2>4. /\ UNCHANGED require2FA
        /\ Misses(t,
            old.banned /\ ~row.banned /\ ~row.totp /\ (require2FA \/ PolicyPending))
    BY <1>11 DEF PatchCommit, settings
  <2>5. PolicyPending' => PolicyPending
    BY <1>11 DEF Ended, Now, PolicyPending, At
  <2>6. require2FA' => \A q \in Requests : Overtaken(q)' => req'[q].raced
    BY <1>11, <2>4 DEF Ended, Now, EnrolledInv, Overtaken
  <2>7. ASSUME require2FA' \/ PolicyPending', NEW u \in Users \ escaped', Active(u)'
        PROVE  user'[u].totp
    <3>1. require2FA \/ PolicyPending
      BY <2>4, <2>5, <2>7
    <3>2. u \notin escaped
      BY <2>4, <2>7 DEF Misses
    <3>3. CASE u # t
      BY <2>3, <2>7, <3>1, <3>2, <3>3 DEF EnrolledInv, Active, Exists
    <3>4. CASE u = t
      BY SMTT(30), ZenonT(30), <2>1, <2>3, <2>4, <2>7, <3>1, <3>2, <3>4
      DEF EnrolledInv, Active, Exists, Misses, Rows
    <3> QED
      BY <3>3, <3>4
  <2> QED
    BY <2>6, <2>7 DEF EnrolledInv
<1>12. ASSUME NEW r \in Requests, NEW u \in Users, SetupCreate(r, u),
                  Now(r, "session", u, Nobody, NoUpdate, FALSE) PROVE EnrolledInv'
  BY <1>12, AccountsAssumption DEF SetupCreate, Now, At, invites, settings, stores,
      EnrolledInv, PolicyPending, Overtaken, Active, Exists, WellFormed, TypeOK,
      RequestsOK, RequestOK, Rows, NewRow, NoRow, Misses
<1>13. ASSUME NEW r \in Requests, CommitSettings(r) PROVE EnrolledInv'
  BY <1>13, AccountsAssumption DEF CommitSettings, At, Idle, history, invites, stores,
      EnrolledInv, PolicyPending, Overtaken, Active, Exists, Target, UsersFirst,
      WellFormed, TypeOK, Reqs
<1>14. ASSUME NEW c \in Challenges, ExpireChallenge(c) PROVE EnrolledInv'
  BY <1>14, AccountsAssumption DEF ExpireChallenge, history, invites, settings,
      EnrolledInv, PolicyPending, Overtaken, Active, Exists, At
<1>15. ASSUME NEW u \in Users, EnableTOTP(u) PROVE EnrolledInv'
  BY <1>15, AccountsAssumption DEF EnableTOTP, history, invites, settings, EnrolledInv,
      PolicyPending, Overtaken, Active, Exists, At
<1>16. ASSUME NEW u \in Users, EndSessions(u) PROVE EnrolledInv'
  BY <1>16, AccountsAssumption DEF EndSessions, history, invites, settings, stores,
      EnrolledInv, PolicyPending, Overtaken, Active, Exists, At
<1>17. CASE CreateInvite
  BY <1>17, AccountsAssumption DEF CreateInvite, history, settings, stores, EnrolledInv,
      PolicyPending, Overtaken, Active, Exists, At
<1>18. CASE RevokeInvite
  BY <1>18, AccountsAssumption DEF RevokeInvite, history, settings, stores, EnrolledInv,
      PolicyPending, Overtaken, Active, Exists, At
<1>19. CASE UNCHANGED vars
  BY <1>19 DEF vars, data, history, invites, settings, stores, At, EnrolledInv,
      PolicyPending, Overtaken, Active, Exists
<1> QED
  BY <1>1, <1>2, <1>3, <1>4, <1>5, <1>6, <1>7, <1>8, <1>9, <1>10, <1>11, <1>12, <1>13,
      <1>14, <1>15, <1>16, <1>17, <1>18, <1>19, StepCases DEF Step

(* A request that ends signs nobody in. *)
LEMMA EndsSigningIn ==
    ASSUME NEW r \in Requests, Ended(r)
    PROVE  \A u : SigningIn(u)' => SigningIn(u)
<1>1. /\ \A q \in Requests \ {r} : req'[q] = req[q]
      /\ req'[r].pc = "idle"
  BY DEF Ended, Now
<1>2. "idle" \notin SignInSteps
  BY DEF SignInSteps
<1> QED
  BY <1>1, <1>2 DEF SigningIn

(* A step keeps deleted accounts signed out. *)
LEMMA DeletedStep ==
    ASSUME WellFormed, DeletedInv, [Next]_vars
    PROVE  DeletedInv'
<1>1. ASSUME NEW r \in Requests, Looked(r) PROVE DeletedInv'
  BY SMTT(30), ZenonT(30), <1>1 DEF Looked, Quiet, history, DeletedInv, SigningIn, SignInSteps, RequestOK
<1>2. ASSUME NEW r \in Requests, Created(r) PROVE DeletedInv'
  BY <1>2, AccountsAssumption DEF Created, Now, At, DeletedInv, SigningIn, SignInSteps,
      WellFormed, TypeOK, RequestsOK, RequestOK, UsersFirst, Exists, Rows, NewRow, NoRow
<1>3. ASSUME NEW r \in Requests, Consumed(r) PROVE DeletedInv'
  BY <1>3, AccountsAssumption DEF Consumed, Moved, Now, At, DeletedInv, SigningIn,
      SignInSteps
<1>4. ASSUME NEW r \in Requests, Counted(r) PROVE DeletedInv'
  BY SMTT(30), <1>4, AccountsAssumption DEF Counted, Moved, Now, At, DeletedInv, SigningIn,
      SignInSteps
<1>5. ASSUME NEW r \in Requests, Removed(r) PROVE DeletedInv'
  <2> DEFINE t == req[r].user
  <2>1. /\ t \in Users /\ Ended(r)
        /\ user' = [user EXCEPT ![t] = Deleted(user[t])] /\ sessions' = sessions \ {t}
        /\ late' = IF SigningIn(t) THEN late \union {t} ELSE late
    BY <1>5 DEF Removed
  <2>2. \A u : SigningIn(u)' => SigningIn(u)
    BY <2>1, EndsSigningIn
  <2>3. user'[t].totp = FALSE /\ \A u \in Users \ {t} : user'[u] = user[u]
    BY <2>1 DEF Deleted, WellFormed, TypeOK
  <2> HIDE DEF t
  <2>4. ASSUME NEW u \in Users, u \notin late', user'[u].deleted
        PROVE  u \notin sessions' /\ ~user'[u].totp /\ ~SigningIn(u)'
    <3>1. CASE u = t
      BY <2>1, <2>2, <2>3, <2>4, <3>1
    <3>2. CASE u # t
      BY <2>1, <2>2, <2>3, <2>4, <3>2 DEF DeletedInv
    <3> QED
      BY <3>1, <3>2
  <2> QED
    BY <2>4 DEF DeletedInv
<1>6. ASSUME NEW r \in Requests, CreateSession(r), Ended(r) PROVE DeletedInv'
  <2>1. SigningIn(req[r].user)
    BY <1>6 DEF CreateSession, At, SigningIn, SignInSteps
  <2>2. \A u : SigningIn(u)' => SigningIn(u)
    BY <1>6, EndsSigningIn
  <2>3. sessions' = sessions \union {req[r].user} /\ user' = user /\ late' = late
    BY <1>6 DEF CreateSession
  <2> QED
    BY <2>1, <2>2, <2>3 DEF DeletedInv
<1>7. ASSUME NEW r \in Requests, RegisterFailure(r), Ended(r) PROVE DeletedInv'
  <2>1. \A u : SigningIn(u)' => SigningIn(u)
    BY <1>7, EndsSigningIn
  <2>2. UNCHANGED <<sessions, user, late>>
    BY <1>7 DEF RegisterFailure
  <2> QED
    BY <2>1, <2>2 DEF DeletedInv
<1>8. ASSUME NEW r \in Requests, DisableUpdate(r), Ended(r) PROVE DeletedInv'
  BY <1>8, AccountsAssumption DEF DisableUpdate, Ended, Now, At, invites, settings, stores,
      DeletedInv, SigningIn, SignInSteps, WellFormed, TypeOK, RequestsOK, RequestOK,
      UsersFirst, Exists, Rows, NewRow, NoRow
<1>9. ASSUME NEW r \in Requests, ConfirmUpdate(r), Moved(r, "confirmed") PROVE DeletedInv'
  BY <1>9, AccountsAssumption DEF ConfirmUpdate, Moved, Now, At, invites, settings, stores,
      DeletedInv, SigningIn, SignInSteps, WellFormed, TypeOK, RequestsOK, RequestOK,
      UsersFirst, Exists, Rows, NewRow, NoRow
<1>10. ASSUME NEW r \in Requests, NEW c \in Challenges, Issue(r, c),
    Ended(r) PROVE DeletedInv'
  BY <1>10, AccountsAssumption DEF Issue, Ended, Now, At, history, invites, settings,
      DeletedInv, SigningIn, SignInSteps
<1>11. ASSUME NEW r \in Requests, NEW role \in {"keep", "member", "admin"},
                  NEW ban \in {"keep", "ban", "unban"}, PatchCommit(r, role, ban),
                      Ended(r) PROVE DeletedInv'
  <2> DEFINE t == req[r].user
             old == user[t]
             row == [role |-> IF role = "keep" THEN old.role ELSE role,
                     banned |-> ban = "ban" \/ (ban = "keep" /\ old.banned),
                     totp |-> old.totp, deleted |-> old.deleted]
  <2>1. t \in Users /\ old \in Rows /\ Exists(t)
    BY <1>11 DEF PatchCommit, At, WellFormed, TypeOK, RequestsOK, RequestOK
  <2>2. user' = [user EXCEPT ![t] = row]
    BY <1>11 DEF PatchCommit
  <2>3. \A u \in Users : user'[u].deleted = user[u].deleted /\ user'[u].totp = user[u].totp
    BY <2>1, <2>2 DEF WellFormed, TypeOK
  <2>4. \A u \in Users : SigningIn(u)' => SigningIn(u)
    BY <1>11 DEF Ended, Now, SigningIn, SignInSteps
  <2> QED
    BY <1>11, <2>3, <2>4 DEF PatchCommit, DeletedInv
<1>12. ASSUME NEW r \in Requests, NEW u \in Users, SetupCreate(r, u),
                  Now(r, "session", u, Nobody, NoUpdate, FALSE) PROVE DeletedInv'
  BY <1>12, AccountsAssumption DEF SetupCreate, Now, At, invites, settings, stores,
      DeletedInv, SigningIn, SignInSteps, WellFormed, TypeOK, RequestsOK, RequestOK,
      UsersFirst, Exists, Rows, NewRow, NoRow
<1>13. ASSUME NEW r \in Requests, CommitSettings(r) PROVE DeletedInv'
  BY <1>13, AccountsAssumption DEF CommitSettings, At, Idle, history, invites, stores,
      DeletedInv, SigningIn, SignInSteps, WellFormed, TypeOK, Reqs
<1>14. ASSUME NEW c \in Challenges, ExpireChallenge(c) PROVE DeletedInv'
  BY <1>14, AccountsAssumption DEF ExpireChallenge, history, invites, settings, DeletedInv,
      SigningIn, SignInSteps
<1>15. ASSUME NEW u \in Users, EnableTOTP(u) PROVE DeletedInv'
  BY <1>15, AccountsAssumption DEF EnableTOTP, history, invites, settings, DeletedInv,
      SigningIn, SignInSteps
<1>16. ASSUME NEW u \in Users, EndSessions(u) PROVE DeletedInv'
  BY <1>16, AccountsAssumption DEF EndSessions, history, invites, settings, stores,
      DeletedInv, SigningIn, SignInSteps
<1>17. CASE CreateInvite
  BY <1>17, AccountsAssumption DEF CreateInvite, history, settings, stores, DeletedInv,
      SigningIn, SignInSteps
<1>18. CASE RevokeInvite
  BY <1>18, AccountsAssumption DEF RevokeInvite, history, settings, stores, DeletedInv,
      SigningIn, SignInSteps
<1>19. CASE UNCHANGED vars
  BY <1>19 DEF vars, data, history, invites, settings, stores, At, DeletedInv, SigningIn,
      SignInSteps
<1> QED
  BY <1>1, <1>2, <1>3, <1>4, <1>5, <1>6, <1>7, <1>8, <1>9, <1>10, <1>11, <1>12, <1>13,
      <1>14, <1>15, <1>16, <1>17, <1>18, <1>19, StepCases DEF Step

-----------------------------------------------------------------------------
(* DeleteAccount and handlePatchUser never take the last administrator     *)
(* away, the named exceptions apart.                                       *)
THEOREM AdministratorAlwaysRemains == Spec => []AdminRemains
<1>1. Init => AdminInv
  <2> SUFFICES ASSUME Init PROVE AdminInv
    OBVIOUS
  <2>1. PICK w \in Workloads :
          user = [u \in Users |->
                    [role |-> IF u \in w.admins THEN "admin"
                              ELSE IF u \in w.members THEN "member" ELSE "none",
                     banned |-> FALSE, totp |-> u \in w.enrolled, deleted |-> FALSE]]
    BY DEF Init
  <2>2. \A u \in Users : ~user[u].deleted
    BY <2>1
  <2>3. ASSUME SomeUser PROVE ActiveAdmins # {}
    <3>1. w.admins # {} /\ w.admins \subseteq Users
      BY <2>1, <2>3, AccountsAssumption DEF SomeUser, Exists
    <3>2. \A u \in w.admins : u \in ActiveAdmins
      BY <2>1, <3>1 DEF ActiveAdmins
    <3> QED
      BY <3>1, <3>2
  <2> QED
    BY <2>2, <2>3 DEF AdminInv
<1>2. WellFormed /\ AdminInv /\ [Next]_vars => AdminInv'
  BY AdminStep
<1>3. AdminInv => AdminRemains
  BY DEF AdminInv, AdminRemains, SomeUser, ActiveAdmins
<1> QED
  BY AccountsWellFormed, <1>1, <1>2, <1>3, PTL DEF Spec

(* The transaction of CreateUserWithInvite keeps an invite's count exact   *)
(* and within max_uses.                                                    *)
THEOREM InviteAlwaysRespected == Spec => []InviteRespected
<1>1. Init => InviteInv
  BY FS_EmptySet, AccountsAssumption DEF Init, InviteInv, InviteRespected
<1>2. WellFormed /\ InviteInv /\ [Next]_vars => InviteInv'
  BY InviteStep
<1>3. InviteInv => InviteRespected
  BY DEF InviteInv
<1> QED
  BY AccountsWellFormed, <1>1, <1>2, <1>3, PTL DEF Spec

(* What PartialAuthStore holds of a challenge agrees with what became of   *)
(* it.                                                                     *)
LEMMA ChallengesKept == Spec => []ChallengeInv
<1>1. Init => ChallengeInv
  BY SMTT(30) DEF Init, ChallengeInv, FewGuesses, At, Idle, Unissued
<1>2. WellFormed /\ ChallengeInv /\ [Next]_vars => ChallengeInv'
  BY ChallengeStep
<1> QED
  BY AccountsWellFormed, <1>1, <1>2, PTL DEF Spec

(* PartialAuthStore.Consume hands a challenge to one request only.         *)
THEOREM OneSessionPerChallengeAlways == Spec => []OneSessionPerChallenge
<1>1. ChallengeInv => OneSessionPerChallenge
  BY DEF ChallengeInv, OneSessionPerChallenge
<1> QED
  BY ChallengesKept, <1>1, PTL

(* PartialAuthStore.RegisterFailure ends a challenge in time.              *)
THEOREM AlwaysFewGuesses == Spec => []FewGuesses
<1>1. ChallengeInv => FewGuesses
  BY DEF ChallengeInv
<1> QED
  BY ChallengesKept, <1>1, PTL

(* require_2fa, once on, holds of every active user it has not missed in a *)
(* named race.                                                             *)
THEOREM EveryoneAlwaysEnrolled == Spec => []EveryoneEnrolled
<1>1. Init => EnrolledInv
  BY DEF Init, EnrolledInv, PolicyPending, At, Idle
<1>2. WellFormed /\ EnrolledInv /\ [Next]_vars => EnrolledInv'
  BY EnrolledStep
<1>3. EnrolledInv => EveryoneEnrolled
  BY DEF EnrolledInv, EveryoneEnrolled
<1> QED
  BY AccountsWellFormed, <1>1, <1>2, <1>3, PTL DEF Spec

(* DeleteAccount ends the sessions for good, except for a sign-in that was *)
(* already under way.                                                      *)
THEOREM DeletedAlwaysSignedOut == Spec => []DeletedSignedOut
<1>1. Init => DeletedInv
  BY DEF Init, DeletedInv
<1>2. WellFormed /\ DeletedInv /\ [Next]_vars => DeletedInv'
  BY DeletedStep
<1>3. WellFormed /\ DeletedInv => DeletedSignedOut
  BY DEF WellFormed, TypeOK, DeletedInv, DeletedSignedOut
<1> QED
  BY AccountsWellFormed, <1>1, <1>2, <1>3, PTL DEF Spec
=============================================================================
