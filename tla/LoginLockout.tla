---------------------------- MODULE LoginLockout ---------------------------
(***************************************************************************)
(* How handleLogin, and handleDeleteAccount in the same way, use the rate  *)
(* limiter (api/auth_handler.go): a lock key is asked first, the password  *)
(* is checked, a failure is counted under another key, and one failure too *)
(* many sets the lock.  Each of these is a critical section of its own and *)
(* requests from one address run concurrently.  Beside them, slow mode     *)
(* uses the same limiter (ws/handlers_chat.go).                            *)
(***************************************************************************)
EXTENDS RateLimiter

CONSTANTS Requests,          \* request handlers of one address
          failKey, lockKey, slowKey

ASSUME KeysAssumption ==
  /\ {failKey, lockKey, slowKey} \subseteq Keys
  /\ failKey # lockKey /\ failKey # slowKey /\ lockKey # slowKey
  /\ \E p \in Policies[failKey] : Policies[failKey] = {p} /\ p.window <= MaxWindow
  /\ IsFiniteSet(Requests)

VARIABLES pc,      \* where each handler is
          failures \* history: the failed checks since a success: when, by
                   \* which handler, if it was counted, how many were so far

loginVars == <<vars, pc, failures>>

(* Failures counted before the lock (9 for a login, 3 for a deletion), and *)
(* the window, which is the duration of the lock as well.                  *)
FailPolicy == CHOOSE p \in Policies[failKey] : TRUE

LoginInit ==
  /\ Init
  /\ pc = [r \in Requests |-> "start"]
  /\ failures = <<>>

Goto(r, from, to) == pc[r] = from /\ pc' = [pc EXCEPT ![r] = to]

(* A locked address is turned away. *)
CheckLock(r) ==
  /\ IsLockedOut(lockKey)
  /\ Goto(r, "start", IF LockedOut(lockKey) THEN "start" ELSE "password")
  /\ UNCHANGED failures

Failed(r, result, grants) ==
  failures' = Append(failures, [at |-> now, by |-> r, result |-> result, grants |-> grants])

(* The password is wrong: the failure is counted, or there have been too   *)
(* many.                                                                   *)
CheckFails(r) ==
  \/ /\ Grant(failKey, FailPolicy) /\ Goto(r, "password", "start")
     /\ Failed(r, "counted", Len(granted[failKey]) + 1)
  \/ /\ Refuse(failKey, FailPolicy) /\ Goto(r, "password", "lock")
     /\ Failed(r, "refused", Len(granted[failKey]))

(* The database does not answer: nothing is counted. *)
CheckErrs(r) ==
  /\ Goto(r, "password", "start")
  /\ UNCHANGED <<vars, failures>>

(* Mutant: the lock is set on the key that counts the failures. *)
SetLockOnFailKey(r) ==
  /\ Lockout(failKey, FailPolicy.window)
  /\ Goto(r, "lock", "start")
  /\ UNCHANGED failures

SetLock(r) ==
  /\ Lockout(lockKey, FailPolicy.window)
  /\ Goto(r, "lock", "start")
  /\ UNCHANGED failures

CheckSucceeds(r) ==
  /\ Reset(failKey)
  /\ Goto(r, "password", "start")
  /\ failures' = <<>>

(* A message to a channel in slow mode; an administrator changes the       *)
(* channel's interval at any time.                                         *)
SlowMode ==
  /\ \E p \in Policies[slowKey] : Grant(slowKey, p) \/ Refuse(slowKey, p)
  /\ UNCHANGED <<pc, failures>>

LoginNext ==
  \/ \E r \in Requests : \/ CheckLock(r) \/ CheckFails(r) \/ CheckErrs(r)
                         \/ SetLock(r) \/ CheckSucceeds(r)
  \/ SlowMode
  \/ (Cleanup \/ Tick) /\ UNCHANGED <<pc, failures>>

LoginSpec == LoginInit /\ [][LoginNext]_loginVars
-----------------------------------------------------------------------------
(* "lockout on the 10th failure" (auth_handler.go:326): within a window no *)
(* more passwords are tried than the limit and one more, except that each  *)
(* further request already past the lock check when the lock is set may    *)
(* still try one.                                                          *)
FailuresBounded ==
  LET most == FailPolicy.limit + Cardinality(Requests)
  IN  \A i \in 1..(Len(failures) - most) :
        failures[i + most].at - failures[i].at >= FailPolicy.window
=============================================================================
