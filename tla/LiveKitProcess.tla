--------------------------- MODULE LiveKitProcess ---------------------------
(***************************************************************************)
(* The supervisor of the LiveKit companion process, ws/livekit_process.go. *)
(* Three parties: runLoop, which starts the child again and again with an  *)
(* exponential backoff; Stop, called once by GracefulStop; and the child   *)
(* itself.  An action is one critical section of p.mu, one look at the     *)
(* context, one channel operation, or one step of the child.  Delays are   *)
(* in seconds and only their values matter: a timer fires at any time.     *)
(***************************************************************************)
EXTENDS Integers

CONSTANTS
    BaseDelay,    \* baseDelay, 3 s
    MaxDelay,     \* maxDelay, 60 s
    MaxRetries    \* maxRetries, 10

ASSUME DelaysAssumption ==
    /\ BaseDelay \in Nat \ {0}
    /\ MaxDelay \in Nat
    /\ BaseDelay <= MaxDelay
    /\ MaxRetries \in Nat \ {0}

VARIABLES
    runLoop,     \* where the loop is
    rapid,       \* its local rapidFailures
    delay,       \* its local delay
    stable,      \* whether the last run took longer than stableAfter
    child,       \* whether a child process is alive
    stopped,     \* p.stopped
    cancelled,   \* whether the context is cancelled
    running,     \* p.cmd and p.runDone are set (they change together)
    loopDone,    \* whether p.loopDone is closed
    stop,        \* where Stop is
    done,        \* Stop's copy of runDone: "nil", "open" or "closed"
    late         \* whether one of Stop's two waits timed out

locals == <<rapid, delay, stable>>
stopVars == <<stopped, cancelled, stop, late>>
supervisorVars == <<runLoop, locals, child, running, loopDone, done, stopVars>>

SupervisorInit ==
    /\ runLoop = "none" /\ rapid = 0 /\ delay = BaseDelay /\ stable = FALSE
    /\ child = FALSE /\ running = FALSE /\ loopDone = FALSE
    /\ stop = "idle" /\ stopped = FALSE /\ cancelled = FALSE
    /\ done = "nil" /\ late = FALSE

-----------------------------------------------------------------------------
(* runLoop *)

Start ==
    /\ runLoop = "none"
    /\ runLoop' = "top"
    /\ UNCHANGED <<locals, child, running, loopDone, done, stopVars>>

Top ==
    /\ runLoop = "top"
    /\ runLoop' = IF cancelled THEN "exit" ELSE "register"
    /\ UNCHANGED <<locals, child, running, loopDone, done, stopVars>>

(* Mutant: a supervisor that trusts the context alone. *)
RegisterUnchecked ==
    /\ runLoop = "register"
    /\ runLoop' = "exec" /\ running' = TRUE
    /\ UNCHANGED <<locals, child, loopDone, done, stopVars>>

Register ==
    /\ runLoop = "register"
    /\ IF stopped
       THEN runLoop' = "exit" /\ UNCHANGED running
       ELSE runLoop' = "exec" /\ running' = TRUE
    /\ UNCHANGED <<locals, child, loopDone, done, stopVars>>

(* cmd.Run refuses to start once its context is cancelled. *)
Exec ==
    /\ runLoop = "exec"
    /\ runLoop' = IF cancelled THEN "returned" ELSE "fork"
    /\ stable' = FALSE
    /\ UNCHANGED <<rapid, delay, child, running, loopDone, done, stopVars>>

(* The binary starts, or the start fails. *)
Fork ==
    /\ runLoop = "fork"
    /\ \/ runLoop' = "run" /\ child' = TRUE
       \/ runLoop' = "returned" /\ UNCHANGED child
    /\ UNCHANGED <<locals, running, loopDone, done, stopVars>>

(* The child exits, by itself or killed through the context.  The Kill of  *)
(* Stop comes after the cancellation and adds nothing to it.               *)
ChildExits ==
    /\ runLoop = "run"
    /\ runLoop' = "returned"
    /\ child' = FALSE
    /\ stable' \in BOOLEAN
    /\ UNCHANGED <<rapid, delay, running, loopDone, done, stopVars>>

RunReturned ==
    /\ runLoop = "returned"
    /\ running' = FALSE
    /\ done' = IF done = "open" THEN "closed" ELSE done
    /\ runLoop' = IF stopped THEN "exit" ELSE "decide"
    /\ UNCHANGED <<locals, child, loopDone, stopVars>>

(* Mutant: a counter that is reset by every run that started at all. *)
DecideForgetful ==
    /\ runLoop = "decide"
    /\ runLoop' = IF cancelled THEN "exit" ELSE "wait"
    /\ rapid' = 0
    /\ UNCHANGED <<delay, stable, child, running, loopDone, done, stopVars>>

Decide ==
    /\ runLoop = "decide"
    /\ rapid' = IF cancelled THEN rapid ELSE IF stable THEN 0 ELSE rapid + 1
    /\ delay' = IF ~cancelled /\ stable THEN BaseDelay ELSE delay
    /\ runLoop' = IF cancelled \/ rapid' >= MaxRetries THEN "exit" ELSE "wait"
    /\ UNCHANGED <<stable, child, running, loopDone, done, stopVars>>

Lesser(a, b) == IF a <= b THEN a ELSE b

(* Mutant: doubled without the cap. *)
WaitOverUncapped ==
    /\ runLoop = "wait"
    /\ runLoop' = "top"
    /\ delay' = 2 * delay
    /\ UNCHANGED <<rapid, stable, child, running, loopDone, done, stopVars>>

WaitOver ==
    /\ runLoop = "wait"
    /\ runLoop' = "top"
    /\ delay' = Lesser(2 * delay, MaxDelay)
    /\ UNCHANGED <<rapid, stable, child, running, loopDone, done, stopVars>>

WaitCancelled ==
    /\ runLoop = "wait" /\ cancelled
    /\ runLoop' = "exit"
    /\ UNCHANGED <<locals, child, running, loopDone, done, stopVars>>

(* The deferred close of loopDone. *)
Exit ==
    /\ runLoop = "exit"
    /\ runLoop' = "done"
    /\ loopDone' = TRUE
    /\ UNCHANGED <<locals, child, running, done, stopVars>>

-----------------------------------------------------------------------------
(* Stop *)

StopBegin ==
    /\ stop = "idle" /\ runLoop # "none"
    /\ stopped' = TRUE
    /\ done' = IF running THEN "open" ELSE "nil"
    /\ stop' = "cancel"
    /\ UNCHANGED <<runLoop, locals, child, running, loopDone, cancelled, late>>

(* Mutant: a Stop that forgets the context. *)
StopCancelForgotten ==
    /\ stop = "cancel"
    /\ stop' = "waitRun"
    /\ UNCHANGED <<runLoop, locals, child, running, loopDone, done, stopped, cancelled, late>>

StopCancel ==
    /\ stop = "cancel"
    /\ cancelled' = TRUE
    /\ stop' = "waitRun"
    /\ UNCHANGED <<runLoop, locals, child, running, loopDone, done, stopped, late>>

StopWaitRun ==
    /\ stop = "waitRun"
    /\ late' = (late \/ done = "open")
    /\ stop' = "waitLoop"
    /\ UNCHANGED <<runLoop, locals, child, running, loopDone, done, stopped, cancelled>>

(* Mutant: waiting for the run only. *)
StopWaitLoopSkipped ==
    /\ stop = "waitLoop"
    /\ stop' = "returned"
    /\ UNCHANGED <<runLoop, locals, child, running, loopDone, done, stopped, cancelled, late>>

StopWaitLoop ==
    /\ stop = "waitLoop"
    /\ late' = (late \/ ~loopDone)
    /\ stop' = "returned"
    /\ UNCHANGED <<runLoop, locals, child, running, loopDone, done, stopped, cancelled>>

LoopStep ==
    \/ Start \/ Top \/ Register \/ Exec \/ Fork \/ RunReturned \/ Decide
    \/ WaitOver \/ WaitCancelled \/ Exit

StopStep == StopCancel \/ StopWaitRun \/ StopWaitLoop

SupervisorNext == LoopStep \/ ChildExits \/ StopBegin \/ StopStep

SupervisorSpec == SupervisorInit /\ [][SupervisorNext]_supervisorVars

(* The goroutines run and the timers fire; a child whose context is        *)
(* cancelled is killed.  A child left alone need not ever exit, and Stop   *)
(* need not ever be called.                                                *)
SupervisorFairSpec ==
    /\ SupervisorSpec
    /\ WF_supervisorVars(LoopStep)
    /\ WF_supervisorVars(StopStep)
    /\ WF_supervisorVars(cancelled /\ ChildExits)

-----------------------------------------------------------------------------
(* Type correctness; the back-off never exceeds its cap. *)
SupervisorTypeOK ==
    /\ runLoop \in {"none", "top", "register", "exec", "fork", "run", "returned",
                 "decide", "wait", "exit", "done"}
    /\ rapid \in 0 .. MaxRetries
    /\ delay \in BaseDelay .. MaxDelay
    /\ stable \in BOOLEAN /\ child \in BOOLEAN /\ running \in BOOLEAN
    /\ loopDone \in BOOLEAN /\ stopped \in BOOLEAN /\ cancelled \in BOOLEAN
    /\ late \in BOOLEAN
    /\ stop \in {"idle", "cancel", "waitRun", "waitLoop", "returned"}
    /\ done \in {"nil", "open", "closed"}

(* When Stop returns and neither of its five-second waits ran out, the     *)
(* child is dead and runLoop has ended for good ("ensuring no new          *)
(* iteration can start after Stop returns"), wherever the loop was when    *)
(* Stop was called.                                                        *)
StopIsFinal ==
    stop = "returned" /\ ~late => ~child /\ ~running /\ runLoop = "done"

(* Once Stop has set p.stopped no further iteration takes a command, even  *)
(* between that and the cancellation and even when a wait of Stop ran out. *)
NoIterationAfterStop ==
    [][stopped => ~(runLoop # "exec" /\ runLoop' = "exec")]_supervisorVars

(* A Stop that was called ends the loop and the child sooner or later.     *)
StopEnds ==
    stopped ~> (runLoop = "done" /\ ~child /\ stop = "returned")

(* A binary that cannot run is not restarted for ever: unless runs keep    *)
(* being stable, the loop ends or one child stays up.                      *)
RestartsEnd ==
    []<>stable \/ <>[](runLoop = "done") \/ <>[]child
=============================================================================
