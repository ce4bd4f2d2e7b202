------------------------------ MODULE Uploads -------------------------------
(***************************************************************************)
(* Files and the rows that describe them.  handleUpload stores a file and  *)
(* then inserts an unlinked row; handleChatSend creates a message and then *)
(* links rows to it; the maintenance loop of main.go selects unlinked old  *)
(* rows, deletes them and then removes their files; deleting a channel     *)
(* takes its messages and their rows along.  Each statement and each file  *)
(* operation is a step of its own, so the three may overlap anywhere.      *)
(* Names are fresh UUIDs: each stands for one upload.  Time is in hours.   *)
(***************************************************************************)
EXTENDS Integers

CONSTANTS
    Files,         \* UUIDs of uploads
    MaxMessages,   \* bound on the messages with attachments
    DayLength,     \* hours of a day
    Breaker,       \* maxConsecutiveFailures
    MaxTime,       \* bound on the clock
    MaxErrors      \* bound on failing operations

ASSUME UploadsAssumption ==
    /\ MaxMessages \in Nat
    /\ DayLength \in Nat \ {0}
    /\ Breaker \in Nat \ {0}
    /\ MaxTime \in Nat
    /\ MaxErrors \in Nat

VARIABLES
    now,        \* the clock
    up,         \* where handleUpload is with each file
    disk,       \* the files in the storage directory
    row,        \* message_id of each row, or Null, or NoRow
    at,         \* uploaded_at of each row
    msg,        \* the messages, by id, and where handleChatSend is with them
    want,       \* the attachments a message not yet linked asks for
    loop,       \* where the maintenance loop is
    cutoff,     \* its cutoff
    picked,     \* the files its SELECT returned
    failed,     \* tickFailed
    failures,   \* consecutiveFailures
    errors,     \* number of operations that have failed
    torn        \* history: rows linked between the SELECT and the DELETE

uploads == <<up, at>>
sends == <<msg, want>>
maintenance == <<loop, cutoff, picked, failed, failures>>
uploadsVars == <<now, uploads, disk, row, sends, maintenance, errors, torn>>

Messages == 1 .. MaxMessages
Null == 0
NoRow == -1

UploadsInit ==
    /\ now = 0
    /\ up = [f \in Files |-> "new"] /\ at = [f \in Files |-> 0]
    /\ disk = {} /\ row = [f \in Files |-> NoRow]
    /\ msg = [m \in Messages |-> "none"] /\ want = [m \in Messages |-> {}]
    /\ loop = "wait" /\ cutoff = 0 /\ picked = {} /\ failed = FALSE /\ failures = 0
    /\ errors = 0 /\ torn = {}

Fail == errors < MaxErrors /\ errors' = errors + 1

-----------------------------------------------------------------------------
(* handleUpload *)

(* Storage.Save; a copy that breaks off leaves what it has written. *)
Save(f) ==
    /\ up[f] = "new"
    /\ disk' = disk \union {f}
    /\ \/ up' = [up EXCEPT ![f] = "saved"] /\ UNCHANGED errors
       \/ up' = [up EXCEPT ![f] = "done"] /\ Fail
    /\ UNCHANGED <<now, at, row, sends, maintenance, torn>>

CreateAttachment(f) ==
    /\ up[f] = "saved"
    /\ up' = [up EXCEPT ![f] = "done"]
    /\ \/ /\ row' = [row EXCEPT ![f] = Null]
          /\ at' = [at EXCEPT ![f] = now]
          /\ UNCHANGED <<disk, errors>>
       \/ /\ Fail
          /\ disk' = disk \ {f}
          /\ UNCHANGED <<row, at>>
    /\ UNCHANGED <<now, sends, maintenance, torn>>

-----------------------------------------------------------------------------
(* handleChatSend, for a message with attachments *)

CreateMessage(m, fs) ==
    /\ msg[m] = "none" /\ \A n \in Messages : n < m => msg[n] # "none"
    /\ fs # {} /\ \A f \in fs : up[f] = "done"
    /\ msg' = [msg EXCEPT ![m] = "created"]
    /\ want' = [want EXCEPT ![m] = fs]
    /\ UNCHANGED <<now, uploads, disk, row, maintenance, errors, torn>>

(* Mutant: a link that takes rows from other messages. *)
LinkAnyAttachments(m) ==
    /\ msg[m] = "created"
    /\ LET linked == {f \in want[m] : row[f] # NoRow} IN
       /\ row' = [f \in Files |-> IF f \in linked THEN m ELSE row[f]]
       /\ torn' = IF loop = "delete" THEN torn \union (linked \intersect picked) ELSE torn
    /\ msg' = [msg EXCEPT ![m] = "sent"]
    /\ want' = [want EXCEPT ![m] = {}]
    /\ UNCHANGED <<now, uploads, disk, maintenance, errors>>

(* The rows that are still unlinked get the message, and it goes out even  *)
(* if there are none left.  An error of the statement leads to the clean-up. *)
LinkAttachmentsToMessage(m) ==
    /\ msg[m] = "created"
    /\ \/ /\ LET linked == {f \in want[m] : row[f] = Null} IN
             /\ row' = [f \in Files |-> IF f \in linked THEN m ELSE row[f]]
             /\ torn' = IF loop = "delete"
                        THEN torn \union (linked \intersect picked) ELSE torn
          /\ msg' = [msg EXCEPT ![m] = "sent"]
          /\ UNCHANGED errors
       \/ /\ Fail
          /\ msg' = [msg EXCEPT ![m] = "unlinked"]
          /\ UNCHANGED <<row, torn>>
    /\ want' = [want EXCEPT ![m] = {}]
    /\ UNCHANGED <<now, uploads, disk, maintenance>>

(* The soft delete after an error of the link, itself best effort. *)
DeleteUnlinked(m) ==
    /\ msg[m] = "unlinked"
    /\ \/ msg' = [msg EXCEPT ![m] = "deleted"] /\ UNCHANGED errors
       \/ msg' = [msg EXCEPT ![m] = "kept"] /\ Fail
    /\ UNCHANGED <<now, uploads, disk, row, want, maintenance, torn>>

(* AdminDeleteChannel: the rows of its messages go too, their files stay.  *)
(* A handler that is still about to link meets the foreign key and finds   *)
(* nothing to clean up.                                                    *)
DeleteChannel ==
    /\ \E m \in Messages : msg[m] \notin {"none", "gone"}
    /\ msg' = [m \in Messages |-> IF msg[m] = "none" THEN "none" ELSE "gone"]
    /\ row' = [f \in Files |-> IF row[f] \in Messages THEN NoRow ELSE row[f]]
    /\ want' = [m \in Messages |-> {}]
    /\ UNCHANGED <<now, uploads, disk, maintenance, errors, torn>>

-----------------------------------------------------------------------------
(* The maintenance loop *)

Day(t) == t \div DayLength

(* uploaded_at < cutoff compares "2026-01-31 10:00:00" with                *)
(* "2026-01-31T09:00:00Z" as strings: on the same day the blank, being     *)
(* less than "T", decides.                                                 *)
Older(f) == Day(at[f]) <= Day(cutoff)

Orphans == {f \in Files : row[f] = Null /\ Older(f)}

(* Orphans that forget about the links. *)
AllOld == {f \in Files : row[f] # NoRow /\ Older(f)}

(* Mutant: a breaker that stays open. *)
TickStuck ==
    /\ loop = "wait" /\ failures < Breaker
    /\ failed' \in BOOLEAN /\ (IF failed' THEN Fail ELSE UNCHANGED errors)
    /\ loop' = "select" /\ cutoff' = now - 1
    /\ UNCHANGED <<now, uploads, disk, row, sends, picked, failures, torn>>

(* The circuit breaker, or DeleteExpiredSessions and the cutoff. *)
Tick ==
    /\ loop = "wait"
    /\ IF failures >= Breaker
       THEN /\ failures' = Breaker - 1
            /\ UNCHANGED <<loop, cutoff, failed, errors>>
       ELSE /\ failed' \in BOOLEAN /\ (IF failed' THEN Fail ELSE UNCHANGED errors)
            /\ loop' = "select" /\ cutoff' = now - 1
            /\ UNCHANGED failures
    /\ UNCHANGED <<now, uploads, disk, row, sends, picked, torn>>

(* Mutant: a good tick that takes back one failure only. *)
FinishDecrement(bad) ==
    /\ loop' = "wait" /\ failed' = FALSE
    /\ failures' = IF bad THEN failures + 1 ELSE failures - 1

(* The end of a tick. *)
Finish(bad) ==
    /\ loop' = "wait" /\ failed' = FALSE
    /\ failures' = IF bad THEN failures + 1 ELSE 0

(* Mutant: rows that belong to a message are taken as well. *)
SelectOrphansAll ==
    /\ loop = "select"
    /\ picked' = AllOld /\ UNCHANGED <<failures, failed, errors>>
    /\ loop' = IF AllOld = {} THEN "wait" ELSE "delete"
    /\ UNCHANGED <<now, uploads, disk, row, sends, cutoff, torn>>

SelectOrphans ==
    /\ loop = "select"
    /\ \/ Orphans = {} /\ Finish(failed) /\ UNCHANGED <<picked, errors>>
       \/ /\ Orphans # {}
          /\ picked' = Orphans /\ loop' = "delete"
          /\ UNCHANGED <<failed, failures, errors>>
       \/ Fail /\ Finish(TRUE) /\ UNCHANGED picked
    /\ UNCHANGED <<now, uploads, disk, row, sends, cutoff, torn>>

DeleteOrphans ==
    /\ loop = "delete"
    /\ \/ /\ row' = [f \in Files |-> IF f \in Orphans THEN NoRow ELSE row[f]]
          /\ loop' = "remove"
          /\ UNCHANGED <<failed, failures, picked, errors>>
       \/ Fail /\ Finish(TRUE) /\ picked' = {} /\ UNCHANGED row
    /\ UNCHANGED <<now, uploads, disk, sends, cutoff, torn>>

(* The files go one after the other; one that cannot be removed stays. *)
RemoveFiles ==
    /\ loop = "remove"
    /\ \/ disk' = disk \ picked /\ UNCHANGED errors
       \/ \E f \in picked : Fail /\ disk' = disk \ (picked \ {f})
    /\ picked' = {} /\ Finish(failed)
    /\ UNCHANGED <<now, uploads, row, sends, cutoff, torn>>

PassTime ==
    /\ now < MaxTime
    /\ now' = now + 1
    /\ UNCHANGED <<uploads, disk, row, sends, maintenance, errors, torn>>

Maintain == Tick \/ SelectOrphans \/ DeleteOrphans \/ RemoveFiles

UploadsNext ==
    \/ \E f \in Files : Save(f) \/ CreateAttachment(f)
    \/ \E m \in Messages :
         \/ \E fs \in SUBSET Files : CreateMessage(m, fs)
         \/ LinkAttachmentsToMessage(m)
         \/ DeleteUnlinked(m)
    \/ DeleteChannel \/ Maintain \/ PassTime

UploadsSpec == UploadsInit /\ [][UploadsNext]_uploadsVars

(* The ticker ticks and the maintenance goroutine runs. *)
UploadsFairSpec == UploadsSpec /\ WF_uploadsVars(Maintain)

-----------------------------------------------------------------------------
(* Type correctness; the failure count stays within its limit. *)
UploadsTypeOK ==
    /\ now \in 0 .. MaxTime
    /\ up \in [Files -> {"new", "saved", "done"}] /\ at \in [Files -> 0 .. MaxTime]
    /\ disk \subseteq Files /\ torn \subseteq Files
    /\ row \in [Files -> {NoRow, Null} \union Messages]
    /\ msg \in [Messages -> {"none", "created", "unlinked", "sent", "kept",
                          "deleted", "gone"}]
    /\ want \in [Messages -> SUBSET Files]
    /\ loop \in {"wait", "select", "delete", "remove"}
    /\ cutoff \in -1 .. MaxTime /\ picked \subseteq Files
    /\ failed \in BOOLEAN /\ failures \in 0 .. Breaker
    /\ errors \in 0 .. MaxErrors

(* An attachment of a message can be opened by handleServeFile: its file   *)
(* is on disk, whatever the maintenance loop does meanwhile.  The one      *)
(* exception is a link that falls between the loop's SELECT and its        *)
(* DELETE: the row survives, its file does not.                            *)
LinkedHasFile == \A f \in Files : row[f] \in Messages => f \in disk \union torn

(* "Uses WHERE message_id IS NULL to prevent double-linking in a race": an *)
(* attachment never moves from one message to another.                     *)
LinkedOnce ==
    [][\A f \in Files : row[f] \in Messages => row'[f] \in {row[f], NoRow}]_uploadsVars

(* An upload nobody attaches is cleaned up in the end, in spite of the     *)
(* circuit breaker, once failures cease.                                   *)
OrphansRemoved ==
    \A f \in Files : (row[f] = Null /\ at[f] < now) ~> row[f] # Null

(* attachment_queries.go:121: "uploaded_at is older than the given cutoff  *)
(* time": no younger row is removed while it is unlinked.                  *)
OnlyOldRemoved ==
    [][\A f \in Files : row[f] = Null /\ row'[f] = NoRow => at[f] <= cutoff]_uploadsVars
=============================================================================
