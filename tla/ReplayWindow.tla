---------------------------- MODULE ReplayWindow ----------------------------
(***************************************************************************)
(* What the hub promises about replay: the last Size broadcasts, oldest    *)
(* first, each stamped with the next sequence number, and an answer to     *)
(* "what did I miss after number n".  There is no array and no index here; *)
(* EventRingBuffer is the circular array that implements this.             *)
(***************************************************************************)
EXTENDS Integers, Sequences

CONSTANTS Data,    \* the payloads that are broadcast
          Size,    \* the capacity of the buffer (1000 in NewHub)
          MaxSeq   \* bound on the broadcasts of one server run

VARIABLES seq,     \* the number of the last broadcast; 0 before the first
          recent,  \* the retained events, oldest first
          reply    \* the last question and its answer

vars == <<seq, recent, reply>>

Event == [seq : Nat, data : Data]

(* The question nobody has asked yet. *)
NoReply == [after |-> 0, upTo |-> 0, events |-> <<>>]

(* The newest Size elements of s, which has at most one too many. *)
Retain(s) == IF Len(s) > Size THEN Tail(s) ELSE s

(* The retained events after number n, or nothing at all if an event after *)
(* n may already have been dropped.  Event n is at n - Head(recent).seq + 1.*)
Since(n) ==
  IF recent = <<>> THEN <<>>
  ELSE IF n < Head(recent).seq THEN <<>>
  ELSE SubSeq(recent, n - Head(recent).seq + 2, Len(recent))

Init == /\ seq = 0
        /\ recent = <<>>
        /\ reply = NoReply

Push(d) ==
  /\ seq < MaxSeq
  /\ seq' = seq + 1
  /\ recent' = Retain(Append(recent, [seq |-> seq + 1, data |-> d]))
  /\ UNCHANGED reply

Ask(n) ==
  /\ reply' = [after |-> n, upTo |-> seq, events |-> Since(n)]
  /\ UNCHANGED <<seq, recent>>

(* A restarted server has an empty buffer and numbers from 1 again. *)
Restart ==
  /\ seq' = 0
  /\ recent' = <<>>
  /\ UNCHANGED reply

Next == \/ \E d \in Data : Push(d)
        \/ \E n \in 1..MaxSeq : Ask(n)
        \/ Restart

Spec == Init /\ [][Next]_vars
=============================================================================
