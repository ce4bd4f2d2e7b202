--------------------------- MODULE EventRingBuffer ---------------------------
(***************************************************************************)
(* The circular array behind reconnection replay (ws/ringbuffer.go),       *)
(* filled by the hub's single dispatch goroutine, which takes a sequence   *)
(* number and pushes the stamped message (ws/hub.go, deliverBroadcast),    *)
(* and read by any connection that is coming back (ws/serve.go).  Push and *)
(* EventsSince hold the buffer's lock, so each is one step.                *)
(***************************************************************************)
EXTENDS Integers, Sequences, FiniteSets

CONSTANTS Data, Size, MaxSeq

ASSUME SizeAssumption == Size \in Nat \ {0}
ASSUME MaxSeqAssumption == MaxSeq \in Nat

VARIABLES entries,  \* the array: index 0..Size-1
          pos,      \* where the next entry is written
          count,    \* how many entries are live
          seq,      \* Hub.seq, the last number handed out
          reply     \* the last EventsSince call: argument, Hub.seq then, result

ringVars == <<entries, pos, count, seq, reply>>

(* The zero value of a Go eventEntry. *)
CONSTANT NoData
ZeroEntry == [seq |-> 0, data |-> NoData]

eventEntry == [seq : Nat, data : Data \cup {NoData}]

NewEventRingBuffer ==
  /\ entries = [i \in 0..(Size - 1) |-> ZeroEntry]
  /\ pos = 0
  /\ count = 0

(* Mutant: reading starts at the slot that is written next. *)
oldestIdxAtPos == pos

oldestIdx == (pos - count + Size) % Size

(* The live entries in the order the loop of EventsSince visits them. *)
LiveEntries == [i \in 1..count |-> entries[(oldestIdx + i - 1) % Size]]

(* The k-th smallest element of a set of numbers. *)
Nth(S, k) == CHOOSE i \in S : Cardinality({j \in S : j <= i}) = k

(* The live entries numbered above n, in the order of the loop.  *)
Above(n) == {i \in 1..count : LiveEntries[i].seq > n}
After(n) == [k \in 1..Cardinality(Above(n)) |-> LiveEntries[Nth(Above(n), k)]]

(* Mutant: the test for a last_seq that is too old is missing. *)
EventsSinceUnchecked(afterSeq) == After(afterSeq)

(* Mutant: the event the client already has is sent again. *)
EventsSinceInclusive(afterSeq) ==
  IF count = 0 THEN <<>>
  ELSE IF afterSeq < entries[oldestIdx].seq THEN <<>>
  ELSE After(afterSeq - 1)

(* A nil slice and an empty one are both <<>>: the loop allocates nothing  *)
(* until it finds an entry, so the caller's "events != nil" is # <<>>.     *)
EventsSince(afterSeq) ==
  IF count = 0 THEN <<>>
  ELSE IF afterSeq < entries[oldestIdx].seq THEN <<>>
  ELSE After(afterSeq)

OldestSeq == IF count = 0 THEN 0 ELSE entries[oldestIdx].seq

RingInit ==
  /\ NewEventRingBuffer
  /\ seq = 0
  /\ reply = [after |-> 0, upTo |-> 0, events |-> <<>>]

Push(d) ==
  /\ seq < MaxSeq
  /\ seq' = seq + 1                                    \* nextSeq
  /\ entries' = [entries EXCEPT ![pos] = [seq |-> seq', data |-> d]]
  /\ pos' = (pos + 1) % Size
  /\ count' = IF count < Size THEN count + 1 ELSE count
  /\ UNCHANGED reply

(* A reconnecting client's last_seq; ServeWS asks only when it is > 0. *)
Ask(lastSeq) ==
  /\ lastSeq > 0
  /\ reply' = [after |-> lastSeq, upTo |-> seq, events |-> EventsSince(lastSeq)]
  /\ UNCHANGED <<entries, pos, count, seq>>

(* A new process: NewHub builds an empty buffer and Hub.seq is zero. *)
NewHub ==
  /\ entries' = [i \in 0..(Size - 1) |-> ZeroEntry]
  /\ pos' = 0
  /\ count' = 0
  /\ seq' = 0
  /\ UNCHANGED reply

RingNext ==
  \/ \E d \in Data : Push(d)
  \/ \E n \in 1..MaxSeq : Ask(n)
  \/ NewHub

RingSpec == RingInit /\ [][RingNext]_ringVars
-----------------------------------------------------------------------------
(* Type correctness: pos is always an index of the array, and count never  *)
(* exceeds its length.                                                     *)
RingTypeOK ==
  /\ entries \in [0..(Size - 1) -> eventEntry]
  /\ pos \in 0..(Size - 1)
  /\ count \in 0..Size
  /\ seq \in Nat

(* However often Push has wrapped around, the live entries read from       *)
(* oldestIdx are the last min(seq, Size) broadcasts, in order and without  *)
(* a hole.                                                                 *)
RingHoldsTail ==
  /\ count = IF seq < Size THEN seq ELSE Size
  /\ \A i \in 1..count : LiveEntries[i].seq = seq - count + i

(* EventsSince answers all or nothing: a replay a client receives is       *)
(* exactly the events after its last_seq up to the newest, none missing,   *)
(* none twice, none out of order.                                          *)
ReplyExact ==
  reply.events # <<>> =>
    /\ Len(reply.events) = reply.upTo - reply.after
    /\ \A i \in 1..Len(reply.events) : reply.events[i].seq = reply.after + i

(* The circular array implements the sliding window of the last Size       *)
(* broadcasts, and answers every EventsSince as the window does.           *)
W == INSTANCE ReplayWindow WITH recent <- LiveEntries
ImplementsReplayWindow == W!Spec
=============================================================================
