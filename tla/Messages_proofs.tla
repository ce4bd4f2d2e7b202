-------------------------- MODULE Messages_proofs --------------------------
(***************************************************************************)
(* Proofs, for any users, connections and messages, that viewers show what *)
(* the database holds, that what was read stays read, and that a closed DM *)
(* comes back with the next message.                                       *)
(***************************************************************************)
EXTENDS Messages, TLAPS

(* The handlers with an event of the message in hand. *)
Busy(h, m, ops) == job[h].msg = m /\ job[h].op \in ops
MsgOps == {"send", "edit", "delete"} \union Reacts

(* What a handler has in hand is stored; a message is announced and edited *)
(* by its author, and once deleted stays so.                               *)
JobOK(h) ==
  /\ job[h].op = "idle" => job[h] = Idle
  /\ job[h].op # "idle" => job[h].msg \in DOMAIN rows
  /\ job[h].op \in {"send", "reopen", "edit"} => rows[job[h].msg].by = UserOf[h]
  /\ job[h].op \in {"send", "edit"} => job[h].text \in Texts
  /\ job[h].op = "delete" => rows[job[h].msg].deleted

(* Nothing is shown of a message that is not stored yet. *)
NothingEarly ==
  /\ \A m \in Ids \ DOMAIN rows : view[m] = None
  /\ viewReactions \subseteq (DOMAIN rows) \X Users

(* Nothing has happened to a message that is being announced. *)
SendOK(m) ==
  \A h \in Handlers : Busy(h, m, {"send"}) =>
    /\ rows[m].text = job[h].text /\ ~rows[m].deleted /\ view[m] = None
    /\ \A g \in Handlers \ {h} : ~Busy(g, m, MsgOps)
    /\ \A u \in Users : <<m, u>> \notin reactions /\ <<m, u>> \notin viewReactions

(* A kept message is shown with its last text, or the author is about to   *)
(* announce just that text; a deleted one is about to disappear.           *)
TextOK(m) ==
  /\ ~rows[m].deleted /\ ~Pending(m, {"send"}) =>
       view[m] # None /\ (view[m] = rows[m].text \/ Pending(m, {"edit"}))
  /\ rows[m].deleted => view[m] = None \/ Pending(m, {"delete"})
  /\ \A h \in Handlers : Busy(h, m, {"edit"}) =>
       /\ job[h].text = rows[m].text
       /\ \A g \in Handlers \ {h} : ~Busy(g, m, {"edit"})

(* A reaction is shown if it is stored, or its user is about to announce   *)
(* the difference, on one connection.                                      *)
ReactionOK(m, u) ==
  /\ ~rows[m].deleted /\ ~Pending(m, {"send"})
       /\ (\A h \in Handlers : UserOf[h] = u => ~Busy(h, m, Reacts)) =>
         (<<m, u>> \in viewReactions <=> <<m, u>> \in reactions)
  /\ \A h \in Handlers : UserOf[h] = u =>
       /\ Busy(h, m, {"react"}) => <<m, u>> \in reactions
       /\ Busy(h, m, {"unreact"}) => <<m, u>> \notin reactions
       /\ Busy(h, m, Reacts) =>
            \A g \in Handlers \ {h} : UserOf[g] = u => ~Busy(g, m, Reacts)

Shown(m) == SendOK(m) /\ TextOK(m) /\ \A u \in Users : ReactionOK(m, u)

AllShown == \A m \in DOMAIN rows \ raced : Shown(m)

(* A focus handler in between holds the newest of the messages its user    *)
(* has been marked at that are still visible.                              *)
FocusOK(h) ==
  job[h].op = "focus" /\ UserOf[h] \notin refocused =>
    /\ \A m \in Visible : m <= seen[UserOf[h]] => m <= job[h].msg
    /\ \A g \in Handlers \ {h} : UserOf[g] = UserOf[h] => job[g].op # "focus"

SeenStored == \A u \in Users : seen[u] <= Len(rows)

IInv == /\ TypeOK /\ (\A h \in Handlers : JobOK(h)) /\ NothingEarly /\ AllShown
        /\ (\A h \in Handlers : FocusOK(h)) /\ SeenStored /\ ReadStaysRead /\ DMReopened
-----------------------------------------------------------------------------
Row == [by : Users, text : Texts, deleted : BOOLEAN]
Ops == {"idle", "send", "reopen", "edit", "delete", "focus"} \union Reacts
Job == [op : Ops, msg : 0 .. MaxMessages, text : Texts \union {None}]

(* The parts of TypeOK that every step needs. *)
LEMMA TypeFacts ==
  ASSUME TypeOK
  PROVE  /\ rows \in Seq(Row) /\ Len(rows) \in Nat /\ DOMAIN rows = 1..Len(rows)
         /\ Len(rows) <= MaxMessages /\ DOMAIN rows \subseteq Ids /\ MaxMessages \in Nat
         /\ \A m \in DOMAIN rows : rows[m] \in Row /\ rows[m].by \in Users /\ rows[m].text \in Texts
         /\ \A h \in Handlers : UserOf[h] \in Users
         /\ None \notin Texts
         /\ job \in [Handlers -> Job]
<1>1. rows \in Seq(Row) /\ Len(rows) <= MaxMessages /\ job \in [Handlers -> Job]
  BY DEF TypeOK, Row, Job, Ops
<1>2. MaxMessages \in Nat /\ None \notin Texts /\ UserOf \in [Handlers -> Users]
  BY MessagesAssumption DEF None
<1>3. Len(rows) \in Nat /\ DOMAIN rows = 1..Len(rows) /\ \A m \in DOMAIN rows : rows[m] \in Row
  BY <1>1
<1> QED BY <1>1, <1>2, <1>3 DEF Row, Ids

(* The database, and what is shown and remembered of it, apart. *)
DatabaseTyped ==
  /\ rows \in Seq(Row) /\ Len(rows) <= MaxMessages
  /\ reactions \subseteq (DOMAIN rows) \X Users
  /\ lastRead \in [Users -> 0 .. Len(rows)]
ShownTyped == view \in [Ids -> Texts \union {None}] /\ viewReactions \subseteq Ids \X Users
RestTyped ==
  /\ load \in Workloads /\ open \subseteq Users
  /\ raced \subseteq Ids /\ refocused \subseteq Users
  /\ seen \in [Users -> 0 .. MaxMessages] /\ closedAt \in [Users -> 0 .. MaxMessages]

JobsTyped == job \in [Handlers -> Job]

(* TypeOK in its parts. *)
LEMMA TypeParts ==
  TypeOK <=> DatabaseTyped /\ ShownTyped /\ RestTyped /\ JobsTyped
<1>1. Job = [op : {"idle", "send", "reopen", "edit", "delete", "focus"} \union Reacts,
             msg : 0 .. MaxMessages, text : Texts \union {None}]
  BY DEF Job, Ops
<1>2. Row = [by : Users, text : Texts, deleted : BOOLEAN]
  BY DEF Row
<1> QED BY <1>1, <1>2, Zenon DEF TypeOK, DatabaseTyped, ShownTyped, RestTyped, JobsTyped

(* The type of the next state, from its parts. *)
LEMMA TypeFromParts ==
  ASSUME DatabaseTyped', ShownTyped', RestTyped', JobsTyped'
  PROVE  TypeOK'
  BY TypeParts, PTL

(* An idle handler takes up a request. *)
LEMMA Takes ==
  ASSUME TypeOK, NEW h \in Handlers, NEW op \in Ops, NEW m \in 0..MaxMessages,
         NEW x \in Texts \union {None}, Do(h, op, m, x)
  PROVE  /\ job'[h].op = op /\ job'[h].msg = m /\ job'[h].text = x
         /\ \A g \in Handlers \ {h} : job'[g] = job[g]
         /\ JobsTyped'
<1>1. [op |-> op, msg |-> m, text |-> x] \in Job
  BY DEF Job
<1> QED BY <1>1, TypeFacts DEF Do, JobsTyped

(* A handler has told the viewers, and takes the next request. *)
LEMMA Finishes ==
  ASSUME TypeOK, NEW h \in Handlers, Done(h)
  PROVE  /\ job'[h] = Idle /\ job'[h].op = "idle" /\ job'[h].msg = 0
         /\ \A g \in Handlers \ {h} : job'[g] = job[g]
         /\ JobsTyped'
<1>1. Idle \in Job
  BY TypeFacts DEF Job, Idle, Ops
<1> QED BY <1>1, TypeFacts DEF Done, Idle, JobsTyped

(* A message that a step does not concern is shown as before. *)
LEMMA Elsewhere ==
  ASSUME NEW m, Shown(m), rows'[m] = rows[m], view'[m] = view[m],
         \A u \in Users : <<m, u>> \in reactions' <=> <<m, u>> \in reactions,
         \A u \in Users : <<m, u>> \in viewReactions' <=> <<m, u>> \in viewReactions,
         \A k \in Handlers : Busy(k, m, MsgOps) \/ Busy(k, m, MsgOps)' => job'[k] = job[k]
  PROVE  Shown(m)'
<1>1. \A k \in Handlers : \A ops \in SUBSET MsgOps : Busy(k, m, ops)' <=> Busy(k, m, ops)
  BY DEF Busy
<1>2. \A ops \in SUBSET MsgOps : Pending(m, ops)' <=> Pending(m, ops)
  BY <1>1 DEF Busy, Pending
<1>3. /\ {"send"} \in SUBSET MsgOps /\ {"edit"} \in SUBSET MsgOps /\ {"delete"} \in SUBSET MsgOps
      /\ {"react"} \in SUBSET MsgOps /\ {"unreact"} \in SUBSET MsgOps
      /\ Reacts \in SUBSET MsgOps /\ MsgOps \in SUBSET MsgOps
  BY DEF MsgOps, Reacts
<1>4. \A k \in Handlers : Busy(k, m, {"send"}) \/ Busy(k, m, {"edit"}) => job'[k] = job[k]
  BY DEF Busy, MsgOps
<1>5. SendOK(m)'
  BY <1>1, <1>3, <1>4 DEF Shown, SendOK
<1>6. TextOK(m)'
  BY <1>1, <1>2, <1>3, <1>4 DEF Shown, TextOK
<1>7. ASSUME NEW u \in Users PROVE ReactionOK(m, u)'
  BY <1>1, <1>2, <1>3 DEF Shown, ReactionOK
<1> QED BY <1>5, <1>6, <1>7 DEF Shown

(* What a handler has in hand stays valid while the others work. *)
LEMMA JobKept ==
  ASSUME NEW k \in Handlers, JobOK(k), job'[k] = job[k], DOMAIN rows \subseteq DOMAIN rows',
         \A m \in DOMAIN rows : /\ rows'[m].by = rows[m].by
                                /\ rows[m].deleted => rows'[m].deleted
  PROVE  JobOK(k)'
  BY DEF JobOK

(* Steps that neither show nor mark anything new to a reader. *)
LEMMA ReadsKept ==
  ASSUME TypeOK, \A h \in Handlers : FocusOK(h), SeenStored, ReadStaysRead,
         Len(rows') \in Nat, Len(rows) <= Len(rows'),
         \A m \in Visible' : m \in Visible \/ m = Len(rows) + 1,
         UNCHANGED <<lastRead, seen, refocused>>,
         \A k \in Handlers : job'[k].op = "focus" => job'[k] = job[k]
  PROVE  (\A h \in Handlers : FocusOK(h)') /\ SeenStored' /\ ReadStaysRead'
<1>1. \A u \in Users : seen[u] \in Nat /\ seen[u] <= Len(rows) /\ ~(Len(rows) + 1 <= seen[u])
  BY TypeFacts DEF TypeOK, SeenStored
<1>2. SeenStored'
  BY <1>1, TypeFacts DEF SeenStored
<1>3. ReadStaysRead'
  BY <1>1 DEF ReadStaysRead
<1>4. ASSUME NEW h \in Handlers PROVE FocusOK(h)'
  <2>1. UserOf[h] \in Users
    BY TypeFacts
  <2> QED BY <1>1, <2>1 DEF FocusOK
<1> QED BY <1>2, <1>3, <1>4

(* Steps that take no message off a handler that will reopen the DM. *)
LEMMA DMKept ==
  ASSUME DMReopened, UNCHANGED <<load, closedAt>>, open \subseteq open',
         \A m \in DOMAIN rows' : m \in DOMAIN rows => rows'[m].by = rows[m].by,
         \A m \in DOMAIN rows' :
           m \notin DOMAIN rows \/ Pending(m, {"send", "reopen"}) =>
             Pending(m, {"send", "reopen"})'
  PROVE  DMReopened'
  BY DEF DMReopened

(* Pairs stay pairs when their first set grows. *)
LEMMA PairsGrow ==
  ASSUME NEW A, NEW B, NEW U, NEW R, A \subseteq B, R \subseteq A \X U
  PROVE  R \subseteq B \X U
  OBVIOUS

(* Of what is not in the first set there are no pairs. *)
LEMMA NoPairs ==
  ASSUME NEW A, NEW U, NEW R, NEW m, m \notin A, R \subseteq A \X U
  PROVE  \A u \in U : <<m, u>> \notin R
  OBVIOUS
-----------------------------------------------------------------------------
(* A new message: only its author's handler knows of it. *)
LEMMA CreateKeeps ==
  ASSUME IInv, NEW h \in Handlers, NEW x \in load.texts, CreateMessage(h, x)
  PROVE  IInv'
<1> USE DEF IInv
<1>0. PICK n : n = Len(rows) + 1
  OBVIOUS
<1>1. x \in Texts /\ n <= MaxMessages /\ n \in Nat \ {0} /\ n \in Ids
  <2>1. load.texts \subseteq Texts /\ load.messages \in Nat /\ load.messages <= MaxMessages
    BY MessagesAssumption DEF TypeOK
  <2> QED BY <1>0, <2>1, TypeFacts DEF CreateMessage, Ids
<1>2. /\ DOMAIN rows' = 1..n /\ Len(rows') = n /\ rows' \in Seq(Row) /\ n \notin DOMAIN rows
      /\ rows'[n].by = UserOf[h] /\ rows'[n].text = x /\ ~rows'[n].deleted
      /\ \A m \in DOMAIN rows : rows'[m] = rows[m]
  <2>1. [by |-> UserOf[h], text |-> x, deleted |-> FALSE] \in Row
    BY <1>1, TypeFacts DEF Row
  <2> QED BY <1>0, <1>1, <2>1, TypeFacts DEF CreateMessage
<1>3. /\ job'[h].op = "send" /\ job'[h].msg = n /\ job'[h].text = x
      /\ \A g \in Handlers \ {h} : job'[g] = job[g]
      /\ JobsTyped'
  BY <1>0, <1>1, Takes DEF CreateMessage, Ops, Ids
<1>4. job[h] = Idle /\ job[h].op = "idle" /\ job[h].msg = 0
  BY DEF CreateMessage, Idle
<1>5. UNCHANGED <<load, reactions, lastRead, open, view, viewReactions, raced, seen,
                  refocused, closedAt>>
  BY DEF CreateMessage, shown, history
<1>6. ASSUME NEW g \in Handlers PROVE job[g].msg # n
  <2>1. CASE job[g].op = "idle"
    BY <1>1, <2>1 DEF JobOK, Idle
  <2>2. CASE job[g].op # "idle"
    BY <1>2, <2>2 DEF JobOK
  <2> QED BY <2>1, <2>2
<1>7. DOMAIN rows' = DOMAIN rows \union {n} /\ DOMAIN rows = 1..Len(rows) /\ Len(rows) \in Nat
  BY <1>0, <1>2, TypeFacts
<1>8. /\ reactions \subseteq (DOMAIN rows) \X Users /\ viewReactions \subseteq (DOMAIN rows) \X Users
      /\ reactions' \subseteq (DOMAIN rows') \X Users
      /\ viewReactions' \subseteq (DOMAIN rows') \X Users
  <2>1. /\ reactions \subseteq (DOMAIN rows) \X Users /\ DOMAIN rows \subseteq DOMAIN rows'
        /\ viewReactions \subseteq (DOMAIN rows) \X Users
    BY <1>7 DEF TypeOK, NothingEarly
  <2> QED BY <1>5, <2>1, PairsGrow
<1>9. TypeOK'
  <2>1. lastRead' \in [Users -> 0..Len(rows')] /\ Len(rows') <= MaxMessages
    BY <1>0, <1>1, <1>2, <1>5, <1>7 DEF TypeOK
  <2>2. DatabaseTyped'
    BY <1>2, <1>8, <2>1 DEF DatabaseTyped
  <2>3. ShownTyped' /\ RestTyped'
    BY <1>5, TypeParts DEF ShownTyped, RestTyped
  <2> QED BY <1>3, <2>2, <2>3, TypeFromParts
<1>10. ASSUME NEW k \in Handlers PROVE JobOK(k)'
  <2>1. CASE k = h
    BY <1>1, <1>2, <1>3, <1>7, <2>1 DEF JobOK
  <2>2. CASE k # h
    <3>1. JobOK(k) /\ job'[k] = job[k] /\ DOMAIN rows \subseteq DOMAIN rows'
      BY <1>3, <1>7, <2>2
    <3>2. \A m \in DOMAIN rows : rows'[m].by = rows[m].by /\ (rows[m].deleted => rows'[m].deleted)
      BY <1>2
    <3> QED BY <3>1, <3>2, JobKept
  <2> QED BY <2>1, <2>2
<1>11. NothingEarly'
  BY <1>5, <1>7, <1>8 DEF NothingEarly
<1>12. ASSUME NEW m \in DOMAIN rows' \ raced' PROVE Shown(m)'
  <2>1. CASE m = n
    <3>1. view'[n] = None /\ \A u \in Users : <<n, u>> \notin reactions' /\ <<n, u>> \notin viewReactions'
      <4>1. view[n] = None
        BY <1>1, <1>2 DEF NothingEarly
      <4> QED BY <1>2, <1>5, <1>8, <4>1, NoPairs
    <3>2. \A g \in Handlers \ {h} : \A ops : ~Busy(g, n, ops)'
      BY <1>3, <1>6 DEF Busy
    <3>3. ~Busy(h, n, Reacts)' /\ ~Busy(h, n, {"edit"})' /\ ~Busy(h, n, {"react"})'
          /\ ~Busy(h, n, {"unreact"})' /\ Pending(n, {"send"})'
      BY <1>3 DEF Busy, Pending, Reacts
    <3>4. SendOK(n)'
      <4>1. \A k \in Handlers : Busy(k, n, {"send"})' => k = h
        BY <3>2
      <4> QED BY <1>2, <1>3, <3>1, <3>2, <4>1 DEF SendOK
    <3>5. TextOK(n)'
      BY <1>2, <3>2, <3>3 DEF TextOK
    <3>6. \A u \in Users : ReactionOK(n, u)'
      BY <3>2, <3>3 DEF ReactionOK
    <3> QED BY <2>1, <3>4, <3>5, <3>6 DEF Shown
  <2>2. CASE m # n
    <3>0. m \in DOMAIN rows \ raced
      BY <1>5, <1>7, <2>2
    <3>1. Shown(m) /\ rows'[m] = rows[m]
      BY <1>2, <3>0 DEF AllShown
    <3>2. m # 0
      BY <1>2
    <3>3. \A k \in Handlers : Busy(k, m, MsgOps) \/ Busy(k, m, MsgOps)' => job'[k] = job[k]
      BY <1>3, <1>4, <2>2, <3>2 DEF Busy
    <3> QED BY <1>5, <3>1, <3>3, Elsewhere
  <2> QED BY <2>1, <2>2
<1>13. (\A k \in Handlers : FocusOK(k)') /\ SeenStored' /\ ReadStaysRead'
  <2>1. \A m \in Visible' : m \in Visible \/ m = Len(rows) + 1
    BY <1>0, <1>2, <1>7 DEF Visible
  <2>2. \A k \in Handlers : job'[k].op = "focus" => job'[k] = job[k]
    BY <1>3
  <2>3. Len(rows') \in Nat /\ Len(rows) <= Len(rows')
    BY <1>0, <1>1, <1>2, <1>7
  <2> QED BY <1>5, <2>1, <2>2, <2>3, ReadsKept
<1>14. DMReopened'
  <2>1. Pending(n, {"send", "reopen"})'
    BY <1>3 DEF Pending
  <2>2. \A m \in DOMAIN rows : Pending(m, {"send", "reopen"}) => Pending(m, {"send", "reopen"})'
    BY <1>3, <1>4 DEF Pending
  <2>3. \A m \in DOMAIN rows' : m \in DOMAIN rows => rows'[m].by = rows[m].by
    BY <1>2
  <2> QED BY <1>5, <1>7, <2>1, <2>2, <2>3, DMKept
<1> QED BY <1>9, <1>10, <1>11, <1>12, <1>13, <1>14 DEF AllShown

(* The announcement: the message appears as its author wrote it. *)
LEMMA AnnounceMessageKeeps ==
  ASSUME IInv, NEW h \in Handlers, AnnounceMessage(h)
  PROVE  IInv'
<1> USE DEF IInv
<1>0. PICK n : n = job[h].msg
  OBVIOUS
<1>1. /\ job[h].op = "send" /\ n \in DOMAIN rows /\ n \in Ids /\ job[h].text \in Texts
      /\ rows[n].by = UserOf[h]
  BY <1>0, TypeFacts DEF AnnounceMessage, JobOK
<1>2. /\ UNCHANGED <<load, rows, reactions, lastRead, open, viewReactions, raced, seen,
                     refocused, closedAt>>
      /\ view' = [view EXCEPT ![n] = job[h].text]
  BY <1>0 DEF AnnounceMessage, database, history
<1>3. /\ (job'[h].op = "reopen" /\ job'[h].msg = n) \/ (job'[h] = Idle /\ ~load.dm)
      /\ job'[h].op \notin MsgOps /\ job'[h].op # "focus"
      /\ \A g \in Handlers \ {h} : job'[g] = job[g]
      /\ JobsTyped'
  <2>1. CASE load.dm
    <3>1. Do(h, "reopen", n, None) /\ n \in 0..MaxMessages
      BY <1>0, <1>1, <2>1 DEF AnnounceMessage, Ids
    <3>2. /\ job'[h].op = "reopen" /\ job'[h].msg = n
          /\ \A g \in Handlers \ {h} : job'[g] = job[g]
          /\ JobsTyped'
      BY <3>1, Takes DEF Ops
    <3> QED BY <3>2 DEF MsgOps, Reacts
  <2>2. CASE ~load.dm
    <3>1. Done(h)
      BY <2>2 DEF AnnounceMessage
    <3> QED BY <2>2, <3>1, Finishes DEF MsgOps, Reacts
  <2> QED BY <2>1, <2>2
<1>4. view'[n] = job[h].text /\ \A m \in Ids \ {n} : view'[m] = view[m]
  BY <1>1, <1>2 DEF TypeOK
<1>5. TypeOK'
  <2>1. DatabaseTyped' /\ RestTyped'
    BY <1>2, TypeParts DEF DatabaseTyped, RestTyped
  <2>2. ShownTyped'
    BY <1>1, <1>2, TypeParts DEF ShownTyped
  <2> QED BY <1>3, <2>1, <2>2, TypeFromParts
<1>6. ASSUME NEW k \in Handlers PROVE JobOK(k)'
  <2>1. CASE k = h
    BY <1>1, <1>2, <1>3, <2>1 DEF JobOK, Idle, MsgOps
  <2>2. CASE k # h
    BY <1>2, <1>3, <2>2, JobKept
  <2> QED BY <2>1, <2>2
<1>7. NothingEarly'
  BY <1>1, <1>2, <1>4 DEF NothingEarly
<1>8. ASSUME NEW m \in DOMAIN rows' \ raced' PROVE Shown(m)'
  <2>0. m \in DOMAIN rows /\ Shown(m) /\ m \in Ids
    BY <1>2, TypeFacts DEF AllShown
  <2>1. CASE m = n
    <3>1. Busy(h, n, {"send"})
      BY <1>0, <1>1 DEF Busy
    <3>2. /\ rows[n].text = job[h].text /\ ~rows[n].deleted
          /\ \A g \in Handlers \ {h} : ~Busy(g, n, MsgOps)
          /\ \A u \in Users : <<n, u>> \notin reactions /\ <<n, u>> \notin viewReactions
      BY <2>0, <2>1, <3>1 DEF Shown, SendOK
    <3>3. \A g \in Handlers : ~Busy(g, n, MsgOps)'
      BY <1>3, <3>2 DEF Busy
    <3>4. \A g \in Handlers : /\ ~Busy(g, n, {"send"})' /\ ~Busy(g, n, {"edit"})' /\ ~Busy(g, n, Reacts)'
                              /\ ~Busy(g, n, {"react"})' /\ ~Busy(g, n, {"unreact"})'
      BY <3>3 DEF Busy, MsgOps, Reacts
    <3>5. SendOK(n)'
      BY <3>4 DEF SendOK
    <3>6. view'[n] # None /\ view'[n] = rows'[n].text /\ ~rows'[n].deleted
      BY <1>1, <1>2, <1>4, <3>2, TypeFacts
    <3>7. TextOK(n)'
      BY <3>4, <3>6 DEF TextOK
    <3>8. \A u \in Users : ReactionOK(n, u)'
      BY <1>2, <3>2, <3>4 DEF ReactionOK
    <3> QED BY <2>1, <3>5, <3>7, <3>8 DEF Shown
  <2>2. CASE m # n
    <3>1. \A k \in Handlers : Busy(k, m, MsgOps) \/ Busy(k, m, MsgOps)' => job'[k] = job[k]
      BY <1>0, <1>3, <2>2 DEF Busy
    <3> QED BY <1>2, <1>4, <2>0, <2>2, <3>1, Elsewhere
  <2> QED BY <2>1, <2>2
<1>9. (\A k \in Handlers : FocusOK(k)') /\ SeenStored' /\ ReadStaysRead'
  <2>1. \A k \in Handlers : job'[k].op = "focus" => job'[k] = job[k]
    BY <1>3
  <2>2. \A m \in Visible' : m \in Visible
    BY <1>2 DEF Visible
  <2> QED BY <1>2, <2>1, <2>2, ReadsKept, TypeFacts
<1>10. DMReopened'
  <2>1. CASE load.dm
    <3>1. \A m \in DOMAIN rows : Pending(m, {"send", "reopen"}) => Pending(m, {"send", "reopen"})'
      BY <1>0, <1>3, <2>1 DEF Pending
    <3> QED BY <1>2, <3>1, DMKept
  <2>2. CASE ~load.dm
    BY <1>2, <2>2 DEF DMReopened
  <2> QED BY <2>1, <2>2
<1> QED BY <1>5, <1>6, <1>7, <1>8, <1>9, <1>10 DEF AllShown

(* The DM opens for the recipient of the message. *)
LEMMA OpenDMKeeps ==
  ASSUME IInv, NEW h \in Handlers, OpenDM(h)
  PROVE  IInv'
<1> USE DEF IInv
<1>0. PICK n : n = job[h].msg
  OBVIOUS
<1>1. job[h].op = "reopen" /\ n \in DOMAIN rows /\ rows[n].by = UserOf[h]
  BY <1>0 DEF OpenDM, JobOK
<1>2. /\ UNCHANGED <<load, rows, reactions, lastRead, view, viewReactions, raced, seen,
                     refocused, closedAt>>
      /\ open' = open \union (Users \ {UserOf[h]})
  BY DEF OpenDM, shown, history
<1>3. /\ job'[h] = Idle /\ job'[h].op = "idle" /\ job'[h].msg = 0
      /\ \A g \in Handlers \ {h} : job'[g] = job[g]
      /\ JobsTyped'
  BY Finishes DEF OpenDM
<1>5. TypeOK'
  <2>1. DatabaseTyped' /\ ShownTyped'
    BY <1>2, TypeParts DEF DatabaseTyped, ShownTyped
  <2>2. RestTyped'
    BY <1>2, TypeParts DEF RestTyped
  <2> QED BY <1>3, <2>1, <2>2, TypeFromParts
<1>6. ASSUME NEW k \in Handlers PROVE JobOK(k)'
  <2>1. CASE k = h
    BY <1>3, <2>1 DEF JobOK
  <2>2. CASE k # h
    BY <1>2, <1>3, <2>2, JobKept
  <2> QED BY <2>1, <2>2
<1>7. NothingEarly'
  BY <1>2 DEF NothingEarly
<1>8. ASSUME NEW m \in DOMAIN rows' \ raced' PROVE Shown(m)'
  <2>1. m \in DOMAIN rows /\ Shown(m)
    BY <1>2 DEF AllShown
  <2>2. \A k \in Handlers : Busy(k, m, MsgOps) \/ Busy(k, m, MsgOps)' => job'[k] = job[k]
    BY <1>1, <1>3 DEF Busy, MsgOps, Reacts
  <2> QED BY <1>2, <2>1, <2>2, Elsewhere
<1>9. (\A k \in Handlers : FocusOK(k)') /\ SeenStored' /\ ReadStaysRead'
  <2>1. \A k \in Handlers : job'[k].op = "focus" => job'[k] = job[k]
    BY <1>3
  <2>2. \A m \in Visible' : m \in Visible
    BY <1>2 DEF Visible
  <2> QED BY <1>2, <2>1, <2>2, ReadsKept, TypeFacts
<1>10. DMReopened'
  <2>1. \A m \in DOMAIN rows : Pending(m, {"send", "reopen"}) => Pending(m, {"send", "reopen"})' \/ m = n
    BY <1>0, <1>3 DEF Pending
  <2>2. \A u \in Users : rows[n].by # u => u \in open'
    BY <1>1, <1>2
  <2> QED BY <1>2, <2>1, <2>2 DEF DMReopened
<1> QED BY <1>5, <1>6, <1>7, <1>8, <1>9, <1>10 DEF AllShown

(* An event that does not race has no other of its kind before it. *)
LEMMA NotRaced ==
  ASSUME NEW h \in Handlers, NEW m, NEW ops, Race(h, m, ops)
  PROVE  /\ raced \subseteq raced' /\ raced' \subseteq raced \union {m}
         /\ m \notin raced' => \A g \in Handlers \ {h} :
              /\ ~Busy(g, m, {"send"})
              /\ UserOf[g] = UserOf[h] => ~Busy(g, m, ops)
  BY DEF Race, Busy

(* An event of a message is pending when a handler is busy with it. *)
LEMMA PendingIsBusy ==
  ASSUME NEW m, NEW ops
  PROVE  /\ Pending(m, ops) <=> \E h \in Handlers : Busy(h, m, ops)
         /\ Pending(m, ops)' <=> \E h \in Handlers : Busy(h, m, ops)'
  BY DEF Pending, Busy

(* Reactions stay shown as they are stored, if neither changes and nobody  *)
(* begins or ends announcing one.                                          *)
LEMMA ReactionsKept ==
  ASSUME NEW m \in DOMAIN rows, UNCHANGED <<reactions, viewReactions>>,
         rows'[m].deleted = rows[m].deleted, ~Pending(m, {"send"}),
         \A k \in Handlers : /\ Busy(k, m, Reacts)' <=> Busy(k, m, Reacts)
                             /\ Busy(k, m, {"react"})' <=> Busy(k, m, {"react"})
                             /\ Busy(k, m, {"unreact"})' <=> Busy(k, m, {"unreact"}),
         \A u \in Users : ReactionOK(m, u)
  PROVE  \A u \in Users : ReactionOK(m, u)'
<1> TAKE u \in Users
<1>1. ReactionOK(m, u)
  OBVIOUS
<1> QED BY <1>1, Zenon DEF ReactionOK

(* Readers and lists are not concerned by edits, deletions and reactions. *)
LEMMA BystandersKept ==
  ASSUME IInv, NEW h \in Handlers, UNCHANGED <<load, lastRead, open, seen, refocused, closedAt>>,
         DOMAIN rows' = DOMAIN rows, Len(rows') = Len(rows),
         \A m \in DOMAIN rows : /\ rows'[m].by = rows[m].by
                                /\ rows[m].deleted => rows'[m].deleted,
         job[h].op \notin {"send", "reopen"}, job'[h].op # "focus",
         \A g \in Handlers \ {h} : job'[g] = job[g]
  PROVE  (\A k \in Handlers : FocusOK(k)') /\ SeenStored' /\ ReadStaysRead' /\ DMReopened'
<1> USE DEF IInv
<1>1. \A k \in Handlers : job'[k].op = "focus" => job'[k] = job[k]
  OBVIOUS
<1>2. \A m \in Visible' : m \in Visible
  BY DEF Visible
<1>3. (\A k \in Handlers : FocusOK(k)') /\ SeenStored' /\ ReadStaysRead'
  BY <1>1, <1>2, ReadsKept, TypeFacts
<1>4. \A m \in DOMAIN rows : Pending(m, {"send", "reopen"}) => Pending(m, {"send", "reopen"})'
  BY DEF Pending
<1> QED BY <1>3, <1>4, DMKept

(* The author edits: a later text is stored, and theirs is the only edit   *)
(* of the message in hand.                                                 *)
LEMMA EditKeeps ==
  ASSUME IInv, NEW h \in Handlers, NEW n \in DOMAIN rows, NEW x \in load.texts,
         EditMessage(h, n, x)
  PROVE  IInv'
<1> USE DEF IInv
<1>1. x \in Texts /\ n \in Ids /\ n # 0 /\ n \in 0..MaxMessages
  <2>1. load.texts \subseteq Texts
    BY MessagesAssumption DEF TypeOK
  <2> QED BY <2>1, TypeFacts DEF Ids
<1>2. /\ job[h] = Idle /\ job[h].op = "idle" /\ job[h].msg = 0 /\ rows[n].by = UserOf[h]
      /\ UNCHANGED <<load, reactions, lastRead, open, view, viewReactions, seen,
                     refocused, closedAt>>
      /\ raced \subseteq raced' /\ raced' \subseteq raced \union {n}
  BY NotRaced DEF EditMessage, Idle, shown
<1>3. /\ job'[h].op = "edit" /\ job'[h].msg = n /\ job'[h].text = x
      /\ \A g \in Handlers \ {h} : job'[g] = job[g]
      /\ JobsTyped'
  <2>1. Do(h, "edit", n, x) /\ "edit" \in Ops
    BY DEF EditMessage, Ops
  <2> QED BY <1>1, <2>1, Takes
<1>4. /\ rows' \in Seq(Row) /\ DOMAIN rows' = DOMAIN rows /\ Len(rows') = Len(rows)
      /\ rows'[n].text = x /\ rows'[n].by = rows[n].by /\ rows'[n].deleted = rows[n].deleted
      /\ \A k \in DOMAIN rows \ {n} : rows'[k] = rows[k]
  <2> DEFINE r == [rows[n] EXCEPT !.text = x]
  <2>1. r \in Row /\ r.text = x /\ r.by = rows[n].by /\ r.deleted = rows[n].deleted
    BY <1>1, TypeFacts DEF Row
  <2>2. rows' = [rows EXCEPT ![n] = r]
    BY DEF EditMessage
  <2> HIDE DEF r
  <2>3. /\ rows' \in Seq(Row) /\ DOMAIN rows' = DOMAIN rows /\ Len(rows') = Len(rows)
        /\ rows'[n] = r /\ \A k \in DOMAIN rows \ {n} : rows'[k] = rows[k]
    BY <2>1, <2>2, TypeFacts
  <2> QED BY <2>1, <2>3
<1>5. TypeOK'
  <2>1. DatabaseTyped'
    BY <1>2, <1>4, TypeParts DEF DatabaseTyped
  <2>2. RestTyped' /\ ShownTyped'
    BY <1>1, <1>2, TypeParts DEF RestTyped, ShownTyped
  <2> QED BY <1>3, <2>1, <2>2, TypeFromParts
<1>6. ASSUME NEW k \in Handlers PROVE JobOK(k)'
  <2>1. CASE k = h
    BY <1>1, <1>2, <1>3, <1>4, <2>1 DEF JobOK
  <2>2. CASE k # h
    BY <1>3, <1>4, <2>2, JobKept
  <2> QED BY <2>1, <2>2
<1>7. NothingEarly'
  BY <1>2, <1>4 DEF NothingEarly
<1>8. ASSUME NEW m \in DOMAIN rows' \ raced' PROVE Shown(m)'
  <2>0. m \in DOMAIN rows /\ Shown(m) /\ m # 0
    BY <1>2, <1>4, TypeFacts DEF AllShown
  <2>1. CASE m = n
    <3>1. \A g \in Handlers \ {h} : ~Busy(g, n, {"send"}) /\ (UserOf[g] = UserOf[h] => ~Busy(g, n, {"edit"}))
      BY <1>8, <2>1, NotRaced DEF EditMessage
    <3>2. \A g \in Handlers \ {h} : ~Busy(g, n, {"edit"})
      BY <1>2, <3>1 DEF JobOK, Busy
    <3>3. \A g \in Handlers \ {h} : \A ops : Busy(g, n, ops)' <=> Busy(g, n, ops)
      BY <1>3 DEF Busy
    <3>4. /\ \A ops : ~Busy(h, n, ops)
          /\ Busy(h, n, {"edit"})' /\ ~Busy(h, n, {"send"})' /\ ~Busy(h, n, {"delete"})'
          /\ ~Busy(h, n, Reacts)' /\ ~Busy(h, n, {"react"})' /\ ~Busy(h, n, {"unreact"})'
      BY <1>1, <1>2, <1>3 DEF Busy, Reacts
    <3>5. /\ ~Pending(n, {"send"}) /\ Pending(n, {"edit"})'
          /\ Pending(n, {"delete"}) => Pending(n, {"delete"})'
      BY <3>1, <3>3, <3>4, PendingIsBusy
    <3>6. SendOK(n)'
      BY <3>1, <3>3, <3>4 DEF SendOK
    <3>7. TextOK(n)'
      BY <1>2, <1>3, <1>4, <2>0, <2>1, <3>2, <3>3, <3>4, <3>5 DEF Shown, TextOK
    <3>8. \A u \in Users : ReactionOK(n, u)'
      BY <1>2, <1>4, <2>0, <2>1, <3>3, <3>4, <3>5, ReactionsKept DEF Shown
    <3> QED BY <2>1, <3>6, <3>7, <3>8 DEF Shown
  <2>2. CASE m # n
    <3>1. \A k \in Handlers : Busy(k, m, MsgOps) \/ Busy(k, m, MsgOps)' => job'[k] = job[k]
      BY <1>2, <1>3, <2>0, <2>2 DEF Busy
    <3> QED BY <1>2, <1>4, <2>0, <2>2, <3>1, Elsewhere
  <2> QED BY <2>1, <2>2
<1>9. (\A k \in Handlers : FocusOK(k)') /\ SeenStored' /\ ReadStaysRead' /\ DMReopened'
  BY <1>2, <1>3, <1>4, BystandersKept
<1> QED BY <1>5, <1>6, <1>7, <1>8, <1>9 DEF AllShown

(* The edit is announced: a message that is shown shows its last text. *)
LEMMA AnnounceEditKeeps ==
  ASSUME IInv, NEW h \in Handlers, AnnounceEdit(h)
  PROVE  IInv'
<1> USE DEF IInv
<1>0. PICK n : n = job[h].msg
  OBVIOUS
<1>1. job[h].op = "edit" /\ n \in DOMAIN rows /\ n \in Ids /\ job[h].text \in Texts
  BY <1>0, TypeFacts DEF AnnounceEdit, JobOK
<1>2. /\ UNCHANGED <<load, rows, reactions, lastRead, open, viewReactions, raced, seen,
                     refocused, closedAt>>
      /\ view' = [view EXCEPT ![n] = IF @ = None THEN None ELSE job[h].text]
  BY <1>0 DEF AnnounceEdit, database, history
<1>3. /\ job'[h] = Idle /\ job'[h].op = "idle" /\ job'[h].msg = 0
      /\ \A g \in Handlers \ {h} : job'[g] = job[g]
      /\ JobsTyped'
  BY Finishes DEF AnnounceEdit
<1>4. /\ view'[n] = IF view[n] = None THEN None ELSE job[h].text
      /\ \A m \in Ids \ {n} : view'[m] = view[m]
  BY <1>1, <1>2 DEF TypeOK
<1>5. TypeOK'
  <2>1. DatabaseTyped' /\ RestTyped'
    BY <1>2, TypeParts DEF DatabaseTyped, RestTyped
  <2>2. ShownTyped'
    BY <1>1, <1>2, TypeParts DEF ShownTyped
  <2> QED BY <1>3, <2>1, <2>2, TypeFromParts
<1>6. ASSUME NEW k \in Handlers PROVE JobOK(k)'
  <2>1. CASE k = h
    BY <1>3, <2>1 DEF JobOK
  <2>2. CASE k # h
    BY <1>2, <1>3, <2>2, JobKept
  <2> QED BY <2>1, <2>2
<1>7. NothingEarly'
  BY <1>1, <1>2, <1>4 DEF NothingEarly
<1>8. ASSUME NEW m \in DOMAIN rows' \ raced' PROVE Shown(m)'
  <2>0. m \in DOMAIN rows /\ Shown(m) /\ m \in Ids /\ m # 0
    BY <1>2, TypeFacts DEF AllShown
  <2>1. CASE m = n
    <3>1. Busy(h, n, {"edit"}) /\ Busy(h, n, MsgOps) /\ ~Busy(h, n, {"send"}) /\ ~Busy(h, n, {"delete"})
          /\ ~Busy(h, n, Reacts) /\ ~Busy(h, n, {"react"}) /\ ~Busy(h, n, {"unreact"})
      BY <1>0, <1>1 DEF Busy, MsgOps, Reacts
    <3>2. /\ \A g \in Handlers : ~Busy(g, n, {"send"})
          /\ job[h].text = rows[n].text
          /\ \A g \in Handlers \ {h} : ~Busy(g, n, {"edit"})
      BY <2>0, <2>1, <3>1 DEF Shown, SendOK, TextOK
    <3>3. \A ops : ~Busy(h, n, ops)' /\ \A g \in Handlers \ {h} : Busy(g, n, ops)' <=> Busy(g, n, ops)
      BY <1>3, <2>0, <2>1 DEF Busy
    <3>4. /\ ~Pending(n, {"send"})
          /\ Pending(n, {"delete"}) => Pending(n, {"delete"})'
      BY <3>1, <3>2, <3>3, PendingIsBusy
    <3>5. SendOK(n)'
      BY <3>2, <3>3 DEF SendOK
    <3>6. TextOK(n)'
      <4>1. /\ ~rows[n].deleted => view[n] # None
            /\ rows[n].deleted => view[n] = None \/ Pending(n, {"delete"})
        BY <2>0, <2>1, <3>4 DEF Shown, TextOK
      <4>2. ~rows'[n].deleted => view'[n] # None /\ view'[n] = rows'[n].text
        BY <1>1, <1>2, <1>4, <3>2, <4>1, TypeFacts
      <4>3. rows'[n].deleted => view'[n] = None \/ Pending(n, {"delete"})'
        BY <1>2, <1>4, <3>4, <4>1
      <4>4. \A k \in Handlers : ~Busy(k, n, {"edit"})'
        BY <3>2, <3>3
      <4> QED BY <4>2, <4>3, <4>4 DEF TextOK
    <3>7. \A u \in Users : ReactionOK(n, u)'
      BY <1>2, <2>0, <2>1, <3>1, <3>3, <3>4, ReactionsKept DEF Shown
    <3> QED BY <2>1, <3>5, <3>6, <3>7 DEF Shown
  <2>2. CASE m # n
    <3>1. \A k \in Handlers : Busy(k, m, MsgOps) \/ Busy(k, m, MsgOps)' => job'[k] = job[k]
      BY <1>0, <1>3, <2>0, <2>2 DEF Busy
    <3> QED BY <1>2, <1>4, <2>0, <2>2, <3>1, Elsewhere
  <2> QED BY <2>1, <2>2
<1>9. (\A k \in Handlers : FocusOK(k)') /\ SeenStored' /\ ReadStaysRead' /\ DMReopened'
  BY <1>1, <1>2, <1>3, BystandersKept
<1> QED BY <1>5, <1>6, <1>7, <1>8, <1>9 DEF AllShown
=============================================================================
