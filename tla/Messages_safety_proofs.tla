----------------------- MODULE Messages_safety_proofs -----------------------
(***************************************************************************)
(* The rest of the proof that IInv is an invariant of Messages: deletions, *)
(* reactions, readers and the list of DMs; and what follows from it.       *)
(***************************************************************************)
EXTENDS Messages_proofs

(* A deletion: the row stays and is marked. *)
LEMMA DeleteKeeps ==
  ASSUME IInv, NEW h \in Handlers, NEW n \in DOMAIN rows, DeleteMessage(h, n)
  PROVE  IInv'
<1> USE DEF IInv
<1>1. n \in Ids /\ n # 0 /\ n \in 0..MaxMessages
  BY TypeFacts DEF Ids
<1>2. /\ job[h] = Idle /\ job[h].op = "idle" /\ job[h].msg = 0
      /\ UNCHANGED <<load, reactions, lastRead, open, view, viewReactions, seen,
                     refocused, closedAt>>
      /\ raced \subseteq raced' /\ raced' \subseteq raced \union {n}
  BY NotRaced DEF DeleteMessage, Idle, shown
<1>3. /\ job'[h].op = "delete" /\ job'[h].msg = n
      /\ \A g \in Handlers \ {h} : job'[g] = job[g]
      /\ JobsTyped'
  <2>1. Do(h, "delete", n, None) /\ "delete" \in Ops
    BY DEF DeleteMessage, Ops
  <2> QED BY <1>1, <2>1, Takes
<1>4. /\ rows' \in Seq(Row) /\ DOMAIN rows' = DOMAIN rows /\ Len(rows') = Len(rows)
      /\ rows'[n].text = rows[n].text /\ rows'[n].by = rows[n].by /\ rows'[n].deleted
      /\ \A k \in DOMAIN rows \ {n} : rows'[k] = rows[k]
  <2>0. PICK d : d = TRUE /\ d \in BOOLEAN
    BY Zenon
  <2> DEFINE r == [rows[n] EXCEPT !.deleted = d]
  <2>1. r \in Row /\ r.text = rows[n].text /\ r.by = rows[n].by /\ r.deleted = d
    <3>1. d \in BOOLEAN /\ rows[n] \in Row
      BY <2>0, TypeFacts, Zenon
    <3> QED BY <3>1 DEF Row
  <2>2. rows' = [rows EXCEPT ![n] = r]
    BY <2>0 DEF DeleteMessage
  <2> HIDE DEF r
  <2>3. /\ rows' \in Seq(Row) /\ DOMAIN rows' = DOMAIN rows /\ Len(rows') = Len(rows)
        /\ rows'[n] = r /\ \A k \in DOMAIN rows \ {n} : rows'[k] = rows[k]
    BY <2>1, <2>2, TypeFacts
  <2>4. rows'[n].deleted = TRUE
    BY <2>0, <2>1, <2>3, Zenon
  <2> QED BY <2>1, <2>3, <2>4
<1>5. TypeOK'
  <2>1. DatabaseTyped'
    BY <1>2, <1>4, TypeParts DEF DatabaseTyped
  <2>2. RestTyped' /\ ShownTyped'
    BY <1>1, <1>2, TypeParts DEF RestTyped, ShownTyped
  <2> QED BY <1>3, <2>1, <2>2, TypeFromParts
<1>6. ASSUME NEW k \in Handlers PROVE JobOK(k)'
  <2>1. CASE k = h
    BY <1>1, <1>2, <1>3, <1>4, <2>1 DEF JobOK
  <2>2. CASE k # h
    BY <1>3, <1>4, <2>2, JobKept
  <2> QED BY <2>1, <2>2
<1>7. NothingEarly'
  BY <1>2, <1>4 DEF NothingEarly
<1>8. ASSUME NEW m \in DOMAIN rows' \ raced' PROVE Shown(m)'
  <2>0. m \in DOMAIN rows /\ Shown(m) /\ m # 0
    BY <1>2, <1>4, TypeFacts DEF AllShown
  <2>1. CASE m = n
    <3>1. \A g \in Handlers \ {h} : ~Busy(g, n, {"send"})
      BY <1>8, <2>1, NotRaced DEF DeleteMessage
    <3>2. \A g \in Handlers \ {h} : \A ops : Busy(g, n, ops)' <=> Busy(g, n, ops)
      BY <1>3 DEF Busy
    <3>3. /\ \A ops : ~Busy(h, n, ops)
          /\ Busy(h, n, {"delete"})' /\ ~Busy(h, n, {"send"})' /\ ~Busy(h, n, {"edit"})'
          /\ ~Busy(h, n, Reacts)' /\ ~Busy(h, n, {"react"})' /\ ~Busy(h, n, {"unreact"})'
      BY <1>1, <1>2, <1>3 DEF Busy, Reacts
    <3>4. Pending(n, {"delete"})'
      BY <3>3, PendingIsBusy
    <3>5. SendOK(n)'
      BY <3>1, <3>2, <3>3 DEF SendOK
    <3>6. TextOK(n)'
      BY <1>3, <1>4, <2>0, <2>1, <3>2, <3>3, <3>4 DEF Shown, TextOK
    <3>7. \A u \in Users : ReactionOK(n, u)'
      BY <1>2, <1>4, <2>0, <2>1, <3>2, <3>3 DEF Shown, ReactionOK
    <3> QED BY <2>1, <3>5, <3>6, <3>7 DEF Shown
  <2>2. CASE m # n
    <3>1. \A k \in Handlers : Busy(k, m, MsgOps) \/ Busy(k, m, MsgOps)' => job'[k] = job[k]
      BY <1>2, <1>3, <2>0, <2>2 DEF Busy
    <3> QED BY <1>2, <1>4, <2>0, <2>2, <3>1, Elsewhere
  <2> QED BY <2>1, <2>2
<1>9. (\A k \in Handlers : FocusOK(k)') /\ SeenStored' /\ ReadStaysRead' /\ DMReopened'
  BY <1>2, <1>3, <1>4, BystandersKept
<1> QED BY <1>5, <1>6, <1>7, <1>8, <1>9 DEF AllShown

(* The deletion is announced, and the message with its reactions is gone. *)
LEMMA AnnounceDeleteKeeps ==
  ASSUME IInv, NEW h \in Handlers, AnnounceDelete(h)
  PROVE  IInv'
<1> USE DEF IInv
<1>0. PICK n : n = job[h].msg
  OBVIOUS
<1>1. job[h].op = "delete" /\ n \in DOMAIN rows /\ n \in Ids /\ rows[n].deleted
  BY <1>0, TypeFacts DEF AnnounceDelete, JobOK
<1>2. /\ UNCHANGED <<load, rows, reactions, lastRead, open, raced, seen, refocused, closedAt>>
      /\ view' = [view EXCEPT ![n] = None]
      /\ viewReactions' = {r \in viewReactions : r[1] # n}
  BY <1>0 DEF AnnounceDelete, database, history
<1>3. /\ job'[h] = Idle /\ job'[h].op = "idle" /\ job'[h].msg = 0
      /\ \A g \in Handlers \ {h} : job'[g] = job[g]
      /\ JobsTyped'
  BY Finishes DEF AnnounceDelete
<1>4. /\ view'[n] = None /\ \A m \in Ids \ {n} : view'[m] = view[m]
      /\ viewReactions' \subseteq viewReactions
      /\ \A m \in Ids \ {n} : \A u \in Users : <<m, u>> \in viewReactions' <=> <<m, u>> \in viewReactions
  BY <1>1, <1>2 DEF TypeOK
<1>5. TypeOK'
  <2>1. DatabaseTyped' /\ RestTyped'
    BY <1>2, TypeParts DEF DatabaseTyped, RestTyped
  <2>2. ShownTyped'
    BY <1>1, <1>2, <1>4, TypeParts DEF ShownTyped
  <2> QED BY <1>3, <2>1, <2>2, TypeFromParts
<1>6. ASSUME NEW k \in Handlers PROVE JobOK(k)'
  <2>1. CASE k = h
    BY <1>3, <2>1 DEF JobOK
  <2>2. CASE k # h
    BY <1>2, <1>3, <2>2, JobKept
  <2> QED BY <2>1, <2>2
<1>7. NothingEarly'
  BY <1>1, <1>2, <1>4 DEF NothingEarly
<1>8. ASSUME NEW m \in DOMAIN rows' \ raced' PROVE Shown(m)'
  <2>0. m \in DOMAIN rows /\ Shown(m) /\ m \in Ids /\ m # 0
    BY <1>2, TypeFacts DEF AllShown
  <2>1. CASE m = n
    <3>1. Busy(h, n, {"delete"}) /\ Busy(h, n, MsgOps) /\ ~Busy(h, n, {"send"})
      BY <1>0, <1>1 DEF Busy, MsgOps, Reacts
    <3>2. \A g \in Handlers : ~Busy(g, n, {"send"})
      BY <2>0, <2>1, <3>1 DEF Shown, SendOK
    <3>3. \A ops : ~Busy(h, n, ops)' /\ \A g \in Handlers \ {h} : Busy(g, n, ops)' <=> Busy(g, n, ops)
      BY <1>3, <2>0, <2>1 DEF Busy
    <3>4. SendOK(n)'
      BY <3>2, <3>3 DEF SendOK
    <3>5. TextOK(n)'
      BY <1>1, <1>2, <1>3, <1>4, <2>0, <2>1, <3>3 DEF Shown, TextOK
    <3>6. \A u \in Users : ReactionOK(n, u)'
      BY <1>1, <1>2, <2>0, <2>1, <3>3 DEF Shown, ReactionOK
    <3> QED BY <2>1, <3>4, <3>5, <3>6 DEF Shown
  <2>2. CASE m # n
    <3>1. \A k \in Handlers : Busy(k, m, MsgOps) \/ Busy(k, m, MsgOps)' => job'[k] = job[k]
      BY <1>0, <1>3, <2>0, <2>2 DEF Busy
    <3> QED BY <1>2, <1>4, <2>0, <2>2, <3>1, Elsewhere
  <2> QED BY <2>1, <2>2
<1>9. (\A k \in Handlers : FocusOK(k)') /\ SeenStored' /\ ReadStaysRead' /\ DMReopened'
  BY <1>1, <1>2, <1>3, BystandersKept
<1> QED BY <1>5, <1>6, <1>7, <1>8, <1>9 DEF AllShown

(* A reaction is stored that was not there, or removed that was. *)
LEMMA ReactionKeeps ==
  ASSUME IInv, NEW h \in Handlers, NEW n \in DOMAIN rows,
         AddReaction(h, n) \/ RemoveReaction(h, n)
  PROVE  IInv'
<1> USE DEF IInv
<1>0. PICK o \in Reacts :
        /\ (o = "react" /\ AddReaction(h, n)) \/ (o = "unreact" /\ RemoveReaction(h, n))
        /\ Do(h, o, n, None) /\ o \notin {"idle", "send", "reopen", "edit", "delete", "focus"}
  BY DEF AddReaction, RemoveReaction, Reacts
<1>1. n \in Ids /\ n # 0 /\ n \in 0..MaxMessages /\ UserOf[h] \in Users
  BY TypeFacts DEF Ids
<1>2. /\ job[h] = Idle /\ job[h].op = "idle" /\ job[h].msg = 0
      /\ UNCHANGED <<load, rows, lastRead, open, view, viewReactions, seen, refocused, closedAt>>
      /\ reactions' = IF o = "react" THEN reactions \union {<<n, UserOf[h]>>}
                      ELSE reactions \ {<<n, UserOf[h]>>}
      /\ raced \subseteq raced' /\ raced' \subseteq raced \union {n}
  BY SMTT(30), <1>0, NotRaced DEF AddReaction, RemoveReaction, Idle, shown
<1>3. /\ job'[h].op = o /\ job'[h].msg = n
      /\ \A g \in Handlers \ {h} : job'[g] = job[g]
      /\ JobsTyped'
  <2>1. o \in Ops
    BY DEF Ops
  <2> QED BY <1>0, <1>1, <2>1, Takes
<1>4. /\ (<<n, UserOf[h]>> \in reactions' <=> o = "react")
      /\ \A m, u : m # n \/ u # UserOf[h] => (<<m, u>> \in reactions' <=> <<m, u>> \in reactions)
  BY <1>2
<1>5. TypeOK'
  <2>1. DatabaseTyped'
    BY <1>1, <1>2, TypeParts DEF DatabaseTyped
  <2>2. RestTyped' /\ ShownTyped'
    BY <1>1, <1>2, TypeParts DEF RestTyped, ShownTyped
  <2> QED BY <1>3, <2>1, <2>2, TypeFromParts
<1>6. ASSUME NEW k \in Handlers PROVE JobOK(k)'
  <2>1. CASE k = h
    BY <1>0, <1>1, <1>2, <1>3, <2>1 DEF JobOK
  <2>2. CASE k # h
    BY <1>2, <1>3, <2>2, JobKept
  <2> QED BY <2>1, <2>2
<1>7. NothingEarly'
  BY <1>2 DEF NothingEarly
<1>8. ASSUME NEW m \in DOMAIN rows' \ raced' PROVE Shown(m)'
  <2>0. m \in DOMAIN rows /\ Shown(m) /\ m # 0
    BY <1>2, TypeFacts DEF AllShown
  <2>1. CASE m = n
    <3>1. \A g \in Handlers \ {h} : ~Busy(g, n, {"send"}) /\ (UserOf[g] = UserOf[h] => ~Busy(g, n, Reacts))
      BY <1>8, <2>1, NotRaced DEF AddReaction, RemoveReaction
    <3>2. \A g \in Handlers \ {h} : \A ops : Busy(g, n, ops)' <=> Busy(g, n, ops)
      BY <1>3 DEF Busy
    <3>3. /\ \A ops : ~Busy(h, n, ops)
          /\ Busy(h, n, Reacts)'
          /\ (Busy(h, n, {"react"})' <=> o = "react") /\ (Busy(h, n, {"unreact"})' <=> o = "unreact")
          /\ ~Busy(h, n, {"send"})' /\ ~Busy(h, n, {"edit"})' /\ ~Busy(h, n, {"delete"})'
      BY <1>1, <1>2, <1>3 DEF Busy, Reacts
    <3>4. /\ Pending(n, {"send"})' <=> Pending(n, {"send"})
          /\ Pending(n, {"edit"})' <=> Pending(n, {"edit"})
          /\ Pending(n, {"delete"})' <=> Pending(n, {"delete"})
      BY <3>2, <3>3, PendingIsBusy
    <3>5. SendOK(n)'
      BY <3>1, <3>2, <3>3 DEF SendOK
    <3>6. TextOK(n)'
      BY SMTT(30), ZenonT(30), <1>2, <1>3, <2>0, <2>1, <3>2, <3>3, <3>4 DEF Shown, TextOK
    <3>7. ASSUME NEW u \in Users PROVE ReactionOK(n, u)'
      <4>1. CASE u = UserOf[h]
        <5>1. \A g \in Handlers \ {h} : UserOf[g] = u =>
                ~Busy(g, n, Reacts)' /\ ~Busy(g, n, {"react"})' /\ ~Busy(g, n, {"unreact"})'
          <6>1. \A g : Busy(g, n, {"react"}) \/ Busy(g, n, {"unreact"}) => Busy(g, n, Reacts)
            BY DEF Busy, Reacts
          <6> QED BY <3>1, <3>2, <4>1, <6>1
        <5> QED BY <1>0, <1>4, <3>3, <4>1, <5>1 DEF ReactionOK
      <4>2. CASE u # UserOf[h]
        <5>1. ReactionOK(n, u) /\ (<<n, u>> \in reactions' <=> <<n, u>> \in reactions)
          BY <1>4, <2>0, <2>1, <4>2 DEF Shown
        <5> QED BY <1>2, <3>2, <3>3, <3>4, <4>2, <5>1 DEF ReactionOK
      <4> QED BY <4>1, <4>2
    <3> QED BY <2>1, <3>5, <3>6, <3>7 DEF Shown
  <2>2. CASE m # n
    <3>1. \A k \in Handlers : Busy(k, m, MsgOps) \/ Busy(k, m, MsgOps)' => job'[k] = job[k]
      BY <1>2, <1>3, <2>0, <2>2 DEF Busy
    <3> QED BY <1>2, <1>4, <2>0, <2>2, <3>1, Elsewhere
  <2> QED BY <2>1, <2>2
<1>9. (\A k \in Handlers : FocusOK(k)') /\ SeenStored' /\ ReadStaysRead' /\ DMReopened'
  BY <1>0, <1>2, <1>3, BystandersKept
<1> QED BY <1>5, <1>6, <1>7, <1>8, <1>9 DEF AllShown

(* The reaction is announced, and shown if its message is. *)
LEMMA AnnounceReactionKeeps ==
  ASSUME IInv, NEW h \in Handlers, AnnounceReaction(h)
  PROVE  IInv'
<1> USE DEF IInv
<1>0. PICK n : n = job[h].msg
  OBVIOUS
<1>1. /\ job[h].op \in Reacts /\ job[h].op \in {"react", "unreact"}
      /\ n \in DOMAIN rows /\ n \in Ids /\ UserOf[h] \in Users
  BY <1>0, TypeFacts DEF AnnounceReaction, JobOK, Reacts
<1>2. /\ UNCHANGED <<load, rows, reactions, lastRead, open, view, raced, seen, refocused, closedAt>>
      /\ viewReactions' = IF job[h].op = "unreact" THEN viewReactions \ {<<n, UserOf[h]>>}
                          ELSE IF view[n] = None THEN viewReactions
                          ELSE viewReactions \union {<<n, UserOf[h]>>}
  BY <1>0 DEF AnnounceReaction, database, history
<1>3. /\ job'[h] = Idle /\ job'[h].op = "idle" /\ job'[h].msg = 0
      /\ \A g \in Handlers \ {h} : job'[g] = job[g]
      /\ JobsTyped'
  BY Finishes DEF AnnounceReaction
<1>4. /\ viewReactions' \subseteq viewReactions \union {<<n, UserOf[h]>>}
      /\ \A m, u : m # n \/ u # UserOf[h] => (<<m, u>> \in viewReactions' <=> <<m, u>> \in viewReactions)
  BY <1>2
<1>5. TypeOK'
  <2>1. DatabaseTyped' /\ RestTyped'
    BY <1>2, TypeParts DEF DatabaseTyped, RestTyped
  <2>2. ShownTyped'
    BY <1>1, <1>2, <1>4, TypeParts DEF ShownTyped
  <2> QED BY <1>3, <2>1, <2>2, TypeFromParts
<1>6. ASSUME NEW k \in Handlers PROVE JobOK(k)'
  <2>1. CASE k = h
    BY <1>3, <2>1 DEF JobOK
  <2>2. CASE k # h
    BY <1>2, <1>3, <2>2, JobKept
  <2> QED BY <2>1, <2>2
<1>7. NothingEarly'
  BY <1>1, <1>2, <1>4 DEF NothingEarly
<1>8. ASSUME NEW m \in DOMAIN rows' \ raced' PROVE Shown(m)'
  <2>0. m \in DOMAIN rows /\ Shown(m) /\ m \in Ids /\ m # 0
    BY <1>2, TypeFacts DEF AllShown
  <2>1. CASE m = n
    <3>1. /\ Busy(h, n, Reacts) /\ Busy(h, n, MsgOps) /\ ~Busy(h, n, {"send"})
          /\ ~Busy(h, n, {"edit"}) /\ ~Busy(h, n, {"delete"})
      BY <1>0, <1>1 DEF Busy, MsgOps, Reacts
    <3>2. \A g \in Handlers : ~Busy(g, n, {"send"})
      BY <2>0, <2>1, <3>1 DEF Shown, SendOK
    <3>3. \A ops : ~Busy(h, n, ops)' /\ \A g \in Handlers \ {h} : Busy(g, n, ops)' <=> Busy(g, n, ops)
      BY <1>3, <2>0, <2>1 DEF Busy
    <3>4. /\ Pending(n, {"send"})' <=> Pending(n, {"send"})
          /\ Pending(n, {"edit"})' <=> Pending(n, {"edit"})
          /\ Pending(n, {"delete"})' <=> Pending(n, {"delete"})
      <4>1. ASSUME NEW ops, ~Busy(h, n, ops) PROVE Pending(n, ops)' <=> Pending(n, ops)
        BY <3>3, <4>1, PendingIsBusy
      <4> QED BY <3>1, <4>1
    <3>5. SendOK(n)'
      BY <3>2, <3>3 DEF SendOK
    <3>6. TextOK(n)'
      BY SMTT(30), ZenonT(30), <1>2, <1>3, <2>0, <2>1, <3>1, <3>3, <3>4 DEF Shown, TextOK
    <3>7. ASSUME NEW u \in Users PROVE ReactionOK(n, u)'
      <4>0. ReactionOK(n, u)
        BY <2>0, <2>1 DEF Shown
      <4>1. CASE u = UserOf[h]
        <5>1. \A g : Busy(g, n, {"react"}) \/ Busy(g, n, {"unreact"}) => Busy(g, n, Reacts)
          BY DEF Busy, Reacts
        <5>2. \A g \in Handlers : UserOf[g] = u =>
                ~Busy(g, n, Reacts)' /\ ~Busy(g, n, {"react"})' /\ ~Busy(g, n, {"unreact"})'
          BY <3>1, <3>3, <4>0, <4>1, <5>1 DEF ReactionOK
        <5>3. ~rows[n].deleted /\ ~Pending(n, {"send"}) => view[n] # None
          BY <2>0, <2>1 DEF Shown, TextOK
        <5>4. /\ job[h].op = "react" => Busy(h, n, {"react"})
              /\ job[h].op = "unreact" => Busy(h, n, {"unreact"})
          BY <1>0 DEF Busy
        <5>5. /\ job[h].op = "react" => <<n, u>> \in reactions
              /\ job[h].op = "unreact" => <<n, u>> \notin reactions
          BY <4>0, <4>1, <5>4 DEF ReactionOK
        <5>6. ~rows[n].deleted /\ ~Pending(n, {"send"}) =>
                (<<n, u>> \in viewReactions' <=> <<n, u>> \in reactions)
          BY <1>1, <1>2, <4>1, <5>3, <5>5
        <5> QED BY <1>2, <3>4, <5>2, <5>6 DEF ReactionOK
      <4>2. CASE u # UserOf[h]
        <5>1. <<n, u>> \in viewReactions' <=> <<n, u>> \in viewReactions
          BY <1>4, <4>2
        <5> QED BY <1>2, <3>3, <3>4, <4>0, <4>2, <5>1 DEF ReactionOK
      <4> QED BY <4>1, <4>2
    <3> QED BY <2>1, <3>5, <3>6, <3>7 DEF Shown
  <2>2. CASE m # n
    <3>1. \A k \in Handlers : Busy(k, m, MsgOps) \/ Busy(k, m, MsgOps)' => job'[k] = job[k]
      BY <1>0, <1>3, <2>0, <2>2 DEF Busy
    <3> QED BY <1>2, <1>4, <2>0, <2>2, <3>1, Elsewhere
  <2> QED BY <2>1, <2>2
<1>9. (\A k \in Handlers : FocusOK(k)') /\ SeenStored' /\ ReadStaysRead' /\ DMReopened'
  BY <1>1, <1>2, <1>3, BystandersKept
<1> QED BY <1>5, <1>6, <1>7, <1>8, <1>9 DEF AllShown
-----------------------------------------------------------------------------
(* A focus reads the newest visible message. *)
LEMMA FocusKeeps ==
  ASSUME IInv, NEW h \in Handlers, FocusChannel(h)
  PROVE  IInv'
<1> USE DEF IInv
<1>0. PICK n \in GetLatestMessageID : Do(h, "focus", n, None)
  BY DEF FocusChannel
<1>1. n \in DOMAIN rows /\ n \in 0..MaxMessages /\ \A m \in Visible : m <= n
  BY TypeFacts DEF GetLatestMessageID, Visible
<1>2. /\ job[h] = Idle /\ job[h].op = "idle"
      /\ UNCHANGED <<load, rows, reactions, lastRead, open, view, viewReactions, raced,
                     seen, closedAt>>
      /\ refocused' = IF \E g \in Handlers \ {h} : job[g].op = "focus" /\ UserOf[g] = UserOf[h]
                      THEN refocused \union {UserOf[h]} ELSE refocused
  BY DEF FocusChannel, Idle, database, shown
<1>3. /\ job'[h].op = "focus" /\ job'[h].msg = n
      /\ \A g \in Handlers \ {h} : job'[g] = job[g]
      /\ JobsTyped'
  <2>1. Do(h, "focus", n, None) /\ "focus" \in Ops
    BY <1>0 DEF Ops
  <2> QED BY <1>1, <2>1, Takes
<1>5. TypeOK'
  <2>1. DatabaseTyped' /\ ShownTyped' /\ RestTyped'
    BY <1>2, TypeFacts, TypeParts DEF DatabaseTyped, ShownTyped, RestTyped
  <2> QED BY <1>3, <2>1, TypeFromParts
<1>6. ASSUME NEW k \in Handlers PROVE JobOK(k)'
  <2>1. CASE k = h
    BY <1>1, <1>2, <1>3, <2>1 DEF JobOK
  <2>2. CASE k # h
    BY <1>2, <1>3, <2>2, JobKept
  <2> QED BY <2>1, <2>2
<1>7. NothingEarly'
  BY <1>2 DEF NothingEarly
<1>8. ASSUME NEW m \in DOMAIN rows' \ raced' PROVE Shown(m)'
  <2>1. Shown(m) /\ rows'[m] = rows[m]
    BY <1>2 DEF AllShown
  <2>2. \A k \in Handlers : Busy(k, m, MsgOps) \/ Busy(k, m, MsgOps)' => job'[k] = job[k]
    BY <1>2, <1>3 DEF Busy, MsgOps, Reacts
  <2> QED BY <1>2, <2>1, <2>2, Elsewhere
<1>9. ASSUME NEW k \in Handlers PROVE FocusOK(k)'
  <2>1. Visible' = Visible
    BY <1>2 DEF Visible
  <2>2. CASE k = h
    BY <1>1, <1>2, <1>3, <2>1, <2>2 DEF FocusOK
  <2>3. CASE k # h
    <3>1. FocusOK(k) /\ job'[k] = job[k]
      BY <1>3, <2>3
    <3> QED BY <1>2, <1>3, <2>1, <2>3, <3>1 DEF FocusOK
  <2> QED BY <2>2, <2>3
<1>10. SeenStored' /\ ReadStaysRead'
  BY <1>2 DEF SeenStored, ReadStaysRead, Visible
<1>11. DMReopened'
  <2>1. \A m \in DOMAIN rows : Pending(m, {"send", "reopen"}) => Pending(m, {"send", "reopen"})'
    BY <1>2, <1>3 DEF Pending
  <2> QED BY <1>2, <2>1, DMKept
<1> QED BY <1>5, <1>6, <1>7, <1>8, <1>9, <1>10, <1>11 DEF AllShown

(* The position is stored: not behind what is visible of what was read. *)
LEMMA UpdateReadStateKeeps ==
  ASSUME IInv, NEW h \in Handlers, UpdateReadState(h)
  PROVE  IInv'
<1> USE DEF IInv
<1>0. PICK n, u : n = job[h].msg /\ u = UserOf[h]
  OBVIOUS
<1>1. /\ n \in DOMAIN rows /\ n \in 0..Len(rows) /\ n \in 0..MaxMessages /\ u \in Users
      /\ job[h].op = "focus" /\ seen[u] \in 0..MaxMessages /\ seen[u] <= Len(rows)
      /\ Len(rows) \in Nat /\ MaxMessages \in Nat
  <2>1. n \in DOMAIN rows /\ u \in Users /\ job[h].op = "focus"
    BY <1>0, TypeFacts DEF UpdateReadState, JobOK
  <2>2. seen[u] \in 0..MaxMessages /\ seen[u] <= Len(rows)
    BY <2>1 DEF TypeOK, SeenStored
  <2>3. Len(rows) \in Nat /\ MaxMessages \in Nat /\ DOMAIN rows = 1..Len(rows) /\ Len(rows) <= MaxMessages
    BY TypeFacts
  <2> QED BY <2>1, <2>2, <2>3
<1>2. /\ UNCHANGED <<load, rows, reactions, open, view, viewReactions, raced, refocused, closedAt>>
      /\ lastRead' = [lastRead EXCEPT ![u] = n]
      /\ seen' = [seen EXCEPT ![u] = IF seen[u] < n THEN n ELSE seen[u]]
  BY <1>0 DEF UpdateReadState, shown
<1>3. /\ job'[h] = Idle /\ job'[h].op = "idle" /\ job'[h].msg = 0
      /\ \A g \in Handlers \ {h} : job'[g] = job[g]
      /\ JobsTyped'
  BY Finishes DEF UpdateReadState
<1>4. PICK x : x = IF seen[u] < n THEN n ELSE seen[u]
  OBVIOUS
<1>5. x \in {seen[u], n} /\ seen[u] <= x /\ n <= x /\ x \in 0..MaxMessages /\ x <= Len(rows)
  BY <1>1, <1>4
<1>6. /\ lastRead'[u] = n /\ seen'[u] = x
      /\ \A v \in Users \ {u} : lastRead'[v] = lastRead[v] /\ seen'[v] = seen[v]
      /\ lastRead' \in [Users -> 0..Len(rows)] /\ seen' \in [Users -> 0..MaxMessages]
  <2>1. lastRead \in [Users -> 0..Len(rows)] /\ seen \in [Users -> 0..MaxMessages]
    BY DEF TypeOK
  <2> QED BY <1>1, <1>2, <1>4, <1>5, <2>1
<1>7. TypeOK'
  <2>1. DatabaseTyped' /\ ShownTyped' /\ RestTyped'
    BY <1>2, <1>6, TypeParts DEF DatabaseTyped, ShownTyped, RestTyped
  <2> QED BY <1>3, <2>1, TypeFromParts
<1>9. ASSUME NEW k \in Handlers PROVE JobOK(k)'
  <2>1. CASE k = h
    BY <1>3, <2>1 DEF JobOK
  <2>2. CASE k # h
    BY <1>2, <1>3, <2>2, JobKept
  <2> QED BY <2>1, <2>2
<1>10. NothingEarly'
  BY <1>2 DEF NothingEarly
<1>8. ASSUME NEW m \in DOMAIN rows' \ raced' PROVE Shown(m)'
  <2>1. Shown(m) /\ rows'[m] = rows[m]
    BY <1>2 DEF AllShown
  <2>2. \A k \in Handlers : Busy(k, m, MsgOps) \/ Busy(k, m, MsgOps)' => job'[k] = job[k]
    BY <1>1, <1>3 DEF Busy, MsgOps, Reacts
  <2> QED BY <1>2, <2>1, <2>2, Elsewhere
<1>11. Visible' = Visible /\ \A m \in Visible : m \in Nat
  BY <1>2, TypeFacts DEF Visible
<1>12. SeenStored'
  BY <1>1, <1>2, <1>5, <1>6 DEF SeenStored
<1>13. ReadStaysRead'
  <2> SUFFICES ASSUME NEW v \in Users \ refocused, NEW m \in Visible, m <= seen'[v]
               PROVE  m <= lastRead'[v]
    BY <1>2, <1>11 DEF ReadStaysRead
  <2>1. CASE v = u
    <3>1. m <= seen[u] => m <= n
      BY <1>0, <1>1, <2>1 DEF FocusOK
    <3> QED BY <1>5, <1>6, <2>1, <3>1
  <2>2. CASE v # u
    BY <1>6, <2>2 DEF ReadStaysRead
  <2> QED BY <2>1, <2>2
<1>14. ASSUME NEW k \in Handlers PROVE FocusOK(k)'
  <2>1. CASE k = h
    BY <1>3, <2>1 DEF FocusOK
  <2>2. CASE k # h
    <3>1. FocusOK(h) /\ FocusOK(k) /\ job'[k] = job[k] /\ UserOf[k] \in Users
      BY <1>3, <2>2, TypeFacts
    <3>2. CASE UserOf[k] = u
      BY <1>0, <1>1, <1>2, <2>2, <3>1, <3>2 DEF FocusOK
    <3>3. CASE UserOf[k] # u
      BY <1>2, <1>3, <1>6, <1>11, <3>1, <3>3 DEF FocusOK
    <3> QED BY <3>2, <3>3
  <2> QED BY <2>1, <2>2
<1>15. DMReopened'
  <2>1. \A m \in DOMAIN rows : Pending(m, {"send", "reopen"}) => Pending(m, {"send", "reopen"})'
    BY <1>1, <1>3 DEF Pending
  <2> QED BY <1>2, <2>1, DMKept
<1> QED BY <1>7, <1>9, <1>10, <1>8, <1>12, <1>13, <1>14, <1>15 DEF AllShown

(* A step that touches only the list of open DMs. *)
LEMMA ListKeeps ==
  ASSUME IInv, NEW u \in Users, CloseDM(u) \/ GetOrCreateDMChannel(u)
  PROVE  IInv'
<1> USE DEF IInv
<1>1. UNCHANGED <<load, rows, reactions, lastRead, job, view, viewReactions, raced, seen, refocused>>
  BY DEF CloseDM, GetOrCreateDMChannel, shown, history
<1>2. TypeOK'
  <2>1. Len(rows) \in 0..MaxMessages
    BY TypeFacts
  <2>2. open' \subseteq Users /\ closedAt' \in [Users -> 0..MaxMessages]
    <3>1. open \subseteq Users /\ closedAt \in [Users -> 0..MaxMessages]
      BY DEF TypeOK
    <3>2. \/ open' = open \ {u} /\ closedAt' = [closedAt EXCEPT ![u] = Len(rows)]
          \/ open' = open \union {u} /\ closedAt' = closedAt
      BY DEF CloseDM, GetOrCreateDMChannel, history
    <3> QED BY <2>1, <3>1, <3>2
  <2> QED BY <1>1, <2>2 DEF TypeOK
<1>3. /\ (\A h \in Handlers : JobOK(h)') /\ NothingEarly' /\ SeenStored' /\ ReadStaysRead'
      /\ (\A h \in Handlers : FocusOK(h)')
  BY <1>1 DEF JobOK, NothingEarly, SeenStored, ReadStaysRead, FocusOK, Visible
<1>4. AllShown'
  <2> SUFFICES ASSUME NEW m \in DOMAIN rows \ raced PROVE Shown(m)'
    BY <1>1 DEF AllShown
  <2>1. Shown(m)
    BY DEF AllShown
  <2> QED BY <1>1, <2>1, Elsewhere
<1>5. DMReopened'
  <2>1. \A m \in DOMAIN rows : Pending(m, {"send", "reopen"})' <=> Pending(m, {"send", "reopen"})
    BY <1>1 DEF Pending
  <2>2. CASE CloseDM(u)
    <3>1. /\ closedAt'[u] = Len(rows)
          /\ \A v \in Users \ {u} : closedAt'[v] = closedAt[v] /\ (v \in open => v \in open')
      BY <2>2 DEF CloseDM, TypeOK
    <3>2. DOMAIN rows = 1..Len(rows) /\ Len(rows) \in Nat
      BY TypeFacts
    <3>3. \A m \in DOMAIN rows : ~(m > closedAt'[u])
      BY <3>1, <3>2
    <3> QED BY <1>1, <2>1, <3>1, <3>3 DEF DMReopened
  <2>3. CASE GetOrCreateDMChannel(u)
    BY <1>1, <2>1, <2>3, DMKept DEF GetOrCreateDMChannel, history
  <2> QED BY <2>2, <2>3
<1> QED BY <1>2, <1>3, <1>4, <1>5
-----------------------------------------------------------------------------
(* The inductive invariant of a channel: what every handler has in hand,   *)
(* and how far what is shown, read and listed can lag behind the database. *)
THEOREM MessagesInvariant == Spec => []IInv
<1>1. Init => IInv
  <2> SUFFICES ASSUME Init PROVE IInv
    OBVIOUS
  <2>1. rows = << >> /\ DOMAIN rows = {} /\ Len(rows) = 0 /\ Visible = {}
    BY DEF Init, Visible
  <2>2. \A h \in Handlers : job[h] = Idle /\ job[h].op = "idle"
    BY DEF Init, Idle
  <2>3. TypeOK
    <3>1. DatabaseTyped
      BY <2>1, MessagesAssumption DEF Init, DatabaseTyped
    <3>2. ShownTyped /\ RestTyped
      BY MessagesAssumption DEF Init, ShownTyped, RestTyped
    <3>3. JobsTyped
      <4>1. Idle \in Job
        BY MessagesAssumption DEF Idle, Job, Ops
      <4> QED BY <4>1 DEF Init, JobsTyped
    <3> QED BY <3>1, <3>2, <3>3, TypeParts
  <2>4. (\A h \in Handlers : JobOK(h)) /\ (\A h \in Handlers : FocusOK(h))
    BY <2>2 DEF JobOK, FocusOK
  <2>5. NothingEarly /\ SeenStored
    BY <2>1 DEF Init, NothingEarly, SeenStored
  <2>6. AllShown /\ ReadStaysRead /\ DMReopened
    BY <2>1 DEF AllShown, ReadStaysRead, DMReopened
  <2> QED BY <2>3, <2>4, <2>5, <2>6 DEF IInv
<1>2. IInv /\ [Next]_vars => IInv'
  <2> SUFFICES ASSUME IInv, [Next]_vars PROVE IInv'
    OBVIOUS
  <2>1. ASSUME NEW h \in Handlers, NEW x \in load.texts, CreateMessage(h, x) PROVE IInv'
    BY <2>1, CreateKeeps
  <2>2. ASSUME NEW h \in Handlers, AnnounceMessage(h) PROVE IInv'
    BY <2>2, AnnounceMessageKeeps
  <2>3. ASSUME NEW h \in Handlers, OpenDM(h) PROVE IInv'
    BY <2>3, OpenDMKeeps
  <2>4. ASSUME NEW h \in Handlers, NEW m \in DOMAIN rows, NEW x \in load.texts, EditMessage(h, m, x)
        PROVE  IInv'
    BY <2>4, EditKeeps
  <2>5. ASSUME NEW h \in Handlers, NEW m \in DOMAIN rows, DeleteMessage(h, m) PROVE IInv'
    BY <2>5, DeleteKeeps
  <2>6. ASSUME NEW h \in Handlers, NEW m \in DOMAIN rows, AddReaction(h, m) \/ RemoveReaction(h, m)
        PROVE  IInv'
    BY <2>6, ReactionKeeps
  <2>8. ASSUME NEW h \in Handlers, AnnounceEdit(h) PROVE IInv'
    BY <2>8, AnnounceEditKeeps
  <2>9. ASSUME NEW h \in Handlers, AnnounceDelete(h) PROVE IInv'
    BY <2>9, AnnounceDeleteKeeps
  <2>10. ASSUME NEW h \in Handlers, AnnounceReaction(h) PROVE IInv'
    BY <2>10, AnnounceReactionKeeps
  <2>11. ASSUME NEW h \in Handlers, FocusChannel(h) PROVE IInv'
    BY <2>11, FocusKeeps
  <2>12. ASSUME NEW h \in Handlers, UpdateReadState(h) PROVE IInv'
    BY <2>12, UpdateReadStateKeeps
  <2>13. ASSUME NEW u \in Users, CloseDM(u) \/ GetOrCreateDMChannel(u) PROVE IInv'
    BY <2>13, ListKeeps
  <2>14. CASE UNCHANGED vars
    <3>1. UNCHANGED <<load, rows, reactions, lastRead, open, job, view, viewReactions, raced,
                      seen, refocused, closedAt>>
      BY <2>14 DEF vars, database, shown, history
    <3>2. TypeOK' /\ (\A h \in Handlers : JobOK(h)') /\ NothingEarly'
      BY <3>1, Zenon DEF IInv, TypeOK, JobOK, NothingEarly
    <3>3. SeenStored' /\ ReadStaysRead' /\ DMReopened' /\ \A h \in Handlers : FocusOK(h)'
      BY <3>1 DEF IInv, SeenStored, ReadStaysRead, DMReopened, FocusOK, Visible, Pending
    <3>4. AllShown'
      <4> SUFFICES ASSUME NEW m \in DOMAIN rows \ raced PROVE Shown(m)'
        BY <3>1 DEF AllShown
      <4>1. Shown(m)
        BY DEF IInv, AllShown
      <4> QED BY <3>1, <4>1, Elsewhere
    <3> QED BY <3>2, <3>3, <3>4 DEF IInv
  <2> QED BY <2>1, <2>2, <2>3, <2>4, <2>5, <2>6, <2>8, <2>9, <2>10, <2>11, <2>12, <2>13,
             <2>14 DEF Next
<1> QED BY <1>1, <1>2, PTL DEF Spec

(* What is shown of a message nobody is working on is what is stored. *)
LEMMA SettledIsShown ==
  ASSUME IInv
  PROVE  ViewMatchesDatabase
<1> USE DEF IInv
<1> SUFFICES ASSUME NEW m \in DOMAIN rows \ raced
    PROVE  /\ ~Pending(m, {"send", "edit", "delete"}) =>
                view[m] = (IF rows[m].deleted THEN None ELSE rows[m].text)
           /\ ~Pending(m, {"send", "delete"} \union Reacts) /\ ~rows[m].deleted =>
                \A u \in Users : <<m, u>> \in viewReactions <=> <<m, u>> \in reactions
  BY Zenon DEF ViewMatchesDatabase
<1>1. TextOK(m) /\ \A u \in Users : ReactionOK(m, u)
  BY DEF AllShown, Shown
<1>2. ~Pending(m, {"send", "edit", "delete"}) =>
        ~Pending(m, {"send"}) /\ ~Pending(m, {"edit"}) /\ ~Pending(m, {"delete"})
  BY DEF Pending
<1>3. ~Pending(m, {"send", "delete"} \union Reacts) =>
        ~Pending(m, {"send"}) /\ \A h \in Handlers : ~Busy(h, m, Reacts)
  BY DEF Pending, Busy
<1>4. ~Pending(m, {"send", "edit", "delete"}) =>
        view[m] = (IF rows[m].deleted THEN None ELSE rows[m].text)
  BY <1>1, <1>2 DEF TextOK
<1>5. ~Pending(m, {"send", "delete"} \union Reacts) /\ ~rows[m].deleted =>
        \A u \in Users : <<m, u>> \in viewReactions <=> <<m, u>> \in reactions
  BY <1>1, <1>3 DEF ReactionOK
<1> QED BY <1>4, <1>5

(* For any number of users, connections, texts and messages: the tables,   *)
(* the handlers' jobs and the views have their types, and a read position  *)
(* is that of a stored message.                                            *)
THEOREM MessagesTyped == Spec => []TypeOK
<1>1. IInv => TypeOK
  BY DEF IInv
<1> QED BY <1>1, MessagesInvariant, PTL

(* For any number of users, connections, texts and messages, and any       *)
(* overlap of sends, edits, deletions and reactions outside Race: when the *)
(* handlers of a message are done, every viewer shows what is stored of it. *)
THEOREM ViewAlwaysMatches == Spec => []ViewMatchesDatabase
  BY MessagesInvariant, SettledIsShown, PTL

(* For any number of users, connections and messages: what a user has been *)
(* marked past never counts as unread again, whatever is deleted.          *)
THEOREM ReadAlwaysStaysRead == Spec => []ReadStaysRead
<1>1. IInv => ReadStaysRead
  BY DEF IInv
<1> QED BY <1>1, MessagesInvariant, PTL

(* For any number of users, connections and messages: a message that comes *)
(* after its recipient closed the DM puts the DM back in their list.       *)
THEOREM DMAlwaysReopened == Spec => []DMReopened
<1>1. IInv => DMReopened
  BY DEF IInv
<1> QED BY <1>1, MessagesInvariant, PTL
=============================================================================
