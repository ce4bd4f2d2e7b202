------------------------------ MODULE Messages ------------------------------
(***************************************************************************)
(* One channel, its messages and what its viewers see of them.  A request  *)
(* handler (handleChatSend, handleChatEdit, handleChatDelete,              *)
(* handleReaction, handleChannelFocus) changes the database first and      *)
(* tells the viewers later, with other handlers in between.  A handler     *)
(* belongs to a connection, which takes one request at a time; a user can  *)
(* have two, because a connection that is being replaced may still be busy. *)
(*                                                                         *)
(* view and viewReactions are what a viewer shows who was there from the   *)
(* start and applies the events in the order of their broadcast, ignoring  *)
(* an edit or a reaction for a message that it does not show.              *)
(***************************************************************************)
EXTENDS Integers, Sequences

CONSTANTS
    Users,         \* members of the channel; the two participants of a DM
    Mods,          \* those with MANAGE_MESSAGES
    Handlers,      \* connections
    UserOf,        \* the user of each connection
    Texts,         \* message contents
    MaxMessages,   \* bound on the messages
    Workloads      \* what is asked of the channel: whether it is a DM, the kinds
                   \* of request, the texts, and how many messages are sent

ASSUME MessagesAssumption ==
    /\ Mods \subseteq Users
    /\ UserOf \in [Handlers -> Users]
    /\ 0 \notin Texts /\ Texts \subseteq Nat
    /\ MaxMessages \in Nat
    /\ Workloads \subseteq [dm : BOOLEAN, messages : 0 .. MaxMessages, texts : SUBSET Texts,
                            kinds : SUBSET {"edit", "delete", "react", "focus", "close"}]

VARIABLES
    load,           \* the workload, fixed at the start
    rows,           \* the messages table, by id
    reactions,      \* the reactions table: <<message, user>>
    lastRead,       \* last_message_id of each user in read_states
    open,           \* users with the DM in dm_open_state
    job,            \* what each handler has done in the database, not told yet
    view,           \* the content shown of each message, or None
    viewReactions,  \* the reactions shown
    raced,          \* history: messages with an event that may come out of order
    seen,           \* history: the newest message each user has been marked at
    refocused,      \* history: users with two overlapping focus handlers
    closedAt        \* history: the newest message when a user last closed the DM

database == <<rows, reactions, lastRead, open>>
shown == <<view, viewReactions>>
history == <<raced, seen, refocused, closedAt>>
vars == <<load, database, job, shown, history>>

Ids == 1 .. MaxMessages
None == 0
Idle == [op |-> "idle", msg |-> 0, text |-> None]

Init ==
    /\ load \in Workloads
    /\ rows = << >> /\ reactions = {} /\ lastRead = [u \in Users |-> 0]
    /\ open = Users
    /\ job = [h \in Handlers |-> Idle]
    /\ view = [m \in Ids |-> None] /\ viewReactions = {}
    /\ raced = {} /\ seen = [u \in Users |-> 0]
    /\ refocused = {} /\ closedAt = [u \in Users |-> 0]

Do(h, op, m, x) == job' = [job EXCEPT ![h] = [op |-> op, msg |-> m, text |-> x]]

Done(h) == job' = [job EXCEPT ![h] = Idle]

Reacts == {"react", "unreact"}

(* The events of a message keep the order of the database unless it has    *)
(* not been announced yet (someone found it in the history), or another    *)
(* connection of the same user has the same kind of event in hand.         *)
Race(h, m, ops) ==
    raced' = IF \E g \in Handlers \ {h} :
                  /\ job[g].msg = m
                  /\ \/ job[g].op = "send"
                     \/ job[g].op \in ops /\ UserOf[g] = UserOf[h]
             THEN raced \union {m} ELSE raced

-----------------------------------------------------------------------------
(* handleChatSend *)

CreateMessage(h, x) ==
    /\ job[h] = Idle /\ Len(rows) < load.messages
    /\ rows' = Append(rows, [by |-> UserOf[h], text |-> x, deleted |-> FALSE])
    /\ Do(h, "send", Len(rows) + 1, x)
    /\ UNCHANGED <<load, reactions, lastRead, open, shown, history>>

AnnounceMessage(h) ==
    /\ job[h].op = "send"
    /\ view' = [view EXCEPT ![job[h].msg] = job[h].text]
    /\ IF load.dm THEN Do(h, "reopen", job[h].msg, None) ELSE Done(h)
    /\ UNCHANGED <<load, database, viewReactions, history>>

(* Mutant: opened for the sender. *)
OpenDMForSender(h) ==
    /\ job[h].op = "reopen"
    /\ open' = open \union {UserOf[h]}
    /\ Done(h)
    /\ UNCHANGED <<load, rows, reactions, lastRead, shown, history>>

OpenDM(h) ==
    /\ job[h].op = "reopen"
    /\ open' = open \union (Users \ {UserOf[h]})
    /\ Done(h)
    /\ UNCHANGED <<load, rows, reactions, lastRead, shown, history>>

-----------------------------------------------------------------------------
(* handleChatEdit: the owner's, and of a deleted message too. *)

EditMessage(h, m, x) ==
    /\ job[h] = Idle /\ "edit" \in load.kinds
    /\ rows[m].by = UserOf[h]
    /\ rows' = [rows EXCEPT ![m].text = x]
    /\ Do(h, "edit", m, x)
    /\ Race(h, m, {"edit"})
    /\ UNCHANGED <<load, reactions, lastRead, open, shown, seen, refocused, closedAt>>

AnnounceEdit(h) ==
    /\ job[h].op = "edit"
    /\ view' = [view EXCEPT ![job[h].msg] = IF @ = None THEN None ELSE job[h].text]
    /\ Done(h)
    /\ UNCHANGED <<load, database, viewReactions, history>>

-----------------------------------------------------------------------------
(* handleChatDelete: the owner's, or a moderator's outside DMs. *)

(* Mutant: a delete nobody is told of. *)
DeleteMessageSilently(h, m) ==
    /\ job[h] = Idle /\ "delete" \in load.kinds
    /\ rows[m].by = UserOf[h] \/ (~load.dm /\ UserOf[h] \in Mods)
    /\ rows' = [rows EXCEPT ![m].deleted = TRUE]
    /\ Race(h, m, {})
    /\ UNCHANGED <<load, reactions, lastRead, open, job, shown, seen, refocused, closedAt>>

DeleteMessage(h, m) ==
    /\ job[h] = Idle /\ "delete" \in load.kinds
    /\ rows[m].by = UserOf[h] \/ (~load.dm /\ UserOf[h] \in Mods)
    /\ rows' = [rows EXCEPT ![m].deleted = TRUE]
    /\ Do(h, "delete", m, None)
    /\ Race(h, m, {})
    /\ UNCHANGED <<load, reactions, lastRead, open, shown, seen, refocused, closedAt>>

AnnounceDelete(h) ==
    /\ job[h].op = "delete"
    /\ view' = [view EXCEPT ![job[h].msg] = None]
    /\ viewReactions' = {r \in viewReactions : r[1] # job[h].msg}
    /\ Done(h)
    /\ UNCHANGED <<load, database, history>>

-----------------------------------------------------------------------------
(* handleReaction: the table refuses a second add and a second remove. *)

AddReaction(h, m) ==
    /\ job[h] = Idle /\ "react" \in load.kinds
    /\ <<m, UserOf[h]>> \notin reactions
    /\ reactions' = reactions \union {<<m, UserOf[h]>>}
    /\ Do(h, "react", m, None)
    /\ Race(h, m, Reacts)
    /\ UNCHANGED <<load, rows, lastRead, open, shown, seen, refocused, closedAt>>

RemoveReaction(h, m) ==
    /\ job[h] = Idle /\ "react" \in load.kinds
    /\ <<m, UserOf[h]>> \in reactions
    /\ reactions' = reactions \ {<<m, UserOf[h]>>}
    /\ Do(h, "unreact", m, None)
    /\ Race(h, m, Reacts)
    /\ UNCHANGED <<load, rows, lastRead, open, shown, seen, refocused, closedAt>>

AnnounceReaction(h) ==
    /\ job[h].op \in Reacts
    /\ LET r == <<job[h].msg, UserOf[h]>> IN
       viewReactions' = IF job[h].op = "unreact" THEN viewReactions \ {r}
                        ELSE IF view[job[h].msg] = None THEN viewReactions
                        ELSE viewReactions \union {r}
    /\ Done(h)
    /\ UNCHANGED <<load, database, view, history>>

-----------------------------------------------------------------------------
(* handleChannelFocus *)

Visible == {m \in DOMAIN rows : ~rows[m].deleted}

(* The query's row, if there is one. *)
GetLatestMessageID == {m \in Visible : \A k \in Visible : k <= m}

FocusChannel(h) ==
    /\ job[h] = Idle /\ "focus" \in load.kinds
    /\ \E m \in GetLatestMessageID : Do(h, "focus", m, None)
    /\ refocused' = IF \E g \in Handlers \ {h} :
                         job[g].op = "focus" /\ UserOf[g] = UserOf[h]
                    THEN refocused \union {UserOf[h]} ELSE refocused
    /\ UNCHANGED <<load, database, shown, raced, seen, closedAt>>

(* Mutant: the position of the next message. *)
UpdateReadStateNext(h) ==
    /\ job[h].op = "focus"
    /\ LET u == UserOf[h] IN
       /\ lastRead' = [lastRead EXCEPT ![u] = job[h].msg + 1]
       /\ seen' = [seen EXCEPT ![u] = IF @ < job[h].msg THEN job[h].msg ELSE @]
    /\ Done(h)
    /\ UNCHANGED <<load, rows, reactions, open, shown, raced, refocused, closedAt>>

(* Mutant: the position is written once only. *)
UpdateReadStateOnce(h) ==
    /\ job[h].op = "focus"
    /\ LET u == UserOf[h] IN
       /\ lastRead' = [lastRead EXCEPT ![u] = IF @ = 0 THEN job[h].msg ELSE @]
       /\ seen' = [seen EXCEPT ![u] = IF @ < job[h].msg THEN job[h].msg ELSE @]
    /\ Done(h)
    /\ UNCHANGED <<load, rows, reactions, open, shown, raced, refocused, closedAt>>

UpdateReadState(h) ==
    /\ job[h].op = "focus"
    /\ LET u == UserOf[h] IN
       /\ lastRead' = [lastRead EXCEPT ![u] = job[h].msg]
       /\ seen' = [seen EXCEPT ![u] = IF @ < job[h].msg THEN job[h].msg ELSE @]
    /\ Done(h)
    /\ UNCHANGED <<load, rows, reactions, open, shown, raced, refocused, closedAt>>

-----------------------------------------------------------------------------
(* handleCloseDM and, for the DM that exists, handleCreateDM *)

CloseDM(u) ==
    /\ load.dm /\ "close" \in load.kinds
    /\ open' = open \ {u}
    /\ closedAt' = [closedAt EXCEPT ![u] = Len(rows)]
    /\ UNCHANGED <<load, rows, reactions, lastRead, job, shown, raced, seen, refocused>>

GetOrCreateDMChannel(u) ==
    /\ load.dm /\ "close" \in load.kinds
    /\ open' = open \union {u}
    /\ UNCHANGED <<load, rows, reactions, lastRead, job, shown, history>>

Next ==
    \/ \E h \in Handlers :
         \/ \E x \in load.texts : CreateMessage(h, x)
         \/ AnnounceMessage(h) \/ OpenDM(h)
         \/ \E m \in DOMAIN rows :
              \/ \E x \in load.texts : EditMessage(h, m, x)
              \/ DeleteMessage(h, m) \/ AddReaction(h, m) \/ RemoveReaction(h, m)
         \/ AnnounceEdit(h) \/ AnnounceDelete(h) \/ AnnounceReaction(h)
         \/ FocusChannel(h) \/ UpdateReadState(h)
    \/ \E u \in Users : CloseDM(u) \/ GetOrCreateDMChannel(u)

Spec == Init /\ [][Next]_vars

-----------------------------------------------------------------------------
(* Type correctness; a read position is that of a stored message. *)
TypeOK ==
    /\ load \in Workloads
    /\ rows \in Seq([by : Users, text : Texts, deleted : BOOLEAN]) /\ Len(rows) <= MaxMessages
    /\ reactions \subseteq (DOMAIN rows) \X Users /\ viewReactions \subseteq Ids \X Users
    /\ lastRead \in [Users -> 0 .. Len(rows)]
    /\ open \subseteq Users
    /\ job \in [Handlers -> [op : {"idle", "send", "reopen", "edit", "delete", "focus"}
                                    \union Reacts,
                             msg : 0 .. MaxMessages, text : Texts \union {None}]]
    /\ view \in [Ids -> Texts \union {None}]
    /\ raced \subseteq Ids /\ refocused \subseteq Users
    /\ seen \in [Users -> 0 .. MaxMessages] /\ closedAt \in [Users -> 0 .. MaxMessages]

Pending(m, ops) == \E h \in Handlers : job[h].msg = m /\ job[h].op \in ops

(* Once the handlers concerned have finished, a viewer shows of a message  *)
(* what the database holds: its last text, or nothing if it is deleted,    *)
(* and exactly its reactions.  Edits, deletions and reactions of different *)
(* people may overlap in any way; the exceptions are those of Race.        *)
ViewMatchesDatabase ==
    \A m \in DOMAIN rows \ raced :
      /\ ~Pending(m, {"send", "edit", "delete"}) =>
           view[m] = (IF rows[m].deleted THEN None ELSE rows[m].text)
      /\ ~Pending(m, {"send", "delete"} \union Reacts) /\ ~rows[m].deleted =>
           \A u \in Users : <<m, u>> \in viewReactions <=> <<m, u>> \in reactions

(* A message a user has been marked past is not counted as unread again    *)
(* (GetChannelUnreadCounts counts the visible ones after last_message_id), *)
(* although a focus after a deletion moves the mark back.  The exception   *)
(* is a user two of whose connections focus at once.                       *)
ReadStaysRead ==
    \A u \in Users \ refocused : \A m \in Visible : m <= seen[u] => m <= lastRead[u]

(* A DM is in its recipient's list when a message has come after they last *)
(* closed it, also if they close it while the message is on its way.       *)
DMReopened ==
    load.dm => \A m \in DOMAIN rows, u \in Users :
      rows[m].by # u /\ m > closedAt[u] /\ ~Pending(m, {"send", "reopen"}) => u \in open
=============================================================================
