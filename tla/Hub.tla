-------------------------------- MODULE Hub --------------------------------
(***************************************************************************)
(* The connections of the WebSocket hub (ws/hub.go, ws/serve.go).  Every   *)
(* connection is a goroutine running ServeWS, from the handshake through   *)
(* registration and the read loop to the deferred clean-up, plus a         *)
(* writePump goroutine; Hub.Run sweeps idle clients; the admin or a signal *)
(* shuts the hub down; the process may die at any moment.  An action is    *)
(* what one goroutine does between two points where another can            *)
(* interleave: one critical section of Hub.mu, one database statement, one *)
(* channel operation.  What travels through the connections is the subject *)
(* of Broadcast.                                                           *)
(***************************************************************************)
EXTENDS Integers

CONSTANTS Users,
          Conns,          \* connection slots: a slot is reused once it is closed
          UserOf,         \* the user who connects through each slot
          NoConn,
          PresenceChoices \* statuses a client may set for itself

ASSUME UserOfAssumption == UserOf \in [Conns -> Users]
ASSUME NoConnAssumption == NoConn \notin Conns

VARIABLES clients,    \* Hub.clients: the registered connection of each user
          pc,         \* where each connection's ServeWS goroutine is
          sendClosed, \* Client.sendClosed
          open,       \* the WebSocket is usable
          writer,     \* each connection's writePump goroutine
          status,     \* users.status in the database
          stale,      \* what the current sweep has still to do to each client
          stop        \* GracefulStop's progress

vars == <<clients, pc, sendClosed, open, writer, status, stale, stop>>

(* Phases of ServeWS in which the connection has been registered and its   *)
(* goroutine has not yet started the deferred clean-up of readPump.        *)
Live == {"registered", "announce", "reading", "kicked"}

Phases == Live \cup {"closed", "authed", "handshaken", "unregister", "check",
                     "offline", "ending"}

Registered(c) == clients[UserOf[c]] = c
IsUserConnected(u) == clients[u] # NoConn

Init ==
  /\ clients = [u \in Users |-> NoConn]
  /\ pc = [c \in Conns |-> "closed"]
  /\ sendClosed = [c \in Conns |-> TRUE]
  /\ open = [c \in Conns |-> FALSE]
  /\ writer = [c \in Conns |-> "none"]
  /\ status = [u \in Users |-> "offline"]
  /\ stale = [c \in Conns |-> "no"]
  /\ stop = "no"
-----------------------------------------------------------------------------
(* ServeWS: the handshake *)

Goto(c, from, to) == pc[c] = from /\ pc' = [pc EXCEPT ![c] = to]

(* Accept and authenticateConn succeed and newClient builds the client.  A *)
(* slot is free once nothing refers to its previous client.                *)
Connect(c) ==
  /\ Goto(c, "closed", "authed")
  /\ writer[c] # "run" /\ stale[c] = "no"
  /\ sendClosed' = [sendClosed EXCEPT ![c] = FALSE]
  /\ open' = [open EXCEPT ![c] = TRUE]
  /\ writer' = [writer EXCEPT ![c] = "none"]
  /\ UNCHANGED <<clients, status, stale, stop>>

(* auth_ok, then the missed events or the ready payload, are written. *)
Handshake(c) ==
  /\ Goto(c, "authed", "handshaken")
  /\ UNCHANGED <<clients, sendClosed, open, writer, status, stale, stop>>

(* A write of the handshake fails: nothing was registered. *)
HandshakeFails(c) ==
  /\ Goto(c, "authed", "closed")
  /\ open' = [open EXCEPT ![c] = FALSE]
  /\ UNCHANGED <<clients, sendClosed, writer, status, stale, stop>>

(* Mutant: the connection being replaced keeps its send channel. *)
registerNowLeavesOld(c) ==
  /\ Goto(c, "handshaken", "registered")
  /\ clients' = [clients EXCEPT ![UserOf[c]] = c]
  /\ UNCHANGED <<sendClosed, open, writer, status, stale, stop>>

registerNow(c) ==
  /\ Goto(c, "handshaken", "registered")
  /\ clients' = [clients EXCEPT ![UserOf[c]] = c]
  /\ sendClosed' = [d \in Conns |-> sendClosed[d] \/ clients[UserOf[c]] = d]
  /\ UNCHANGED <<open, writer, status, stale, stop>>

UpdateUserStatusOnline(c) ==
  /\ Goto(c, "registered", "announce")
  /\ status' = [status EXCEPT ![UserOf[c]] = "online"]
  /\ UNCHANGED <<clients, sendClosed, open, writer, stale, stop>>

(* member_join and presence are queued, and startPumps starts the pumps. *)
StartPumps(c) ==
  /\ Goto(c, "announce", "reading")
  /\ writer' = [writer EXCEPT ![c] = "run"]
  /\ UNCHANGED <<clients, sendClosed, open, status, stale, stop>>
-----------------------------------------------------------------------------
(* The read loop *)

(* kickClient is two steps: under Hub.mu the client leaves the map if it   *)
(* is still the registered one; its send channel is closed afterwards.     *)
kickClient(c) == clients' = [clients EXCEPT ![UserOf[c]] = IF @ = c THEN NoConn ELSE @]
closeSend(c) == sendClosed' = [sendClosed EXCEPT ![c] = TRUE]

(* handleMessage finds the session revoked or expired, the user banned, or *)
(* the tenth invalid message in a row.                                     *)
KickSelf(c) ==
  /\ open[c] /\ Goto(c, "reading", "kicked")
  /\ kickClient(c)
  /\ UNCHANGED <<sendClosed, open, writer, status, stale, stop>>

KickSelfCloses(c) ==
  /\ Goto(c, "kicked", "reading")
  /\ closeSend(c)
  /\ UNCHANGED <<clients, open, writer, status, stale, stop>>

(* Mutant: the status is stored without being validated. *)
handlePresenceUnchecked(c, s) ==
  /\ pc[c] = "reading" /\ open[c]
  /\ status' = [status EXCEPT ![UserOf[c]] = "unknown"]
  /\ UNCHANGED <<clients, pc, sendClosed, open, writer, stale, stop>>

handlePresence(c, s) ==
  /\ pc[c] = "reading" /\ open[c]
  /\ status' = [status EXCEPT ![UserOf[c]] = s]
  /\ UNCHANGED <<clients, pc, sendClosed, open, writer, stale, stop>>

(* The peer or the network goes away. *)
NetworkDrops(c) ==
  /\ open[c]
  /\ open' = [open EXCEPT ![c] = FALSE]
  /\ UNCHANGED <<clients, pc, sendClosed, writer, status, stale, stop>>

(* conn.Read returns an error. *)
ReadFails(c) ==
  /\ ~open[c]
  /\ Goto(c, "reading", "unregister")
  /\ UNCHANGED <<clients, sendClosed, open, writer, status, stale, stop>>
-----------------------------------------------------------------------------
(* The deferred clean-up of readPump, and the end of startPumps *)

unregisterNow(c) ==
  /\ Goto(c, "unregister", "check")
  /\ clients' = [clients EXCEPT ![UserOf[c]] = IF @ = c THEN NoConn ELSE @]
  /\ UNCHANGED <<sendClosed, open, writer, status, stale, stop>>

(* Mutant: the clean-up trusts that a closed send channel means the        *)
(* connection was replaced.                                                *)
CheckReplacedBySend(c) ==
  /\ Goto(c, "check", IF sendClosed[c] THEN "ending" ELSE "offline")
  /\ UNCHANGED <<clients, sendClosed, open, writer, status, stale, stop>>

(* replaced := hub.IsUserConnected(c.userID), kept for the rest. *)
CheckReplaced(c) ==
  /\ Goto(c, "check", IF IsUserConnected(UserOf[c]) THEN "ending" ELSE "offline")
  /\ UNCHANGED <<clients, sendClosed, open, writer, status, stale, stop>>

UpdateUserStatusOffline(c) ==
  /\ Goto(c, "offline", "ending")
  /\ status' = [status EXCEPT ![UserOf[c]] = "offline"]
  /\ UNCHANGED <<clients, sendClosed, open, writer, stale, stop>>

(* closeSend, writeCancel, and ServeWS returns. *)
EndPumps(c) ==
  /\ Goto(c, "ending", "closed")
  /\ sendClosed' = [sendClosed EXCEPT ![c] = TRUE]
  /\ UNCHANGED <<clients, open, writer, status, stale, stop>>
-----------------------------------------------------------------------------
(* writePump: a write that fails or times out ends it, and the library     *)
(* closes the connection; so does a closed send channel once it is empty.  *)

WriteFails(c) ==
  /\ writer[c] = "run"
  /\ open' = [open EXCEPT ![c] = FALSE]
  /\ writer' = [writer EXCEPT ![c] = "done"]
  /\ UNCHANGED <<clients, pc, sendClosed, status, stale, stop>>

(* Mutant: the writer returns without closing the connection. *)
WriterReturns(c) ==
  /\ writer[c] = "run" /\ sendClosed[c]
  /\ writer' = [writer EXCEPT ![c] = "done"]
  /\ UNCHANGED <<clients, pc, sendClosed, open, status, stale, stop>>

WriterCloses(c) ==
  /\ writer[c] = "run" /\ sendClosed[c]
  /\ open' = [open EXCEPT ![c] = FALSE]
  /\ writer' = [writer EXCEPT ![c] = "done"]
  /\ UNCHANGED <<clients, pc, sendClosed, status, stale, stop>>

(* writeCancel was called. *)
WriterCancelled(c) ==
  /\ writer[c] = "run" /\ pc[c] = "closed"
  /\ writer' = [writer EXCEPT ![c] = "done"]
  /\ UNCHANGED <<clients, pc, sendClosed, open, status, stale, stop>>
-----------------------------------------------------------------------------
(* sweepStaleClients, in Hub.Run: collect the idle clients under the read  *)
(* lock (any of them may have been silent for staleClientTimeout) ...      *)
SweepIdle == \A c \in Conns : stale[c] = "no"

SweepCollect(S) ==
  /\ SweepIdle /\ stop # "stopped"
  /\ stale' = [c \in Conns |-> IF c \in S THEN "yes" ELSE "no"]
  /\ UNCHANGED <<clients, pc, sendClosed, open, writer, status, stop>>

(* ... and kick them one by one without it. *)
SweepKick(c) ==
  /\ stale[c] = "yes" /\ \A d \in Conns : stale[d] # "kicked"
  /\ kickClient(c)
  /\ stale' = [stale EXCEPT ![c] = "kicked"]
  /\ UNCHANGED <<pc, sendClosed, open, writer, status, stop>>

SweepCloses(c) ==
  /\ stale[c] = "kicked"
  /\ closeSend(c)
  /\ stale' = [stale EXCEPT ![c] = "no"]
  /\ UNCHANGED <<clients, pc, open, writer, status, stop>>
-----------------------------------------------------------------------------
(* GracefulStop: the restart notice; after the grace period every          *)
(* registered client's channel is closed, and the stop channel with them;  *)
(* Run's select picks the stop case, perhaps after other cases.            *)

StopNotice ==
  /\ stop = "no"
  /\ stop' = "notice"
  /\ UNCHANGED <<clients, pc, sendClosed, open, writer, status, stale>>

StopClose ==
  /\ stop = "notice"
  /\ stop' = "closed"
  /\ sendClosed' = [c \in Conns |-> sendClosed[c] \/ Registered(c)]
  /\ UNCHANGED <<clients, pc, open, writer, status, stale>>

RunReturns ==
  /\ SweepIdle /\ stop = "closed"
  /\ stop' = "stopped"
  /\ UNCHANGED <<clients, pc, sendClosed, open, writer, status, stale>>

(* Everything in memory is new. *)
NewProcess ==
  /\ clients' = [u \in Users |-> NoConn]
  /\ pc' = [c \in Conns |-> "closed"]
  /\ sendClosed' = [c \in Conns |-> TRUE]
  /\ open' = [c \in Conns |-> FALSE]
  /\ writer' = [c \in Conns |-> "none"]
  /\ stale' = [c \in Conns |-> "no"]
  /\ stop' = "no"

(* The process ends, in order or not, and starts again;                    *)
(* ResetAllUserStatuses runs before the first connection.                  *)
Restart == NewProcess /\ status' = [u \in Users |-> "offline"]
-----------------------------------------------------------------------------
(* What a connection's own goroutine does without waiting for its peer. *)
ServeStep(c) ==
  \/ registerNow(c) \/ UpdateUserStatusOnline(c) \/ StartPumps(c) \/ ReadFails(c)
  \/ KickSelfCloses(c)
  \/ unregisterNow(c) \/ CheckReplaced(c) \/ UpdateUserStatusOffline(c) \/ EndPumps(c)

WriteStep(c) == WriteFails(c) \/ WriterCloses(c) \/ WriterCancelled(c)

(* What the peer, the network and the client's requests make it do. *)
PeerStep(c) ==
  \/ Connect(c) \/ Handshake(c) \/ HandshakeFails(c) \/ KickSelf(c) \/ NetworkDrops(c)
  \/ \E s \in PresenceChoices : handlePresence(c, s)

ConnStep(c) == ServeStep(c) \/ WriteStep(c) \/ PeerStep(c)

ServerStep ==
  \/ \E S \in SUBSET {clients[u] : u \in Users} : S \subseteq Conns /\ SweepCollect(S)
  \/ \E c \in Conns : SweepKick(c) \/ SweepCloses(c)
  \/ StopNotice \/ StopClose \/ RunReturns \/ Restart

Next == (\E c \in Conns : ConnStep(c)) \/ ServerStep

(* A goroutine that can take a step takes it; every write of the writer    *)
(* has a timeout, so a closed channel is emptied and noticed.  The peer,   *)
(* the handshake writes (which have no timeout), the start of a sweep and  *)
(* shutdown are not fair.                                                  *)
Fairness ==
  \A c \in Conns : /\ WF_vars(ServeStep(c)) /\ WF_vars(SweepCloses(c))
                   /\ WF_vars(WriterCloses(c) \/ WriterCancelled(c))

Spec == Init /\ [][Next]_vars
FairSpec == Spec /\ Fairness
-----------------------------------------------------------------------------
(* Type correctness of the hub's state. *)
TypeOK ==
  /\ clients \in [Users -> Conns \cup {NoConn}]
  /\ pc \in [Conns -> Phases]
  /\ sendClosed \in [Conns -> BOOLEAN]
  /\ open \in [Conns -> BOOLEAN]
  /\ writer \in [Conns -> {"none", "run", "done"}]
  /\ status \in [Users -> PresenceChoices \cup {"online", "offline"}]
  /\ stale \in [Conns -> {"no", "yes", "kicked"}]
  /\ stop \in {"no", "notice", "closed", "stopped"}

ShuttingDown == stop \in {"closed", "stopped"}

(* kickClient has taken c out of the map and not yet closed its channel. *)
BeingKicked(c) == pc[c] = "kicked" \/ stale[c] = "kicked"

(* Whatever the order of logins, replacements, kicks, sweeps and           *)
(* disconnects, a connection between registration and clean-up can be sent *)
(* to exactly while it is the one in Hub.clients: so at most one           *)
(* connection of a user receives messages, and one that was replaced or    *)
(* kicked has been told to end, or is about to be (registerNow,            *)
(* unregisterNow, kickClient).                                             *)
OneReceivingConnection ==
  /\ \A u \in Users : clients[u] # NoConn =>
        UserOf[clients[u]] = u /\ pc[clients[u]] \in Live \cup {"unregister"}
  /\ \A c \in Conns :
        /\ pc[c] \in Live /\ ~Registered(c) => sendClosed[c] \/ BeingKicked(c)
        /\ Registered(c) /\ ~ShuttingDown => ~sendClosed[c]

(* A user none of whose connections is alive is stored as offline, though  *)
(* each clean-up decides on its own, from one look at Hub.clients, whether *)
(* it is the one to say so, and though a connection may set its status     *)
(* after it was replaced; a crash at any point is repaired by the start.   *)
NoGhostOnline ==
  \A u \in Users :
    (\A c \in Conns : UserOf[c] = u => pc[c] \in {"closed", "authed", "handshaken"})
      => status[u] = "offline"

(* A connection that is no longer the registered one ends: its goroutines  *)
(* finish (closeSend makes writePump close the socket, which ends          *)
(* readPump).                                                              *)
DisplacedConnectionEnds ==
  \A c \in Conns : (pc[c] \in Live /\ ~Registered(c)) ~> (pc[c] = "closed")
-----------------------------------------------------------------------------
(* Statements the code's comments and tests make that do not hold          *)

(* TestServeWS_DuplicateLogin_KeepsUserOnline: replacing a connection does *)
(* not persist a false offline state for the connected replacement.        *)
DuplicateLoginKeepsUserOnline ==
  \A u \in Users :
    (/\ clients[u] # NoConn
     /\ \A c \in Conns : UserOf[c] = u => pc[c] \in {"closed", "reading"})
      => status[u] # "offline"
=============================================================================
