----------------------------- MODULE Broadcast -----------------------------
(***************************************************************************)
(* What travels through the hub: handlers queue broadcasts, Hub.Run gives  *)
(* each a sequence number, stores it for replay and fans it out to the     *)
(* registered clients, each client's writePump writes its queue to the     *)
(* socket, and a client that comes back is first replayed what it missed   *)
(* (ws/hub.go, ws/client.go, ws/serve.go).  The life of a connection, the  *)
(* subject of Hub, is reduced here to being in Hub.clients or not.         *)
(***************************************************************************)
EXTENDS Integers, Sequences

CONSTANTS Conns,          \* connection slots
          Channels,       \* channels a broadcast can be scoped to
          SendBuf,        \* capacity of Client.send (sendBufSize)
          BroadcastBuf,   \* capacity of Hub.broadcast
          Size,           \* capacity of the replay buffer
          MaxSeq          \* bound: broadcasts delivered in one server run

(* The broadcast scope that the code writes as channelID 0. *)
All == "all"

ASSUME AllAssumption == All \notin Channels
ASSUME BuffersAssumption == SendBuf \in Nat /\ BroadcastBuf \in Nat /\ Size \in Nat \ {0}

VARIABLES phase,      \* "out", "authed", "handshaken", "in" the map, "closing"
          send,       \* Client.send: numbers waiting for writePump, 0 unnumbered
          lost,       \* Client.msgsDropped > 0
          listening,  \* the channel in focus and the voice channel of a client
          broadcast,  \* Hub.broadcast: scopes of the queued messages
          seq,        \* Hub.seq
          inflight,   \* the message numbered and stored but not yet fanned out
          base,       \* the last_seq the app reported, or the number at ready
          read,       \* history: Hub.seq when the handshake read the events
          since,      \* history: Hub.seq when the connection was registered
          got,        \* history: numbers written to the WebSocket, in order
          scopes,     \* history: the scope of every numbered broadcast
          maxEarlier  \* history: the highest number of any earlier run

connVars == <<send, lost, listening>>
hubVars  == <<broadcast, seq, inflight, scopes, maxEarlier>>
history  == <<base, read, since, got>>
vars == <<phase, connVars, hubVars, history>>

Idle == [scope |-> All, seq |-> 0]
Scopes == Channels \cup {All}

Init ==
  /\ phase = [c \in Conns |-> "out"]
  /\ send = [c \in Conns |-> <<>>]
  /\ lost = [c \in Conns |-> FALSE]
  /\ listening = [c \in Conns |-> {}]
  /\ broadcast = <<>>
  /\ seq = 0
  /\ inflight = Idle
  /\ scopes = <<>>
  /\ maxEarlier = 0
  /\ base = [c \in Conns |-> 0]
  /\ read = [c \in Conns |-> 0]
  /\ since = [c \in Conns |-> 0]
  /\ got = [c \in Conns |-> <<>>]

Goto(c, from, to) == phase[c] = from /\ phase' = [phase EXCEPT ![c] = to]
-----------------------------------------------------------------------------
(* A connection: handshake, registration, end *)

(* EventsSince over numbers alone: the buffer holds the last min(seq,Size) *)
(* of them (EventRingBuffer, RingHoldsTail).                               *)
OldestSeq == IF seq < Size THEN 1 ELSE seq - Size + 1

(* Mutant: the newest event comes first. *)
EventsSinceNewestFirst(n) ==
  IF seq = 0 \/ n < OldestSeq THEN <<>> ELSE [i \in 1..(seq - n) |-> seq + 1 - i]

EventsSince(n) ==
  IF seq = 0 \/ n < OldestSeq THEN <<>> ELSE [i \in 1..(seq - n) |-> n + i]

(* authenticateConn: the app reports the last number it has seen, 0 for a  *)
(* fresh start, in this run of the server or an earlier one.               *)
Connect(c, lastSeq) ==
  /\ Goto(c, "out", "authed")
  /\ base' = [base EXCEPT ![c] = lastSeq]
  /\ UNCHANGED <<connVars, hubVars, read, since, got>>

(* Reconnection: auth_ok and the missed events are written to the socket. *)
Replay(c) ==
  /\ Goto(c, "authed", "handshaken")
  /\ base[c] > 0 /\ EventsSince(base[c]) # <<>>
  /\ got' = [got EXCEPT ![c] = EventsSince(base[c])]
  /\ read' = [read EXCEPT ![c] = seq]
  /\ UNCHANGED <<connVars, hubVars, base, since>>

(* Fresh start or fallback: the ready payload, the state as of now. *)
Ready(c) ==
  /\ Goto(c, "authed", "handshaken")
  /\ base[c] = 0 \/ EventsSince(base[c]) = <<>>
  /\ base' = [base EXCEPT ![c] = seq]
  /\ read' = [read EXCEPT ![c] = seq]
  /\ UNCHANGED <<connVars, hubVars, since, got>>

registerNow(c) ==
  /\ Goto(c, "handshaken", "in")
  /\ since' = [since EXCEPT ![c] = seq]
  /\ UNCHANGED <<connVars, hubVars, base, read, got>>

(* Kicked, replaced or disconnected: out of the map, the channel closed;   *)
(* writePump may still write what is queued.                               *)
LeaveMap(c) ==
  /\ Goto(c, "in", "closing")
  /\ UNCHANGED <<connVars, hubVars, history>>

(* The socket is closed, before or after registration. *)
Disconnect(c) ==
  /\ phase[c] \in {"authed", "handshaken", "closing"}
  /\ phase' = [phase EXCEPT ![c] = "out"]
  /\ send' = [send EXCEPT ![c] = <<>>]
  /\ lost' = [lost EXCEPT ![c] = FALSE]
  /\ listening' = [listening EXCEPT ![c] = {}]
  /\ base' = [base EXCEPT ![c] = 0]
  /\ read' = [read EXCEPT ![c] = 0]
  /\ since' = [since EXCEPT ![c] = 0]
  /\ got' = [got EXCEPT ![c] = <<>>]
  /\ UNCHANGED hubVars
-----------------------------------------------------------------------------
(* Sending *)

(* A non-blocking send on Hub.broadcast, from any handler: a full channel  *)
(* drops the message.                                                      *)
BroadcastToChannel(scope) ==
  /\ Len(broadcast) < BroadcastBuf
  /\ broadcast' = Append(broadcast, scope)
  /\ UNCHANGED <<phase, connVars, seq, inflight, scopes, maxEarlier, history>>

(* sendMsg: dropped when the queue is full. *)
Fits(c) == Len(send[c]) < SendBuf
Sent(c, n) == IF Fits(c) THEN Append(send[c], n) ELSE send[c]

(* SendToUser, broadcastExclude, or a reply to the client's own request:   *)
(* neither numbered nor stored for replay.                                 *)
SendToUser(c) ==
  /\ phase[c] = "in"
  /\ send' = [send EXCEPT ![c] = Sent(c, 0)]
  /\ lost' = [lost EXCEPT ![c] = @ \/ ~Fits(c)]
  /\ UNCHANGED <<phase, listening, hubVars, history>>

(* channel_focus; voice join, leave or transfer (Voice has the details). *)
ChangeListening(c, chs) ==
  /\ phase[c] = "in"
  /\ listening' = [listening EXCEPT ![c] = chs]
  /\ UNCHANGED <<phase, send, lost, hubVars, history>>

(* deliverBroadcast, first half: nextSeq, and Push into the replay buffer. *)
NumberAndStore ==
  /\ inflight = Idle /\ broadcast # <<>>
  /\ seq < MaxSeq
  /\ seq' = seq + 1
  /\ inflight' = [scope |-> Head(broadcast), seq |-> seq + 1]
  /\ broadcast' = Tail(broadcast)
  /\ scopes' = Append(scopes, Head(broadcast))
  /\ UNCHANGED <<phase, connVars, maxEarlier, history>>

Addressed(c) == phase[c] = "in" /\ (inflight.scope = All \/ inflight.scope \in listening[c])

(* Mutant: a full queue is skipped without being counted. *)
FanOutUncounted ==
  /\ inflight # Idle
  /\ send' = [c \in Conns |-> IF Addressed(c) THEN Sent(c, inflight.seq) ELSE send[c]]
  /\ inflight' = Idle
  /\ UNCHANGED <<phase, lost, listening, broadcast, seq, scopes, maxEarlier, history>>

(* Mutant: a full queue takes the message anyway. *)
FanOutOverfills ==
  /\ inflight # Idle
  /\ send' = [c \in Conns |-> IF Addressed(c) THEN Append(send[c], inflight.seq) ELSE send[c]]
  /\ inflight' = Idle
  /\ UNCHANGED <<phase, lost, listening, broadcast, seq, scopes, maxEarlier, history>>

(* Second half, under Hub.mu: sendMsg to every client it is addressed to. *)
FanOut ==
  /\ inflight # Idle
  /\ send' = [c \in Conns |-> IF Addressed(c) THEN Sent(c, inflight.seq) ELSE send[c]]
  /\ lost' = [c \in Conns |-> lost[c] \/ (Addressed(c) /\ ~Fits(c))]
  /\ inflight' = Idle
  /\ UNCHANGED <<phase, listening, broadcast, seq, scopes, maxEarlier, history>>

(* writePump writes the head of the queue; the pumps start after           *)
(* registration.                                                           *)
WriteMsg(c) ==
  /\ phase[c] \in {"in", "closing"} /\ send[c] # <<>>
  /\ send' = [send EXCEPT ![c] = Tail(@)]
  /\ got' = [got EXCEPT ![c] = IF Head(send[c]) = 0 THEN @ ELSE Append(@, Head(send[c]))]
  /\ UNCHANGED <<phase, lost, listening, hubVars, base, read, since>>

(* A new process numbers from 1 again and has an empty replay buffer. *)
Restart ==
  /\ phase' = [c \in Conns |-> "out"]
  /\ send' = [c \in Conns |-> <<>>]
  /\ lost' = [c \in Conns |-> FALSE]
  /\ listening' = [c \in Conns |-> {}]
  /\ broadcast' = <<>> /\ seq' = 0 /\ inflight' = Idle /\ scopes' = <<>>
  /\ maxEarlier' = IF seq > maxEarlier THEN seq ELSE maxEarlier
  /\ base' = [c \in Conns |-> 0]
  /\ read' = [c \in Conns |-> 0]
  /\ since' = [c \in Conns |-> 0]
  /\ got' = [c \in Conns |-> <<>>]

Next ==
  \/ \E c \in Conns :
       \/ \E n \in (0..seq) \cup (0..maxEarlier) : Connect(c, n)
       \/ Replay(c) \/ Ready(c) \/ registerNow(c) \/ LeaveMap(c) \/ Disconnect(c)
       \/ SendToUser(c) \/ WriteMsg(c)
       \/ \E chs \in SUBSET Channels : ChangeListening(c, chs)
  \/ \E scope \in Scopes : BroadcastToChannel(scope)
  \/ NumberAndStore \/ FanOut \/ Restart

Spec == Init /\ [][Next]_vars
-----------------------------------------------------------------------------
(* Type correctness: no queue outgrows its channel's capacity. *)
TypeOK ==
  /\ phase \in [Conns -> {"out", "authed", "handshaken", "in", "closing"}]
  /\ send \in [Conns -> Seq(Nat)] /\ got \in [Conns -> Seq(Nat)]
  /\ \A c \in Conns : Len(send[c]) <= SendBuf
  /\ lost \in [Conns -> BOOLEAN]
  /\ listening \in [Conns -> SUBSET Channels]
  /\ broadcast \in Seq(Scopes) /\ Len(broadcast) <= BroadcastBuf
  /\ seq \in Nat /\ maxEarlier \in Nat
  /\ scopes \in Seq(Scopes) /\ Len(scopes) = seq
  /\ inflight \in [scope : Scopes, seq : Nat]
  /\ base \in [Conns -> Nat] /\ read \in [Conns -> Nat] /\ since \in [Conns -> Nat]

(* The messages written to or queued for a connection. *)
Stream(c) == got[c] \o send[c]

(* No client is ever sent an older broadcast after a newer one, neither    *)
(* within the live stream nor where the replayed events meet it            *)
(* (deliverBroadcast, EventsSince, ServeWS).                               *)
InOrder ==
  \A c \in Conns : \A i, j \in 1..Len(Stream(c)) :
    i < j /\ Stream(c)[j] # 0 => Stream(c)[i] <= Stream(c)[j]

(* Every broadcast up to this number has been fanned out. *)
FannedOut == IF inflight = Idle THEN seq ELSE inflight.seq - 1

(* c has been sent the broadcasts to all with these numbers. *)
Covered(c, numbers) ==
  \A k \in numbers :
    scopes[k] = All => \E i \in 1..Len(Stream(c)) : Stream(c)[i] = k

(* From its registration on, a connected client misses no broadcast to all *)
(* unless its queue overflowed, which Client.msgsDropped records: also not *)
(* when it registers between the numbering and the fan-out of a message.   *)
(* A client that has resumed has also got everything between its last_seq  *)
(* and the moment ServeWS read the events to replay.  What is numbered     *)
(* between that moment and registerNow is the one gap.                     *)
NothingLostSilently ==
  \A c \in Conns : (phase[c] = "in" /\ ~lost[c]) =>
    /\ Covered(c, (since[c] + 1) .. FannedOut)
    /\ Covered(c, (base[c] + 1) .. read[c])
=============================================================================
