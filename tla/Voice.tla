------------------------------- MODULE Voice -------------------------------
(***************************************************************************)
(* Who is in which voice channel (ws/voice_join.go, ws/voice_leave.go,     *)
(* ws/voice_controls.go, ws/livekit_webhook.go).  The answer is kept       *)
(* twice: Client.voiceChID in memory, one per connection, and a row of     *)
(* voice_states in the database, one per user.  The two are changed by the *)
(* goroutine of each connection, by LiveKit's webhooks, by background      *)
(* retries, by a newer connection of the same user and by the deletion of  *)
(* a channel; no lock spans both.  An action is one access to either.      *)
(* LiveKit itself is external: an app that holds a token for a room may    *)
(* enter and leave it at will, so a participant_left webhook for that room *)
(* may arrive at any later time, and more than once.                       *)
(***************************************************************************)
EXTENDS Integers, FiniteSets

CONSTANTS Users,
          Conns,
          UserOf,
          NoConn,
          Channels,       \* voice channels
          NoCh,
          MaxUsers,       \* voice_max_users of each channel
          MaxVideo,       \* voice_max_video of each channel
          MaxFailures,    \* how many statements fail at most
          Scenarios       \* the connections used, the channels at the start and
                          \* how many statements fail

maxRetries == 3

ASSUME UserOfAssumption == UserOf \in [Conns -> Users]
ASSUME NoneAssumption == NoConn \notin Conns /\ NoCh \notin Channels
ASSUME BoundsAssumption ==
  /\ MaxUsers \in [Channels -> Nat \ {0}] /\ MaxVideo \in [Channels -> Nat \ {0}]
  /\ MaxFailures \in 0 .. maxRetries - 1
  /\ Scenarios \subseteq [conns : SUBSET Conns, channels : SUBSET Channels,
                       failures : 0 .. MaxFailures]

VARIABLES slots,     \* the connections used, fixed at the start
          clients,   \* Hub.clients
          phase,     \* where each connection's readPump goroutine is
          target,    \* the channel its voice_join or voice_camera is about
          ret,       \* where its handleVoiceLeave returns to
          voiceChID, \* Client.voiceChID
          seat,      \* voice_states.channel_id of each user, NoCh: no row
          camera,    \* voice_states.camera
          channels,  \* the channels that exist
          tokens,    \* rooms each user holds a LiveKit token for
          hook,      \* the participant_left webhook being handled
          retry,     \* attempts left of each user's background retry
          faults,    \* statements that may still fail
          strayed,   \* history: users whose voice state was left to nobody
          contested  \* history: channels whose limit a request went past unchecked

memory == <<clients, voiceChID>>
database == <<seat, camera, channels>>
background == <<tokens, hook, retry>>
history == <<slots, strayed, contested>>
ledger == <<faults, history>>
voiceVars == <<memory, phase, target, ret, database, background, ledger>>

NoHook == [st |-> "none", user |-> NoConn, conn |-> NoConn, ch |-> NoCh]

Phases == {"out", "reading", "leave", "leaveDb", "capacity", "joinDb", "joinSet",
           "joinState", "rollback", "rollbackDb", "cameraOn", "cameraOff",
           "unregister", "check"}

VoiceInit ==
  /\ clients = [u \in Users |-> NoConn]
  /\ phase = [c \in Conns |-> "out"]
  /\ target = [c \in Conns |-> NoCh]
  /\ ret = [c \in Conns |-> "out"]
  /\ voiceChID = [c \in Conns |-> NoCh]
  /\ seat = [u \in Users |-> NoCh]
  /\ camera = [u \in Users |-> FALSE]
  /\ \E s \in Scenarios : slots = s.conns /\ channels = s.channels
                            /\ faults = s.failures
  /\ tokens = [u \in Users |-> {}]
  /\ hook = NoHook
  /\ retry = [u \in Users |-> 0]
  /\ strayed = {} /\ contested = {}
-----------------------------------------------------------------------------
(* The database *)

Fails ==
  /\ faults > 0
  /\ faults' = faults - 1

LeaveVoiceChannel(u) ==
  /\ seat' = [seat EXCEPT ![u] = NoCh]
  /\ camera' = [camera EXCEPT ![u] = FALSE]

(* Mutant: a failed first attempt is not retried. *)
leaveVoiceChannelOnce(u) ==
  \/ /\ LeaveVoiceChannel(u)
     /\ UNCHANGED <<channels, retry, ledger>>
  \/ /\ Fails /\ UNCHANGED history
     /\ UNCHANGED <<database, retry>>

(* The first attempt is synchronous; when it fails a goroutine is started  *)
(* for the others.  At most one such goroutine per user is followed.       *)
leaveVoiceChannelWithRetry(u) ==
  \/ /\ LeaveVoiceChannel(u)
     /\ UNCHANGED <<channels, retry, ledger>>
  \/ /\ Fails /\ UNCHANGED history /\ retry[u] = 0
     /\ retry' = [retry EXCEPT ![u] = maxRetries - 1]
     /\ UNCHANGED database

(* One attempt of the background goroutine. *)
RetryLeave(u) ==
  /\ retry[u] > 0
  /\ \/ /\ LeaveVoiceChannel(u)
        /\ retry' = [retry EXCEPT ![u] = 0]
        /\ UNCHANGED <<channels, ledger>>
     \/ /\ Fails /\ UNCHANGED history
        /\ retry' = [retry EXCEPT ![u] = @ - 1]
        /\ UNCHANGED database
  /\ UNCHANGED <<memory, phase, target, ret, tokens, hook>>
-----------------------------------------------------------------------------
(* Connections *)

Move(c, from, to) == phase[c] = from /\ phase' = [phase EXCEPT ![c] = to]

(* Voice the user's new connection c does not take over: of a connection   *)
(* that was kicked and is still ending, and of a join that has stored its  *)
(* row and nothing else.                                                   *)
LeftBehind(c) ==
  \E d \in Conns \ {c} :
    /\ UserOf[d] = UserOf[c]
    /\ phase[d] = "joinSet" \/ (clients[UserOf[c]] # d /\ voiceChID[d] # NoCh)

(* A slot is free once nothing refers to its previous client.  The voice   *)
(* channel of the connection being replaced moves to the new client.       *)
registerNow(c) ==
  LET old == clients[UserOf[c]]
      moved == IF old = NoConn THEN NoCh ELSE voiceChID[old]
  IN  /\ Move(c, "out", "reading")
      /\ hook.conn # c
      /\ clients' = [clients EXCEPT ![UserOf[c]] = c]
      /\ voiceChID' = [d \in Conns |-> IF d = c THEN moved
                                       ELSE IF d = old THEN NoCh
                                       ELSE voiceChID[d]]
      /\ strayed' = IF LeftBehind(c) THEN strayed \cup {UserOf[c]} ELSE strayed
      /\ UNCHANGED <<target, ret, database, background, faults, slots, contested>>

(* kickClient, from the sweep, the admin or handleMessage. *)
Kick(c) ==
  /\ clients[UserOf[c]] = c
  /\ clients' = [clients EXCEPT ![UserOf[c]] = NoConn]
  /\ UNCHANGED <<phase, target, ret, voiceChID, database, background, ledger>>

(* conn.Read fails: the deferred clean-up begins. *)
ReadFails(c) ==
  /\ Move(c, "reading", "unregister")
  /\ UNCHANGED <<memory, target, ret, database, background, ledger>>

unregisterNow(c) ==
  /\ Move(c, "unregister", "check")
  /\ clients' = [clients EXCEPT ![UserOf[c]] = IF @ = c THEN NoConn ELSE @]
  /\ UNCHANGED <<target, ret, voiceChID, database, background, ledger>>

(* Voice is left unless another connection of the user is registered; the  *)
(* client of a finished connection is unreachable, voiceChID included.     *)
CheckReplaced(c) ==
  /\ \/ /\ clients[UserOf[c]] = NoConn
        /\ Move(c, "check", "leave")
        /\ ret' = [ret EXCEPT ![c] = "out"]
        /\ UNCHANGED voiceChID
     \/ /\ clients[UserOf[c]] # NoConn
        /\ Move(c, "check", "out")
        /\ voiceChID' = [voiceChID EXCEPT ![c] = NoCh]
        /\ UNCHANGED ret
  /\ UNCHANGED <<clients, target, database, background, ledger>>
-----------------------------------------------------------------------------
(* voice_leave *)

(* An explicit voice_leave. *)
VoiceLeave(c) ==
  /\ Move(c, "reading", "leave")
  /\ ret' = [ret EXCEPT ![c] = "reading"]
  /\ UNCHANGED <<memory, target, database, background, ledger>>

(* handleVoiceLeave: clearVoiceChID, and nothing more if it was clear. *)
clearVoiceChID(c) ==
  /\ Move(c, "leave", IF voiceChID[c] = NoCh THEN ret[c] ELSE "leaveDb")
  /\ voiceChID' = [voiceChID EXCEPT ![c] = NoCh]
  /\ UNCHANGED <<clients, target, ret, database, background, ledger>>

(* The row goes; voice_leave is broadcast and LiveKit told, best effort. *)
handleVoiceLeave(c) ==
  /\ Move(c, "leaveDb", ret[c])
  /\ leaveVoiceChannelWithRetry(UserOf[c])
  /\ UNCHANGED <<memory, target, ret, tokens, hook>>
-----------------------------------------------------------------------------
(* voice_join *)

(* The channel exists, LiveKit runs, and the client is not in the channel  *)
(* yet; a different channel is left first.                                 *)
handleVoiceJoin(c, ch) ==
  /\ ch \in channels /\ ch # voiceChID[c]
  /\ Move(c, "reading", IF voiceChID[c] = NoCh THEN "capacity" ELSE "leave")
  /\ target' = [target EXCEPT ![c] = ch]
  /\ ret' = [ret EXCEPT ![c] = "capacity"]
  /\ UNCHANGED <<memory, database, background, ledger>>

(* A limit of ch is checked while others are past the same check. *)
Contest(ch, others) == contested' = IF others # {} THEN contested \cup {ch} ELSE contested

(* Mutant: one seat too many. *)
CheckCapacityOneMore(c) ==
  LET existing == {u \in Users : seat[u] = target[c]}
      full == Cardinality(existing) > MaxUsers[target[c]]
  IN  /\ Move(c, "capacity", IF full THEN "reading" ELSE "joinDb")
      /\ Contest(target[c], {d \in Conns : ~full /\ phase[d] = "joinDb" /\ target[d] = target[c]})
      /\ UNCHANGED <<memory, target, ret, database, background, faults, slots, strayed>>

(* GetChannelVoiceStates: refused if the channel is full. *)
CheckCapacity(c) ==
  LET existing == {u \in Users : seat[u] = target[c]}
      full == Cardinality(existing) >= MaxUsers[target[c]]
  IN  /\ Move(c, "capacity", IF full THEN "reading" ELSE "joinDb")
      /\ Contest(target[c], {d \in Conns : ~full /\ phase[d] = "joinDb" /\ target[d] = target[c]})
      /\ UNCHANGED <<memory, target, ret, database, background, faults, slots, strayed>>

(* Mutant: foreign keys are not enforced. *)
JoinVoiceChannelAnywhere(c) ==
  /\ Move(c, "joinDb", "joinSet")
  /\ seat' = [seat EXCEPT ![UserOf[c]] = target[c]]
  /\ camera' = [camera EXCEPT ![UserOf[c]] = FALSE]
  /\ UNCHANGED <<memory, target, ret, channels, background, ledger>>

(* The upsert; the foreign key refuses a channel deleted meanwhile.  A     *)
(* connection that has been replaced may still get here.                   *)
JoinVoiceChannel(c) ==
  \/ /\ target[c] \in channels
     /\ Move(c, "joinDb", "joinSet")
     /\ seat' = [seat EXCEPT ![UserOf[c]] = target[c]]
     /\ camera' = [camera EXCEPT ![UserOf[c]] = FALSE]
     /\ strayed' = IF clients[UserOf[c]] \in {c, NoConn} THEN strayed
                   ELSE strayed \cup {UserOf[c]}
     /\ UNCHANGED <<memory, target, ret, channels, background, faults, slots, contested>>
  \/ /\ Move(c, "joinDb", "reading")
     /\ \/ target[c] \notin channels /\ UNCHANGED ledger
        \/ Fails /\ UNCHANGED history
     /\ UNCHANGED <<memory, target, ret, database, background>>

(* setVoiceChID, then GenerateToken succeeds and the token is sent, or     *)
(* fails.                                                                  *)
setVoiceChID(c) ==
  /\ voiceChID' = [voiceChID EXCEPT ![c] = target[c]]
  /\ \/ /\ Move(c, "joinSet", "joinState")
        /\ tokens' = [tokens EXCEPT ![UserOf[c]] = @ \cup {target[c]}]
     \/ /\ Move(c, "joinSet", "rollback")
        /\ UNCHANGED tokens
  /\ UNCHANGED <<clients, target, ret, database, hook, retry, ledger>>

(* GetVoiceState: without a row to broadcast the join is rolled back. *)
GetVoiceState(c) ==
  /\ \/ /\ seat[UserOf[c]] # NoCh
        /\ Move(c, "joinState", "reading")
        /\ UNCHANGED ledger
     \/ /\ Move(c, "joinState", "rollback")
        /\ \/ seat[UserOf[c]] = NoCh /\ UNCHANGED ledger
           \/ Fails /\ UNCHANGED history
  /\ UNCHANGED <<memory, target, ret, database, background>>

rollbackVoiceJoin(c) ==
  \/ /\ Move(c, "rollback", "rollbackDb")
     /\ voiceChID' = [voiceChID EXCEPT ![c] = NoCh]
     /\ UNCHANGED <<clients, target, ret, database, background, ledger>>
  \/ /\ Move(c, "rollbackDb", "reading")
     /\ \/ LeaveVoiceChannel(UserOf[c]) /\ UNCHANGED <<channels, ledger>>
        \/ /\ Fails
           /\ strayed' = strayed \cup {UserOf[c]}
           /\ UNCHANGED <<database, slots, contested>>
     /\ UNCHANGED <<memory, target, ret, background>>
-----------------------------------------------------------------------------
(* voice_camera *)

CountActiveCameras(ch) == Cardinality({u \in Users : seat[u] = ch /\ camera[u]})

(* The limit is checked when the camera is switched on in a channel that   *)
(* still exists.                                                           *)
handleVoiceCamera(c, enabled) ==
  /\ voiceChID[c] # NoCh
  /\ enabled /\ voiceChID[c] \in channels
       => CountActiveCameras(voiceChID[c]) < MaxVideo[voiceChID[c]]
  /\ Move(c, "reading", IF enabled THEN "cameraOn" ELSE "cameraOff")
  /\ target' = [target EXCEPT ![c] = voiceChID[c]]
  /\ Contest(voiceChID[c], {d \in Conns : /\ enabled /\ phase[d] = "cameraOn"
                                          /\ target[d] = voiceChID[c]})
  /\ UNCHANGED <<memory, ret, database, background, faults, slots, strayed>>

(* The update names the user, not the channel: after a join on another     *)
(* connection of theirs it reaches a channel that was not checked.         *)
UpdateVoiceCamera(c) ==
  LET ch == seat[UserOf[c]]
  IN  /\ \E on \in BOOLEAN :
           /\ Move(c, IF on THEN "cameraOn" ELSE "cameraOff", "reading")
           /\ camera' = [camera EXCEPT ![UserOf[c]] = on /\ ch # NoCh]
           /\ contested' = IF on /\ ch \notin {NoCh, target[c]} THEN contested \cup {ch}
                           ELSE contested
      /\ UNCHANGED <<memory, target, ret, seat, channels, background, faults, slots, strayed>>
-----------------------------------------------------------------------------
(* LiveKit's participant_left webhook, in a goroutine of its own; one is   *)
(* followed at a time.  If the user is connected and elsewhere, nothing    *)
(* happens.                                                                *)

handleWebhookParticipantLeft(u, ch) ==
  LET c == clients[u]
      event(st) == [NoHook EXCEPT !.st = st, !.user = u, !.ch = ch, !.conn = c]
  IN  /\ hook = NoHook /\ ch \in tokens[u]
      /\ \/ c = NoConn /\ hook' = event("db")
         \/ c # NoConn /\ voiceChID[c] = ch /\ hook' = event("clear")
      /\ UNCHANGED <<memory, phase, target, ret, database, tokens, retry, ledger>>

WebhookClear ==
  /\ hook.st = "clear"
  /\ voiceChID' = [voiceChID EXCEPT ![hook.conn] = NoCh]
  /\ hook' = [hook EXCEPT !.st = "db", !.conn = NoConn]
  /\ UNCHANGED <<clients, phase, target, ret, database, tokens, retry, ledger>>

WebhookLeave ==
  /\ hook.st = "db"
  /\ leaveVoiceChannelWithRetry(hook.user)
  /\ hook' = NoHook
  /\ UNCHANGED <<memory, phase, target, ret, tokens>>
-----------------------------------------------------------------------------
(* The rest of the server *)

(* handleDeleteChannel: the foreign key takes the rows along. *)
handleDeleteChannel(ch) ==
  /\ ch \in channels
  /\ channels' = channels \ {ch}
  /\ seat' = [u \in Users |-> IF seat[u] = ch THEN NoCh ELSE seat[u]]
  /\ camera' = [u \in Users |-> camera[u] /\ seat[u] # ch]
  /\ UNCHANGED <<memory, phase, target, ret, background, ledger>>

(* The process dies and starts again: ClearAllVoiceStates.  Tokens outlive *)
(* it.                                                                     *)
Restart ==
  /\ clients' = [u \in Users |-> NoConn]
  /\ phase' = [c \in Conns |-> "out"]
  /\ voiceChID' = [c \in Conns |-> NoCh]
  /\ seat' = [u \in Users |-> NoCh]
  /\ camera' = [u \in Users |-> FALSE]
  /\ hook' = NoHook
  /\ retry' = [u \in Users |-> 0]
  /\ UNCHANGED <<target, ret, channels, tokens, ledger>>
-----------------------------------------------------------------------------
ConnStep(c) ==
  \/ registerNow(c) \/ Kick(c) \/ ReadFails(c) \/ unregisterNow(c)
  \/ CheckReplaced(c)
  \/ VoiceLeave(c) \/ clearVoiceChID(c) \/ handleVoiceLeave(c)
  \/ \E ch \in Channels : handleVoiceJoin(c, ch)
  \/ CheckCapacity(c) \/ JoinVoiceChannel(c) \/ setVoiceChID(c)
  \/ GetVoiceState(c) \/ rollbackVoiceJoin(c)
  \/ \E enabled \in BOOLEAN : handleVoiceCamera(c, enabled)
  \/ UpdateVoiceCamera(c)

VoiceNext ==
  \/ \E c \in slots : ConnStep(c)
  \/ \E u \in Users : RetryLeave(u)
  \/ \E u \in Users, ch \in Channels : handleWebhookParticipantLeft(u, ch)
  \/ WebhookClear \/ WebhookLeave
  \/ \E ch \in Channels : handleDeleteChannel(ch)
  \/ Restart

VoiceSpec == VoiceInit /\ [][VoiceNext]_voiceVars
-----------------------------------------------------------------------------
(* Every variable has its type; a row or a camera exists only in a channel *)
(* that exists.                                                            *)
VoiceTypeOK ==
  /\ clients \in [Users -> Conns \cup {NoConn}]
  /\ phase \in [Conns -> Phases]
  /\ target \in [Conns -> Channels \cup {NoCh}]
  /\ ret \in [Conns -> {"out", "reading", "capacity"}]
  /\ voiceChID \in [Conns -> Channels \cup {NoCh}]
  /\ seat \in [Users -> channels \cup {NoCh}]
  /\ camera \in [Users -> BOOLEAN]
  /\ \A u \in Users : camera[u] => seat[u] # NoCh
  /\ channels \subseteq Channels
  /\ tokens \in [Users -> SUBSET Channels]
  /\ hook \in [st : {"none", "clear", "db"}, user : Users \cup {NoConn},
               conn : Conns \cup {NoConn}, ch : Channels \cup {NoCh}]
  /\ retry \in [Users -> 0 .. maxRetries - 1]
  /\ faults \in 0 .. MaxFailures
  /\ slots \subseteq Conns /\ strayed \subseteq Users /\ contested \subseteq Channels

(* Nothing about u's voice state is in progress. *)
Quiet(u) ==
  /\ \A c \in Conns : UserOf[c] = u => phase[c] \in {"out", "reading"}
  /\ hook.user # u
  /\ retry[u] = 0

(* Nobody is left as a ghost participant (rollbackVoiceJoin,               *)
(* handleVoiceLeave).  Once every handler, webhook and retry concerning a  *)
(* user has run, a row of voice_states belongs to a connection of theirs   *)
(* that is still being served and that believes it is in the channel the   *)
(* row names, so its next leave or its end removes the row.  A connection  *)
(* that replaces another one takes its voice along; the exceptions are     *)
(* those of LeftBehind, a join on a connection already replaced, and the   *)
(* failure of the one delete that rollbackVoiceJoin tries.                 *)
NoGhostVoice ==
  \A u \in Users \ strayed :
    Quiet(u) /\ seat[u] # NoCh
      => \E c \in Conns : /\ UserOf[c] = u /\ phase[c] = "reading"
                          /\ voiceChID[c] = seat[u]

(* The seats and the cameras of a channel stay within their limits         *)
(* although each is counted in one statement and taken in another, unless  *)
(* two requests have passed the same check at once, or a camera was        *)
(* checked for one channel and switched on in another.                     *)
LimitsHold ==
  \A ch \in Channels \ contested :
    /\ Cardinality({u \in Users : seat[u] = ch}) <= MaxUsers[ch]
    /\ CountActiveCameras(ch) <= MaxVideo[ch]
=============================================================================
