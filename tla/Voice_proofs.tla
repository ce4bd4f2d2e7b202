---------------------------- MODULE Voice_proofs ----------------------------
(***************************************************************************)
(* Proofs about the voice channels, for any users, connections, channels   *)
(* and limits.                                                             *)
(***************************************************************************)
EXTENDS Voice, FiniteSetTheorems, TLAPS

-----------------------------------------------------------------------------
(* Voice: the inductive invariant *)

(* From the check of the seats to setVoiceChID. *)
Joining == {"capacity", "joinDb", "joinSet"}

(* The locals of the handlers. *)
VoiceLocals ==
  /\ \A c \in Conns :
       /\ phase[c] \in {"out", "leaveDb", "rollbackDb"} \cup Joining => voiceChID[c] = NoCh
       /\ phase[c] \in Joining \/ ret[c] = "capacity" => target[c] \in Channels
       /\ phase[c] = "check" => clients[UserOf[c]] # c
  /\ \A u \in Users : clients[u] # NoConn => UserOf[clients[u]] = u
  /\ hook.st # "none" => hook.user \in Users
  /\ hook.st = "clear" => hook.conn \in Conns /\ UserOf[hook.conn] = hook.user

(* The background retry has more attempts left than statements can fail. *)
RetriesSuffice == \A u \in Users : retry[u] > 0 => faults < retry[u]

(* While a user has a registered connection, their other ones have no      *)
(* voice and are not about to get any.                                     *)
TakenOver ==
  \A c \in Conns :
    UserOf[c] \notin strayed /\ clients[UserOf[c]] \notin {NoConn, c}
      => voiceChID[c] = NoCh /\ phase[c] # "joinSet"

(* Connection c knows of the row of u, or is about to delete it. *)
Holds(c, u) ==
  /\ UserOf[c] = u
  /\ \/ phase[c] \in {"leaveDb", "rollbackDb"}
     \/ phase[c] = "joinSet" /\ target[c] = seat[u]
     \/ phase[c] # "out" /\ voiceChID[c] = seat[u]

(* A row is somebody's to delete: a retry's, a webhook's or a connection's. *)
RowOwned ==
  \A u \in Users \ strayed : seat[u] # NoCh =>
    \/ retry[u] > 0
    \/ hook.st # "none" /\ hook.user = u
    \/ \E c \in Conns : Holds(c, u)

Seats(ch) == {u \in Users : seat[u] = ch}
Cameras(ch) == {u \in Users : seat[u] = ch /\ camera[u]}
Past(p, ch) == {c \in Conns : phase[c] = p /\ target[c] = ch}

(* A limit: whoever is past its check is alone there and finds room. *)
WithinLimit(taken, past, max) ==
  /\ Cardinality(taken) <= max
  /\ past # {} => Cardinality(taken) < max
  /\ \A c, d \in past : c = d

WithinLimits ==
  \A ch \in Channels :
    /\ IsFiniteSet(Seats(ch))
    /\ ch \notin contested =>
         /\ WithinLimit(Seats(ch), Past("joinDb", ch), MaxUsers[ch])
         /\ WithinLimit(Cameras(ch), Past("cameraOn", ch), MaxVideo[ch])

VoiceInv ==
  VoiceTypeOK /\ VoiceLocals /\ RetriesSuffice /\ TakenOver /\ RowOwned /\ WithinLimits
-----------------------------------------------------------------------------
(* What the delete does to the rows, and a failure to the budget. *)
LEMMA RowDeleted ==
  ASSUME VoiceTypeOK, NEW u \in Users, LeaveVoiceChannel(u)
  PROVE  /\ seat' \in [Users -> channels \cup {NoCh}] /\ camera' \in [Users -> BOOLEAN]
         /\ \A v \in Users : camera'[v] => seat'[v] # NoCh
<1>1. seat' \in [Users -> channels \cup {NoCh}] /\ camera' \in [Users -> BOOLEAN]
  BY Zenon DEF LeaveVoiceChannel, VoiceTypeOK
<1>2. ASSUME NEW v \in Users, camera'[v] PROVE seat'[v] # NoCh
  <2>1. CASE v = u
    BY Zenon, <1>2, <2>1 DEF LeaveVoiceChannel, VoiceTypeOK
  <2>2. CASE v # u
    <3>1. camera'[v] = camera[v] /\ seat'[v] = seat[v]
      BY Zenon, <2>2 DEF LeaveVoiceChannel, VoiceTypeOK
    <3> QED BY Zenon, <1>2, <3>1 DEF VoiceTypeOK
  <2> QED BY Zenon, <2>1, <2>2
<1> QED BY Zenon, <1>1, <1>2

(* A failure is taken from those left. *)
LEMMA FaultSpent ==
  ASSUME VoiceTypeOK, Fails
  PROVE  faults' \in 0 .. MaxFailures
  BY BoundsAssumption DEF Fails, VoiceTypeOK

(* Leaving deletes the row, or leaves a retry behind and spends a failure. *)
LEMMA LeaveTyped ==
  ASSUME VoiceTypeOK, NEW u \in Users, leaveVoiceChannelWithRetry(u)
  PROVE  /\ seat' \in [Users -> channels \cup {NoCh}] /\ camera' \in [Users -> BOOLEAN]
         /\ \A v \in Users : camera'[v] => seat'[v] # NoCh
         /\ retry' \in [Users -> 0 .. maxRetries - 1] /\ faults' \in 0 .. MaxFailures
         /\ UNCHANGED <<channels, history>>
<1>1. CASE LeaveVoiceChannel(u) /\ UNCHANGED <<channels, retry, ledger>>
  BY Zenon, <1>1, RowDeleted DEF VoiceTypeOK, ledger
<1>2. CASE /\ Fails /\ UNCHANGED <<database, history>>
           /\ retry' = [retry EXCEPT ![u] = maxRetries - 1]
  <2>1. retry' \in [Users -> 0 .. maxRetries - 1]
    BY <1>2 DEF VoiceTypeOK, maxRetries
  <2>2. faults' \in 0 .. MaxFailures
    BY Zenon, <1>2, FaultSpent
  <2> QED BY Zenon, <1>2, <2>1, <2>2 DEF VoiceTypeOK, database
<1> QED BY Zenon, <1>1, <1>2 DEF leaveVoiceChannelWithRetry

(* After a leave a row that is still there has a retry. *)
LEMMA LeaveOwned ==
  ASSUME VoiceTypeOK, NEW u \in Users, leaveVoiceChannelWithRetry(u)
  PROVE  /\ seat'[u] # NoCh => retry'[u] > 0
         /\ \A v \in Users \ {u} : seat'[v] = seat[v] /\ retry'[v] = retry[v]
         /\ \A v \in Users : seat'[v] \in {seat[v], NoCh} /\ (camera'[v] => camera[v])
         /\ UNCHANGED history
  BY DEF leaveVoiceChannelWithRetry, LeaveVoiceChannel, VoiceTypeOK, maxRetries, database, ledger

(* Every step keeps the types. *)
LEMMA VoiceTypeStep ==
  ASSUME VoiceTypeOK, VoiceLocals, [VoiceNext]_voiceVars
  PROVE  VoiceTypeOK'
<1> USE DEF Move, memory, database, background, ledger, history
<1>1. ASSUME NEW c \in slots, ConnStep(c) PROVE VoiceTypeOK'
  <2>0. c \in Conns /\ UserOf[c] \in Users
    BY Zenon, UserOfAssumption DEF VoiceTypeOK
  <2>1. CASE registerNow(c)
    BY <2>0, <2>1 DEF registerNow, Phases, VoiceTypeOK
  <2>2. CASE Kick(c)
    BY Zenon, <2>0, <2>2 DEF Kick, VoiceTypeOK
  <2>3. CASE ReadFails(c)
    BY Zenon, <2>0, <2>3 DEF ReadFails, Phases, VoiceTypeOK
  <2>4. CASE unregisterNow(c)
    BY Zenon, <2>0, <2>4 DEF unregisterNow, Phases, VoiceTypeOK
  <2>5. CASE CheckReplaced(c)
    BY <2>0, <2>5 DEF CheckReplaced, Phases, VoiceTypeOK
  <2>6. CASE VoiceLeave(c)
    BY Zenon, <2>0, <2>6 DEF VoiceLeave, Phases, VoiceTypeOK
  <2>7. CASE clearVoiceChID(c)
    BY Zenon, <2>0, <2>7 DEF clearVoiceChID, Phases, VoiceTypeOK
  <2>8. CASE handleVoiceLeave(c)
    BY Zenon, <2>0, <2>8, LeaveTyped DEF handleVoiceLeave, Phases, VoiceTypeOK
  <2>9. ASSUME NEW ch \in Channels, handleVoiceJoin(c, ch) PROVE VoiceTypeOK'
    BY Zenon, <2>0, <2>9 DEF handleVoiceJoin, Phases, VoiceTypeOK
  <2>10. CASE CheckCapacity(c)
    BY Zenon, <2>0, <2>10 DEF CheckCapacity, Contest, VoiceLocals, Joining, Phases, VoiceTypeOK
  <2>11. CASE JoinVoiceChannel(c)
    <3>1. CASE Fails
      BY ZenonT(30), <2>0, <2>11, <3>1, FaultSpent DEF JoinVoiceChannel, Phases, VoiceTypeOK
    <3>2. CASE ~Fails
      <4>1. \A v \in Users : camera'[v] => seat'[v] # NoCh
        BY <2>0, <2>11, <3>2, NoneAssumption DEF JoinVoiceChannel, VoiceTypeOK
      <4> QED BY ZenonT(30), <2>0, <2>11, <3>2, <4>1 DEF JoinVoiceChannel, Phases, VoiceTypeOK
    <3> QED BY Zenon, <3>1, <3>2
  <2>12. CASE setVoiceChID(c)
    BY <2>0, <2>12 DEF setVoiceChID, VoiceLocals, Joining, Phases, VoiceTypeOK
  <2>13. CASE GetVoiceState(c)
    BY Zenon, <2>0, <2>13, FaultSpent DEF GetVoiceState, Phases, VoiceTypeOK
  <2>14. CASE rollbackVoiceJoin(c)
    <3>1. CASE LeaveVoiceChannel(UserOf[c])
      BY <2>0, <2>14, <3>1, RowDeleted, FaultSpent DEF rollbackVoiceJoin, Phases, VoiceTypeOK
    <3>2. CASE ~LeaveVoiceChannel(UserOf[c])
      BY ZenonT(30), <2>0, <2>14, <3>2, FaultSpent DEF rollbackVoiceJoin, Phases, VoiceTypeOK
    <3> QED BY Zenon, <3>1, <3>2
  <2>15. ASSUME NEW enabled \in BOOLEAN, handleVoiceCamera(c, enabled) PROVE VoiceTypeOK'
    BY <2>0, <2>15 DEF handleVoiceCamera, Contest, Phases, VoiceTypeOK
  <2>16. CASE UpdateVoiceCamera(c)
    BY <2>0, <2>16 DEF UpdateVoiceCamera, Phases, VoiceTypeOK
  <2> QED BY <1>1, <2>1, <2>2, <2>3, <2>4, <2>5, <2>6, <2>7, <2>8, <2>9, <2>10, <2>11, <2>12,
             <2>13, <2>14, <2>15, <2>16 DEF ConnStep
<1>2. ASSUME NEW u \in Users, RetryLeave(u) PROVE VoiceTypeOK'
  <2>1. CASE LeaveVoiceChannel(u) /\ retry' = [retry EXCEPT ![u] = 0] /\ UNCHANGED <<channels, ledger>>
    <3>1. retry' \in [Users -> 0 .. maxRetries - 1]
      BY <2>1 DEF maxRetries, VoiceTypeOK
    <3> QED BY Zenon, <1>2, <2>1, <3>1, RowDeleted DEF RetryLeave, VoiceTypeOK
  <2>2. CASE Fails /\ UNCHANGED <<history, database>> /\ retry' = [retry EXCEPT ![u] = @ - 1]
    <3>1. retry' \in [Users -> 0 .. maxRetries - 1]
      BY <1>2, <2>2 DEF RetryLeave, maxRetries, VoiceTypeOK
    <3> QED BY Zenon, <1>2, <2>2, <3>1, FaultSpent DEF RetryLeave, VoiceTypeOK
  <2> QED BY Zenon, <1>2, <2>1, <2>2 DEF RetryLeave
<1>3. ASSUME NEW u \in Users, NEW ch \in Channels, handleWebhookParticipantLeft(u, ch)
      PROVE  VoiceTypeOK'
  BY ZenonT(30), <1>3 DEF handleWebhookParticipantLeft, NoHook, VoiceTypeOK
<1>4. CASE WebhookClear
  BY Zenon, <1>4 DEF WebhookClear, VoiceTypeOK
<1>5. CASE WebhookLeave
  BY Zenon, <1>5, LeaveTyped DEF WebhookLeave, NoHook, VoiceLocals, VoiceTypeOK
<1>6. ASSUME NEW ch \in Channels, handleDeleteChannel(ch) PROVE VoiceTypeOK'
  BY Zenon, <1>6 DEF handleDeleteChannel, VoiceTypeOK
<1>7. CASE Restart
  BY <1>7 DEF Restart, NoHook, Phases, maxRetries, VoiceTypeOK
<1>8. CASE UNCHANGED voiceVars
  BY Zenon, <1>8 DEF voiceVars, VoiceTypeOK
<1> QED BY Zenon, <1>1, <1>2, <1>3, <1>4, <1>5, <1>6, <1>7, <1>8 DEF VoiceNext

(* What the positions of the handlers imply is kept. *)
LEMMA VoiceLocalsStep ==
  ASSUME VoiceTypeOK, VoiceLocals, [VoiceNext]_voiceVars
  PROVE  VoiceLocals'
<1> USE DEF Move, memory, database, background, ledger, history
<1>1. ASSUME NEW c \in slots, ConnStep(c) PROVE VoiceLocals'
  <2>0. c \in Conns /\ UserOf[c] \in Users /\ \A d \in Conns : UserOf[d] \in Users
    BY Zenon, UserOfAssumption DEF VoiceTypeOK
  <2>1. CASE registerNow(c)
    BY Zenon, <2>0, <2>1, NoneAssumption DEF registerNow, VoiceTypeOK, VoiceLocals, Joining
  <2>2. CASE Kick(c)
    BY <2>0, <2>2, NoneAssumption DEF Kick, VoiceTypeOK, VoiceLocals
  <2>3. CASE ReadFails(c)
    BY Zenon, <2>0, <2>3 DEF ReadFails, VoiceTypeOK, VoiceLocals, Joining
  <2>4. CASE unregisterNow(c)
    BY ZenonT(30), <2>0, <2>4, NoneAssumption DEF unregisterNow, VoiceTypeOK, VoiceLocals, Joining
  <2>5. CASE CheckReplaced(c)
    BY <2>0, <2>5 DEF CheckReplaced, VoiceTypeOK, VoiceLocals, Joining
  <2>6. CASE VoiceLeave(c)
    BY Zenon, <2>0, <2>6 DEF VoiceLeave, VoiceTypeOK, VoiceLocals, Joining
  <2>7. CASE clearVoiceChID(c)
    BY Zenon, <2>0, <2>7 DEF clearVoiceChID, VoiceTypeOK, VoiceLocals, Joining
  <2>8. CASE handleVoiceLeave(c)
    BY Zenon, <2>0, <2>8 DEF handleVoiceLeave, VoiceTypeOK, VoiceLocals, Joining
  <2>9. ASSUME NEW ch \in Channels, handleVoiceJoin(c, ch) PROVE VoiceLocals'
    BY ZenonT(30), <2>0, <2>9 DEF handleVoiceJoin, VoiceTypeOK, VoiceLocals, Joining
  <2>10. CASE CheckCapacity(c)
    BY Zenon, <2>0, <2>10 DEF CheckCapacity, VoiceTypeOK, VoiceLocals, Joining
  <2>11. CASE JoinVoiceChannel(c)
    BY <2>0, <2>11 DEF JoinVoiceChannel, VoiceTypeOK, VoiceLocals, Joining
  <2>12. CASE setVoiceChID(c)
    BY <2>0, <2>12 DEF setVoiceChID, VoiceTypeOK, VoiceLocals, Joining
  <2>13. CASE GetVoiceState(c)
    BY <2>0, <2>13 DEF GetVoiceState, VoiceTypeOK, VoiceLocals, Joining
  <2>14. CASE rollbackVoiceJoin(c)
    BY <2>0, <2>14 DEF rollbackVoiceJoin, VoiceTypeOK, VoiceLocals, Joining
  <2>15. ASSUME NEW enabled \in BOOLEAN, handleVoiceCamera(c, enabled) PROVE VoiceLocals'
    BY ZenonT(30), <2>0, <2>15 DEF handleVoiceCamera, VoiceTypeOK, VoiceLocals, Joining
  <2>16. CASE UpdateVoiceCamera(c)
    BY <2>0, <2>16 DEF UpdateVoiceCamera, VoiceTypeOK, VoiceLocals, Joining
  <2> QED BY <1>1, <2>1, <2>2, <2>3, <2>4, <2>5, <2>6, <2>7, <2>8, <2>9, <2>10, <2>11, <2>12,
             <2>13, <2>14, <2>15, <2>16 DEF ConnStep
<1>2. ASSUME NEW u \in Users, RetryLeave(u) PROVE VoiceLocals'
  BY Zenon, <1>2 DEF RetryLeave, VoiceLocals
<1>3. ASSUME NEW u \in Users, NEW ch \in Channels, handleWebhookParticipantLeft(u, ch)
      PROVE  VoiceLocals'
  <2>1. /\ hook'.user = u /\ hook'.conn = clients[u] /\ UNCHANGED <<memory, phase, target, ret>>
        /\ hook'.st = "clear" => clients[u] # NoConn
    BY Zenon, <1>3 DEF handleWebhookParticipantLeft, NoHook
  <2>2. hook'.st = "clear" => hook'.conn \in Conns /\ UserOf[hook'.conn] = hook'.user
    BY <2>1 DEF VoiceTypeOK, VoiceLocals
  <2> QED BY Zenon, <2>1, <2>2 DEF VoiceLocals
<1>4. CASE WebhookClear
  BY Zenon, <1>4 DEF WebhookClear, VoiceTypeOK, VoiceLocals
<1>5. CASE WebhookLeave
  BY Zenon, <1>5 DEF WebhookLeave, NoHook, VoiceLocals
<1>6. ASSUME NEW ch \in Channels, handleDeleteChannel(ch) PROVE VoiceLocals'
  BY Zenon, <1>6 DEF handleDeleteChannel, VoiceLocals
<1>7. CASE Restart
  BY Zenon, <1>7, UserOfAssumption DEF Restart, NoHook, VoiceTypeOK, VoiceLocals, Joining
<1>8. CASE UNCHANGED voiceVars
  BY Zenon, <1>8 DEF voiceVars, VoiceLocals
<1> QED BY Zenon, <1>1, <1>2, <1>3, <1>4, <1>5, <1>6, <1>7, <1>8 DEF VoiceNext

(* A retry never runs out of attempts. *)
LEMMA RetriesStep ==
  ASSUME VoiceTypeOK, VoiceLocals, RetriesSuffice, [VoiceNext]_voiceVars
  PROVE  RetriesSuffice'
<1>0. faults \in 0 .. 2 /\ retry \in [Users -> 0 .. 2]
  BY BoundsAssumption DEF VoiceTypeOK, maxRetries
<1>1. ASSUME NEW u \in Users, leaveVoiceChannelWithRetry(u) PROVE RetriesSuffice'
  BY <1>0, <1>1 DEF leaveVoiceChannelWithRetry, Fails, RetriesSuffice, maxRetries, ledger
<1>2. ASSUME NEW u \in Users, RetryLeave(u) PROVE RetriesSuffice'
  BY <1>0, <1>2 DEF RetryLeave, Fails, RetriesSuffice, ledger
<1>3. ASSUME UNCHANGED retry, faults' = faults \/ faults' = faults - 1 PROVE RetriesSuffice'
  BY <1>0, <1>3 DEF RetriesSuffice
<1>4. ASSUME NEW c \in slots, ConnStep(c) PROVE RetriesSuffice'
  <2>0. UserOf[c] \in Users
    BY Zenon, UserOfAssumption DEF VoiceTypeOK
  <2>1. CASE handleVoiceLeave(c)
    BY Zenon, <1>1, <2>0, <2>1 DEF handleVoiceLeave
  <2>2. CASE JoinVoiceChannel(c) \/ GetVoiceState(c) \/ rollbackVoiceJoin(c)
    BY Zenon, <1>3, <2>2 DEF JoinVoiceChannel, GetVoiceState, rollbackVoiceJoin, Fails, background, ledger
  <2>3. CASE registerNow(c) \/ Kick(c) \/ ReadFails(c) \/ unregisterNow(c) \/ CheckReplaced(c)
    BY Zenon, <1>3, <2>3 DEF registerNow, Kick, ReadFails, unregisterNow, CheckReplaced, background, ledger
  <2>4. CASE VoiceLeave(c) \/ clearVoiceChID(c) \/ (\E ch \in Channels : handleVoiceJoin(c, ch))
    BY Zenon, <1>3, <2>4 DEF VoiceLeave, clearVoiceChID, handleVoiceJoin, background, ledger
  <2>5. CASE CheckCapacity(c) \/ setVoiceChID(c)
    BY Zenon, <1>3, <2>5 DEF CheckCapacity, setVoiceChID, background, ledger
  <2>6. CASE UpdateVoiceCamera(c) \/ \E enabled \in BOOLEAN : handleVoiceCamera(c, enabled)
    BY Zenon, <1>3, <2>6 DEF UpdateVoiceCamera, handleVoiceCamera, background, ledger
  <2> QED BY Zenon, <1>4, <2>1, <2>2, <2>3, <2>4, <2>5, <2>6 DEF ConnStep
<1>5. ASSUME NEW u \in Users, NEW ch \in Channels, handleWebhookParticipantLeft(u, ch)
      PROVE  RetriesSuffice'
  BY Zenon, <1>3, <1>5 DEF handleWebhookParticipantLeft, ledger
<1>6. CASE WebhookClear
  BY Zenon, <1>3, <1>6 DEF WebhookClear, ledger
<1>7. CASE WebhookLeave
  BY Zenon, <1>1, <1>7 DEF WebhookLeave, VoiceLocals
<1>8. ASSUME NEW ch \in Channels, handleDeleteChannel(ch) PROVE RetriesSuffice'
  BY Zenon, <1>3, <1>8 DEF handleDeleteChannel, background, ledger
<1>9. CASE Restart
  BY <1>9 DEF Restart, RetriesSuffice
<1>10. CASE UNCHANGED voiceVars
  BY Zenon, <1>3, <1>10 DEF voiceVars, background, ledger
<1> QED BY Zenon, <1>2, <1>4, <1>5, <1>6, <1>7, <1>8, <1>9, <1>10 DEF VoiceNext

(* Only registerNow, JoinVoiceChannel and setVoiceChID could give voice to *)
(* a connection that another one has replaced.                             *)
LEMMA TakenOverStep ==
  ASSUME VoiceTypeOK, VoiceLocals, TakenOver, [VoiceNext]_voiceVars
  PROVE  TakenOver'
<1>0. \A d \in Conns : UserOf[d] \in Users
  BY Zenon, UserOfAssumption
<1>1. ASSUME strayed \subseteq strayed',
             \A u \in Users : clients'[u] \in {clients[u], NoConn},
             \A d \in Conns : /\ voiceChID'[d] \in {voiceChID[d], NoCh}
                              /\ phase'[d] = "joinSet" => phase[d] = "joinSet"
      PROVE  TakenOver'
  BY Zenon, <1>0, <1>1 DEF TakenOver
<1>2. ASSUME NEW c \in slots, ConnStep(c) PROVE TakenOver'
  <2>0. c \in Conns /\ UserOf[c] \in Users
    BY Zenon, <1>0 DEF VoiceTypeOK
  <2>1. CASE registerNow(c)
    BY Zenon, <1>0, <2>0, <2>1, NoneAssumption
       DEF registerNow, LeftBehind, Move, VoiceTypeOK, VoiceLocals, TakenOver
  <2>2. CASE JoinVoiceChannel(c)
    BY <1>0, <2>0, <2>2 DEF JoinVoiceChannel, Move, memory, ledger, history, VoiceTypeOK, TakenOver
  <2>3. CASE setVoiceChID(c)
    BY Zenon, <1>0, <2>0, <2>3 DEF setVoiceChID, Move, ledger, history, VoiceTypeOK, TakenOver
  <2>4. CASE Kick(c) \/ unregisterNow(c)
    BY ZenonT(30), <1>1, <2>0, <2>4 DEF Kick, unregisterNow, Move, ledger, history, VoiceTypeOK
  <2>5. CASE ReadFails(c) \/ VoiceLeave(c) \/ (\E ch \in Channels : handleVoiceJoin(c, ch))
    BY Zenon, <1>1, <2>0, <2>5 DEF ReadFails, VoiceLeave, handleVoiceJoin, Move, memory, ledger, history,
       VoiceTypeOK
  <2>6. CASE CheckReplaced(c) \/ clearVoiceChID(c)
    BY <1>1, <2>0, <2>6 DEF CheckReplaced, clearVoiceChID, Move, ledger, history, VoiceTypeOK
  <2>7. CASE handleVoiceLeave(c)
    BY Zenon, <1>1, <2>0, <2>7, LeaveTyped DEF handleVoiceLeave, Move, memory, history, VoiceTypeOK
  <2>8. CASE CheckCapacity(c) \/ GetVoiceState(c)
    BY Zenon, <1>1, <2>0, <2>8 DEF CheckCapacity, GetVoiceState, Move, memory, ledger, history, VoiceTypeOK
  <2>9. CASE rollbackVoiceJoin(c)
    BY Zenon, <1>1, <2>0, <2>9 DEF rollbackVoiceJoin, Move, memory, ledger, history, VoiceTypeOK
  <2>10. CASE UpdateVoiceCamera(c) \/ \E enabled \in BOOLEAN : handleVoiceCamera(c, enabled)
    BY Zenon, <1>1, <2>0, <2>10 DEF UpdateVoiceCamera, handleVoiceCamera, Move, memory, VoiceTypeOK
  <2> QED BY Zenon, <1>2, <2>1, <2>2, <2>3, <2>4, <2>5, <2>6, <2>7, <2>8, <2>9, <2>10 DEF ConnStep
<1>3. ASSUME NEW u \in Users, RetryLeave(u) PROVE TakenOver'
  BY Zenon, <1>1, <1>3 DEF RetryLeave, memory, ledger, history
<1>4. ASSUME NEW u \in Users, NEW ch \in Channels, handleWebhookParticipantLeft(u, ch)
      PROVE  TakenOver'
  BY Zenon, <1>1, <1>4 DEF handleWebhookParticipantLeft, memory, ledger, history
<1>5. CASE WebhookClear
  BY Zenon, <1>1, <1>5 DEF WebhookClear, ledger, history, VoiceTypeOK
<1>6. CASE WebhookLeave
  BY Zenon, <1>1, <1>6, LeaveTyped DEF WebhookLeave, VoiceLocals, memory, history
<1>7. ASSUME NEW ch \in Channels, handleDeleteChannel(ch) PROVE TakenOver'
  BY Zenon, <1>1, <1>7 DEF handleDeleteChannel, memory, ledger, history
<1>8. CASE Restart
  BY Zenon, <1>1, <1>8 DEF Restart, ledger, history
<1>9. CASE UNCHANGED voiceVars
  BY Zenon, <1>1, <1>9 DEF voiceVars, memory, ledger, history
<1> QED BY Zenon, <1>2, <1>3, <1>4, <1>5, <1>6, <1>7, <1>8, <1>9 DEF VoiceNext

(* Whoever stops holding a row hands it on or has deleted it. *)
LEMMA RowOwnedStep ==
  ASSUME VoiceTypeOK, VoiceLocals, RetriesSuffice, TakenOver, RowOwned, [VoiceNext]_voiceVars
  PROVE  RowOwned'
<1>0. \A d \in Conns : UserOf[d] \in Users
  BY Zenon, UserOfAssumption
<1>1. ASSUME strayed \subseteq strayed',
             \A u \in Users \ strayed' : seat'[u] # NoCh =>
               /\ seat'[u] = seat[u]
               /\ retry[u] > 0 => retry'[u] > 0
               /\ hook.st # "none" /\ hook.user = u =>
                    \/ hook'.st # "none" /\ hook'.user = u
                    \/ retry'[u] > 0
               /\ \A d \in Conns : Holds(d, u) =>
                    \/ Holds(d, u)'
                    \/ hook'.st # "none" /\ hook'.user = u
                    \/ retry'[u] > 0
      PROVE  RowOwned'
  BY Zenon, <1>1 DEF RowOwned
<1>a. ASSUME NEW w \in Users, strayed \subseteq strayed', seat'[w] # NoCh => retry'[w] > 0,
             \A v \in Users \ {w} :
               /\ seat'[v] = seat[v] /\ retry'[v] = retry[v]
               /\ hook.st # "none" /\ hook.user = v => hook'.st # "none" /\ hook'.user = v,
             \A d \in Conns : UserOf[d] # w => UNCHANGED <<phase[d], target[d], voiceChID[d]>>
      PROVE  RowOwned'
  <2> SUFFICES ASSUME NEW v \in Users \ strayed', seat'[v] # NoCh, ~(retry'[v] > 0)
               PROVE  \/ hook'.st # "none" /\ hook'.user = v
                      \/ \E d \in Conns : Holds(d, v)'
    BY Zenon DEF RowOwned
  <2>1. v # w /\ v \in Users \ strayed /\ seat[v] # NoCh /\ ~(retry[v] > 0)
    BY Zenon, <1>a
  <2>2. CASE hook.st # "none" /\ hook.user = v
    BY Zenon, <1>a, <2>1, <2>2
  <2>3. CASE \E d \in Conns : Holds(d, v)
    BY <1>a, <2>1, <2>3 DEF Holds
  <2> QED BY Zenon, <2>1, <2>2, <2>3 DEF RowOwned
<1>2. ASSUME NEW c \in slots, ConnStep(c) PROVE RowOwned'
  <2>0. c \in Conns /\ UserOf[c] \in Users
    BY Zenon, <1>0 DEF VoiceTypeOK
  <2>a. ASSUME UNCHANGED <<seat, retry, hook>>, strayed \subseteq strayed',
               \A d \in Conns \ {c} : UNCHANGED <<phase[d], target[d], voiceChID[d]>>,
               UserOf[c] \notin strayed' /\ seat[UserOf[c]] # NoCh /\ Holds(c, UserOf[c])
                 => Holds(c, UserOf[c])'
        PROVE  RowOwned'
    BY <1>1, <2>0, <2>a DEF Holds
  <2>1. CASE registerNow(c)
    <3>1. ASSUME NEW u \in Users \ strayed', seat[u] # NoCh, NEW d \in Conns, Holds(d, u)
          PROVE  Holds(d, u)' \/ Holds(c, u)'
      BY <1>0, <2>0, <2>1, <3>1, NoneAssumption
         DEF registerNow, Move, Holds, VoiceTypeOK, VoiceLocals, Joining, database
    <3> QED BY Zenon, <2>0, <2>1, <3>1 DEF registerNow, RowOwned, database, background
  <2>2. CASE Kick(c)
    BY Zenon, <2>a, <2>2 DEF Kick, database, background, ledger, history, Holds
  <2>3. CASE ReadFails(c)
    BY Zenon, <2>0, <2>a, <2>3
       DEF ReadFails, Move, memory, database, background, ledger, history, VoiceTypeOK, Holds
  <2>4. CASE unregisterNow(c)
    BY Zenon, <2>0, <2>a, <2>4
       DEF unregisterNow, Move, database, background, ledger, history, VoiceTypeOK, Holds
  <2>5. CASE CheckReplaced(c)
    BY <2>0, <2>a, <2>5 DEF CheckReplaced, Move, database, background, ledger, history,
       VoiceTypeOK, VoiceLocals, TakenOver, Holds
  <2>6. CASE VoiceLeave(c)
    BY Zenon, <2>0, <2>a, <2>6
       DEF VoiceLeave, Move, memory, database, background, ledger, history, VoiceTypeOK, Holds
  <2>7. CASE clearVoiceChID(c)
    BY Zenon, <2>0, <2>a, <2>7
       DEF clearVoiceChID, Move, database, background, ledger, history, VoiceTypeOK, Holds
  <2>8. CASE handleVoiceLeave(c)
    <3>1. /\ seat'[UserOf[c]] # NoCh => retry'[UserOf[c]] > 0
          /\ \A u \in Users \ {UserOf[c]} : seat'[u] = seat[u] /\ retry'[u] = retry[u]
          /\ UNCHANGED <<strayed, hook>>
      BY Zenon, <2>0, <2>8, LeaveOwned DEF handleVoiceLeave, history
    <3> QED BY <1>a, <2>0, <2>8, <3>1 DEF handleVoiceLeave, Move, memory, VoiceTypeOK, Holds
  <2>9. ASSUME NEW ch \in Channels, handleVoiceJoin(c, ch) PROVE RowOwned'
    BY Zenon, <2>0, <2>a, <2>9
       DEF handleVoiceJoin, Move, memory, database, background, ledger, history, VoiceTypeOK, Holds
  <2>10. CASE CheckCapacity(c)
    BY Zenon, <2>0, <2>a, <2>10
       DEF CheckCapacity, Move, memory, database, background, VoiceTypeOK, Holds
  <2>11. CASE JoinVoiceChannel(c)
    <3>1. CASE /\ target[c] \in channels /\ Move(c, "joinDb", "joinSet")
               /\ seat' = [seat EXCEPT ![UserOf[c]] = target[c]]
               /\ UNCHANGED <<memory, target, background>> /\ strayed \subseteq strayed'
      <4>1. Holds(c, UserOf[c])'
        BY Zenon, <2>0, <3>1 DEF Move, VoiceTypeOK, Holds
      <4> QED BY <2>0, <3>1, <4>1
                 DEF Move, memory, background, VoiceTypeOK, VoiceLocals, Joining, RowOwned, Holds
    <3>2. CASE Move(c, "joinDb", "reading") /\ UNCHANGED <<memory, target, database, background, strayed>>
      BY Zenon, <2>0, <2>a, <3>2 DEF Move, memory, database, background, VoiceTypeOK, Holds
    <3> QED BY Zenon, <2>11, <3>1, <3>2 DEF JoinVoiceChannel, ledger, history
  <2>12. CASE setVoiceChID(c)
    BY <2>0, <2>a, <2>12 DEF setVoiceChID, Move, database, background, ledger, history,
       VoiceTypeOK, VoiceLocals, Joining, Holds
  <2>13. CASE GetVoiceState(c)
    BY Zenon, <2>0, <2>a, <2>13
       DEF GetVoiceState, Move, memory, database, background, ledger, history, VoiceTypeOK, Holds
  <2>14. CASE rollbackVoiceJoin(c)
    <3>1. CASE Move(c, "rollback", "rollbackDb") /\ voiceChID' = [voiceChID EXCEPT ![c] = NoCh]
               /\ UNCHANGED <<target, database, background, strayed>>
      BY Zenon, <2>0, <2>a, <3>1 DEF Move, database, background, VoiceTypeOK, Holds
    <3>2. CASE /\ Move(c, "rollbackDb", "reading") /\ UNCHANGED <<memory, target, background>>
               /\ \/ LeaveVoiceChannel(UserOf[c]) /\ UNCHANGED strayed
                  \/ strayed' = strayed \cup {UserOf[c]} /\ UNCHANGED seat
      BY <1>1, <2>0, <3>2 DEF Move, memory, background, LeaveVoiceChannel, VoiceTypeOK, Holds
    <3> QED BY Zenon, <2>14, <3>1, <3>2 DEF rollbackVoiceJoin, database, ledger, history
  <2>15. ASSUME NEW enabled \in BOOLEAN, handleVoiceCamera(c, enabled) PROVE RowOwned'
    BY Zenon, <2>0, <2>a, <2>15
       DEF handleVoiceCamera, Move, memory, database, background, VoiceTypeOK, Holds
  <2>16. CASE UpdateVoiceCamera(c)
    BY Zenon, <2>0, <2>a, <2>16 DEF UpdateVoiceCamera, Move, memory, background, VoiceTypeOK, Holds
  <2> QED BY Zenon, <1>2, <2>1, <2>2, <2>3, <2>4, <2>5, <2>6, <2>7, <2>8, <2>9, <2>10, <2>11, <2>12,
             <2>13, <2>14, <2>15, <2>16 DEF ConnStep
<1>3. ASSUME NEW u \in Users, RetryLeave(u) PROVE RowOwned'
  <2>1. /\ seat'[u] # NoCh => retry'[u] > 0
        /\ \A v \in Users \ {u} : seat'[v] = seat[v] /\ retry'[v] = retry[v]
    BY <1>3, BoundsAssumption
       DEF RetryLeave, LeaveVoiceChannel, Fails, database, VoiceTypeOK, RetriesSuffice, maxRetries
  <2> QED BY Zenon, <1>a, <1>3, <2>1 DEF RetryLeave, memory, ledger, history
<1>4. ASSUME NEW u \in Users, NEW ch \in Channels, handleWebhookParticipantLeft(u, ch)
      PROVE  RowOwned'
  BY Zenon, <1>1, <1>4 DEF handleWebhookParticipantLeft, NoHook, memory, database, ledger, history, Holds
<1>5. CASE WebhookClear
  <2>1. hook.conn \in Conns /\ hook'.st = "db" /\ hook'.user = hook.user
    BY Zenon, <1>5 DEF WebhookClear, VoiceLocals, VoiceTypeOK
  <2>2. \A d \in Conns : UserOf[d] # hook.user => voiceChID'[d] = voiceChID[d]
    BY Zenon, <1>5, <2>1 DEF WebhookClear, VoiceLocals, VoiceTypeOK
  <2> QED BY <1>1, <1>5, <2>1, <2>2 DEF WebhookClear, database, ledger, history, Holds
<1>6. CASE WebhookLeave
  <2>1. /\ hook.user \in Users
        /\ seat'[hook.user] # NoCh => retry'[hook.user] > 0
        /\ \A v \in Users \ {hook.user} : seat'[v] = seat[v] /\ retry'[v] = retry[v]
        /\ UNCHANGED strayed
    BY Zenon, <1>6, LeaveOwned DEF WebhookLeave, VoiceLocals, history
  <2> QED BY Zenon, <1>a, <1>6, <2>1 DEF WebhookLeave, memory
<1>7. ASSUME NEW ch \in Channels, handleDeleteChannel(ch) PROVE RowOwned'
  BY Zenon, <1>1, <1>7 DEF handleDeleteChannel, memory, background, ledger, history, VoiceTypeOK, Holds
<1>8. CASE Restart
  BY Zenon, <1>8 DEF Restart, RowOwned
<1>9. CASE UNCHANGED voiceVars
  BY Zenon, <1>1, <1>9 DEF voiceVars, memory, database, background, ledger, history, Holds
<1> QED BY Zenon, <1>2, <1>3, <1>4, <1>5, <1>6, <1>7, <1>8, <1>9 DEF VoiceNext

-----------------------------------------------------------------------------
(* Voice: the limits *)

(* Fewer takers and fewer waiting keep a limit. *)
LEMMA LimitShrinks ==
  ASSUME NEW S, NEW T \in SUBSET S, NEW P, NEW Q \in SUBSET P, NEW max \in Nat,
         IsFiniteSet(S), WithinLimit(S, P, max)
  PROVE  IsFiniteSet(T) /\ WithinLimit(T, Q, max)
<1>1. IsFiniteSet(T) /\ Cardinality(T) <= Cardinality(S)
  BY Zenon, FS_Subset
<1>2. Cardinality(S) \in Nat /\ Cardinality(T) \in Nat
  BY Zenon, <1>1, FS_CardinalityType
<1> QED BY <1>1, <1>2 DEF WithinLimit

(* Who passes the check alone keeps a limit. *)
LEMMA LimitPassed ==
  ASSUME NEW S, NEW c, NEW Q \in SUBSET {c}, NEW max \in Nat,
         IsFiniteSet(S), Cardinality(S) < max
  PROVE  WithinLimit(S, Q, max)
<1>1. Cardinality(S) \in Nat
  BY Zenon, FS_CardinalityType
<1> QED BY <1>1 DEF WithinLimit

(* Who has passed the check takes one place and is no longer waiting. *)
LEMMA LimitTaken ==
  ASSUME NEW S, NEW u, NEW T \in SUBSET (S \cup {u}), NEW P, NEW c \in P,
         NEW Q \in SUBSET (P \ {c}), NEW max \in Nat,
         IsFiniteSet(S), WithinLimit(S, P, max)
  PROVE  WithinLimit(T, Q, max)
<1>1. IsFiniteSet(S \cup {u}) /\ Cardinality(S \cup {u}) <= Cardinality(S) + 1
  <2>1. CASE u \in S
    <3>1. S \cup {u} = S /\ Cardinality(S) \in Nat
      BY Zenon, <2>1, FS_CardinalityType
    <3> QED BY <3>1
  <2>2. CASE u \notin S
    <3>1. IsFiniteSet(S \cup {u}) /\ Cardinality(S \cup {u}) = Cardinality(S) + 1
      BY Zenon, <2>2, FS_AddElement
    <3>2. Cardinality(S) \in Nat
      BY Zenon, FS_CardinalityType
    <3> QED BY <3>1, <3>2
  <2> QED BY Zenon, <2>1, <2>2
<1>2. IsFiniteSet(T) /\ Cardinality(T) <= Cardinality(S \cup {u})
  BY Zenon, <1>1, FS_Subset
<1>3. Cardinality(S) \in Nat /\ Cardinality(T) \in Nat /\ Cardinality(S \cup {u}) \in Nat
  BY Zenon, <1>1, <1>2, FS_CardinalityType
<1>4. Cardinality(S) < max /\ Q = {}
  BY Zenon DEF WithinLimit
<1>5. Cardinality(T) <= max
  BY <1>1, <1>2, <1>3, <1>4
<1> QED BY Zenon, <1>4, <1>5 DEF WithinLimit

(* The cameras of a channel are among its seats. *)
LEMMA FiniteCameras ==
  ASSUME WithinLimits, NEW ch \in Channels
  PROVE  IsFiniteSet(Seats(ch)) /\ IsFiniteSet(Cameras(ch))
<1>1. Cameras(ch) \subseteq Seats(ch)
  BY Zenon DEF Cameras, Seats
<1> QED BY Zenon, <1>1, FS_Subset DEF WithinLimits

(* A step by which nobody passes a check and nobody takes a place. *)
LEMMA LimitsShrink ==
  ASSUME VoiceTypeOK, WithinLimits, contested \subseteq contested',
         \A u \in Users : seat'[u] \in {seat[u], NoCh} /\ (camera'[u] => camera[u]),
         \A c \in Conns : phase'[c] \in {"joinDb", "cameraOn"} =>
                            phase'[c] = phase[c] /\ target'[c] = target[c]
  PROVE  WithinLimits'
<1> SUFFICES ASSUME NEW ch \in Channels
             PROVE  /\ IsFiniteSet(Seats(ch)')
                    /\ ch \notin contested' =>
                         /\ WithinLimit(Seats(ch)', Past("joinDb", ch)', MaxUsers[ch])
                         /\ WithinLimit(Cameras(ch)', Past("cameraOn", ch)', MaxVideo[ch])
  BY Zenon DEF WithinLimits
<1>1. ch # NoCh /\ MaxUsers[ch] \in Nat /\ MaxVideo[ch] \in Nat
  BY Zenon, NoneAssumption, BoundsAssumption
<1>2. Seats(ch)' \subseteq Seats(ch) /\ Cameras(ch)' \subseteq Cameras(ch)
  BY <1>1 DEF Seats, Cameras
<1>3. Past("joinDb", ch)' \subseteq Past("joinDb", ch) /\ Past("cameraOn", ch)' \subseteq Past("cameraOn", ch)
  BY Zenon DEF Past
<1>4. IsFiniteSet(Seats(ch)) /\ IsFiniteSet(Cameras(ch))
  BY Zenon, FiniteCameras
<1>5. IsFiniteSet(Seats(ch)')
  BY Zenon, <1>2, <1>4, FS_Subset
<1>6. ASSUME ch \notin contested'
      PROVE  /\ WithinLimit(Seats(ch)', Past("joinDb", ch)', MaxUsers[ch])
             /\ WithinLimit(Cameras(ch)', Past("cameraOn", ch)', MaxVideo[ch])
  <2>1. /\ WithinLimit(Seats(ch), Past("joinDb", ch), MaxUsers[ch])
        /\ WithinLimit(Cameras(ch), Past("cameraOn", ch), MaxVideo[ch])
    BY Zenon, <1>6 DEF WithinLimits
  <2>2. WithinLimit(Seats(ch)', Past("joinDb", ch)', MaxUsers[ch])
    BY Zenon, <1>1, <1>2, <1>3, <1>4, <2>1, LimitShrinks
  <2>3. WithinLimit(Cameras(ch)', Past("cameraOn", ch)', MaxVideo[ch])
    BY Zenon, <1>1, <1>2, <1>3, <1>4, <2>1, LimitShrinks
  <2> QED BY Zenon, <2>2, <2>3
<1> QED BY Zenon, <1>5, <1>6

(* The check of the seats. *)
LEMMA SeatChecked ==
  ASSUME VoiceTypeOK, VoiceLocals, WithinLimits, NEW c \in Conns, CheckCapacity(c)
  PROVE  WithinLimits'
<1> DEFINE t == target[c]
<1>0. t \in Channels /\ t # NoCh /\ phase[c] = "capacity"
  BY Zenon, NoneAssumption DEF CheckCapacity, Move, VoiceLocals, Joining
<1>1. CASE Cardinality(Seats(t)) >= MaxUsers[t]
  BY Zenon, <1>1, LimitsShrink DEF CheckCapacity, Contest, Move, database, Seats, VoiceTypeOK
<1>2. CASE ~(Cardinality(Seats(t)) >= MaxUsers[t])
  <2>1. /\ phase' = [phase EXCEPT ![c] = "joinDb"] /\ UNCHANGED <<target, seat, camera>>
        /\ contested' = IF Past("joinDb", t) # {} THEN contested \cup {t} ELSE contested
    BY Zenon, <1>2 DEF CheckCapacity, Contest, Move, database, Seats, Past
  <2>2. ASSUME NEW ch \in Channels
        PROVE  /\ Seats(ch)' = Seats(ch) /\ Cameras(ch)' = Cameras(ch)
               /\ Past("cameraOn", ch)' \subseteq Past("cameraOn", ch)
               /\ ch # t => Past("joinDb", ch)' = Past("joinDb", ch)
               /\ ch = t => Past("joinDb", ch)' = Past("joinDb", ch) \cup {c}
    BY <1>0, <2>1 DEF Seats, Cameras, Past, VoiceTypeOK
  <2> SUFFICES ASSUME NEW ch \in Channels, ch \notin contested'
               PROVE  /\ WithinLimit(Seats(ch)', Past("joinDb", ch)', MaxUsers[ch])
                      /\ WithinLimit(Cameras(ch)', Past("cameraOn", ch)', MaxVideo[ch])
    BY Zenon, <2>2 DEF WithinLimits
  <2>3. /\ MaxUsers[ch] \in Nat /\ MaxVideo[ch] \in Nat
        /\ IsFiniteSet(Seats(ch)) /\ IsFiniteSet(Cameras(ch))
        /\ WithinLimit(Seats(ch), Past("joinDb", ch), MaxUsers[ch])
        /\ WithinLimit(Cameras(ch), Past("cameraOn", ch), MaxVideo[ch])
    BY Zenon, <2>1, BoundsAssumption, FiniteCameras DEF WithinLimits
  <2>4. WithinLimit(Cameras(ch)', Past("cameraOn", ch)', MaxVideo[ch])
    BY Zenon, <2>2, <2>3, LimitShrinks
  <2>5. WithinLimit(Seats(ch)', Past("joinDb", ch)', MaxUsers[ch])
    <3>1. CASE ch # t
      BY Zenon, <2>2, <2>3, <3>1
    <3>2. CASE ch = t
      <4>1. Past("joinDb", ch)' \subseteq {c}
        BY Zenon, <2>1, <2>2, <3>2
      <4>2. Cardinality(Seats(ch)) < MaxUsers[ch]
        <5>1. Cardinality(Seats(ch)) \in Nat
          BY Zenon, <2>3, FS_CardinalityType
        <5> QED BY <1>2, <2>3, <3>2, <5>1
      <4> QED BY Zenon, <2>2, <2>3, <4>1, <4>2, LimitPassed
    <3> QED BY Zenon, <3>1, <3>2
  <2> QED BY Zenon, <2>4, <2>5
<1> QED BY Zenon, <1>1, <1>2

(* The upsert takes a seat. *)
LEMMA SeatTaken ==
  ASSUME VoiceTypeOK, VoiceLocals, WithinLimits, NEW c \in Conns, JoinVoiceChannel(c)
  PROVE  WithinLimits'
<1> DEFINE t == target[c]
           u == UserOf[c]
<1>0. u \in Users /\ t \in Channels /\ t # NoCh /\ phase[c] = "joinDb"
  BY Zenon, UserOfAssumption, NoneAssumption DEF JoinVoiceChannel, Move, VoiceLocals, Joining
<1>1. CASE Move(c, "joinDb", "reading") /\ UNCHANGED <<target, database, contested>>
  BY Zenon, <1>1, LimitsShrink DEF Move, database, VoiceTypeOK
<1>2. CASE /\ Move(c, "joinDb", "joinSet")
           /\ seat' = [seat EXCEPT ![u] = t] /\ camera' = [camera EXCEPT ![u] = FALSE]
           /\ UNCHANGED <<target, contested>>
  <2>1. ASSUME NEW ch \in Channels
        PROVE  /\ Cameras(ch)' \subseteq Cameras(ch)
               /\ Past("cameraOn", ch)' \subseteq Past("cameraOn", ch)
               /\ ch # t => Seats(ch)' \subseteq Seats(ch) /\ Past("joinDb", ch)' = Past("joinDb", ch)
               /\ ch = t => /\ Seats(ch)' \subseteq Seats(ch) \cup {u}
                            /\ c \in Past("joinDb", ch)
                            /\ Past("joinDb", ch)' \subseteq Past("joinDb", ch) \ {c}
    BY <1>0, <1>2 DEF Move, Seats, Cameras, Past, VoiceTypeOK
  <2>2. ASSUME NEW ch \in Channels
        PROVE  /\ MaxUsers[ch] \in Nat /\ MaxVideo[ch] \in Nat
               /\ IsFiniteSet(Seats(ch)) /\ IsFiniteSet(Cameras(ch))
    BY Zenon, BoundsAssumption, FiniteCameras
  <2>3. ASSUME NEW ch \in Channels PROVE IsFiniteSet(Seats(ch)')
    <3>1. IsFiniteSet(Seats(ch) \cup {u})
      BY Zenon, <2>2, FS_AddElement
    <3>2. Seats(ch)' \subseteq Seats(ch) \cup {u}
      BY Zenon, <2>1
    <3> QED BY Zenon, <3>1, <3>2, FS_Subset
  <2>4. ASSUME NEW ch \in Channels, ch \notin contested'
        PROVE  /\ WithinLimit(Seats(ch)', Past("joinDb", ch)', MaxUsers[ch])
               /\ WithinLimit(Cameras(ch)', Past("cameraOn", ch)', MaxVideo[ch])
    <3>1. /\ WithinLimit(Seats(ch), Past("joinDb", ch), MaxUsers[ch])
          /\ WithinLimit(Cameras(ch), Past("cameraOn", ch), MaxVideo[ch])
      BY Zenon, <1>2, <2>4 DEF WithinLimits
    <3>2. WithinLimit(Cameras(ch)', Past("cameraOn", ch)', MaxVideo[ch])
      BY Zenon, <2>1, <2>2, <3>1, LimitShrinks
    <3>3. CASE ch # t
      BY ZenonT(30), <2>1, <2>2, <3>1, <3>2, <3>3, LimitShrinks
    <3>4. CASE ch = t
      BY Zenon, <2>1, <2>2, <3>1, <3>2, <3>4, LimitTaken
    <3> QED BY Zenon, <3>3, <3>4
  <2> QED BY Zenon, <2>3, <2>4 DEF WithinLimits
<1> QED BY Zenon, <1>1, <1>2 DEF JoinVoiceChannel, ledger, history

(* The check of the cameras. *)
LEMMA CameraChecked ==
  ASSUME VoiceTypeOK, VoiceLocals, WithinLimits, NEW c \in Conns, NEW enabled \in BOOLEAN,
         handleVoiceCamera(c, enabled)
  PROVE  WithinLimits'
<1> DEFINE t == voiceChID[c]
<1>0. t \in Channels /\ t # NoCh /\ phase[c] = "reading"
  BY Zenon, NoneAssumption DEF handleVoiceCamera, Move, VoiceTypeOK
<1>1. CASE ~enabled
  BY Zenon, <1>1, LimitsShrink DEF handleVoiceCamera, Contest, Move, database, VoiceTypeOK
<1>2. CASE enabled
  <2>1. /\ phase' = [phase EXCEPT ![c] = "cameraOn"] /\ UNCHANGED <<seat, camera>>
        /\ target' = [target EXCEPT ![c] = t]
        /\ contested' = IF Past("cameraOn", t) # {} THEN contested \cup {t} ELSE contested
    BY Zenon, <1>2 DEF handleVoiceCamera, Contest, Move, database, Past
  <2>2. ASSUME NEW ch \in Channels
        PROVE  /\ Seats(ch)' = Seats(ch) /\ Cameras(ch)' = Cameras(ch)
               /\ Past("joinDb", ch)' \subseteq Past("joinDb", ch)
               /\ ch # t => Past("cameraOn", ch)' = Past("cameraOn", ch)
               /\ ch = t => Past("cameraOn", ch)' = Past("cameraOn", ch) \cup {c}
    BY <1>0, <2>1 DEF Seats, Cameras, Past, VoiceTypeOK
  <2> SUFFICES ASSUME NEW ch \in Channels, ch \notin contested'
               PROVE  /\ WithinLimit(Seats(ch)', Past("joinDb", ch)', MaxUsers[ch])
                      /\ WithinLimit(Cameras(ch)', Past("cameraOn", ch)', MaxVideo[ch])
    BY Zenon, <2>2 DEF WithinLimits
  <2>3. /\ MaxUsers[ch] \in Nat /\ MaxVideo[ch] \in Nat \ {0}
        /\ IsFiniteSet(Seats(ch)) /\ IsFiniteSet(Cameras(ch))
        /\ WithinLimit(Seats(ch), Past("joinDb", ch), MaxUsers[ch])
        /\ WithinLimit(Cameras(ch), Past("cameraOn", ch), MaxVideo[ch])
    BY Zenon, <2>1, BoundsAssumption, FiniteCameras DEF WithinLimits
  <2>4. WithinLimit(Seats(ch)', Past("joinDb", ch)', MaxUsers[ch])
    BY Zenon, <2>2, <2>3, LimitShrinks
  <2>5. WithinLimit(Cameras(ch)', Past("cameraOn", ch)', MaxVideo[ch])
    <3>1. CASE ch # t
      BY Zenon, <2>2, <2>3, <3>1
    <3>2. CASE ch = t
      <4>1. Past("cameraOn", ch)' \subseteq {c}
        BY Zenon, <2>1, <2>2, <3>2
      <4>2. Cardinality(Cameras(ch)) < MaxVideo[ch]
        <5>1. CASE t \in channels
          BY Zenon, <1>2, <3>2, <5>1 DEF handleVoiceCamera, CountActiveCameras, Cameras
        <5>2. CASE t \notin channels
          <6>1. Cameras(ch) = {}
            BY Zenon, <1>0, <3>2, <5>2 DEF Cameras, VoiceTypeOK
          <6> QED BY <2>3, <6>1, FS_EmptySet
        <5> QED BY Zenon, <5>1, <5>2
      <4> QED BY Zenon, <2>2, <2>3, <4>1, <4>2, LimitPassed
    <3> QED BY Zenon, <3>1, <3>2
  <2> QED BY Zenon, <2>4, <2>5
<1> QED BY Zenon, <1>1, <1>2

(* The update of the camera. *)
LEMMA CameraTaken ==
  ASSUME VoiceTypeOK, WithinLimits, NEW c \in Conns, UpdateVoiceCamera(c)
  PROVE  WithinLimits'
<1> DEFINE u == UserOf[c]
           t == seat[u]
<1>0. u \in Users
  BY Zenon, UserOfAssumption
<1>1. CASE /\ Move(c, "cameraOff", "reading") \/ t = NoCh
           /\ camera' = [camera EXCEPT ![u] = FALSE]
           /\ phase' = [phase EXCEPT ![c] = "reading"]
           /\ UNCHANGED <<target, seat, contested>>
  BY Zenon, <1>1, LimitsShrink DEF VoiceTypeOK
<1>2. CASE /\ Move(c, "cameraOn", "reading") /\ t # NoCh
           /\ camera' = [camera EXCEPT ![u] = TRUE] /\ UNCHANGED <<target, seat>>
           /\ contested' = IF t # target[c] THEN contested \cup {t} ELSE contested
  <2>1. ASSUME NEW ch \in Channels
        PROVE  /\ Seats(ch)' = Seats(ch)
               /\ Past("joinDb", ch)' \subseteq Past("joinDb", ch)
               /\ Past("cameraOn", ch)' \subseteq Past("cameraOn", ch)
               /\ ch # t => Cameras(ch)' = Cameras(ch)
               /\ Cameras(ch)' \subseteq Cameras(ch) \cup {u}
               /\ ch = target[c] => /\ c \in Past("cameraOn", ch)
                                    /\ Past("cameraOn", ch)' \subseteq Past("cameraOn", ch) \ {c}
    BY Zenon, <1>0, <1>2 DEF Move, Seats, Cameras, Past, VoiceTypeOK
  <2> SUFFICES ASSUME NEW ch \in Channels, ch \notin contested'
               PROVE  /\ WithinLimit(Seats(ch)', Past("joinDb", ch)', MaxUsers[ch])
                      /\ WithinLimit(Cameras(ch)', Past("cameraOn", ch)', MaxVideo[ch])
    BY Zenon, <2>1 DEF WithinLimits
  <2>2. /\ MaxUsers[ch] \in Nat /\ MaxVideo[ch] \in Nat
        /\ IsFiniteSet(Seats(ch)) /\ IsFiniteSet(Cameras(ch))
        /\ WithinLimit(Seats(ch), Past("joinDb", ch), MaxUsers[ch])
        /\ WithinLimit(Cameras(ch), Past("cameraOn", ch), MaxVideo[ch])
    BY Zenon, <1>2, BoundsAssumption, FiniteCameras DEF WithinLimits
  <2>3. WithinLimit(Seats(ch)', Past("joinDb", ch)', MaxUsers[ch])
    BY ZenonT(30), <2>1, <2>2, LimitShrinks
  <2>4. CASE ch # t
    BY <2>1, <2>2, <2>3, <2>4, LimitShrinks
  <2>5. CASE ch = t
    <3>1. t = target[c]
      BY Zenon, <1>2, <2>5
    <3> QED BY Zenon, <2>1, <2>2, <2>3, <2>5, <3>1, LimitTaken
  <2> QED BY Zenon, <2>4, <2>5
<1>3. Move(c, "cameraOn", "reading") \/ Move(c, "cameraOff", "reading")
  BY Zenon DEF UpdateVoiceCamera
<1> QED BY Zenon, <1>1, <1>2, <1>3 DEF UpdateVoiceCamera, Move

(* Seats and cameras stay within their limits. *)
LEMMA WithinLimitsStep ==
  ASSUME VoiceTypeOK, VoiceLocals, WithinLimits, [VoiceNext]_voiceVars
  PROVE  WithinLimits'
<1>1. ASSUME NEW c \in slots, ConnStep(c) PROVE WithinLimits'
  <2>0. c \in Conns /\ UserOf[c] \in Users /\ channels \subseteq Channels
    BY Zenon, UserOfAssumption DEF VoiceTypeOK
  <2>1. CASE registerNow(c) \/ Kick(c) \/ ReadFails(c) \/ unregisterNow(c)
    BY Zenon, <2>0, <2>1, LimitsShrink DEF registerNow, Kick, ReadFails, unregisterNow, Move, database,
       ledger, history, VoiceTypeOK
  <2>2. CASE CheckReplaced(c) \/ VoiceLeave(c) \/ clearVoiceChID(c)
    BY Zenon, <2>0, <2>2, LimitsShrink DEF CheckReplaced, VoiceLeave, clearVoiceChID, Move, database,
       ledger, history, VoiceTypeOK
  <2>3. CASE handleVoiceLeave(c)
    BY Zenon, <2>0, <2>3, LeaveOwned, LimitsShrink DEF handleVoiceLeave, Move, history, VoiceTypeOK
  <2>4. ASSUME NEW ch \in Channels, handleVoiceJoin(c, ch) PROVE WithinLimits'
    BY Zenon, <2>0, <2>4, LimitsShrink DEF handleVoiceJoin, Move, database, ledger, history, VoiceTypeOK
  <2>5. CASE CheckCapacity(c)
    BY Zenon, <2>0, <2>5, SeatChecked
  <2>6. CASE JoinVoiceChannel(c)
    BY Zenon, <2>0, <2>6, SeatTaken
  <2>7. CASE setVoiceChID(c) \/ GetVoiceState(c)
    BY Zenon, <2>0, <2>7, LimitsShrink DEF setVoiceChID, GetVoiceState, Move, database, ledger, history,
       VoiceTypeOK
  <2>8. CASE rollbackVoiceJoin(c)
    BY ZenonT(30), <2>0, <2>8, LimitsShrink DEF rollbackVoiceJoin, LeaveVoiceChannel, Move, database, ledger,
       history, VoiceTypeOK
  <2>9. ASSUME NEW enabled \in BOOLEAN, handleVoiceCamera(c, enabled) PROVE WithinLimits'
    BY Zenon, <2>0, <2>9, CameraChecked
  <2>10. CASE UpdateVoiceCamera(c)
    BY Zenon, <2>0, <2>10, CameraTaken
  <2> QED BY Zenon, <1>1, <2>1, <2>2, <2>3, <2>4, <2>5, <2>6, <2>7, <2>8, <2>9, <2>10 DEF ConnStep
<1>2. ASSUME NEW u \in Users, RetryLeave(u) PROVE WithinLimits'
  BY Zenon, <1>2, LimitsShrink DEF RetryLeave, LeaveVoiceChannel, database, ledger, history, VoiceTypeOK
<1>3. ASSUME NEW u \in Users, NEW ch \in Channels, handleWebhookParticipantLeft(u, ch)
      PROVE  WithinLimits'
  BY Zenon, <1>3, LimitsShrink DEF handleWebhookParticipantLeft, database, ledger, history
<1>4. CASE WebhookClear
  BY Zenon, <1>4, LimitsShrink DEF WebhookClear, database, ledger, history
<1>5. CASE WebhookLeave
  BY Zenon, <1>5, LeaveOwned, LimitsShrink DEF WebhookLeave, VoiceLocals, history
<1>6. ASSUME NEW ch \in Channels, handleDeleteChannel(ch) PROVE WithinLimits'
  BY Zenon, <1>6, LimitsShrink DEF handleDeleteChannel, ledger, history, VoiceTypeOK
<1>7. CASE Restart
  BY Zenon, <1>7, LimitsShrink DEF Restart, ledger, history
<1>8. CASE UNCHANGED voiceVars
  BY Zenon, <1>8, LimitsShrink DEF voiceVars, database, ledger, history
<1> QED BY Zenon, <1>1, <1>2, <1>3, <1>4, <1>5, <1>6, <1>7, <1>8 DEF VoiceNext
-----------------------------------------------------------------------------
(* Voice: the theorems *)

(* The voice handlers, webhooks, retries, deletions and restarts keep      *)
(* VoiceInv.                                                               *)
THEOREM VoiceInvariant == VoiceSpec => []VoiceInv
<1>1. VoiceInit => VoiceInv
  <2> SUFFICES ASSUME VoiceInit PROVE VoiceInv
    OBVIOUS
  <2>1. VoiceTypeOK
    BY BoundsAssumption DEF VoiceInit, VoiceTypeOK, NoHook, Phases, maxRetries
  <2>2. VoiceLocals /\ RetriesSuffice /\ TakenOver /\ RowOwned
    BY UserOfAssumption DEF VoiceInit, VoiceLocals, Joining, NoHook, RetriesSuffice, TakenOver, RowOwned
  <2>3. WithinLimits
    <3> SUFFICES ASSUME NEW ch \in Channels
                 PROVE  /\ IsFiniteSet(Seats(ch))
                        /\ WithinLimit(Seats(ch), Past("joinDb", ch), MaxUsers[ch])
                        /\ WithinLimit(Cameras(ch), Past("cameraOn", ch), MaxVideo[ch])
      BY Zenon DEF WithinLimits
    <3>1. Seats(ch) = {} /\ Cameras(ch) = {} /\ Past("joinDb", ch) = {} /\ Past("cameraOn", ch) = {}
      BY Zenon, NoneAssumption DEF VoiceInit, Seats, Cameras, Past
    <3>2. 0 <= MaxUsers[ch] /\ 0 <= MaxVideo[ch]
      BY BoundsAssumption
    <3>3. IsFiniteSet({}) /\ Cardinality({}) = 0
      BY Zenon, FS_EmptySet
    <3> QED BY Zenon, <3>1, <3>2, <3>3 DEF WithinLimit
  <2> QED BY Zenon, <2>1, <2>2, <2>3 DEF VoiceInv
<1>2. VoiceInv /\ [VoiceNext]_voiceVars => VoiceInv'
  BY Zenon, VoiceTypeStep, VoiceLocalsStep, RetriesStep, TakenOverStep, RowOwnedStep, WithinLimitsStep
     DEF VoiceInv
<1> QED BY <1>1, <1>2, PTL DEF VoiceSpec

(* Type correctness of voice; no row or camera in a channel that is gone.  *)
THEOREM VoiceTypeCorrect == VoiceSpec => []VoiceTypeOK
BY VoiceInvariant, PTL DEF VoiceInv

(* Once everything about a user has come to rest, a stored voice row       *)
(* belongs to a connection that is served and knows of it.                 *)
THEOREM NobodyGhostInVoice == VoiceSpec => []NoGhostVoice
<1>1. VoiceInv => NoGhostVoice
  <2> SUFFICES ASSUME VoiceInv, NEW u \in Users \ strayed, Quiet(u), seat[u] # NoCh
               PROVE  \E c \in Conns : /\ UserOf[c] = u /\ phase[c] = "reading"
                                       /\ voiceChID[c] = seat[u]
    BY ZenonT(30) DEF NoGhostVoice
  <2>1. ~(retry[u] > 0)
    BY DEF Quiet
  <2>2. PICK c \in Conns : Holds(c, u)
    BY Zenon, <2>1 DEF VoiceInv, RowOwned, Quiet
  <2> QED BY Zenon, <2>2 DEF Quiet, Holds
<1> QED BY <1>1, VoiceInvariant, PTL

(* Seats and cameras never exceed voice_max_users and voice_max_video,     *)
(* but for the channels in contested.                                      *)
THEOREM VoiceLimitsHold == VoiceSpec => []LimitsHold
<1>1. VoiceInv => LimitsHold
  BY Zenon DEF VoiceInv, WithinLimits, WithinLimit, LimitsHold, CountActiveCameras, Seats, Cameras
<1> QED BY <1>1, VoiceInvariant, PTL
=============================================================================
