------------------------------ MODULE Hub_proofs ------------------------------
(***************************************************************************)
(* Proofs, for any set of users and connections, that the hub keeps at     *)
(* most one receiving connection per user and leaves no user stored as     *)
(* online when the last connection is gone; and, for every buffer size and *)
(* every number of broadcasts, that its circular array holds the tail of   *)
(* the broadcast sequence and implements the sliding window of             *)
(* ReplayWindow.                                                           *)
(***************************************************************************)
EXTENDS Hub, EventRingBuffer, FiniteSetTheorems, TLAPS

(* A client that is not yet registered has an open send channel, and no    *)
(* sweep refers to it.                                                     *)
FreshIsOpen ==
  \A c \in Conns : pc[c] \in {"authed", "handshaken"} => ~sendClosed[c] /\ stale[c] = "no"

(* A connection whose kick is half done is out of the map, for good. *)
KickedIsOut == \A c \in Conns : BeingKicked(c) => ~Registered(c)

(* The phases in which a connection is still to look at Hub.clients, or    *)
(* has found nobody there and is still to write the offline status.        *)
Owing == Live \cup {"unregister", "check", "offline"}

(* Whoever is stored as anything but offline has a connection that owes    *)
(* the offline status.  When a clean-up finds the user connected and       *)
(* leaves the status alone, the connection it found takes over the debt.   *)
StatusOwed ==
  \A u \in Users : status[u] # "offline" =>
    \E c \in Conns : UserOf[c] = u /\ pc[c] \in Owing

HubInv ==
  TypeOK /\ OneReceivingConnection /\ FreshIsOpen /\ KickedIsOut /\ StatusOwed

(* The hub starts in its invariant. *)
LEMMA InitInv == Init => HubInv
  BY UserOfAssumption, NoConnAssumption
     DEF Init, HubInv, TypeOK, OneReceivingConnection, FreshIsOpen, KickedIsOut,
         StatusOwed, BeingKicked, Registered, ShuttingDown, Live, Phases

(* Every step of ServeWS, the sweep and the shutdown keeps the types. *)
LEMMA TypeStep ==
  ASSUME TypeOK, [Next]_vars
  PROVE  TypeOK'
<1> USE UserOfAssumption DEF TypeOK, Goto, kickClient, closeSend, Phases, Live
<1>1. ASSUME NEW c \in Conns, Connect(c) PROVE TypeOK'
  BY <1>1 DEF Connect
<1>2. ASSUME NEW c \in Conns, Handshake(c) PROVE TypeOK'
  BY <1>2 DEF Handshake
<1>3. ASSUME NEW c \in Conns, HandshakeFails(c) PROVE TypeOK'
  BY <1>3 DEF HandshakeFails
<1>4. ASSUME NEW c \in Conns, registerNow(c) PROVE TypeOK'
  BY <1>4 DEF registerNow
<1>5. ASSUME NEW c \in Conns, UpdateUserStatusOnline(c) PROVE TypeOK'
  BY <1>5 DEF UpdateUserStatusOnline
<1>6. ASSUME NEW c \in Conns, StartPumps(c) PROVE TypeOK'
  BY <1>6 DEF StartPumps
<1>7. ASSUME NEW c \in Conns, KickSelf(c) PROVE TypeOK'
  BY <1>7 DEF KickSelf
<1>8. ASSUME NEW c \in Conns, KickSelfCloses(c) PROVE TypeOK'
  BY <1>8 DEF KickSelfCloses
<1>9. ASSUME NEW c \in Conns, NetworkDrops(c) PROVE TypeOK'
  BY <1>9 DEF NetworkDrops
<1>10. ASSUME NEW c \in Conns, ReadFails(c) PROVE TypeOK'
  BY <1>10 DEF ReadFails
<1>11. ASSUME NEW c \in Conns, unregisterNow(c) PROVE TypeOK'
  BY <1>11 DEF unregisterNow
<1>12. ASSUME NEW c \in Conns, CheckReplaced(c) PROVE TypeOK'
  BY <1>12 DEF CheckReplaced
<1>13. ASSUME NEW c \in Conns, UpdateUserStatusOffline(c) PROVE TypeOK'
  BY <1>13 DEF UpdateUserStatusOffline
<1>14. ASSUME NEW c \in Conns, EndPumps(c) PROVE TypeOK'
  BY <1>14 DEF EndPumps
<1>15. ASSUME NEW c \in Conns, WriteFails(c) PROVE TypeOK'
  BY <1>15 DEF WriteFails
<1>16. ASSUME NEW c \in Conns, WriterCloses(c) PROVE TypeOK'
  BY <1>16 DEF WriterCloses
<1>17. ASSUME NEW c \in Conns, WriterCancelled(c) PROVE TypeOK'
  BY <1>17 DEF WriterCancelled
<1>18. ASSUME NEW c \in Conns, SweepKick(c) PROVE TypeOK'
  BY <1>18 DEF SweepKick
<1>19. ASSUME NEW c \in Conns, SweepCloses(c) PROVE TypeOK'
  BY <1>19 DEF SweepCloses
<1>20. ASSUME NEW c \in Conns, NEW s \in PresenceChoices, handlePresence(c, s)
      PROVE  TypeOK'
  BY <1>20 DEF handlePresence
<1>21. ASSUME NEW S \in SUBSET {clients[u] : u \in Users}, S \subseteq Conns, SweepCollect(S)
      PROVE  TypeOK'
  BY <1>21 DEF SweepCollect, SweepIdle
<1>22. CASE StopNotice
  BY <1>22 DEF StopNotice
<1>23. CASE StopClose
  BY <1>23 DEF StopClose, Registered
<1>24. CASE RunReturns
  BY <1>24 DEF RunReturns
<1>25. CASE Restart
  BY <1>25 DEF Restart, NewProcess
<1>26. CASE UNCHANGED vars
  BY <1>26 DEF vars
<1> QED
  BY <1>1, <1>2, <1>3, <1>4, <1>5, <1>6, <1>7, <1>8, <1>9, <1>10, <1>11,
     <1>12, <1>13, <1>14, <1>15, <1>16, <1>17, <1>18, <1>19, <1>20, <1>21,
     <1>22, <1>23, <1>24, <1>25, <1>26
     DEF Next, ConnStep, ServeStep, WriteStep, PeerStep, ServerStep


(* No step closes or sweeps a client before it is registered. *)
LEMMA FreshStep ==
  ASSUME TypeOK, OneReceivingConnection, FreshIsOpen, [Next]_vars
  PROVE  FreshIsOpen'
<1> USE UserOfAssumption, NoConnAssumption
    DEF TypeOK, OneReceivingConnection, FreshIsOpen, Registered, Goto,
        kickClient, closeSend, Live
<1>1. ASSUME NEW c \in Conns, Connect(c) PROVE FreshIsOpen'
  BY <1>1 DEF Connect
<1>2. ASSUME NEW c \in Conns, Handshake(c) PROVE FreshIsOpen'
  BY <1>2 DEF Handshake
<1>3. ASSUME NEW c \in Conns, HandshakeFails(c) PROVE FreshIsOpen'
  BY <1>3 DEF HandshakeFails
<1>4. ASSUME NEW c \in Conns, registerNow(c) PROVE FreshIsOpen'
  BY <1>4 DEF registerNow
<1>5. ASSUME NEW c \in Conns, UpdateUserStatusOnline(c) PROVE FreshIsOpen'
  BY <1>5 DEF UpdateUserStatusOnline
<1>6. ASSUME NEW c \in Conns, StartPumps(c) PROVE FreshIsOpen'
  BY <1>6 DEF StartPumps
<1>7. ASSUME NEW c \in Conns, KickSelf(c) PROVE FreshIsOpen'
  BY <1>7 DEF KickSelf
<1>8. ASSUME NEW c \in Conns, KickSelfCloses(c) PROVE FreshIsOpen'
  BY <1>8 DEF KickSelfCloses
<1>9. ASSUME NEW c \in Conns, NetworkDrops(c) PROVE FreshIsOpen'
  BY <1>9 DEF NetworkDrops
<1>10. ASSUME NEW c \in Conns, ReadFails(c) PROVE FreshIsOpen'
  BY <1>10 DEF ReadFails
<1>11. ASSUME NEW c \in Conns, unregisterNow(c) PROVE FreshIsOpen'
  BY <1>11 DEF unregisterNow
<1>12. ASSUME NEW c \in Conns, CheckReplaced(c) PROVE FreshIsOpen'
  BY <1>12 DEF CheckReplaced
<1>13. ASSUME NEW c \in Conns, UpdateUserStatusOffline(c) PROVE FreshIsOpen'
  BY <1>13 DEF UpdateUserStatusOffline
<1>14. ASSUME NEW c \in Conns, EndPumps(c) PROVE FreshIsOpen'
  BY <1>14 DEF EndPumps
<1>15. ASSUME NEW c \in Conns, WriteFails(c) PROVE FreshIsOpen'
  BY <1>15 DEF WriteFails
<1>16. ASSUME NEW c \in Conns, WriterCloses(c) PROVE FreshIsOpen'
  BY <1>16 DEF WriterCloses
<1>17. ASSUME NEW c \in Conns, WriterCancelled(c) PROVE FreshIsOpen'
  BY <1>17 DEF WriterCancelled
<1>18. ASSUME NEW c \in Conns, SweepKick(c) PROVE FreshIsOpen'
  BY <1>18 DEF SweepKick
<1>19. ASSUME NEW c \in Conns, SweepCloses(c) PROVE FreshIsOpen'
  BY <1>19 DEF SweepCloses
<1>20. ASSUME NEW c \in Conns, NEW s \in PresenceChoices, handlePresence(c, s)
      PROVE  FreshIsOpen'
  BY <1>20 DEF handlePresence
<1>21. ASSUME NEW S \in SUBSET {clients[u] : u \in Users}, S \subseteq Conns, SweepCollect(S)
      PROVE  FreshIsOpen'
  BY <1>21 DEF SweepCollect, SweepIdle
<1>22. CASE StopNotice
  BY <1>22 DEF StopNotice
<1>23. CASE StopClose
  BY <1>23 DEF StopClose, Registered
<1>24. CASE RunReturns
  BY <1>24 DEF RunReturns
<1>25. CASE Restart
  BY <1>25 DEF Restart, NewProcess
<1>26. CASE UNCHANGED vars
  BY <1>26 DEF vars
<1> QED
  BY <1>1, <1>2, <1>3, <1>4, <1>5, <1>6, <1>7, <1>8, <1>9, <1>10, <1>11,
     <1>12, <1>13, <1>14, <1>15, <1>16, <1>17, <1>18, <1>19, <1>20, <1>21,
     <1>22, <1>23, <1>24, <1>25, <1>26
     DEF Next, ConnStep, ServeStep, WriteStep, PeerStep, ServerStep


(* The first half of kickClient has taken the client out of the map, and   *)
(* nothing puts it back.                                                   *)
LEMMA KickedStep ==
  ASSUME TypeOK, FreshIsOpen, KickedIsOut, [Next]_vars
  PROVE  KickedIsOut'
<1> USE UserOfAssumption, NoConnAssumption
    DEF TypeOK, FreshIsOpen, KickedIsOut, BeingKicked, Registered, Goto,
        kickClient, closeSend
<1>1. ASSUME NEW c \in Conns, Connect(c) PROVE KickedIsOut'
  BY <1>1 DEF Connect
<1>2. ASSUME NEW c \in Conns, Handshake(c) PROVE KickedIsOut'
  BY <1>2 DEF Handshake
<1>3. ASSUME NEW c \in Conns, HandshakeFails(c) PROVE KickedIsOut'
  BY <1>3 DEF HandshakeFails
<1>4. ASSUME NEW c \in Conns, registerNow(c) PROVE KickedIsOut'
  BY <1>4 DEF registerNow
<1>5. ASSUME NEW c \in Conns, UpdateUserStatusOnline(c) PROVE KickedIsOut'
  BY <1>5 DEF UpdateUserStatusOnline
<1>6. ASSUME NEW c \in Conns, StartPumps(c) PROVE KickedIsOut'
  BY <1>6 DEF StartPumps
<1>7. ASSUME NEW c \in Conns, KickSelf(c) PROVE KickedIsOut'
  BY <1>7 DEF KickSelf
<1>8. ASSUME NEW c \in Conns, KickSelfCloses(c) PROVE KickedIsOut'
  BY <1>8 DEF KickSelfCloses
<1>9. ASSUME NEW c \in Conns, NetworkDrops(c) PROVE KickedIsOut'
  BY <1>9 DEF NetworkDrops
<1>10. ASSUME NEW c \in Conns, ReadFails(c) PROVE KickedIsOut'
  BY <1>10 DEF ReadFails
<1>11. ASSUME NEW c \in Conns, unregisterNow(c) PROVE KickedIsOut'
  BY <1>11 DEF unregisterNow
<1>12. ASSUME NEW c \in Conns, CheckReplaced(c) PROVE KickedIsOut'
  BY <1>12 DEF CheckReplaced
<1>13. ASSUME NEW c \in Conns, UpdateUserStatusOffline(c) PROVE KickedIsOut'
  BY <1>13 DEF UpdateUserStatusOffline
<1>14. ASSUME NEW c \in Conns, EndPumps(c) PROVE KickedIsOut'
  BY <1>14 DEF EndPumps
<1>15. ASSUME NEW c \in Conns, WriteFails(c) PROVE KickedIsOut'
  BY <1>15 DEF WriteFails
<1>16. ASSUME NEW c \in Conns, WriterCloses(c) PROVE KickedIsOut'
  BY <1>16 DEF WriterCloses
<1>17. ASSUME NEW c \in Conns, WriterCancelled(c) PROVE KickedIsOut'
  BY <1>17 DEF WriterCancelled
<1>18. ASSUME NEW c \in Conns, SweepKick(c) PROVE KickedIsOut'
  BY <1>18 DEF SweepKick
<1>19. ASSUME NEW c \in Conns, SweepCloses(c) PROVE KickedIsOut'
  BY <1>19 DEF SweepCloses
<1>20. ASSUME NEW c \in Conns, NEW s \in PresenceChoices, handlePresence(c, s)
      PROVE  KickedIsOut'
  BY <1>20 DEF handlePresence
<1>21. ASSUME NEW S \in SUBSET {clients[u] : u \in Users}, S \subseteq Conns, SweepCollect(S)
      PROVE  KickedIsOut'
  BY <1>21 DEF SweepCollect, SweepIdle
<1>22. CASE StopNotice
  BY <1>22 DEF StopNotice
<1>23. CASE StopClose
  BY <1>23 DEF StopClose, Registered
<1>24. CASE RunReturns
  BY <1>24 DEF RunReturns
<1>25. CASE Restart
  BY <1>25 DEF Restart, NewProcess
<1>26. CASE UNCHANGED vars
  BY <1>26 DEF vars
<1> QED
  BY <1>1, <1>2, <1>3, <1>4, <1>5, <1>6, <1>7, <1>8, <1>9, <1>10, <1>11,
     <1>12, <1>13, <1>14, <1>15, <1>16, <1>17, <1>18, <1>19, <1>20, <1>21,
     <1>22, <1>23, <1>24, <1>25, <1>26
     DEF Next, ConnStep, ServeStep, WriteStep, PeerStep, ServerStep


(* Every step keeps one receiving connection per user: registerNow closes  *)
(* the one it replaces.                                                    *)
LEMMA OneReceivingStep ==
  ASSUME TypeOK, OneReceivingConnection, FreshIsOpen, KickedIsOut, [Next]_vars
  PROVE  OneReceivingConnection'
<1> USE UserOfAssumption, NoConnAssumption
    DEF TypeOK, OneReceivingConnection, FreshIsOpen, KickedIsOut, BeingKicked,
        Registered, ShuttingDown, Goto, kickClient, closeSend, Live
<1>1. ASSUME NEW c \in Conns, Connect(c) PROVE OneReceivingConnection'
  BY <1>1 DEF Connect
<1>2. ASSUME NEW c \in Conns, Handshake(c) PROVE OneReceivingConnection'
  BY <1>2 DEF Handshake
<1>3. ASSUME NEW c \in Conns, HandshakeFails(c) PROVE OneReceivingConnection'
  BY <1>3 DEF HandshakeFails
<1>4. ASSUME NEW c \in Conns, registerNow(c) PROVE OneReceivingConnection'
  <2>1. /\ pc[c] = "handshaken"
        /\ pc' = [pc EXCEPT ![c] = "registered"]
        /\ clients' = [clients EXCEPT ![UserOf[c]] = c]
        /\ \A d \in Conns : sendClosed'[d] <=> sendClosed[d] \/ clients[UserOf[c]] = d
        /\ stop' = stop /\ stale' = stale
    BY <1>4 DEF registerNow
  <2>2. \A u \in Users : clients'[u] # NoConn =>
          UserOf[clients'[u]] = u /\ pc'[clients'[u]] \in Live \cup {"unregister"}
    BY <2>1
  <2>3. ASSUME NEW d \in Conns, pc'[d] \in Live, clients'[UserOf[d]] # d PROVE (sendClosed'[d] \/ BeingKicked(d)')
    BY <2>1, <2>3 DEF BeingKicked
  <2>4. ASSUME NEW d \in Conns, clients'[UserOf[d]] = d, ~ShuttingDown' PROVE ~sendClosed'[d]
    <3>1. CASE d = c
      BY <2>1, <3>1
    <3>2. CASE d # c
      BY <2>1, <2>4, <3>2
    <3> QED BY <3>1, <3>2
  <2> QED BY <2>2, <2>3, <2>4
<1>5. ASSUME NEW c \in Conns, UpdateUserStatusOnline(c) PROVE OneReceivingConnection'
  BY <1>5 DEF UpdateUserStatusOnline
<1>6. ASSUME NEW c \in Conns, StartPumps(c) PROVE OneReceivingConnection'
  BY <1>6 DEF StartPumps
<1>7. ASSUME NEW c \in Conns, KickSelf(c) PROVE OneReceivingConnection'
  BY <1>7 DEF KickSelf
<1>8. ASSUME NEW c \in Conns, KickSelfCloses(c) PROVE OneReceivingConnection'
  BY <1>8 DEF KickSelfCloses
<1>9. ASSUME NEW c \in Conns, NetworkDrops(c) PROVE OneReceivingConnection'
  BY <1>9 DEF NetworkDrops
<1>10. ASSUME NEW c \in Conns, ReadFails(c) PROVE OneReceivingConnection'
  BY <1>10 DEF ReadFails
<1>11. ASSUME NEW c \in Conns, unregisterNow(c) PROVE OneReceivingConnection'
  BY <1>11 DEF unregisterNow
<1>12. ASSUME NEW c \in Conns, CheckReplaced(c) PROVE OneReceivingConnection'
  BY <1>12 DEF CheckReplaced
<1>13. ASSUME NEW c \in Conns, UpdateUserStatusOffline(c) PROVE OneReceivingConnection'
  BY <1>13 DEF UpdateUserStatusOffline
<1>14. ASSUME NEW c \in Conns, EndPumps(c) PROVE OneReceivingConnection'
  BY <1>14 DEF EndPumps
<1>15. ASSUME NEW c \in Conns, WriteFails(c) PROVE OneReceivingConnection'
  BY <1>15 DEF WriteFails
<1>16. ASSUME NEW c \in Conns, WriterCloses(c) PROVE OneReceivingConnection'
  BY <1>16 DEF WriterCloses
<1>17. ASSUME NEW c \in Conns, WriterCancelled(c) PROVE OneReceivingConnection'
  BY <1>17 DEF WriterCancelled
<1>18. ASSUME NEW c \in Conns, SweepKick(c) PROVE OneReceivingConnection'
  BY <1>18 DEF SweepKick
<1>19. ASSUME NEW c \in Conns, SweepCloses(c) PROVE OneReceivingConnection'
  BY <1>19 DEF SweepCloses
<1>20. ASSUME NEW c \in Conns, NEW s \in PresenceChoices, handlePresence(c, s)
      PROVE  OneReceivingConnection'
  BY <1>20 DEF handlePresence
<1>21. ASSUME NEW S \in SUBSET {clients[u] : u \in Users}, S \subseteq Conns, SweepCollect(S)
      PROVE  OneReceivingConnection'
  BY <1>21 DEF SweepCollect, SweepIdle
<1>22. CASE StopNotice
  BY <1>22 DEF StopNotice
<1>23. CASE StopClose
  BY <1>23 DEF StopClose, Registered
<1>24. CASE RunReturns
  BY <1>24 DEF RunReturns
<1>25. CASE Restart
  BY <1>25 DEF Restart, NewProcess
<1>26. CASE UNCHANGED vars
  BY <1>26 DEF vars
<1> QED
  BY <1>1, <1>2, <1>3, <1>4, <1>5, <1>6, <1>7, <1>8, <1>9, <1>10, <1>11,
     <1>12, <1>13, <1>14, <1>15, <1>16, <1>17, <1>18, <1>19, <1>20, <1>21,
     <1>22, <1>23, <1>24, <1>25, <1>26
     DEF Next, ConnStep, ServeStep, WriteStep, PeerStep, ServerStep


(* A connection that leaves the status alone has found one that owes it. *)
LEMMA OwedStep ==
  ASSUME TypeOK, OneReceivingConnection, StatusOwed, [Next]_vars
  PROVE  StatusOwed'
<1> USE UserOfAssumption, NoConnAssumption
    DEF TypeOK, OneReceivingConnection, StatusOwed, Owing, Goto, kickClient,
        closeSend, Live
<1>1. ASSUME NEW c \in Conns, Connect(c) PROVE StatusOwed'
  BY <1>1 DEF Connect
<1>2. ASSUME NEW c \in Conns, Handshake(c) PROVE StatusOwed'
  BY <1>2 DEF Handshake
<1>3. ASSUME NEW c \in Conns, HandshakeFails(c) PROVE StatusOwed'
  BY <1>3 DEF HandshakeFails
<1>4. ASSUME NEW c \in Conns, registerNow(c) PROVE StatusOwed'
  BY <1>4 DEF registerNow
<1>5. ASSUME NEW c \in Conns, UpdateUserStatusOnline(c) PROVE StatusOwed'
  BY <1>5 DEF UpdateUserStatusOnline
<1>6. ASSUME NEW c \in Conns, StartPumps(c) PROVE StatusOwed'
  BY <1>6 DEF StartPumps
<1>7. ASSUME NEW c \in Conns, KickSelf(c) PROVE StatusOwed'
  BY <1>7 DEF KickSelf
<1>8. ASSUME NEW c \in Conns, KickSelfCloses(c) PROVE StatusOwed'
  BY <1>8 DEF KickSelfCloses
<1>9. ASSUME NEW c \in Conns, NetworkDrops(c) PROVE StatusOwed'
  BY <1>9 DEF NetworkDrops
<1>10. ASSUME NEW c \in Conns, ReadFails(c) PROVE StatusOwed'
  BY <1>10 DEF ReadFails
<1>11. ASSUME NEW c \in Conns, unregisterNow(c) PROVE StatusOwed'
  BY <1>11 DEF unregisterNow
<1>12. ASSUME NEW c \in Conns, CheckReplaced(c) PROVE StatusOwed'
  <2> SUFFICES ASSUME NEW u \in Users, status[u] # "offline"
               PROVE  \E d \in Conns : UserOf[d] = u /\ pc'[d] \in Owing
    BY <1>12 DEF CheckReplaced
  <2>1. CASE IsUserConnected(UserOf[c]) /\ u = UserOf[c]
    <3>1. /\ clients[u] \in Conns
          /\ UserOf[clients[u]] = u
          /\ pc[clients[u]] \in Live \cup {"unregister"}
      BY <2>1 DEF IsUserConnected
    <3>2. pc'[clients[u]] = pc[clients[u]]
      BY <1>12, <3>1 DEF CheckReplaced
    <3> QED BY <3>1, <3>2
  <2>2. CASE ~IsUserConnected(UserOf[c]) \/ u # UserOf[c]
    BY <1>12, <2>2 DEF CheckReplaced
  <2> QED BY <2>1, <2>2
<1>13. ASSUME NEW c \in Conns, UpdateUserStatusOffline(c) PROVE StatusOwed'
  BY <1>13 DEF UpdateUserStatusOffline
<1>14. ASSUME NEW c \in Conns, EndPumps(c) PROVE StatusOwed'
  BY <1>14 DEF EndPumps
<1>15. ASSUME NEW c \in Conns, WriteFails(c) PROVE StatusOwed'
  BY <1>15 DEF WriteFails
<1>16. ASSUME NEW c \in Conns, WriterCloses(c) PROVE StatusOwed'
  BY <1>16 DEF WriterCloses
<1>17. ASSUME NEW c \in Conns, WriterCancelled(c) PROVE StatusOwed'
  BY <1>17 DEF WriterCancelled
<1>18. ASSUME NEW c \in Conns, SweepKick(c) PROVE StatusOwed'
  BY <1>18 DEF SweepKick
<1>19. ASSUME NEW c \in Conns, SweepCloses(c) PROVE StatusOwed'
  BY <1>19 DEF SweepCloses
<1>20. ASSUME NEW c \in Conns, NEW s \in PresenceChoices, handlePresence(c, s)
      PROVE  StatusOwed'
  BY <1>20 DEF handlePresence
<1>21. ASSUME NEW S \in SUBSET {clients[u] : u \in Users}, S \subseteq Conns, SweepCollect(S)
      PROVE  StatusOwed'
  BY <1>21 DEF SweepCollect, SweepIdle
<1>22. CASE StopNotice
  BY <1>22 DEF StopNotice
<1>23. CASE StopClose
  BY <1>23 DEF StopClose, Registered
<1>24. CASE RunReturns
  BY <1>24 DEF RunReturns
<1>25. CASE Restart
  BY <1>25 DEF Restart, NewProcess
<1>26. CASE UNCHANGED vars
  BY <1>26 DEF vars
<1> QED
  BY <1>1, <1>2, <1>3, <1>4, <1>5, <1>6, <1>7, <1>8, <1>9, <1>10, <1>11,
     <1>12, <1>13, <1>14, <1>15, <1>16, <1>17, <1>18, <1>19, <1>20, <1>21,
     <1>22, <1>23, <1>24, <1>25, <1>26
     DEF Next, ConnStep, ServeStep, WriteStep, PeerStep, ServerStep


(* Every reachable state satisfies the inductive invariant. *)
THEOREM HubInvariant == Spec => []HubInv
<1>1. Init => HubInv
  BY InitInv
<1>2. HubInv /\ [Next]_vars => HubInv'
  BY TypeStep, FreshStep, KickedStep, OneReceivingStep, OwedStep DEF HubInv
<1> QED BY <1>1, <1>2, PTL DEF Spec

(* Type correctness of the hub for any users and connections. *)
THEOREM HubTypeCorrect == Spec => []TypeOK
<1>1. HubInv => TypeOK
  BY DEF HubInv
<1> QED BY <1>1, HubInvariant, PTL

(* For any number of users and connections, at most one connection of a    *)
(* user receives messages, and a connection that was replaced or kicked    *)
(* has its send channel closed or is about to (registerNow, unregisterNow, *)
(* kickClient, sweepStaleClients).                                         *)
THEOREM OneReceiving == Spec => []OneReceivingConnection
<1>1. HubInv => OneReceivingConnection
  BY DEF HubInv
<1> QED BY <1>1, HubInvariant, PTL

(* For any number of users and connections, a user whose last connection   *)
(* has ended is stored as offline (the deferred clean-up of readPump,      *)
(* handlePresence, ResetAllUserStatuses).                                  *)
THEOREM NobodyGhostOnline == Spec => []NoGhostOnline
<1>1. HubInv => NoGhostOnline
  BY DEF HubInv, StatusOwed, NoGhostOnline, Owing, Live
<1> QED BY <1>1, HubInvariant, PTL
-----------------------------------------------------------------------------
(* EventRingBuffer. *)

(* Below Size, the remainder changes nothing. *)
LEMMA ModBelow == \A x \in 0..(Size - 1) : x % Size = x
  BY SizeAssumption

(* Between Size and 2*Size, the remainder subtracts Size once. *)
LEMMA ModAbove == \A x \in Size..(2 * Size - 1) : x % Size = x - Size
  BY SizeAssumption

(* The number stored in every written slot: below pos the current lap, at  *)
(* and above pos the previous one.                                         *)
SlotsNumbered ==
  /\ count = IF seq < Size THEN seq ELSE Size
  /\ count < Size => pos = count
  /\ \A i \in 0..(pos - 1) : entries[i].seq = seq - pos + i + 1
  /\ count = Size => \A i \in pos..(Size - 1) : entries[i].seq = seq - pos + i + 1 - Size

RingInv == RingTypeOK /\ SlotsNumbered

(* The array index of the i-th live entry, free of remainders. *)
LEMMA LiveIndex ==
  ASSUME RingTypeOK, SlotsNumbered, NEW i \in 1..count
  PROVE  (oldestIdx + i - 1) % Size =
            IF count < Size THEN i - 1
            ELSE IF pos + i - 1 < Size THEN pos + i - 1 ELSE pos + i - 1 - Size
<1>1. CASE count < Size
  <2>1. pos - count + Size = Size
    BY <1>1, SizeAssumption DEF RingTypeOK, SlotsNumbered
  <2>2. oldestIdx = 0
    BY <2>1, ModAbove, SizeAssumption DEF oldestIdx
  <2>3. i - 1 \in 0..(Size - 1)
    BY <1>1, SizeAssumption DEF RingTypeOK
  <2> QED BY <1>1, <2>2, <2>3, ModBelow
<1>2. CASE count = Size
  <2>1. oldestIdx = pos
    BY <1>2, ModBelow, SizeAssumption DEF RingTypeOK, oldestIdx
  <2>2. CASE pos + i - 1 < Size
    BY <1>2, <2>1, <2>2, ModBelow, SizeAssumption DEF RingTypeOK
  <2>3. CASE pos + i - 1 >= Size
    BY <1>2, <2>1, <2>3, ModAbove, SizeAssumption DEF RingTypeOK
  <2> QED BY <2>2, <2>3, SizeAssumption, <1>2 DEF RingTypeOK
<1> QED BY <1>1, <1>2, SizeAssumption DEF RingTypeOK

(* The slot numbering gives the property as the code's reader sees it. *)
LEMMA NumberedGivesTail == RingInv => RingHoldsTail
<1> SUFFICES ASSUME RingInv, NEW i \in 1..count
             PROVE  LiveEntries[i].seq = seq - count + i
  BY DEF RingInv, SlotsNumbered, RingHoldsTail
<1>1. LiveEntries[i] = entries[IF count < Size THEN i - 1
                        ELSE IF pos + i - 1 < Size THEN pos + i - 1 ELSE pos + i - 1 - Size]
  BY LiveIndex DEF LiveEntries, RingInv
<1>2. CASE count < Size
  BY <1>1, <1>2, SizeAssumption DEF RingInv, RingTypeOK, SlotsNumbered
<1>3. CASE count = Size
  <2>1. CASE pos + i - 1 < Size
    <3>1. LiveEntries[i] = entries[pos + i - 1]
      BY <1>1, <1>3, <2>1, SizeAssumption
    <3>2. pos + i - 1 \in pos..(Size - 1)
      BY <1>3, <2>1, SizeAssumption DEF RingInv, RingTypeOK
    <3>3. entries[pos + i - 1].seq = seq - pos + (pos + i - 1) + 1 - Size
      BY <1>3, <3>2 DEF RingInv, SlotsNumbered
    <3> QED BY <1>3, <3>1, <3>3, SizeAssumption DEF RingInv, RingTypeOK
  <2>2. CASE pos + i - 1 >= Size
    <3>1. LiveEntries[i] = entries[pos + i - 1 - Size]
      BY <1>1, <1>3, <2>2, SizeAssumption DEF RingInv, RingTypeOK
    <3>2. pos + i - 1 - Size \in 0..(pos - 1)
      BY <1>3, <2>2, SizeAssumption DEF RingInv, RingTypeOK
    <3> QED BY <1>3, <3>1, <3>2, SizeAssumption DEF RingInv, RingTypeOK, SlotsNumbered
  <2> QED BY <2>1, <2>2, <1>3, SizeAssumption DEF RingInv, RingTypeOK
<1> QED BY <1>2, <1>3, SizeAssumption DEF RingInv, RingTypeOK

(* A new buffer is numbered as RingInv says. *)
LEMMA InitNumbered == RingInit => RingInv
  BY SizeAssumption
     DEF RingInit, NewEventRingBuffer, RingInv, RingTypeOK, SlotsNumbered, ZeroEntry, eventEntry

(* One broadcast advances pos by one slot, around the end of the array. *)
LEMMA PosAdvances ==
  ASSUME RingTypeOK
  PROVE  (pos + 1) % Size = IF pos + 1 = Size THEN 0 ELSE pos + 1
  BY ModBelow, ModAbove, SizeAssumption DEF RingTypeOK

(* Push keeps every slot numbered, at the wrap-around too. *)
LEMMA PushNumbered ==
  ASSUME RingInv, NEW d \in Data, Push(d)
  PROVE  RingInv'
<1>1. /\ seq' = seq + 1
      /\ entries' = [entries EXCEPT ![pos] = [seq |-> seq + 1, data |-> d]]
      /\ pos' = IF pos + 1 = Size THEN 0 ELSE pos + 1
      /\ count' = IF count < Size THEN count + 1 ELSE count
  BY PosAdvances DEF Push, RingInv
<1>2. RingTypeOK'
  BY <1>1, SizeAssumption DEF RingInv, RingTypeOK, eventEntry
<1>3. /\ entries'[pos].seq = seq + 1
      /\ \A i \in 0..(Size - 1) : i # pos => entries'[i] = entries[i]
  BY <1>1 DEF RingInv, RingTypeOK
<1>4. (count = IF seq < Size THEN seq ELSE Size)'
  BY <1>1, SizeAssumption DEF RingInv, RingTypeOK, SlotsNumbered
<1>5. (count < Size => pos = count)'
  BY <1>1, SizeAssumption DEF RingInv, RingTypeOK, SlotsNumbered
<1>6. (\A i \in 0..(pos - 1) : entries[i].seq = seq - pos + i + 1)'
  <2> SUFFICES ASSUME NEW i \in 0..(pos' - 1)
               PROVE  entries'[i].seq = seq' - pos' + i + 1
    OBVIOUS
  <2>1. pos' = pos + 1 /\ i \in 0..pos
    BY <1>1, SizeAssumption DEF RingInv, RingTypeOK
  <2>2. CASE i = pos
    BY <1>1, <1>3, <2>1, <2>2 DEF RingInv, RingTypeOK
  <2>3. CASE i # pos
    <3>1. i \in 0..(pos - 1) /\ entries'[i] = entries[i]
      BY <1>3, <2>1, <2>3, SizeAssumption DEF RingInv, RingTypeOK
    <3>2. entries[i].seq = seq - pos + i + 1
      BY <3>1 DEF RingInv, SlotsNumbered
    <3> QED BY <1>1, <2>1, <3>1, <3>2 DEF RingInv, RingTypeOK
  <2> QED BY <2>2, <2>3
<1>7. (count = Size => \A i \in pos..(Size - 1) : entries[i].seq = seq - pos + i + 1 - Size)'
  <2> SUFFICES ASSUME count' = Size, NEW i \in pos'..(Size - 1)
               PROVE  entries'[i].seq = seq' - pos' + i + 1 - Size
    OBVIOUS
  <2>1. CASE pos + 1 = Size
    <3>1. pos' = 0 /\ i \in 0..pos
      BY <1>1, <2>1, SizeAssumption DEF RingInv, RingTypeOK
    <3>2. CASE i = pos
      BY <1>1, <1>3, <2>1, <3>1, <3>2, SizeAssumption DEF RingInv, RingTypeOK
    <3>3. CASE i # pos
      <4>1. i \in 0..(pos - 1) /\ entries'[i] = entries[i]
        BY <1>3, <2>1, <3>1, <3>3, SizeAssumption DEF RingInv, RingTypeOK
      <4>2. entries[i].seq = seq - pos + i + 1
        BY <4>1 DEF RingInv, SlotsNumbered
      <4> QED BY <1>1, <2>1, <3>1, <4>1, <4>2, SizeAssumption DEF RingInv, RingTypeOK
    <3> QED BY <3>2, <3>3
  <2>2. CASE pos + 1 # Size
    <3>1. pos' = pos + 1 /\ count = Size
      BY <1>1, <2>2, SizeAssumption DEF RingInv, RingTypeOK, SlotsNumbered
    <3>2. i \in pos..(Size - 1) /\ entries'[i] = entries[i]
      BY <1>3, <3>1, SizeAssumption DEF RingInv, RingTypeOK
    <3>3. entries[i].seq = seq - pos + i + 1 - Size
      BY <3>1, <3>2 DEF RingInv, SlotsNumbered
    <3> QED BY <1>1, <3>1, <3>2, <3>3, SizeAssumption DEF RingInv, RingTypeOK
  <2> QED BY <2>1, <2>2
<1> QED BY <1>2, <1>4, <1>5, <1>6, <1>7 DEF RingInv, SlotsNumbered

(* Every step of the ring keeps RingInv. *)
LEMMA StepNumbered == RingInv /\ [RingNext]_ringVars => RingInv'
<1> SUFFICES ASSUME RingInv, [RingNext]_ringVars PROVE RingInv'
  OBVIOUS
<1>1. ASSUME NEW d \in Data, Push(d) PROVE RingInv'
  BY <1>1, PushNumbered
<1>2. ASSUME NEW n \in 1..MaxSeq, Ask(n) PROVE RingInv'
  BY <1>2 DEF Ask, RingInv, RingTypeOK, SlotsNumbered
<1>3. CASE NewHub
  BY <1>3, SizeAssumption DEF NewHub, RingInv, RingTypeOK, SlotsNumbered, ZeroEntry, eventEntry
<1>4. CASE UNCHANGED ringVars
  BY <1>4 DEF ringVars, RingInv, RingTypeOK, SlotsNumbered
<1> QED BY <1>1, <1>2, <1>3, <1>4 DEF RingNext

(* Every reachable state satisfies the slot numbering. *)
THEOREM Numbered == RingSpec => []RingInv
  BY InitNumbered, StepNumbered, PTL DEF RingSpec

(* Type correctness of the ring buffer for every size: Push never indexes  *)
(* outside the array and never counts more entries than it has.            *)
THEOREM RingTypeCorrect == RingSpec => []RingTypeOK
<1>1. RingInv => RingTypeOK
  BY DEF RingInv
<1> QED BY <1>1, Numbered, PTL

(* For every size and however often the array wrapped, the live entries    *)
(* are the last min(seq, Size) broadcasts in order (ws/ringbuffer.go,      *)
(* Push and the index arithmetic of EventsSince).                          *)
THEOREM RingHoldsTailAlways == RingSpec => []RingHoldsTail
  BY Numbered, NumberedGivesTail, PTL
-----------------------------------------------------------------------------
(* The live entries form a sequence of events. *)
LEMMA LiveIsSeq ==
  ASSUME RingInv
  PROVE  /\ LiveEntries \in Seq(eventEntry)
         /\ Len(LiveEntries) = count
<1>1. \A i \in 1..count : (oldestIdx + i - 1) % Size \in 0..(Size - 1)
  <2> TAKE i \in 1..count
  <2>1. CASE count < Size
    BY <2>1, LiveIndex, SizeAssumption DEF RingInv, RingTypeOK
  <2>2. CASE count = Size
    BY <2>2, LiveIndex, SizeAssumption DEF RingInv, RingTypeOK
  <2> QED BY <2>1, <2>2, SizeAssumption DEF RingInv, RingTypeOK
<1>2. LiveEntries \in [1..count -> eventEntry]
  BY <1>1 DEF LiveEntries, RingInv, RingTypeOK
<1> QED BY <1>2 DEF RingInv, RingTypeOK

(* The i-th live entry, by its array index. *)
LEMMA LiveAt ==
  ASSUME RingInv
  PROVE  \A i \in 1..count :
            LiveEntries[i] = entries[IF count < Size THEN i - 1
                              ELSE IF pos + i - 1 < Size THEN pos + i - 1
                              ELSE pos + i - 1 - Size]
  BY LiveIndex DEF LiveEntries, RingInv

(* Pushing appends to the live entries, and drops the oldest of them when  *)
(* the array was full.                                                     *)
LEMMA PushRetains ==
  ASSUME RingInv, NEW d \in Data, Push(d)
  PROVE  LiveEntries' = W!Retain(Append(LiveEntries, [seq |-> seq + 1, data |-> d]))
<1> DEFINE e == [seq |-> seq + 1, data |-> d]
<1>1. /\ count' = IF count < Size THEN count + 1 ELSE count
      /\ pos' = IF pos + 1 = Size THEN 0 ELSE pos + 1
      /\ entries' = [entries EXCEPT ![pos] = e]
  BY PosAdvances DEF Push, RingInv
<1>2. /\ entries'[pos] = e
      /\ \A k \in 0..(Size - 1) : k # pos => entries'[k] = entries[k]
  BY <1>1 DEF RingInv, RingTypeOK
<1>3. RingInv'
  BY PushNumbered
<1>4. /\ LiveEntries \in Seq(eventEntry)
      /\ Len(LiveEntries) = count
      /\ LiveEntries' = [i \in 1..count' |-> LiveEntries'[i]]
      /\ Len(LiveEntries') = count'
  <2>1. (LiveEntries \in Seq(eventEntry) /\ Len(LiveEntries) = count)'
    BY <1>3, LiveIsSeq, PTL
  <2> QED BY <2>1, LiveIsSeq
<1>5. e \in eventEntry
  BY DEF RingInv, RingTypeOK, eventEntry
<1>6. \A i \in 1..count' :
         LiveEntries'[i] = entries'[IF count' < Size THEN i - 1
                             ELSE IF pos' + i - 1 < Size THEN pos' + i - 1
                             ELSE pos' + i - 1 - Size]
  <2>1. (\A i \in 1..count :
            LiveEntries[i] = entries[IF count < Size THEN i - 1
                              ELSE IF pos + i - 1 < Size THEN pos + i - 1
                              ELSE pos + i - 1 - Size])'
    BY <1>3, LiveAt, PTL
  <2> QED BY <2>1
<1>7. CASE count < Size
  <2>1. count' = count + 1 /\ pos = count
    BY <1>1, <1>7 DEF RingInv, SlotsNumbered
  <2>2. \A i \in 1..count : LiveEntries'[i] = LiveEntries[i]
    <3> TAKE i \in 1..count
    <3>1. LiveEntries[i] = entries[i - 1]
      BY <1>7, LiveAt
    <3>2. i - 1 \in 0..(Size - 1) /\ i - 1 # pos
      BY <1>7, <2>1, SizeAssumption DEF RingInv, RingTypeOK
    <3>3. LiveEntries'[i] = entries'[i - 1]
      <4>1. CASE count' < Size
        BY <1>6, <2>1, <4>1 DEF RingInv, RingTypeOK
      <4>2. CASE count' = Size
        <5>1. pos' = 0
          BY <1>1, <2>1, <4>2
        <5> QED BY <1>6, <2>1, <3>2, <4>2, <5>1, SizeAssumption DEF RingInv, RingTypeOK
      <4> QED BY <1>7, <2>1, <4>1, <4>2, SizeAssumption DEF RingInv, RingTypeOK
    <3> QED BY <1>2, <3>1, <3>2, <3>3
  <2>3. LiveEntries'[count + 1] = e
    <3>1. LiveEntries'[count + 1] = entries'[pos]
      <4>1. CASE count' < Size
        BY <1>6, <2>1, <4>1 DEF RingInv, RingTypeOK
      <4>2. CASE count' = Size
        <5>1. pos' = 0
          BY <1>1, <2>1, <4>2
        <5> QED BY <1>6, <2>1, <4>2, <5>1, SizeAssumption DEF RingInv, RingTypeOK
      <4> QED BY <1>7, <2>1, <4>1, <4>2, SizeAssumption DEF RingInv, RingTypeOK
    <3> QED BY <1>2, <3>1
  <2>4. LiveEntries' = Append(LiveEntries, e)
    BY <1>4, <1>5, <2>1, <2>2, <2>3 DEF RingInv, RingTypeOK
  <2>5. Len(Append(LiveEntries, e)) <= Size
    BY <1>4, <1>5, <1>7, SizeAssumption DEF RingInv, RingTypeOK
  <2> QED BY <2>4, <2>5, SizeAssumption DEF W!Retain
<1>8. CASE count = Size
  <2>1. count' = Size
    BY <1>1, <1>8, SizeAssumption
  <2>2. \A i \in 1..(Size - 1) : LiveEntries'[i] = LiveEntries[i + 1]
    <3> TAKE i \in 1..(Size - 1)
    <3> DEFINE k == IF pos + i < Size THEN pos + i ELSE pos + i - Size
    <3>1. LiveEntries[i + 1] = entries[k]
      <4>1. i + 1 \in 1..count
        BY <1>8, SizeAssumption
      <4>2. LiveEntries[i + 1] = entries[IF pos + (i + 1) - 1 < Size THEN pos + (i + 1) - 1
                                  ELSE pos + (i + 1) - 1 - Size]
        BY <1>8, <4>1, LiveAt, SizeAssumption
      <4>3. pos + (i + 1) - 1 = pos + i
        BY DEF RingInv, RingTypeOK
      <4> QED BY <4>2, <4>3
    <3>2. LiveEntries'[i] = entries'[k]
      BY <1>1, <1>6, <2>1, SizeAssumption DEF RingInv, RingTypeOK
    <3>3. k \in 0..(Size - 1) /\ k # pos
      BY SizeAssumption DEF RingInv, RingTypeOK
    <3> QED BY <1>2, <3>1, <3>2, <3>3
  <2>3. LiveEntries'[Size] = e
    <3>1. LiveEntries'[Size] = entries'[pos]
      BY <1>1, <1>6, <2>1, SizeAssumption DEF RingInv, RingTypeOK
    <3> QED BY <1>2, <3>1
  <2>4. LiveEntries' = Tail(Append(LiveEntries, e))
    BY <1>4, <1>5, <1>8, <2>1, <2>2, <2>3, SizeAssumption DEF RingInv, RingTypeOK
  <2>5. Len(Append(LiveEntries, e)) > Size
    BY <1>4, <1>5, <1>8, SizeAssumption
  <2> QED BY <2>4, <2>5 DEF W!Retain
<1> QED BY <1>7, <1>8, SizeAssumption DEF RingInv, RingTypeOK

(* The first live entry is the one at oldestIdx. *)
LEMMA OldestIsFirst ==
  ASSUME RingInv, count # 0
  PROVE  LiveEntries[1] = entries[oldestIdx]
<1>1. LiveEntries[1] = entries[(oldestIdx + 1 - 1) % Size]
  BY DEF LiveEntries, RingInv, RingTypeOK
<1>2. oldestIdx \in 0..(Size - 1)
  BY SizeAssumption DEF oldestIdx, RingInv, RingTypeOK
<1>3. (oldestIdx + 1 - 1) % Size = oldestIdx
  BY <1>2, ModBelow, SizeAssumption
<1> QED BY <1>1, <1>3

(* The k-th element of an interval. *)
LEMMA NthOfInterval ==
  ASSUME NEW lo \in Int, NEW hi \in Int, NEW k \in 1..(hi - lo + 1)
  PROVE  Nth(lo..hi, k) = lo + k - 1
<1> DEFINE Rank(i) == Cardinality({j \in lo..hi : j <= i})
<1>1. ASSUME NEW i \in lo..hi PROVE Rank(i) = i - lo + 1
  <2>1. {j \in lo..hi : j <= i} = lo..i
    OBVIOUS
  <2>2. i \in Int /\ ~(lo > i)
    OBVIOUS
  <2>3. Cardinality(lo..i) = i - lo + 1
    BY <2>2, FS_Interval
  <2> QED BY <2>1, <2>3
<1>2. Nth(lo..hi, k) = CHOOSE i \in lo..hi : Rank(i) = k
  BY DEF Nth
<1> HIDE DEF Rank
<1>3. lo + k - 1 \in lo..hi /\ Rank(lo + k - 1) = k
  BY <1>1
<1>4. \A i \in lo..hi : Rank(i) = k => i = lo + k - 1
  BY <1>1
<1> QED BY <1>2, <1>3, <1>4

(* The answer, free of the loop: from last_seq on, the entries numbered    *)
(* above it are a tail of the live ones.                                   *)
LEMMA AfterIsTail ==
  ASSUME RingInv, NEW n \in Nat, n >= seq - count
  PROVE  LET m == IF n < seq THEN seq - n ELSE 0
         IN  After(n) = [k \in 1..m |-> LiveEntries[n - (seq - count) + k]]
<1> DEFINE m == IF n < seq THEN seq - n ELSE 0
           lo == n - (seq - count) + 1
<1>1. seq \in Nat /\ count \in Nat /\ \A i \in 1..count : LiveEntries[i].seq = seq - count + i
  BY NumberedGivesTail, SizeAssumption DEF RingInv, RingTypeOK, RingHoldsTail
<1>2. Above(n) = lo..count
  BY <1>1 DEF Above
<1>3. lo \in Int /\ count \in Int /\ m \in Nat /\ m = IF lo > count THEN 0 ELSE count - lo + 1
  BY <1>1
<1>4. \A k \in 1..m : n - (seq - count) + k = lo + k - 1
  BY <1>1
<1> HIDE DEF lo, m
<1>5. Cardinality(lo..count) = m
  BY <1>3, FS_Interval
<1>6. ASSUME NEW k \in 1..m PROVE Nth(lo..count, k) = n - (seq - count) + k
  <2>1. k \in 1..(count - lo + 1)
    BY <1>3
  <2>2. Nth(lo..count, k) = lo + k - 1
    BY <1>3, <2>1, NthOfInterval
  <2> QED BY <1>4, <2>2
<1>7. After(n) = [k \in 1..m |-> LiveEntries[Nth(lo..count, k)]]
  BY <1>2, <1>5 DEF After
<1>8. After(n) = [k \in 1..m |-> LiveEntries[n - (seq - count) + k]]
  BY <1>6, <1>7
<1> QED BY <1>8 DEF m

(* What EventsSince returns: nothing, or everything after n, numbered one  *)
(* by one.                                                                 *)
LEMMA AnswerExact ==
  ASSUME RingInv, NEW n \in Nat, EventsSince(n) # <<>>
  PROVE  /\ Len(EventsSince(n)) = seq - n
         /\ \A i \in 1..Len(EventsSince(n)) : EventsSince(n)[i].seq = n + i
<1> DEFINE b == seq - count
           m == IF n < seq THEN seq - n ELSE 0
<1>1. /\ count \in Nat /\ seq \in Nat /\ b \in Nat
      /\ \A i \in 1..count : LiveEntries[i].seq = b + i
  BY NumberedGivesTail, SizeAssumption DEF RingInv, RingTypeOK, RingHoldsTail
<1>2. count # 0 /\ ~(n < entries[oldestIdx].seq)
  BY DEF EventsSince
<1>3. EventsSince(n) = After(n)
  BY <1>2 DEF EventsSince
<1>4. n >= b
  <2>1. LiveEntries[1] = entries[oldestIdx]
    BY <1>2, OldestIsFirst
  <2> QED BY <1>1, <1>2, <2>1
<1>5. After(n) = [k \in 1..m |-> LiveEntries[n - b + k]]
  BY <1>4, AfterIsTail
<1>6. m # 0
  BY <1>3, <1>5
<1>7. m \in Nat /\ m = seq - n
  BY <1>1, <1>6
<1>8. Len(EventsSince(n)) = m
  BY <1>3, <1>5, <1>7
<1>9. ASSUME NEW i \in 1..m PROVE EventsSince(n)[i].seq = n + i
  <2>1. n - b + i \in 1..count
    BY <1>1, <1>4, <1>7
  <2>2. EventsSince(n)[i] = LiveEntries[n - b + i]
    BY <1>3, <1>5
  <2> QED BY <1>1, <1>4, <2>1, <2>2
<1> QED BY <1>7, <1>8, <1>9

(* A reconnecting client is answered with exactly what it missed, or with  *)
(* nothing, for every size and every last_seq (ws/ringbuffer.go,           *)
(* EventsSince).                                                           *)
THEOREM ReplyAlwaysExact == RingSpec => []ReplyExact
<1>1. RingInit => ReplyExact
  BY DEF RingInit, ReplyExact
<1>2. RingInv /\ ReplyExact /\ [RingNext]_ringVars => ReplyExact'
  <2> SUFFICES ASSUME RingInv, ReplyExact, [RingNext]_ringVars PROVE ReplyExact'
    OBVIOUS
  <2>1. ASSUME NEW n \in 1..MaxSeq, Ask(n) PROVE ReplyExact'
    <3>1. n \in Nat
      BY MaxSeqAssumption
    <3>2. /\ reply'.after = n /\ reply'.upTo = seq
          /\ reply'.events = EventsSince(n)
      BY <2>1 DEF Ask
    <3>3. EventsSince(n) # <<>> =>
            /\ Len(EventsSince(n)) = seq - n
            /\ \A i \in 1..Len(EventsSince(n)) : EventsSince(n)[i].seq = n + i
      BY <3>1, AnswerExact
    <3> QED BY <3>2, <3>3 DEF ReplyExact
  <2>2. CASE UNCHANGED reply
    BY <2>2 DEF ReplyExact
  <2> QED BY <2>1, <2>2 DEF RingNext, Push, NewHub, ringVars
<1> QED BY <1>1, <1>2, Numbered, PTL DEF RingSpec
-----------------------------------------------------------------------------
(* A reader of the circular array gets the answer of the sliding window:   *)
(* the loop's filter is the window's slice.                                *)
LEMMA SameAnswer ==
  ASSUME RingInv, NEW n \in Nat
  PROVE  EventsSince(n) = W!Since(n)
<1>1. /\ count \in Nat /\ seq \in Nat /\ seq - count \in Nat
      /\ LiveEntries \in Seq(eventEntry) /\ Len(LiveEntries) = count
      /\ \A i \in 1..count : LiveEntries[i].seq = seq - count + i
  BY LiveIsSeq, NumberedGivesTail, SizeAssumption DEF RingInv, RingTypeOK, RingHoldsTail
<1>2. count = 0 <=> LiveEntries = <<>>
  BY <1>1
<1>3. CASE count = 0
  BY <1>2, <1>3 DEF EventsSince, W!Since
<1>4. CASE count # 0
  <2>1. Head(LiveEntries) = entries[oldestIdx] /\ Head(LiveEntries).seq = seq - count + 1
    BY <1>1, <1>4, OldestIsFirst
  <2>2. CASE n < Head(LiveEntries).seq
    BY <1>2, <1>4, <2>1, <2>2 DEF EventsSince, W!Since
  <2>3. CASE ~(n < Head(LiveEntries).seq)
    <3> DEFINE m == IF n < seq THEN seq - n ELSE 0
               lo == n - Head(LiveEntries).seq + 2
    <3>1. EventsSince(n) = After(n) /\ W!Since(n) = SubSeq(LiveEntries, lo, Len(LiveEntries))
      BY <1>2, <1>4, <2>1, <2>3 DEF EventsSince, W!Since
    <3>2. After(n) = [k \in 1..m |-> LiveEntries[n - (seq - count) + k]]
      <4>1. n >= seq - count
        BY <1>1, <2>1, <2>3
      <4> QED BY <4>1, AfterIsTail
    <3>3. /\ lo \in Nat \ {0} /\ m = IF lo <= count THEN count - lo + 1 ELSE 0
          /\ \A k \in 1..m : n - (seq - count) + k = lo + k - 1
      <4>1. lo = n - (seq - count + 1) + 2 /\ ~(n < seq - count + 1)
        BY <2>1, <2>3
      <4> HIDE DEF lo
      <4> QED BY <1>1, <4>1
    <3> HIDE DEF lo, m
    <3>4. SubSeq(LiveEntries, lo, Len(LiveEntries)) = [k \in 1..m |-> LiveEntries[lo + k - 1]]
      BY <1>1, <3>3
    <3> QED BY <3>1, <3>2, <3>3, <3>4
  <2> QED BY <2>2, <2>3
<1> QED BY <1>3, <1>4

(* A new buffer is an empty window. *)
LEMMA InitRefines == RingInit => W!Init
<1> SUFFICES ASSUME RingInit PROVE W!Init
  OBVIOUS
<1>1. LiveEntries = <<>>
  BY InitNumbered, LiveIsSeq DEF RingInit, NewEventRingBuffer
<1> QED BY <1>1 DEF RingInit, W!Init, W!NoReply

(* Push, Ask and NewHub are the steps of the window, answers included. *)
LEMMA StepRefines == RingInv /\ [RingNext]_ringVars => [W!Next]_(W!vars)
<1> SUFFICES ASSUME RingInv, [RingNext]_ringVars PROVE [W!Next]_(W!vars)
  OBVIOUS
<1>1. ASSUME NEW d \in Data, Push(d) PROVE W!Push(d)
  BY <1>1, PushRetains DEF Push, W!Push
<1>2. ASSUME NEW n \in 1..MaxSeq, Ask(n) PROVE W!Ask(n)
  <2>1. n \in Nat
    BY MaxSeqAssumption
  <2>2. LiveEntries' = LiveEntries
    BY <1>2 DEF Ask, LiveEntries, oldestIdx
  <2> QED BY <1>2, <2>1, <2>2, SameAnswer DEF Ask, W!Ask
<1>3. CASE NewHub
  <2>1. RingInv' /\ count' = 0
    BY <1>3, StepNumbered DEF RingNext, NewHub
  <2>2. (LiveEntries \in Seq(eventEntry) /\ Len(LiveEntries) = count)'
    BY <2>1, LiveIsSeq, PTL
  <2>3. LiveEntries' = <<>>
    BY <2>1, <2>2
  <2> QED BY <1>3, <2>3 DEF NewHub, W!Restart, W!Next
<1>4. CASE UNCHANGED ringVars
  BY <1>4 DEF ringVars, W!vars, LiveEntries, oldestIdx
<1> QED BY <1>1, <1>2, <1>3, <1>4 DEF RingNext, W!Next

(* The circular array of ws/ringbuffer.go implements the sliding window,   *)
(* for every size: each Push, EventsSince and restart of the array is the  *)
(* same operation on the window of the last Size broadcasts.               *)
THEOREM RingImplementsWindow == RingSpec => ImplementsReplayWindow
  BY Numbered, InitRefines, StepRefines, PTL DEF RingSpec, ImplementsReplayWindow, W!Spec
=============================================================================
