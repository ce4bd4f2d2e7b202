--------------------------- MODULE Server_proofs ---------------------------
(***************************************************************************)
(* Proofs about the parts of the server process around the hub, for all    *)
(* values of their constants: the broadcasts with their replay, the        *)
(* uploads with their clean-up, the migrations at the start, and the       *)
(* supervisor of LiveKit.                                                  *)
(***************************************************************************)
EXTENDS Broadcast, Uploads, Migrate, LiveKitProcess, SequenceTheorems, TLAPS

-----------------------------------------------------------------------------
(* Broadcast.  The streams are reasoned about in two parts, what was       *)
(* written and what is queued, with lemmas on what Append, Tail and        *)
(* EventsSince do to their order and their contents.                       *)

(* A numbered message comes after smaller numbers only. *)
Sorted(s) == \A p, j \in 1..Len(s) : p < j /\ s[j] # 0 => s[p] <= s[j]

(* The same across the end of s and the beginning of t. *)
Before(s, t) == \A p \in 1..Len(s), j \in 1..Len(t) : t[j] # 0 => s[p] <= t[j]

UpTo(s, n) == \A p \in 1..Len(s) : s[p] <= n

Holds(s, k) == \E p \in 1..Len(s) : s[p] = k

Orderly(s, t, n) == Sorted(s) /\ Sorted(t) /\ Before(s, t) /\ UpTo(s, n) /\ UpTo(t, n)

(* The stream of a connection is in order and ends with the newest number  *)
(* at most; before the pumps start nothing is queued, and before the       *)
(* handshake nothing is written.                                           *)
StreamOK(c) ==
  /\ Orderly(got[c], send[c], seq)
  /\ phase[c] \in {"out", "authed", "handshaken"} => send[c] = <<>>
  /\ phase[c] \in {"out", "authed"} => got[c] = <<>>

Has(c, k) == Holds(got[c], k) \/ Holds(send[c], k)

(* What the connection has been sent, from the handshake on. *)
CoverOK(c) ==
  /\ read[c] <= seq
  /\ phase[c] = "in" /\ ~lost[c] =>
       \A k \in (since[c] + 1)..FannedOut : scopes[k] = All => Has(c, k)
  /\ phase[c] \in {"handshaken", "in"} /\ ~lost[c] =>
       \A k \in (base[c] + 1)..read[c] : scopes[k] = All => Has(c, k)

(* The message between the halves of deliverBroadcast is the newest one. *)
InflightOK ==
  inflight # Idle => /\ inflight.seq = seq /\ seq > 0
                     /\ inflight.scope = scopes[seq]

BroadcastInv ==
  TypeOK /\ InflightOK /\ \A c \in Conns : StreamOK(c) /\ CoverOK(c)

-----------------------------------------------------------------------------
(* sendMsg of an unnumbered message or of the newest number keeps a stream *)
(* in order and adds nothing else to it.                                   *)
LEMMA SentOrderly ==
  ASSUME NEW s \in Seq(Nat), NEW t \in Seq(Nat), NEW n \in Nat, NEW x \in {0, n},
         Orderly(s, t, n)
  PROVE  /\ Append(t, x) \in Seq(Nat)
         /\ Orderly(s, Append(t, x), n)
         /\ \A k : Holds(t, k) => Holds(Append(t, x), k)
         /\ Holds(Append(t, x), x)
<1> DEFINE u == Append(t, x)
<1>1. /\ u \in Seq(Nat) /\ Len(u) = Len(t) + 1 /\ Len(t) \in Nat
      /\ \A p \in 1..Len(t) : u[p] = t[p]
      /\ u[Len(t) + 1] = x /\ x \in Nat /\ x <= n
  BY AppendProperties, LenProperties
<1> HIDE DEF u
<1>2. Sorted(u) /\ UpTo(u, n) /\ Before(s, u)
  <2>1. \A p \in 1..Len(u) : (p \in 1..Len(t) /\ u[p] = t[p]) \/ (p = Len(t) + 1 /\ u[p] = x)
    BY <1>1
  <2>2. UpTo(u, n)
    BY <1>1, <2>1, Zenon DEF UpTo, Orderly
  <2>3. ASSUME NEW p \in 1..Len(u), NEW j \in 1..Len(u), p < j, u[j] # 0
        PROVE  u[p] <= u[j]
    <3>1. p \in 1..Len(t) /\ u[p] = t[p]
      BY SMTT(30), <1>1, <2>1, <2>3
    <3>2. CASE j \in 1..Len(t) /\ u[j] = t[j]
      BY Zenon, <2>3, <3>1, <3>2 DEF Sorted, Orderly
    <3>3. CASE u[j] = x
      BY Zenon, <2>3, <3>1, <3>3 DEF UpTo, Orderly
    <3> QED BY Zenon, <2>1, <3>2, <3>3
  <2>4. ASSUME NEW p \in 1..Len(s), NEW j \in 1..Len(u), u[j] # 0
        PROVE  s[p] <= u[j]
    <3>1. CASE j \in 1..Len(t) /\ u[j] = t[j]
      BY Zenon, <2>4, <3>1 DEF Before, Orderly
    <3>2. CASE u[j] = x
      BY Zenon, <2>4, <3>2 DEF UpTo, Orderly
    <3> QED BY Zenon, <2>1, <3>1, <3>2
  <2> QED BY Zenon, <2>2, <2>3, <2>4 DEF Sorted, Before
<1>3. \A k : Holds(t, k) => Holds(u, k)
  BY <1>1 DEF Holds
<1>4. Holds(u, x)
  BY SMTT(30), <1>1 DEF Holds
<1> QED BY Zenon, <1>1, <1>2, <1>3, <1>4 DEF Orderly, u

(* writePump moves the head of the queue to the end of what was written:   *)
(* the stream keeps its order and its numbers.                             *)
LEMMA WrittenOrderly ==
  ASSUME NEW s \in Seq(Nat), NEW t \in Seq(Nat), NEW n \in Nat, t # <<>>,
         Orderly(s, t, n),
         NEW u, u = IF Head(t) = 0 THEN s ELSE Append(s, Head(t))
  PROVE  /\ u \in Seq(Nat) /\ Tail(t) \in Seq(Nat) /\ Len(Tail(t)) <= Len(t)
         /\ Orderly(u, Tail(t), n)
         /\ \A k \in Nat \ {0} : Holds(s, k) \/ Holds(t, k) => Holds(u, k) \/ Holds(Tail(t), k)
<1> DEFINE v == Tail(t)
           x == Head(t)
<1>1. /\ x \in Nat /\ v \in Seq(Nat) /\ Len(v) = Len(t) - 1 /\ x = t[1]
      /\ \A p \in 1..Len(v) : v[p] = t[p + 1]
      /\ Len(t) \in Nat /\ Len(v) \in Nat /\ 1 \in 1..Len(t)
  BY HeadTailProperties, LenProperties
<1>2. /\ Append(s, x) \in Seq(Nat) /\ Len(Append(s, x)) = Len(s) + 1 /\ Len(s) \in Nat
      /\ \A p \in 1..Len(s) : Append(s, x)[p] = s[p]
      /\ Append(s, x)[Len(s) + 1] = x
  BY <1>1, AppendProperties, LenProperties
<1>3. u = IF x = 0 THEN s ELSE Append(s, x)
  OBVIOUS
<1> HIDE DEF v, x
<1>4. \A p \in 1..Len(v) : p + 1 \in 1..Len(t) /\ 1 < p + 1
  BY <1>1
<1>5. Sorted(v) /\ UpTo(v, n) /\ (\A j \in 1..Len(v) : v[j] # 0 => x <= v[j]) /\ x <= n
  <2>1. UpTo(t, n) /\ Sorted(t)
    BY Zenon DEF Orderly
  <2>2. UpTo(v, n) /\ x <= n
    BY <1>1, <1>4, <2>1, Zenon DEF UpTo
  <2>3. ASSUME NEW p \in 1..Len(v), NEW j \in 1..Len(v), p < j, v[j] # 0
        PROVE  v[p] <= v[j]
    <3>0. p + 1 < j + 1
      BY <2>3
    <3>1. p + 1 < j + 1 /\ v[p] = t[p + 1] /\ v[j] = t[j + 1]
      BY Zenon, <1>1, <3>0
    <3> QED BY Zenon, <1>4, <2>1, <2>3, <3>1 DEF Sorted
  <2>4. \A j \in 1..Len(v) : v[j] # 0 => x <= v[j]
    BY <1>1, <1>4, <2>1, Zenon DEF Sorted
  <2> QED BY Zenon, <2>2, <2>3, <2>4 DEF Sorted
<1>6. Before(s, v) /\ \A p \in 1..Len(s) : x # 0 => s[p] <= x
  <2>1. Before(s, t)
    BY Zenon DEF Orderly
  <2> QED BY <1>1, <1>4, <2>1, Zenon DEF Before
<1>7. \A k \in Nat \ {0} : Holds(t, k) => k = x \/ Holds(v, k)
  <2> SUFFICES ASSUME NEW k \in Nat \ {0}, NEW p \in 1..Len(t), t[p] = k, k # x
               PROVE  Holds(v, k)
    BY Zenon DEF Holds
  <2>1. p - 1 \in 1..Len(v) /\ v[p - 1] = t[p]
    BY SMTT(30), <1>1
  <2> QED BY Zenon, <2>1 DEF Holds
<1>8. CASE x = 0
  BY <1>1, <1>3, <1>5, <1>6, <1>7, <1>8 DEF Orderly, v
<1>9. CASE x # 0
  <2>1. u = Append(s, x) /\ \A p \in 1..Len(u) : p \in 1..Len(s) \/ p = Len(s) + 1
    BY <1>2, <1>3, <1>9
  <2>2. UpTo(u, n)
    BY Zenon, <1>2, <1>5, <2>1 DEF UpTo, Orderly
  <2>3. Sorted(u)
    BY <1>1, <1>2, <1>6, <2>1 DEF Sorted, Orderly
  <2>4. Before(u, v)
    BY Zenon, <1>2, <1>5, <1>6, <2>1 DEF Before
  <2>5. \A k : Holds(s, k) => Holds(u, k)
    BY <1>2, <2>1 DEF Holds
  <2>6. Holds(u, x)
    BY <1>2, <2>1 DEF Holds
  <2> QED
    BY <1>1, <1>2, <1>5, <1>7, <2>1, <2>2, <2>3, <2>4, <2>5, <2>6 DEF Orderly, v
<1> QED BY Zenon, <1>8, <1>9

(* What a replay writes: the missed numbers, all of them, in order. *)
LEMMA EventsSinceOrderly ==
  ASSUME TypeOK, NEW n \in Nat
  PROVE  /\ EventsSince(n) \in Seq(Nat)
         /\ Orderly(EventsSince(n), <<>>, seq)
         /\ EventsSince(n) # <<>> => \A k \in (n + 1)..seq : Holds(EventsSince(n), k)
<1>1. CASE seq = 0 \/ n < OldestSeq
  <2>1. EventsSince(n) = <<>>
    BY Zenon, <1>1 DEF EventsSince
  <2> QED
    BY <2>1 DEF Orderly, Sorted, Before, UpTo
<1>2. CASE ~(seq = 0 \/ n < OldestSeq) /\ seq < n
  <2>1. EventsSince(n) = [p \in 1..0 |-> n + p]
    <3>1. 1..(seq - n) = 1..0
      BY <1>2 DEF TypeOK
    <3> QED BY Zenon, <1>2, <3>1 DEF EventsSince
  <2>2. EventsSince(n) \in Seq(Nat) /\ Len(EventsSince(n)) = 0
    BY <2>1
  <2> QED
    BY <1>2, <2>2 DEF Orderly, Sorted, Before, UpTo, TypeOK
<1>3. CASE ~(seq = 0 \/ n < OldestSeq) /\ n <= seq
  <2>1. PICK l \in Nat : l = seq - n
    BY <1>3 DEF TypeOK
  <2>2. EventsSince(n) = [p \in 1..l |-> n + p]
    BY Zenon, <1>3, <2>1 DEF EventsSince
  <2>3. EventsSince(n) \in Seq(Nat) /\ Len(EventsSince(n)) = l
    BY <2>2
  <2>4. Orderly(EventsSince(n), <<>>, seq)
    BY <2>1, <2>2, <2>3 DEF Orderly, Sorted, Before, UpTo, TypeOK
  <2>5. ASSUME NEW k \in (n + 1)..seq PROVE Holds(EventsSince(n), k)
    <3>1. k - n \in 1..l
      BY <2>1 DEF TypeOK
    <3> QED BY <2>2, <2>3, <3>1 DEF Holds, TypeOK
  <2> QED BY Zenon, <2>3, <2>4, <2>5
<1> QED BY <1>1, <1>2, <1>3 DEF TypeOK

(* In order, in the parts and in the whole. *)
LEMMA StreamOfParts ==
  ASSUME TypeOK, NEW c \in Conns, Orderly(got[c], send[c], seq)
  PROVE  /\ \A p, j \in 1..Len(Stream(c)) :
              p < j /\ Stream(c)[j] # 0 => Stream(c)[p] <= Stream(c)[j]
         /\ \A k : Has(c, k) => \E p \in 1..Len(Stream(c)) : Stream(c)[p] = k
<1> DEFINE s == got[c]
           t == send[c]
           u == Stream(c)
<1>1. s \in Seq(Nat) /\ t \in Seq(Nat)
  BY Zenon DEF TypeOK
<1>2. /\ Len(s) \in Nat /\ Len(t) \in Nat /\ Len(u) = Len(s) + Len(t)
      /\ \A p \in 1..Len(u) : u[p] = IF p <= Len(s) THEN s[p] ELSE t[p - Len(s)]
      /\ Orderly(s, t, seq)
  BY <1>1, ConcatProperties, LenProperties, ZenonT(30) DEF Stream
<1>3. \A k : Has(c, k) <=> Holds(s, k) \/ Holds(t, k)
  BY Zenon DEF Has
<1> HIDE DEF s, t, u
<1>4. \A p \in 1..Len(u) : \/ p \in 1..Len(s) /\ u[p] = s[p]
                           \/ p > Len(s) /\ p - Len(s) \in 1..Len(t) /\ u[p] = t[p - Len(s)]
  BY <1>2
<1>5. \A p, j \in 1..Len(u) : p < j /\ u[j] # 0 => u[p] <= u[j]
  <2> SUFFICES ASSUME NEW p \in 1..Len(u), NEW j \in 1..Len(u), p < j, u[j] # 0
               PROVE  u[p] <= u[j]
    OBVIOUS
  <2>1. CASE j \in 1..Len(s) /\ u[j] = s[j]
    BY <1>2, <1>4, <2>1 DEF Orderly, Sorted
  <2>2. CASE j > Len(s) /\ j - Len(s) \in 1..Len(t) /\ u[j] = t[j - Len(s)]
    <3>1. CASE p \in 1..Len(s) /\ u[p] = s[p]
      BY Zenon, <1>2, <2>2, <3>1 DEF Orderly, Before
    <3>2. CASE p > Len(s) /\ p - Len(s) \in 1..Len(t) /\ u[p] = t[p - Len(s)]
      <4>1. p - Len(s) < j - Len(s)
        BY <1>2
      <4> QED BY Zenon, <1>2, <2>2, <3>2, <4>1 DEF Orderly, Sorted
    <3> QED BY Zenon, <1>4, <3>1, <3>2
  <2> QED BY Zenon, <1>4, <2>1, <2>2
<1>6. ASSUME NEW k, Holds(s, k) PROVE \E p \in 1..Len(u) : u[p] = k
  BY <1>2, <1>6 DEF Holds
<1>7. ASSUME NEW k, Holds(t, k) PROVE \E p \in 1..Len(u) : u[p] = k
  <2>1. PICK p \in 1..Len(t) : t[p] = k
    BY Zenon, <1>7 DEF Holds
  <2>2. /\ p + Len(s) \in 1..Len(u) /\ ~(p + Len(s) <= Len(s))
        /\ (p + Len(s)) - Len(s) = p /\ Len(u) = Len(s) + Len(t)
    BY <1>2
  <2>3. u[p + Len(s)] = t[p]
    BY Zenon, <1>2, <2>2
  <2> QED BY Zenon, <2>1, <2>2, <2>3
<1> QED BY Zenon, <1>3, <1>5, <1>6, <1>7 DEF u

-----------------------------------------------------------------------------
(* At first nobody is connected and nothing is sent. *)
LEMMA InitBroadcastInv == Init => BroadcastInv
<1> SUFFICES ASSUME Init PROVE BroadcastInv
  OBVIOUS
<1>1. TypeOK
  BY BuffersAssumption DEF Init, TypeOK, Idle, Scopes
<1>2. InflightOK
  BY Zenon DEF Init, InflightOK
<1>3. ASSUME NEW c \in Conns PROVE StreamOK(c) /\ CoverOK(c)
  BY DEF Init, StreamOK, CoverOK, Orderly, Sorted, Before, UpTo
<1> QED BY Zenon, <1>1, <1>2, <1>3 DEF BroadcastInv

(* A connection that a step leaves alone keeps its promises, if the step   *)
(* numbers and fans out nothing.                                           *)
Same(c) ==
  /\ phase'[c] = phase[c] /\ send'[c] = send[c] /\ lost'[c] = lost[c] /\ got'[c] = got[c]
  /\ base'[c] = base[c] /\ read'[c] = read[c] /\ since'[c] = since[c]

LEMMA SameKept ==
  ASSUME NEW c \in Conns, Same(c), StreamOK(c), CoverOK(c),
         UNCHANGED <<seq, inflight, scopes>>
  PROVE  StreamOK(c)' /\ CoverOK(c)'
BY Zenon DEF Same, StreamOK, CoverOK, FannedOut, Has

(* The numbers fanned out are numbers given. *)
LEMMA FannedOutBound ==
  ASSUME TypeOK, InflightOK
  PROVE  FannedOut \in Nat /\ FannedOut <= seq
BY DEF TypeOK, InflightOK, FannedOut, Idle

(* The steps of one connection c, with what they do to it. *)
LEMMA ConnectionStep ==
  ASSUME BroadcastInv, NEW c \in Conns, UNCHANGED <<seq, inflight, scopes>>,
         TypeOK', \A d \in Conns \ {c} : Same(d), StreamOK(c)', CoverOK(c)'
  PROVE  BroadcastInv'
<1>1. InflightOK'
  BY Zenon DEF BroadcastInv, InflightOK
<1>2. ASSUME NEW d \in Conns PROVE StreamOK(d)' /\ CoverOK(d)'
  BY Zenon, SameKept DEF BroadcastInv
<1> QED BY Zenon, <1>1, <1>2 DEF BroadcastInv

(* authenticateConn. *)
LEMMA ConnectInv ==
  ASSUME BroadcastInv, NEW c \in Conns, NEW n \in (0..seq) \cup (0..maxEarlier), Connect(c, n)
  PROVE  BroadcastInv'
<1> USE DEF connVars, hubVars
<1>1. TypeOK'
  BY DEF BroadcastInv, TypeOK, Connect, Goto
<1>2. \A d \in Conns \ {c} : Same(d)
  BY Zenon DEF BroadcastInv, TypeOK, Connect, Goto, Same
<1>3. StreamOK(c)' /\ CoverOK(c)'
  BY Zenon DEF BroadcastInv, TypeOK, Connect, Goto, StreamOK, CoverOK
<1> QED BY Zenon, <1>1, <1>2, <1>3, ConnectionStep DEF Connect

(* The replay of missed events. *)
LEMMA ReplayInv ==
  ASSUME BroadcastInv, NEW c \in Conns, Replay(c)
  PROVE  BroadcastInv'
<1> USE DEF connVars, hubVars
<1>1. base[c] \in Nat /\ seq \in Nat /\ TypeOK /\ phase[c] = "authed"
  BY Zenon DEF BroadcastInv, TypeOK, Replay, Goto
<1> DEFINE ev == EventsSince(base[c])
<1>2. /\ ev \in Seq(Nat) /\ Orderly(ev, <<>>, seq)
      /\ \A k \in (base[c] + 1)..seq : Holds(ev, k)
  BY Zenon, <1>1, EventsSinceOrderly DEF Replay
<1>3. /\ got' = [got EXCEPT ![c] = ev] /\ read' = [read EXCEPT ![c] = seq]
      /\ phase' = [phase EXCEPT ![c] = "handshaken"]
      /\ UNCHANGED <<send, lost, listening, broadcast, seq, inflight, scopes, maxEarlier,
                     base, since>>
  BY Zenon DEF Replay, Goto
<1> HIDE DEF ev
<1>4. TypeOK'
  BY Zenon, <1>1, <1>2, <1>3 DEF TypeOK, Scopes
<1>5. \A d \in Conns \ {c} : Same(d)
  BY Zenon, <1>1, <1>3 DEF TypeOK, Same
<1>6. /\ got'[c] = ev /\ read'[c] = seq /\ phase'[c] = "handshaken" /\ send'[c] = <<>>
      /\ base'[c] = base[c]
  BY Zenon, <1>1, <1>3 DEF TypeOK, BroadcastInv, StreamOK
<1>7. StreamOK(c)'
  BY Zenon, <1>2, <1>3, <1>6 DEF StreamOK
<1>8. CoverOK(c)'
  BY <1>1, <1>2, <1>3, <1>6 DEF CoverOK, Has
<1> QED BY Zenon, <1>3, <1>4, <1>5, <1>7, <1>8, ConnectionStep

(* The ready payload. *)
LEMMA ReadyInv ==
  ASSUME BroadcastInv, NEW c \in Conns, Ready(c)
  PROVE  BroadcastInv'
<1> USE DEF connVars, hubVars
<1>1. TypeOK'
  BY Zenon DEF BroadcastInv, TypeOK, Ready, Goto
<1>2. \A d \in Conns \ {c} : Same(d)
  BY Zenon DEF BroadcastInv, TypeOK, Ready, Goto, Same
<1>3. StreamOK(c)' /\ CoverOK(c)'
  BY DEF BroadcastInv, TypeOK, Ready, Goto, StreamOK, CoverOK
<1> QED BY Zenon, <1>1, <1>2, <1>3, ConnectionStep DEF Ready

(* registerNow: what is fanned out from now on has a greater number than   *)
(* the last one given, or is the one in flight.                            *)
LEMMA RegisterInv ==
  ASSUME BroadcastInv, NEW c \in Conns, registerNow(c)
  PROVE  BroadcastInv'
<1> USE DEF connVars, hubVars
<1>1. TypeOK'
  BY Zenon DEF BroadcastInv, TypeOK, registerNow, Goto
<1>2. \A d \in Conns \ {c} : Same(d)
  BY Zenon DEF BroadcastInv, TypeOK, registerNow, Goto, Same
<1>3. StreamOK(c)'
  BY Zenon DEF BroadcastInv, TypeOK, registerNow, Goto, StreamOK
<1>4. FannedOut \in Nat /\ FannedOut <= seq /\ seq \in Nat /\ FannedOut' = FannedOut
  BY Zenon, FannedOutBound DEF BroadcastInv, registerNow, FannedOut, TypeOK
<1>5. phase[c] = "handshaken" /\ since'[c] = seq /\ CoverOK(c) /\ lost' = lost /\ read' = read
      /\ base' = base /\ scopes' = scopes /\ seq' = seq /\ got' = got /\ send' = send
  BY Zenon DEF BroadcastInv, TypeOK, registerNow, Goto
<1>6. CoverOK(c)'
  BY <1>4, <1>5 DEF CoverOK, Has
<1> QED BY Zenon, <1>1, <1>2, <1>3, <1>6, ConnectionStep DEF registerNow

(* The end of a connection. *)
LEMMA LeaveInv ==
  ASSUME BroadcastInv, NEW c \in Conns, LeaveMap(c) \/ Disconnect(c)
  PROVE  BroadcastInv'
<1> USE DEF connVars, hubVars, history
<1>1. CASE LeaveMap(c)
  <2>1. TypeOK'
    BY Zenon, <1>1 DEF BroadcastInv, TypeOK, LeaveMap, Goto
  <2>2. \A d \in Conns \ {c} : Same(d)
    BY Zenon, <1>1 DEF BroadcastInv, TypeOK, LeaveMap, Goto, Same
  <2>3. StreamOK(c)' /\ CoverOK(c)'
    BY Zenon, <1>1 DEF BroadcastInv, TypeOK, LeaveMap, Goto, StreamOK, CoverOK
  <2> QED BY Zenon, <1>1, <2>1, <2>2, <2>3, ConnectionStep DEF LeaveMap
<1>2. CASE Disconnect(c)
  <2>1. TypeOK'
    BY SMTT(30), <1>2, BuffersAssumption DEF BroadcastInv, TypeOK, Disconnect
  <2>2. \A d \in Conns \ {c} : Same(d)
    BY Zenon, <1>2 DEF BroadcastInv, TypeOK, Disconnect, Same
  <2>3. /\ phase'[c] = "out" /\ send'[c] = <<>> /\ got'[c] = <<>> /\ read'[c] = 0
        /\ seq' \in Nat
    BY Zenon, <1>2 DEF BroadcastInv, TypeOK, Disconnect
  <2>4. StreamOK(c)' /\ CoverOK(c)'
    BY <2>3 DEF StreamOK, CoverOK, Orderly, Sorted, Before, UpTo
  <2> QED BY Zenon, <1>2, <2>1, <2>2, <2>4, ConnectionStep DEF Disconnect
<1> QED BY Zenon, <1>1, <1>2

-----------------------------------------------------------------------------
(* sendMsg of an unnumbered message, and writePump. *)
LEMMA QueueInv ==
  ASSUME BroadcastInv, NEW c \in Conns, SendToUser(c) \/ WriteMsg(c)
  PROVE  BroadcastInv'
<1> USE DEF hubVars, history
<1>1. TypeOK /\ StreamOK(c) /\ CoverOK(c)
  BY Zenon DEF BroadcastInv
<1>2. /\ got[c] \in Seq(Nat) /\ send[c] \in Seq(Nat) /\ seq \in Nat /\ Len(send[c]) \in Nat
      /\ Orderly(got[c], send[c], seq)
  BY Zenon, <1>1, LenProperties DEF TypeOK, StreamOK
<1>3. CASE SendToUser(c)
  <2>1. /\ Append(send[c], 0) \in Seq(Nat) /\ Orderly(got[c], Append(send[c], 0), seq)
        /\ \A k : Holds(send[c], k) => Holds(Append(send[c], 0), k)
    BY Zenon, <1>2, SentOrderly
  <2>2. Len(Append(send[c], 0)) = Len(send[c]) + 1
    BY <1>2, AppendProperties
  <2>3. PICK q : q = Sent(c, 0)
    OBVIOUS
  <2>4. /\ q \in Seq(Nat) /\ Len(q) <= SendBuf /\ Orderly(got[c], q, seq)
        /\ \A k : Holds(send[c], k) => Holds(q, k)
    BY <1>1, <1>2, <2>1, <2>2, <2>3, BuffersAssumption DEF Sent, Fits, TypeOK
  <2>5. /\ send' = [send EXCEPT ![c] = q] /\ lost' = [lost EXCEPT ![c] = lost[c] \/ ~Fits(c)]
        /\ phase[c] = "in"
        /\ UNCHANGED <<phase, listening, broadcast, seq, inflight, scopes, maxEarlier, base,
                       read, since, got>>
    BY Zenon, <1>3, <2>3 DEF SendToUser
  <2>6. \A d \in Conns \ {c} : Same(d)
    BY Zenon, <1>1, <2>5 DEF TypeOK, Same
  <2>7. /\ send'[c] = q /\ lost[c] => lost'[c] /\ lost' \in [Conns -> BOOLEAN]
        /\ send' \in [Conns -> Seq(Nat)] /\ \A d \in Conns : Len(send'[d]) <= SendBuf
    <3>1. send'[c] = q /\ send' \in [Conns -> Seq(Nat)] /\ \A d \in Conns : Len(send'[d]) <= SendBuf
      BY Zenon, <1>1, <2>4, <2>5 DEF TypeOK
    <3>2. lost' \in [Conns -> BOOLEAN] /\ (lost[c] => lost'[c])
      BY <1>1, <2>5, Zenon DEF TypeOK
    <3> QED BY Zenon, <3>1, <3>2
  <2>8. TypeOK'
    BY Zenon, <1>1, <2>5, <2>7 DEF TypeOK, Scopes
  <2>9. StreamOK(c)'
    BY Zenon, <2>4, <2>5, <2>7 DEF StreamOK
  <2>10. CoverOK(c)'
    BY Zenon, <1>1, <2>4, <2>5, <2>7 DEF CoverOK, Has, FannedOut
  <2> QED BY Zenon, <2>5, <2>6, <2>8, <2>9, <2>10, ConnectionStep
<1>4. CASE WriteMsg(c)
  <2>1. PICK u : u = IF Head(send[c]) = 0 THEN got[c] ELSE Append(got[c], Head(send[c]))
    BY Zenon
  <2>2. PICK q : q = Tail(send[c])
    BY Zenon
  <2>3. /\ u \in Seq(Nat) /\ q \in Seq(Nat) /\ Len(q) <= Len(send[c]) /\ Orderly(u, q, seq)
        /\ \A k \in Nat \ {0} :
             Holds(got[c], k) \/ Holds(send[c], k) => Holds(u, k) \/ Holds(q, k)
    <3>1. send[c] # <<>>
      BY Zenon, <1>4 DEF WriteMsg
    <3> QED BY <1>2, <2>1, <2>2, <3>1, WrittenOrderly, Zenon
  <2>4. /\ send' = [send EXCEPT ![c] = q] /\ got' = [got EXCEPT ![c] = u]
        /\ phase[c] \in {"in", "closing"}
        /\ UNCHANGED <<phase, lost, listening, broadcast, seq, inflight, scopes, maxEarlier,
                       base, read, since>>
    BY Zenon, <1>4, <2>1, <2>2 DEF WriteMsg
  <2>5. \A d \in Conns \ {c} : Same(d)
    BY Zenon, <1>1, <2>4 DEF TypeOK, Same
  <2>6. send'[c] = q /\ got'[c] = u
    BY Zenon, <1>1, <2>4 DEF TypeOK
  <2>7. Len(q) <= SendBuf
    BY <1>1, <1>2, <2>3, BuffersAssumption, LenProperties DEF TypeOK
  <2>8. TypeOK'
    BY Zenon, <1>1, <2>3, <2>4, <2>7 DEF TypeOK, Scopes
  <2>9. StreamOK(c)'
    BY Zenon, <2>3, <2>4, <2>6 DEF StreamOK
  <2>10. CoverOK(c)'
    <3>1. \A k \in Nat \ {0} : Has(c, k) => Has(c, k)'
      BY Zenon, <2>3, <2>6 DEF Has
    <3>2. /\ \A k \in (since[c] + 1)..FannedOut : k \in Nat \ {0}
          /\ \A k \in (base[c] + 1)..read[c] : k \in Nat \ {0}
      BY <1>1, FannedOutBound DEF BroadcastInv, TypeOK
    <3>3. FannedOut' = FannedOut
      BY Zenon, <2>4 DEF FannedOut
    <3> QED BY Zenon, <1>1, <2>4, <3>1, <3>2, <3>3 DEF CoverOK
  <2> QED BY Zenon, <2>4, <2>5, <2>8, <2>9, <2>10, ConnectionStep
<1> QED BY Zenon, <1>3, <1>4

(* Steps that only change who listens where, or what waits for Hub.Run. *)
LEMMA WaitingInv ==
  ASSUME BroadcastInv,
         \/ \E c \in Conns, chs \in SUBSET Channels : ChangeListening(c, chs)
         \/ \E scope \in Scopes : BroadcastToChannel(scope)
  PROVE  BroadcastInv'
<1>1. /\ UNCHANGED <<phase, send, lost, seq, inflight, scopes, maxEarlier, base, read, since, got>>
      /\ listening' \in [Conns -> SUBSET Channels]
      /\ broadcast' \in Seq(Scopes) /\ Len(broadcast') <= BroadcastBuf
  <2>1. CASE \E c \in Conns, chs \in SUBSET Channels : ChangeListening(c, chs)
    BY <2>1 DEF BroadcastInv, TypeOK, ChangeListening, hubVars, history
  <2>2. ASSUME NEW scope \in Scopes, BroadcastToChannel(scope)
        PROVE  <1>1!1 /\ <1>1!2 /\ <1>1!3
    <3>1. broadcast \in Seq(Scopes) /\ Len(broadcast) \in Nat
      BY Zenon, LenProperties DEF BroadcastInv, TypeOK
    <3>2. Append(broadcast, scope) \in Seq(Scopes) /\ Len(Append(broadcast, scope)) = Len(broadcast) + 1
      BY Zenon, <3>1, AppendProperties
    <3> QED
      BY <2>2, <3>1, <3>2, BuffersAssumption
         DEF BroadcastInv, TypeOK, BroadcastToChannel, connVars, history
  <2> QED BY Zenon, <2>1, <2>2
<1>2. TypeOK'
  BY Zenon, <1>1 DEF BroadcastInv, TypeOK
<1>3. \A c \in Conns : Same(c)
  BY Zenon, <1>1 DEF Same
<1>4. InflightOK'
  BY Zenon, <1>1 DEF BroadcastInv, InflightOK
<1> QED BY Zenon, <1>1, <1>2, <1>3, <1>4, SameKept DEF BroadcastInv

(* nextSeq and Push: the number is given, nobody has the message yet. *)
LEMMA NumberInv ==
  ASSUME BroadcastInv, NumberAndStore
  PROVE  BroadcastInv'
<1> USE DEF connVars, history
<1>1. /\ broadcast \in Seq(Scopes) /\ scopes \in Seq(Scopes) /\ broadcast # <<>> /\ seq \in Nat
      /\ Len(scopes) = seq /\ Len(broadcast) \in Nat /\ Len(broadcast) <= BroadcastBuf
  BY Zenon, LenProperties DEF BroadcastInv, TypeOK, NumberAndStore
<1>2. PICK h : h = Head(broadcast)
  BY Zenon
<1>3. /\ h \in Scopes /\ Tail(broadcast) \in Seq(Scopes)
      /\ Len(Tail(broadcast)) = Len(broadcast) - 1
  BY Zenon, <1>1, <1>2, HeadTailProperties
<1>4. /\ Append(scopes, h) \in Seq(Scopes) /\ Len(Append(scopes, h)) = seq + 1
      /\ \A k \in 1..seq : Append(scopes, h)[k] = scopes[k]
      /\ Append(scopes, h)[seq + 1] = h
  BY <1>1, <1>3, AppendProperties
<1>5. /\ inflight = Idle /\ seq' = seq + 1 /\ inflight' = [scope |-> h, seq |-> seq + 1]
      /\ broadcast' = Tail(broadcast) /\ scopes' = Append(scopes, h)
      /\ UNCHANGED <<phase, send, lost, listening, maxEarlier, base, read, since, got>>
  BY Zenon, <1>2 DEF NumberAndStore
<1>6. TypeOK'
  <2>1. Len(broadcast') <= BroadcastBuf
    BY <1>1, <1>3, <1>5, BuffersAssumption
  <2>2. inflight' \in [scope : Scopes, seq : Nat] /\ seq' \in Nat
    BY <1>1, <1>3, <1>5
  <2>3. broadcast' \in Seq(Scopes) /\ scopes' \in Seq(Scopes) /\ Len(scopes') = seq'
    BY Zenon, <1>3, <1>4, <1>5
  <2> QED BY Zenon, <1>5, <2>1, <2>2, <2>3 DEF BroadcastInv, TypeOK
<1>7. InflightOK'
  BY <1>1, <1>4, <1>5 DEF InflightOK
<1>8. FannedOut = seq /\ FannedOut' = seq
  BY <1>1, <1>5 DEF FannedOut, Idle
<1>9. ASSUME NEW c \in Conns PROVE StreamOK(c)' /\ CoverOK(c)'
  <2>1. StreamOK(c) /\ CoverOK(c) /\ got[c] \in Seq(Nat) /\ send[c] \in Seq(Nat)
        /\ since[c] \in Nat /\ base[c] \in Nat /\ read[c] \in Nat
    BY Zenon DEF BroadcastInv, TypeOK
  <2>2. UpTo(got[c], seq + 1) /\ UpTo(send[c], seq + 1)
    <3>1. \A p \in 1..Len(got[c]) : got[c][p] \in Nat /\ got[c][p] <= seq
      BY Zenon, <2>1, ElementOfSeq DEF StreamOK, Orderly, UpTo
    <3>2. \A p \in 1..Len(send[c]) : send[c][p] \in Nat /\ send[c][p] <= seq
      BY Zenon, <2>1, ElementOfSeq DEF StreamOK, Orderly, UpTo
    <3> QED BY <1>1, <3>1, <3>2 DEF UpTo
  <2>3. StreamOK(c)'
    BY Zenon, <1>5, <2>1, <2>2 DEF StreamOK, Orderly
  <2>4. read[c] <= seq
    BY Zenon, <2>1 DEF CoverOK
  <2>5. /\ \A k \in (since[c] + 1)..seq : scopes'[k] = scopes[k]
        /\ \A k \in (base[c] + 1)..read[c] : scopes'[k] = scopes[k]
    <3>1. /\ \A k \in (since[c] + 1)..seq : k \in 1..seq
          /\ \A k \in (base[c] + 1)..read[c] : k \in 1..seq
      BY <1>1, <2>1, <2>4
    <3> QED BY <1>4, <1>5, <3>1, Zenon
  <2>6. \A k : Has(c, k)' <=> Has(c, k)
    BY Zenon, <1>5 DEF Has
  <2>7. read[c] <= seq + 1
    BY <1>1, <2>1, <2>4
  <2>8. CoverOK(c)'
    BY <1>5, <1>8, <2>1, <2>5, <2>6, <2>7, Zenon DEF CoverOK
  <2> QED BY Zenon, <2>3, <2>8
<1> QED BY Zenon, <1>6, <1>7, <1>9 DEF BroadcastInv

(* The second half of deliverBroadcast: whoever is in the map has the      *)
(* message, or has its loss recorded.                                      *)
LEMMA FanOutInv ==
  ASSUME BroadcastInv, FanOut
  PROVE  BroadcastInv'
<1> USE DEF history
<1>1. /\ TypeOK /\ seq \in Nat /\ seq > 0 /\ inflight # Idle /\ inflight.seq = seq
      /\ inflight.scope = scopes[seq] /\ inflight' = Idle
      /\ UNCHANGED <<phase, listening, broadcast, seq, scopes, maxEarlier, base, read, since, got>>
  BY Zenon DEF BroadcastInv, TypeOK, InflightOK, FanOut
<1>2. FannedOut = seq - 1 /\ FannedOut' = seq
  BY Zenon, <1>1 DEF FannedOut, Idle
<1>3. ASSUME NEW c \in Conns
      PROVE  /\ send'[c] \in Seq(Nat) /\ Len(send'[c]) <= SendBuf /\ StreamOK(c)' /\ CoverOK(c)'
  <2>1. /\ got[c] \in Seq(Nat) /\ send[c] \in Seq(Nat) /\ Orderly(got[c], send[c], seq)
        /\ Len(send[c]) \in Nat /\ Len(send[c]) <= SendBuf /\ StreamOK(c) /\ CoverOK(c)
        /\ since[c] \in Nat /\ base[c] \in Nat /\ read[c] \in Nat
    BY Zenon, LenProperties DEF BroadcastInv, TypeOK, StreamOK
  <2>2. PICK q : q = Append(send[c], seq)
    BY Zenon
  <2>3. /\ q \in Seq(Nat) /\ Orderly(got[c], q, seq) /\ Holds(q, seq)
        /\ \A k : Holds(send[c], k) => Holds(q, k)
    BY Zenon, <1>1, <2>1, <2>2, SentOrderly
  <2>4. Len(q) = Len(send[c]) + 1
    BY <1>1, <2>1, <2>2, AppendProperties
  <2>5. /\ send'[c] = IF Addressed(c) /\ Fits(c) THEN q ELSE send[c]
        /\ lost'[c] <=> (lost[c] \/ (Addressed(c) /\ ~Fits(c)))
    BY <1>1, <2>2, Zenon DEF FanOut, Sent
  <2>6. /\ send'[c] \in Seq(Nat) /\ Len(send'[c]) <= SendBuf /\ Orderly(got[c], send'[c], seq)
        /\ \A k : Holds(send[c], k) => Holds(send'[c], k)
    BY <2>1, <2>3, <2>4, <2>5, BuffersAssumption DEF Fits
  <2>7. StreamOK(c)'
    BY Zenon, <1>1, <2>1, <2>5, <2>6 DEF StreamOK, Addressed
  <2>8. \A k : Has(c, k) => Has(c, k)'
    BY Zenon, <1>1, <2>6 DEF Has
  <2>9. phase[c] = "in" /\ ~lost'[c] /\ scopes[seq] = All => Has(c, seq)'
    BY Zenon, <1>1, <2>3, <2>5 DEF Has, Addressed
  <2>10. \A k \in (since[c] + 1)..seq : k \in (since[c] + 1)..(seq - 1) \/ k = seq
    BY <1>1, <2>1
  <2>11. CoverOK(c)'
    BY Zenon, <1>1, <1>2, <2>1, <2>5, <2>8, <2>9, <2>10 DEF CoverOK
  <2> QED BY Zenon, <2>6, <2>7, <2>11
<1>4. TypeOK'
  <2>1. send' \in [Conns -> Seq(Nat)] /\ \A c \in Conns : Len(send'[c]) <= SendBuf
    BY Zenon, <1>3 DEF FanOut
  <2>2. lost' \in [Conns -> BOOLEAN]
    BY <1>1, Zenon DEF FanOut, TypeOK
  <2>3. inflight' \in [scope : Scopes, seq : Nat]
    BY Zenon, <1>1 DEF Idle, Scopes
  <2> QED BY Zenon, <1>1, <2>1, <2>2, <2>3 DEF TypeOK
<1>5. InflightOK'
  BY Zenon, <1>1 DEF InflightOK
<1> QED BY Zenon, <1>3, <1>4, <1>5 DEF BroadcastInv

(* A new process. *)
LEMMA RestartInv ==
  ASSUME BroadcastInv, Restart
  PROVE  BroadcastInv'
<1>1. TypeOK'
  <2>1. inflight' \in [scope : Scopes, seq : Nat]
    BY Zenon DEF Restart, Idle, Scopes
  <2> QED BY <2>1, BuffersAssumption DEF BroadcastInv, TypeOK, Restart
<1>2. InflightOK'
  BY Zenon DEF Restart, InflightOK
<1>3. ASSUME NEW c \in Conns PROVE StreamOK(c)' /\ CoverOK(c)'
  BY DEF Restart, StreamOK, CoverOK, Orderly, Sorted, Before, UpTo
<1> QED BY Zenon, <1>1, <1>2, <1>3 DEF BroadcastInv

(* The inductive invariant, for every step. *)
THEOREM BroadcastInvariant == Spec => []BroadcastInv
<1>1. BroadcastInv /\ [Next]_vars => BroadcastInv'
  <2> SUFFICES ASSUME BroadcastInv, [Next]_vars PROVE BroadcastInv'
    OBVIOUS
  <2>1. ASSUME NEW c \in Conns, NEW n \in (0..seq) \cup (0..maxEarlier), Connect(c, n)
        PROVE  BroadcastInv'
    BY Zenon, <2>1, ConnectInv
  <2>2. ASSUME NEW c \in Conns, \/ Replay(c) \/ Ready(c) \/ registerNow(c) \/ LeaveMap(c)
                                \/ Disconnect(c) \/ SendToUser(c) \/ WriteMsg(c)
        PROVE  BroadcastInv'
    BY Zenon, <2>2, ReplayInv, ReadyInv, RegisterInv, LeaveInv, QueueInv
  <2>3. CASE \/ \E c \in Conns, chs \in SUBSET Channels : ChangeListening(c, chs)
             \/ \E scope \in Scopes : BroadcastToChannel(scope)
    BY Zenon, <2>3, WaitingInv
  <2>4. CASE NumberAndStore \/ FanOut \/ Restart
    BY Zenon, <2>4, NumberInv, FanOutInv, RestartInv
  <2>5. CASE UNCHANGED vars
    <3>1. UNCHANGED <<seq, inflight, scopes>> /\ \A c \in Conns : Same(c)
      BY Zenon, <2>5 DEF vars, connVars, hubVars, history, Same
    <3>2. TypeOK' /\ InflightOK'
      BY Zenon, <2>5 DEF vars, connVars, hubVars, history, BroadcastInv, TypeOK, InflightOK
    <3> QED BY Zenon, <3>1, <3>2, SameKept DEF BroadcastInv
  <2> QED BY Zenon, <2>1, <2>2, <2>3, <2>4, <2>5 DEF Next
<1> QED BY <1>1, InitBroadcastInv, PTL DEF Spec

(* Type correctness; no queue outgrows its channel. *)
THEOREM BroadcastTypeCorrect == Spec => []TypeOK
<1>1. BroadcastInv => TypeOK
  BY Zenon DEF BroadcastInv
<1> QED BY <1>1, BroadcastInvariant, PTL

(* deliverBroadcast and the replay of ServeWS send no client an older      *)
(* broadcast after a newer one, whatever the sizes of the buffers.         *)
THEOREM AlwaysInOrder == Spec => []InOrder
<1>1. BroadcastInv => InOrder
  BY Zenon, StreamOfParts DEF BroadcastInv, StreamOK, InOrder
<1> QED BY <1>1, BroadcastInvariant, PTL

(* A connected client without a recorded drop has every broadcast to all   *)
(* since its registration, and every one its replay was to bring.          *)
THEOREM NothingEverLostSilently == Spec => []NothingLostSilently
<1>1. BroadcastInv => NothingLostSilently
  <2> SUFFICES ASSUME BroadcastInv, NEW c \in Conns, phase[c] = "in", ~lost[c]
               PROVE  /\ Covered(c, (since[c] + 1) .. FannedOut)
                      /\ Covered(c, (base[c] + 1) .. read[c])
    BY Zenon DEF NothingLostSilently
  <2>1. \A k : Has(c, k) => \E p \in 1..Len(Stream(c)) : Stream(c)[p] = k
    BY Zenon, StreamOfParts DEF BroadcastInv, StreamOK
  <2> QED BY Zenon, <2>1 DEF BroadcastInv, CoverOK, Covered
<1> QED BY <1>1, BroadcastInvariant, PTL
-----------------------------------------------------------------------------
(* Uploads. *)

(* A row exists only after its upload is done, and a file waiting for its  *)
(* row is on disk; a row, linked or not, has its file unless it was linked *)
(* during the clean-up.                                                    *)
RowState ==
    /\ \A f \in Files : row[f] # NoRow => up[f] = "done"
    /\ \A f \in Files : up[f] = "saved" => f \in disk
    /\ \A f \in Files : row[f] # NoRow => f \in disk \union torn

(* What the SELECT returned is old and its upload is done.  If such a row  *)
(* has a message, it was linked since; after the DELETE none is unlinked.  *)
PickedState ==
    /\ picked # {} => loop \in {"delete", "remove"}
    /\ \A f \in picked : up[f] = "done" /\ (row[f] \in Messages => f \in torn)
    /\ loop = "delete" => \A f \in picked : Older(f)
    /\ loop = "remove" => \A f \in picked : row[f] # Null
    /\ loop # "wait" => failures < Breaker

UploadsInv == UploadsTypeOK /\ RowState /\ PickedState

(* At first there is nothing to describe or to clean up. *)
LEMMA InitUploadsInv == UploadsInit => UploadsInv
<1> SUFFICES ASSUME UploadsInit PROVE UploadsInv
  OBVIOUS
<1> USE UploadsAssumption DEF UploadsInit, NoRow, Null, Messages
<1>1. UploadsTypeOK
  <2>1. now \in 0 .. MaxTime /\ at \in [Files -> 0 .. MaxTime] /\ cutoff \in -1 .. MaxTime
    OBVIOUS
  <2>2. failures \in 0 .. Breaker /\ errors \in 0 .. MaxErrors
    OBVIOUS
  <2> QED
    BY Zenon, <2>1, <2>2 DEF UploadsTypeOK
<1>2. RowState
  BY Zenon DEF RowState
<1>3. PickedState
  BY Zenon DEF PickedState
<1> QED
  BY Zenon, <1>1, <1>2, <1>3 DEF UploadsInv

(* An upload keeps the invariant: its file is there before its row. *)
LEMMA UploadKeeps ==
  ASSUME UploadsInv, NEW f \in Files, Save(f) \/ CreateAttachment(f)
  PROVE  UploadsInv'
<1> USE UploadsAssumption DEF NoRow, Null, Messages, sends, maintenance, Fail
<1>1. UploadsTypeOK'
  <2>1. CASE Save(f)
    <3>1. errors' \in 0 .. MaxErrors
      BY <2>1 DEF UploadsInv, UploadsTypeOK, Save
    <3>2. up' \in [Files -> {"new", "saved", "done"}] /\ disk' \subseteq Files
      BY Zenon, <2>1 DEF UploadsInv, UploadsTypeOK, Save
    <3> QED
      BY Zenon, <2>1, <3>1, <3>2 DEF UploadsInv, UploadsTypeOK, Save
  <2>2. CASE CreateAttachment(f)
    <3>1. errors' \in 0 .. MaxErrors
      BY <2>2 DEF UploadsInv, UploadsTypeOK, CreateAttachment
    <3>2. up' \in [Files -> {"new", "saved", "done"}] /\ disk' \subseteq Files
      BY Zenon, <2>2 DEF UploadsInv, UploadsTypeOK, CreateAttachment
    <3>3. row' \in [Files -> {NoRow, Null} \union Messages] /\ at' \in [Files -> 0 .. MaxTime]
      <4>1. CASE row' = [row EXCEPT ![f] = Null] /\ at' = [at EXCEPT ![f] = now]
        BY Zenon, <4>1 DEF UploadsInv, UploadsTypeOK
      <4>2. CASE row' = row /\ at' = at
        BY Zenon, <4>2 DEF UploadsInv, UploadsTypeOK
      <4> QED
        BY Zenon, <2>2, <4>1, <4>2 DEF CreateAttachment
    <3> QED
      BY Zenon, <2>2, <3>1, <3>2, <3>3 DEF UploadsInv, UploadsTypeOK, CreateAttachment
  <2> QED
    BY Zenon, <2>1, <2>2
<1>2. RowState'
  <2>1. CASE Save(f)
    BY <2>1 DEF UploadsInv, UploadsTypeOK, RowState, Save
  <2>2. CASE CreateAttachment(f)
    BY <2>2 DEF UploadsInv, UploadsTypeOK, RowState, CreateAttachment
  <2> QED BY Zenon, <2>1, <2>2
<1>3. PickedState'
  <2>1. CASE Save(f)
    BY <2>1 DEF UploadsInv, UploadsTypeOK, RowState, PickedState, Save, Older, Day
  <2>2. CASE CreateAttachment(f)
    BY ZenonT(30), <2>2 DEF UploadsInv, UploadsTypeOK, RowState, PickedState, CreateAttachment, Older, Day
  <2> QED BY Zenon, <2>1, <2>2
<1> QED
  BY Zenon, <1>1, <1>2, <1>3 DEF UploadsInv

(* A message keeps the invariant: a link that meets a file the loop has    *)
(* picked is recorded.                                                     *)
LEMMA SendKeeps ==
  ASSUME UploadsInv, NEW m \in Messages, NEW fs \in SUBSET Files,
         CreateMessage(m, fs) \/ LinkAttachmentsToMessage(m) \/ DeleteUnlinked(m)
  PROVE  UploadsInv'
<1> USE UploadsAssumption DEF NoRow, Null, Messages, uploads, sends, maintenance, Fail
<1>1. UploadsTypeOK'
  <2>1. CASE CreateMessage(m, fs)
    BY Zenon, <2>1 DEF UploadsInv, UploadsTypeOK, CreateMessage
  <2>2. CASE LinkAttachmentsToMessage(m)
    BY <2>2 DEF UploadsInv, UploadsTypeOK, LinkAttachmentsToMessage
  <2>3. CASE DeleteUnlinked(m)
    BY <2>3 DEF UploadsInv, UploadsTypeOK, DeleteUnlinked
  <2> QED
    BY Zenon, <2>1, <2>2, <2>3
<1>2. RowState'
  BY DEF UploadsInv, UploadsTypeOK, RowState, CreateMessage, LinkAttachmentsToMessage, DeleteUnlinked
<1>3. PickedState'
  <2>1. CASE CreateMessage(m, fs) \/ DeleteUnlinked(m)
    BY Zenon, <2>1 DEF UploadsInv, UploadsTypeOK, PickedState, CreateMessage, DeleteUnlinked, Older, Day
  <2>2. CASE LinkAttachmentsToMessage(m)
    BY <2>2 DEF UploadsInv, UploadsTypeOK, PickedState, LinkAttachmentsToMessage, Older, Day
  <2> QED
    BY Zenon, <2>1, <2>2
<1> QED
  BY Zenon, <1>1, <1>2, <1>3 DEF UploadsInv

(* Maintenance keeps the invariant: after the DELETE what it picked has no *)
(* row, or one linked meanwhile.                                           *)
LEMMA MaintainKeeps ==
  ASSUME UploadsInv, Maintain PROVE UploadsInv'
<1> USE UploadsAssumption DEF NoRow, Null, Messages, uploads, sends, maintenance, Fail, Finish
<1>1. CASE Tick
  BY <1>1 DEF UploadsInv, UploadsTypeOK, RowState, PickedState, Tick, Older, Day
<1>2. CASE SelectOrphans
  <2>1. UploadsTypeOK'
    <3>1. errors' \in 0 .. MaxErrors /\ failures' \in 0 .. Breaker
      BY <1>2 DEF UploadsInv, UploadsTypeOK, PickedState, SelectOrphans
    <3>2. picked' \subseteq Files /\ disk' \subseteq Files /\ failed' \in BOOLEAN
      BY Zenon, <1>2 DEF UploadsInv, UploadsTypeOK, SelectOrphans, Orphans
    <3>3. row' \in [Files -> {NoRow, Null} \union Messages]
      BY Zenon, <1>2 DEF UploadsInv, UploadsTypeOK, SelectOrphans
    <3>4. loop' \in {"wait", "select", "delete", "remove"}
      BY Zenon, <1>2 DEF SelectOrphans
    <3> QED
      BY Zenon, <1>2, <3>1, <3>2, <3>3, <3>4 DEF UploadsInv, UploadsTypeOK, SelectOrphans
  <2>2. RowState'
    BY Zenon, <1>2 DEF UploadsInv, UploadsTypeOK, RowState, SelectOrphans
  <2>3. PickedState'
    BY <1>2 DEF UploadsInv, UploadsTypeOK, RowState, PickedState, SelectOrphans, Orphans, Older, Day
  <2> QED
    BY Zenon, <2>1, <2>2, <2>3 DEF UploadsInv
<1>3. CASE DeleteOrphans
  <2>1. UploadsTypeOK'
    <3>1. errors' \in 0 .. MaxErrors /\ failures' \in 0 .. Breaker
      BY <1>3 DEF UploadsInv, UploadsTypeOK, PickedState, DeleteOrphans
    <3>2. picked' \subseteq Files /\ disk' \subseteq Files /\ failed' \in BOOLEAN
      BY Zenon, <1>3 DEF UploadsInv, UploadsTypeOK, DeleteOrphans
    <3>3. row' \in [Files -> {NoRow, Null} \union Messages]
      BY Zenon, <1>3 DEF UploadsInv, UploadsTypeOK, DeleteOrphans
    <3>4. loop' \in {"wait", "select", "delete", "remove"}
      BY Zenon, <1>3 DEF DeleteOrphans
    <3> QED
      BY Zenon, <1>3, <3>1, <3>2, <3>3, <3>4 DEF UploadsInv, UploadsTypeOK, DeleteOrphans
  <2>2. RowState'
    BY Zenon, <1>3 DEF UploadsInv, UploadsTypeOK, RowState, DeleteOrphans
  <2>3. PickedState'
    BY <1>3 DEF UploadsInv, UploadsTypeOK, RowState, PickedState, DeleteOrphans, Orphans, Older, Day
  <2> QED
    BY Zenon, <2>1, <2>2, <2>3 DEF UploadsInv
<1>4. CASE RemoveFiles
  <2>1. UploadsTypeOK'
    <3>1. errors' \in 0 .. MaxErrors /\ failures' \in 0 .. Breaker
      BY <1>4 DEF UploadsInv, UploadsTypeOK, PickedState, RemoveFiles
    <3>2. picked' \subseteq Files /\ disk' \subseteq Files /\ failed' \in BOOLEAN
      BY Zenon, <1>4 DEF UploadsInv, UploadsTypeOK, RemoveFiles
    <3>3. row' \in [Files -> {NoRow, Null} \union Messages]
      BY Zenon, <1>4 DEF UploadsInv, UploadsTypeOK, RemoveFiles
    <3>4. loop' \in {"wait", "select", "delete", "remove"}
      BY Zenon, <1>4 DEF RemoveFiles
    <3> QED
      BY Zenon, <1>4, <3>1, <3>2, <3>3, <3>4 DEF UploadsInv, UploadsTypeOK, RemoveFiles
  <2>2. RowState'
    BY Zenon, <1>4 DEF UploadsInv, UploadsTypeOK, RowState, PickedState, RemoveFiles
  <2>3. PickedState'
    BY Zenon, <1>4 DEF UploadsInv, UploadsTypeOK, PickedState, RemoveFiles
  <2> QED
    BY Zenon, <2>1, <2>2, <2>3 DEF UploadsInv
<1> QED
  BY Zenon, <1>1, <1>2, <1>3, <1>4 DEF Maintain

(* Deleting a channel and the passing of time keep the invariant. *)
LEMMA OtherStepsKeep ==
  ASSUME UploadsInv, DeleteChannel \/ PassTime \/ UNCHANGED uploadsVars
  PROVE  UploadsInv'
<1> USE UploadsAssumption DEF NoRow, Null, Messages, uploads, sends, maintenance
<1>1. CASE DeleteChannel
  BY <1>1 DEF UploadsInv, UploadsTypeOK, RowState, PickedState, DeleteChannel, Older, Day
<1>2. CASE PassTime
  BY <1>2 DEF UploadsInv, UploadsTypeOK, RowState, PickedState, PassTime, Older, Day
<1>3. CASE UNCHANGED uploadsVars
  BY Zenon, <1>3 DEF UploadsInv, UploadsTypeOK, RowState, PickedState, uploadsVars, Older, Day
<1> QED
  BY Zenon, <1>1, <1>2, <1>3

(* UploadsInv holds in every reachable state. *)
THEOREM UploadsInvariant == UploadsSpec => []UploadsInv
<1>1. UploadsInv /\ [UploadsNext]_uploadsVars => UploadsInv'
  BY Zenon, UploadKeeps, SendKeeps, MaintainKeeps, OtherStepsKeep DEF UploadsNext
<1> QED
  BY <1>1, InitUploadsInv, PTL DEF UploadsSpec

(* Every variable keeps its type; the failure counter stays at or below    *)
(* the circuit breaker's limit.                                            *)
THEOREM UploadsTypeCorrect == UploadsSpec => []UploadsTypeOK
<1>1. UploadsInv => UploadsTypeOK
  BY Zenon DEF UploadsInv
<1> QED
  BY <1>1, UploadsInvariant, PTL

(* An attachment of a message has its file, unless it was linked between   *)
(* the maintenance loop's SELECT and DELETE.                               *)
THEOREM LinkedAlwaysHasFile == UploadsSpec => []LinkedHasFile
<1>1. UploadsInv => LinkedHasFile
  BY UploadsAssumption DEF UploadsInv, RowState, LinkedHasFile, Messages, NoRow
<1> QED
  BY <1>1, UploadsInvariant, PTL

(* No attachment ever moves from one message to another. *)
THEOREM AlwaysLinkedOnce == UploadsSpec => LinkedOnce
<1>1. UploadsInv /\ [UploadsNext]_uploadsVars
        => [\A f \in Files : row[f] \in Messages => row'[f] \in {row[f], NoRow}]_uploadsVars
  <2> SUFFICES ASSUME UploadsInv, UploadsNext, NEW f \in Files, row[f] \in Messages
               PROVE  row'[f] \in {row[f], NoRow}
    OBVIOUS
  <2> USE UploadsAssumption DEF NoRow, Null, Messages, maintenance, uploads, sends
  <2>1. ASSUME NEW g \in Files, Save(g) \/ CreateAttachment(g)
        PROVE  row'[f] \in {row[f], NoRow}
    BY <2>1 DEF UploadsInv, UploadsTypeOK, RowState, PickedState, Save, CreateAttachment
  <2>2. ASSUME NEW m \in Messages, NEW fs \in SUBSET Files,
               CreateMessage(m, fs) \/ LinkAttachmentsToMessage(m) \/ DeleteUnlinked(m)
        PROVE  row'[f] \in {row[f], NoRow}
    BY <2>2 DEF UploadsInv, UploadsTypeOK, CreateMessage, LinkAttachmentsToMessage, DeleteUnlinked
  <2>3. CASE DeleteChannel \/ Maintain \/ PassTime
    BY Zenon, <2>3 DEF UploadsInv, UploadsTypeOK, DeleteChannel, Maintain, Tick, SelectOrphans,
       DeleteOrphans, RemoveFiles, PassTime, Orphans
  <2> QED
    BY Zenon, <2>1, <2>2, <2>3 DEF UploadsNext
<1> QED
  BY <1>1, UploadsInvariant, PTL DEF UploadsSpec, LinkedOnce
-----------------------------------------------------------------------------
(* Migrate. *)

(* What schema_versions says is true, up to the files an older database is *)
(* assumed to contain; nothing is recorded before there is a table.        *)
Recorded ==
  /\ legacy <= files
  /\ ~table => recorded = {}
  /\ \A m \in 1..N : m <= legacy => runs[m] > 0
  /\ \A m \in recorded : runs[m] > 0 \/ (0 < legacy /\ legacy < m)

(* Unless seeding was cut short, what has been executed is recorded or     *)
(* predates tracking, and was executed once.                               *)
Once ==
  ~interrupted => \A m \in 1..N : runs[m] <= 1 /\ (legacy < m /\ runs[m] = 1 => m \in recorded)

(* The table of an older database lists its files, unless seeding was cut  *)
(* short or is about to happen.                                            *)
Seeded ==
  ~interrupted => \/ ~table
                  \/ pc \in {"decide", "seed"} /\ ~svExists
                  \/ 1..legacy \subseteq recorded

(* What the local variables of MigrateFS stand for. *)
Locals ==
  /\ interrupted => legacy > 0
  /\ pc = "ensure" => svExists = table
  /\ pc \in {"decide", "seed", "apply", "up"} => table
  /\ pc = "decide" /\ ~svExists => recorded = {}
  /\ pc = "seed" => legacy > 0 /\ ~svExists
  /\ pc \in {"seed", "apply"} => i <= files + 1 /\ 1..(i - 1) \subseteq recorded
  /\ pc = "up" => 1..files \subseteq recorded

MigrateInv == MigrateTypeOK /\ Recorded /\ Once /\ Seeded /\ Locals

(* A new database, or an older one whose files ran once. *)
LEMMA InitMigrateInv == MigrateInit => MigrateInv
<1> SUFFICES ASSUME MigrateInit PROVE MigrateInv
  OBVIOUS
<1> USE NAssumption DEF MigrateInit
<1>1. MigrateTypeOK
  <2>1. runs \in [1..N -> Nat]
    <3>1. \A m \in 1..N : (IF m <= legacy THEN 1 ELSE 0) \in Nat
      OBVIOUS
    <3> QED BY Zenon, <3>1
  <2>2. files \in 1..N /\ legacy \in 0..N /\ i \in 1..(N + 1)
    OBVIOUS
  <2> QED BY Zenon, <2>1, <2>2 DEF MigrateTypeOK
<1>2. \A m \in 1..N : runs[m] = IF m <= legacy THEN 1 ELSE 0
  OBVIOUS
<1>3. Recorded /\ Once
  BY <1>2 DEF Recorded, Once
<1>4. Seeded /\ Locals
  BY Zenon DEF Seeded, Locals
<1> QED BY Zenon, <1>1, <1>3, <1>4 DEF MigrateInv

(* Every step of MigrateFS, every death and every installation keeps it. *)
LEMMA NextMigrateInv == MigrateInv /\ [MigrateNext]_migrateVars => MigrateInv'
<1> SUFFICES ASSUME MigrateInv, [MigrateNext]_migrateVars PROVE MigrateInv'
  OBVIOUS
<1> USE NAssumption DEF MigrateInv, MigrateTypeOK, GoOn, db
<1>1. CASE StartProcess
  BY Zenon, <1>1 DEF StartProcess, Recorded, Once, Seeded, Locals
<1>2. CASE schemaVersionsExists
  BY Zenon, <1>2 DEF schemaVersionsExists, Recorded, Once, Seeded, Locals
<1>3. CASE ensureSchemaVersions
  BY Zenon, <1>3 DEF ensureSchemaVersions, Recorded, Once, Seeded, Locals
<1>4. CASE DecideSeeding
  <2>1. MigrateTypeOK' /\ Recorded' /\ Once'
    BY <1>4 DEF DecideSeeding, Recorded, Once
  <2>2. Seeding => legacy > 0 /\ ~svExists
    BY <1>4 DEF DecideSeeding, Seeding, isExistingDatabase, Recorded, Once, Locals
  <2>3. ~Seeding => svExists \/ legacy = 0
    BY DEF Seeding, isExistingDatabase, Recorded
  <2>4. Seeded' /\ Locals'
    BY <1>4, <2>2, <2>3 DEF DecideSeeding, Seeded, Locals
  <2> QED BY Zenon, <2>1, <2>4
<1>5. CASE seedExistingDatabase
  <2>1. CASE i <= files
    <3>1. /\ recorded' = recorded \cup {i} /\ i' = i + 1 /\ pc = "seed" /\ pc' = "seed"
          /\ UNCHANGED <<files, svExists, table, runs, legacy, interrupted, crashes>>
      BY Zenon, <1>5, <2>1 DEF seedExistingDatabase
    <3>2. MigrateTypeOK'
      BY <2>1, <3>1
    <3>3. Recorded'
      BY <2>1, <3>1 DEF Recorded, Locals
    <3>4. Once' /\ Seeded'
      BY Zenon, <3>1 DEF Once, Seeded, Locals
    <3>5. Locals'
      BY <2>1, <3>1 DEF Locals
    <3> QED BY Zenon, <3>2, <3>3, <3>4, <3>5
  <2>2. CASE ~(i <= files)
    <3>1. i = files + 1 /\ 1..files \subseteq recorded /\ legacy <= files
      BY <1>5, <2>2 DEF seedExistingDatabase, Locals, Recorded
    <3>2. pc' = "up" /\ UNCHANGED <<recorded, i, files, svExists, table, runs, legacy, interrupted, crashes>>
      BY Zenon, <1>5, <2>2 DEF seedExistingDatabase
    <3>3. MigrateTypeOK' /\ Recorded' /\ Once'
      BY Zenon, <3>2 DEF Recorded, Once
    <3>4. Seeded' /\ Locals'
      BY <1>5, <3>1, <3>2 DEF seedExistingDatabase, Seeded, Locals
    <3> QED BY Zenon, <3>3, <3>4
  <2> QED BY Zenon, <2>1, <2>2
<1>6. CASE SkipApplied
  BY <1>6 DEF SkipApplied, Recorded, Once, Seeded, Locals
<1>7. CASE ApplyMigration
  <2>1. pc = "apply" /\ i \in 1..files /\ i \notin recorded /\ table
    BY <1>7 DEF ApplyMigration, Locals
  <2>2. CASE runs[i] = 0 \/ i \in Repeatable
    <3>1. /\ runs' = [runs EXCEPT ![i] = @ + 1] /\ recorded' = recorded \cup {i}
          /\ i' = i + 1 /\ pc' = "apply"
          /\ UNCHANGED <<files, svExists, table, legacy, interrupted, crashes>>
      BY Zenon, <1>7, <2>2 DEF ApplyMigration
    <3>2. ~interrupted => legacy < i /\ runs[i] = 0
      BY <2>1 DEF Once, Seeded
    <3>3. MigrateTypeOK' /\ Recorded'
      BY <2>1, <3>1 DEF Recorded
    <3>4. Once'
      BY <2>1, <3>1, <3>2 DEF Once
    <3>5. Seeded' /\ Locals'
      BY <2>1, <3>1 DEF Seeded, Locals
    <3> QED BY Zenon, <3>3, <3>4, <3>5
  <2>3. CASE ~(runs[i] = 0 \/ i \in Repeatable)
    BY Zenon, <1>7, <2>1, <2>3 DEF ApplyMigration, Recorded, Once, Seeded, Locals
  <2> QED BY Zenon, <2>2, <2>3
<1>8. CASE Crash
  <2> pc \in {"decide", "seed"} /\ Seeding => legacy > 0
    BY DEF Seeding, isExistingDatabase, Recorded, Once, Locals
  <2>1. MigrateTypeOK' /\ Recorded' /\ Once' /\ Locals'
    BY <1>8 DEF Crash, Recorded, Once, Locals
  <2>2. Seeded'
    <3>1. SUFFICES ASSUME ~interrupted', table, ~(1..legacy \subseteq recorded) PROVE FALSE
      BY Zenon, <1>8 DEF Crash, Seeded
    <3>2. ~interrupted /\ ~(pc \in {"decide", "seed"} /\ Seeding)
      BY Zenon, <1>8, <3>1 DEF Crash
    <3>3. pc \in {"decide", "seed"} /\ ~svExists
      BY Zenon, <3>1, <3>2 DEF Seeded
    <3>4. legacy > 0
      BY <3>1
    <3>5. runs[1] > 0
      BY <3>4 DEF Recorded
    <3> QED BY Zenon, <3>2, <3>3, <3>5 DEF Seeding, isExistingDatabase
  <2> QED BY Zenon, <2>1, <2>2
<1>9. CASE Install
  BY <1>9 DEF Install, Recorded, Once, Seeded, Locals
<1>10. CASE UNCHANGED migrateVars
  BY Zenon, <1>10 DEF migrateVars, Recorded, Once, Seeded, Locals
<1> QED BY Zenon, <1>1, <1>2, <1>3, <1>4, <1>5, <1>6, <1>7, <1>8, <1>9, <1>10
        DEF MigrateNext, MigrateStep, Serve

(* The inductive invariant holds throughout. *)
THEOREM MigrateInvariant == MigrateSpec => []MigrateInv
BY InitMigrateInv, NextMigrateInv, PTL DEF MigrateSpec

(* Type correctness of the migration runner and its table. *)
THEOREM MigrateTypeCorrect == MigrateSpec => []MigrateTypeOK
<1>1. MigrateInv => MigrateTypeOK
  BY Zenon DEF MigrateInv
<1> QED BY <1>1, MigrateInvariant, PTL

(* MigrateFS executes no file twice, wherever the process dies, unless it  *)
(* dies while seeding.                                                     *)
THEOREM AlwaysAppliedOnce == MigrateSpec => []AppliedOnce
<1>1. MigrateInv => AppliedOnce
  BY Zenon DEF MigrateInv, Once, AppliedOnce
<1> QED BY <1>1, MigrateInvariant, PTL

(* A serving process has a database that has all files of its release. *)
THEOREM AlwaysServesMigrated == MigrateSpec => []ServesMigrated
<1>1. MigrateInv => ServesMigrated
  BY Zenon DEF MigrateInv, Locals, Recorded, ServesMigrated
<1> QED BY <1>1, MigrateInvariant, PTL
-----------------------------------------------------------------------------
(* LiveKitProcess. *)

(* A child is alive exactly while cmd.Run waits for it, a command is       *)
(* registered exactly from the check of p.stopped to the end of the run,   *)
(* and loopDone is closed exactly when the loop has ended.                 *)
LoopState ==
    /\ child <=> runLoop = "run"
    /\ running <=> runLoop \in {"exec", "fork", "run", "returned"}
    /\ loopDone <=> runLoop = "done"

(* Stop sets p.stopped first; a Stop that returned without a timeout saw   *)
(* loopDone closed; the counter has room for one more failure wherever the *)
(* loop has not given up.                                                  *)
StopState ==
    /\ stop # "idle" <=> stopped
    /\ stop = "returned" /\ ~late => loopDone
    /\ runLoop \notin {"exit", "done"} => rapid < MaxRetries

SupervisorInv == SupervisorTypeOK /\ LoopState /\ StopState

(* The supervisor starts with no child, no command and no Stop. *)
LEMMA InitSupervisorInv == SupervisorInit => SupervisorInv
<1> SUFFICES ASSUME SupervisorInit PROVE SupervisorInv
  OBVIOUS
<1>1. SupervisorTypeOK
  <2>1. rapid \in 0 .. MaxRetries /\ delay \in BaseDelay .. MaxDelay
    BY DelaysAssumption DEF SupervisorInit
  <2> QED
    BY Zenon, <2>1 DEF SupervisorInit, SupervisorTypeOK
<1>2. LoopState
  BY Zenon DEF SupervisorInit, LoopState
<1>3. StopState
  BY DelaysAssumption DEF SupervisorInit, StopState
<1> QED
  BY Zenon, <1>1, <1>2, <1>3 DEF SupervisorInv

(* The doubled and capped delay stays between its bounds. *)
LEMMA DelayBounded ==
  ASSUME NEW d \in BaseDelay .. MaxDelay
  PROVE  Lesser(2 * d, MaxDelay) \in BaseDelay .. MaxDelay
  BY SMTT(30), DelaysAssumption DEF Lesser

(* Every step of runLoop, of the child and of Stop keeps the invariant. *)
LEMMA NextSupervisorInv == SupervisorInv /\ [SupervisorNext]_supervisorVars => SupervisorInv'
<1> SUFFICES ASSUME SupervisorInv, [SupervisorNext]_supervisorVars PROVE SupervisorInv'
  OBVIOUS
<1> USE DelaysAssumption DEF SupervisorInv, SupervisorTypeOK, LoopState, StopState, locals, stopVars
<1>1. CASE Start
  BY Zenon, <1>1 DEF Start
<1>2. CASE Top
  BY Zenon, <1>2 DEF Top
<1>3. CASE Register
  BY Zenon, <1>3 DEF Register
<1>4. CASE Exec
  BY Zenon, <1>4 DEF Exec
<1>5. CASE Fork
  <2>1. CASE runLoop' = "run" /\ child' = TRUE
    BY Zenon, <1>5, <2>1 DEF Fork
  <2>2. CASE runLoop' = "returned" /\ child' = child
    BY Zenon, <1>5, <2>2 DEF Fork
  <2> QED
    BY Zenon, <1>5, <2>1, <2>2 DEF Fork
<1>6. CASE ChildExits
  BY Zenon, <1>6 DEF ChildExits
<1>7. CASE RunReturned
  BY Zenon, <1>7 DEF RunReturned
<1>8. CASE Decide
  BY <1>8 DEF Decide
<1>9. CASE WaitOver
  <2>1. delay' \in BaseDelay .. MaxDelay
    BY Zenon, <1>9, DelayBounded DEF WaitOver
  <2> QED
    BY Zenon, <1>9, <2>1 DEF WaitOver
<1>10. CASE WaitCancelled
  BY Zenon, <1>10 DEF WaitCancelled
<1>11. CASE Exit
  BY Zenon, <1>11 DEF Exit
<1>12. CASE StopBegin
  BY Zenon, <1>12 DEF StopBegin
<1>13. CASE StopCancel
  BY Zenon, <1>13 DEF StopCancel
<1>14. CASE StopWaitRun
  BY Zenon, <1>14 DEF StopWaitRun
<1>15. CASE StopWaitLoop
  BY Zenon, <1>15 DEF StopWaitLoop
<1>16. CASE UNCHANGED supervisorVars
  BY <1>16 DEF supervisorVars
<1> QED
  BY ZenonT(30), <1>1, <1>2, <1>3, <1>4, <1>5, <1>6, <1>7, <1>8, <1>9, <1>10, <1>11,
     <1>12, <1>13, <1>14, <1>15, <1>16 DEF SupervisorNext, LoopStep, StopStep

(* IndInv holds in every reachable state. *)
THEOREM SupervisorInvariant == SupervisorSpec => []SupervisorInv
  BY InitSupervisorInv, NextSupervisorInv, PTL DEF SupervisorSpec

(* Failures never exceed maxRetries and the delay stays between baseDelay  *)
(* and maxDelay.                                                           *)
THEOREM SupervisorTypeCorrect == SupervisorSpec => []SupervisorTypeOK
<1>1. SupervisorInv => SupervisorTypeOK
  BY Zenon DEF SupervisorInv
<1> QED
  BY <1>1, SupervisorInvariant, PTL

(* After a Stop whose waits did not time out nothing is left running. *)
THEOREM StopIsAlwaysFinal == SupervisorSpec => []StopIsFinal
<1>1. SupervisorInv => StopIsFinal
  BY Zenon DEF SupervisorInv, LoopState, StopState, StopIsFinal
<1> QED
  BY <1>1, SupervisorInvariant, PTL

(* No iteration takes a command after Stop has set p.stopped. *)
THEOREM NeverIteratesAfterStop == SupervisorSpec => NoIterationAfterStop
<1>1. SupervisorInv /\ [SupervisorNext]_supervisorVars
        => [stopped => ~(runLoop # "exec" /\ runLoop' = "exec")]_supervisorVars
  BY Zenon DEF SupervisorInv, SupervisorTypeOK, SupervisorNext, LoopStep, StopStep, Start, Top, Register, Exec,
     Fork, ChildExits, RunReturned, Decide, WaitOver, WaitCancelled, Exit,
     StopBegin, StopCancel, StopWaitRun, StopWaitLoop, supervisorVars
<1> QED
  BY <1>1, SupervisorInvariant, PTL DEF SupervisorSpec, NoIterationAfterStop
=============================================================================
