------------------------- MODULE RateLimiter_proofs -------------------------
(***************************************************************************)
(* What RateLimiter guarantees for every set of keys, every limit, window  *)
(* and lockout duration, every maxWindow of Cleanup and however long it    *)
(* runs, and what the login handlers of LoginLockout make of it, however   *)
(* many of them overlap.                                                   *)
(***************************************************************************)
EXTENDS LoginLockout, FiniteSetTheorems, TLAPS

(* Grants are in the order of time and were asked for with a policy of     *)
(* their key.                                                              *)
Ordered ==
  \A k \in Keys : \A i \in 1..Len(granted[k]) :
    /\ granted[k][i].at <= now
    /\ \A j \in i..Len(granted[k]) : granted[k][i].at <= granted[k][j].at

(* What is remembered is the latest part of what was granted. *)
Suffix ==
  \A k \in Keys : \A i \in windows[k] : i..Len(granted[k]) \subseteq windows[k]

(* A forgotten grant no longer matters: it is older than the window, or    *)
(* the key has limit 1 and a newer grant takes its place.                  *)
Forgotten ==
  \A k \in Keys : \A i \in (1..Len(granted[k])) \ windows[k] : \A p \in Policies[k] :
    \/ p.limit = 1 /\ i < Len(granted[k])
    \/ now - granted[k][i].at >= Lesser(p.window, MaxWindow)

Pending == \A k \in Keys : now < until[k] => lockouts[k] = until[k]

IndInv == TypeOK /\ Ordered /\ Suffix /\ Forgotten /\ Pending /\ WindowRespected
-----------------------------------------------------------------------------
GrantRecord == [at : Nat, limit : Nat \ {0}, window : Nat]

(* The fields of a recorded grant. *)
LEMMA GrantFields ==
  ASSUME TypeOK, NEW k \in Keys
  PROVE  /\ granted[k] \in Seq(GrantRecord) /\ Len(granted[k]) \in Nat
         /\ \A i \in 1..Len(granted[k]) :
              /\ granted[k][i] \in GrantRecord /\ granted[k][i].at \in Nat
              /\ granted[k][i].limit \in Nat \ {0} /\ granted[k][i].window \in Nat
<1>1. granted[k] \in Seq(GrantRecord)
  BY DEF TypeOK, GrantRecord
<1>2. Len(granted[k]) \in Nat /\ \A i \in 1..Len(granted[k]) : granted[k][i] \in GrantRecord
  BY <1>1
<1>3. \A r \in GrantRecord : r.at \in Nat /\ r.limit \in Nat \ {0} /\ r.window \in Nat
  BY DEF GrantRecord
<1> QED BY <1>1, <1>2, <1>3

(* The valid timestamps, too, are the latest ones. *)
LEMMA ValidSuffix ==
  ASSUME TypeOK, Ordered, Suffix, NEW k \in Keys, NEW w \in Nat,
         NEW i \in Valid(k, w)
  PROVE  i \in 1..Len(granted[k]) /\ i..Len(granted[k]) \subseteq Valid(k, w)
<1> DEFINE n == Len(granted[k])
<1>1. n \in Nat /\ i \in windows[k] /\ i \in 1..n
  BY DEF TypeOK, Valid
<1>2. ASSUME NEW j \in i..n PROVE j \in Valid(k, w)
  <2>1. j \in 1..n /\ j \in windows[k]
    BY <1>1 DEF Suffix
  <2>2. granted[k][i].at \in Nat /\ granted[k][j].at \in Nat /\ now \in Nat
    BY <1>1, <2>1, GrantFields DEF TypeOK
  <2>3. granted[k][i].at <= granted[k][j].at
    BY <1>1 DEF Ordered
  <2>4. granted[k][i].at > now - w
    BY DEF Valid
  <2> QED BY <2>1, <2>2, <2>3, <2>4 DEF Valid
<1> QED BY <1>1, <1>2

(* The valid timestamps are finitely many. *)
LEMMA ValidFinite ==
  ASSUME TypeOK, NEW k \in Keys, NEW w \in Nat
  PROVE  /\ Valid(k, w) \subseteq 1..Len(granted[k])
         /\ IsFiniteSet(Valid(k, w)) /\ Cardinality(Valid(k, w)) \in Nat
<1>1. Len(granted[k]) \in Nat /\ Valid(k, w) \subseteq 1..Len(granted[k])
  BY DEF TypeOK, Valid
<1>2. IsFiniteSet(1..Len(granted[k]))
  BY <1>1, FS_Interval
<1> QED BY <1>1, <1>2, FS_Subset, FS_CardinalityType

(* With fewer than "limit" valid timestamps, the grant that many places    *)
(* back is not one of them.                                                *)
LEMMA FewValid ==
  ASSUME TypeOK, Ordered, Suffix, NEW k \in Keys, NEW w \in Nat, NEW m \in Nat \ {0},
         Cardinality(Valid(k, w)) < m, Len(granted[k]) + 1 > m
  PROVE  Len(granted[k]) + 1 - m \notin Valid(k, w)
<1> DEFINE n == Len(granted[k])
           i == n + 1 - m
<1>1. n \in Nat /\ i \in 1..n
  BY DEF TypeOK
<1>2. SUFFICES ASSUME i \in Valid(k, w) PROVE FALSE
  OBVIOUS
<1>3. i..n \subseteq Valid(k, w)
  BY <1>2, ValidSuffix
<1>4. Cardinality(i..n) = m
  BY <1>1, FS_Interval
<1>5. Cardinality(i..n) <= Cardinality(Valid(k, w))
  BY <1>3, ValidFinite, FS_Subset
<1> QED BY <1>4, <1>5, ValidFinite

(* When a limit is reached at least one timestamp is valid, so the newest  *)
(* grant is.                                                               *)
LEMMA NewestValid ==
  ASSUME TypeOK, Ordered, Suffix, NEW k \in Keys, NEW w \in Nat,
         Cardinality(Valid(k, w)) >= 1
  PROVE  Len(granted[k]) \in Valid(k, w)
<1>1. Valid(k, w) # {}
  BY FS_EmptySet
<1>2. PICK i \in Valid(k, w) : TRUE
  BY <1>1
<1>3. Len(granted[k]) \in Nat
  BY DEF TypeOK
<1> QED BY <1>2, <1>3, ValidSuffix
-----------------------------------------------------------------------------
(* Initially nothing is granted, remembered or locked. *)
LEMMA InitIndInv == Init => IndInv
<1> SUFFICES ASSUME Init PROVE IndInv
  OBVIOUS
<1>1. \A k \in Keys : granted[k] = <<>> /\ Len(granted[k]) = 0 /\ windows[k] = {}
  BY DEF Init
<1>2. TypeOK
  BY <1>1 DEF Init, TypeOK
<1> QED BY <1>1, <1>2 DEF Init, IndInv, Ordered, Suffix, Forgotten, Pending, WindowRespected

(* A refused request changes at most what is remembered. *)
LEMMA RefuseKeeps ==
  ASSUME IndInv, NEW k \in Keys, NEW p \in Policies[k], Refuse(k, p)
  PROVE  IndInv'
<1> USE DEF IndInv
<1>1. p.limit \in Nat \ {0} /\ p.window \in Nat
  BY PoliciesAssumption
<1>2. now \in Nat /\ now' = now /\ granted' = granted /\ until' = until
  BY DEF Refuse, TypeOK
<1>3. CASE LockedOut(k)
  <2>1. windows' = windows /\ lockouts' = lockouts
    BY <1>3 DEF Refuse
  <2> QED BY <1>2, <2>1 DEF TypeOK, Ordered, Suffix, Forgotten, Pending, WindowRespected
<1>4. CASE ~LockedOut(k)
  <2>1. /\ windows' = [windows EXCEPT ![k] = Valid(k, p.window)]
        /\ lockouts' = [lockouts EXCEPT ![k] = 0]
        /\ Cardinality(Valid(k, p.window)) >= p.limit
    BY <1>4 DEF Refuse
  <2>2. Valid(k, p.window) \subseteq 1..Len(granted[k]) /\ Cardinality(Valid(k, p.window)) \in Nat
    BY <1>1, ValidFinite
  <2>3. TypeOK'
    BY <1>2, <2>1, <2>2 DEF TypeOK
  <2>4. Suffix'
    BY <1>1, <1>2, <2>1, ValidSuffix DEF Suffix, TypeOK
  <2>5. Forgotten'
    <3> SUFFICES ASSUME NEW j \in Keys, NEW i \in 1..Len(granted[j]), i \notin windows'[j],
                        NEW q \in Policies[j]
                 PROVE  \/ q.limit = 1 /\ i < Len(granted[j])
                        \/ now - granted[j][i].at >= Lesser(q.window, MaxWindow)
      BY <1>2 DEF Forgotten
    <3>1. CASE i \notin windows[j]
      BY <3>1 DEF Forgotten
    <3>2. CASE i \in windows[j]
      <4>1. j = k /\ i \notin Valid(k, p.window)
        BY <3>2, <2>1 DEF TypeOK
      <4>2. granted[k][i].at \in Nat /\ now - granted[k][i].at >= p.window
        BY <1>1, <1>2, <3>2, <4>1, GrantFields DEF Valid
      <4>3. CASE q.window = p.window
        BY <4>1, <4>2, <4>3, <1>1, <1>2, TimesAssumption DEF Lesser
      <4>4. CASE p.limit = 1 /\ q.limit = 1
        <5>1. Len(granted[k]) \in Valid(k, p.window)
          BY <4>4, <1>1, <2>1, <2>2, NewestValid
        <5>2. i < Len(granted[k])
          BY <5>1, <4>1, GrantFields
        <5> QED BY <4>1, <4>4, <5>2
      <4> QED BY <4>1, <4>3, <4>4, PoliciesAssumption
    <3> QED BY <3>1, <3>2
  <2>6. Pending'
    BY <1>2, <1>4, <2>1 DEF Pending, LockedOut, TypeOK
  <2> QED BY <1>2, <2>3, <2>4, <2>5, <2>6 DEF Ordered, WindowRespected
<1> QED BY <1>3, <1>4

(* A granted request: the one that "limit" places back is no longer valid. *)
LEMMA GrantKeeps ==
  ASSUME IndInv, NEW k \in Keys, NEW p \in Policies[k], Grant(k, p)
  PROVE  IndInv'
<1> USE DEF IndInv
<1> DEFINE n == Len(granted[k])
           V == Valid(k, p.window)
           g == [at |-> now, limit |-> p.limit, window |-> p.window]
<1>1. p.limit \in Nat \ {0} /\ p.window \in Nat /\ MaxWindow \in Nat
  BY PoliciesAssumption, TimesAssumption
<1>2. /\ now \in Nat /\ now' = now /\ until' = until
      /\ ~LockedOut(k) /\ Cardinality(V) < p.limit
      /\ windows' = [windows EXCEPT ![k] = V \cup {n + 1}]
      /\ lockouts' = [lockouts EXCEPT ![k] = 0]
      /\ granted' = [granted EXCEPT ![k] = Append(@, g)]
  BY DEF Grant, TypeOK
<1>3. V \subseteq 1..n /\ n \in Nat
  BY <1>1, ValidFinite, GrantFields
<1>4. /\ g \in GrantRecord /\ g.at = now /\ g.limit = p.limit /\ g.window = p.window
      /\ granted[k] \in Seq(GrantRecord)
  BY <1>1, <1>2, GrantFields DEF GrantRecord
<1>5. /\ granted'[k] = Append(granted[k], g) /\ windows'[k] = V \cup {n + 1}
      /\ Len(granted'[k]) = n + 1 /\ granted'[k][n + 1] = g
      /\ \A i \in 1..n : granted'[k][i] = granted[k][i]
  BY <1>2, <1>3, <1>4 DEF TypeOK
<1>6. \A j \in Keys \ {k} : granted'[j] = granted[j] /\ windows'[j] = windows[j]
  BY <1>2 DEF TypeOK
<1>7. TypeOK'
  <2>1. granted' \in [Keys -> Seq(GrantRecord)]
    BY <1>2, <1>4 DEF TypeOK, GrantRecord
  <2>2. windows' \in [Keys -> SUBSET Nat]
    BY <1>2, <1>3 DEF TypeOK
  <2>3. \A j \in Keys : windows'[j] \subseteq 1..Len(granted'[j])
    <3>1. windows'[k] \subseteq 1..Len(granted'[k])
      BY <1>3, <1>5
    <3>2. \A j \in Keys \ {k} : windows'[j] \subseteq 1..Len(granted'[j])
      BY <1>6 DEF TypeOK
    <3> QED BY <3>1, <3>2
  <2> QED BY <1>2, <2>1, <2>2, <2>3 DEF TypeOK, GrantRecord
<1>8. Ordered'
  <2> SUFFICES ASSUME NEW j \in Keys, NEW i \in 1..Len(granted'[j]),
                      NEW l \in i..Len(granted'[j])
               PROVE  granted'[j][i].at <= now /\ granted'[j][i].at <= granted'[j][l].at
    BY <1>2 DEF Ordered
  <2>1. CASE j # k
    BY <2>1, <1>6 DEF Ordered
  <2>2. CASE j = k /\ i = n + 1
    <3>1. l = n + 1
      BY <2>2, <1>3, <1>5
    <3> QED BY <2>2, <3>1, <1>2, <1>4, <1>5
  <2>3. CASE j = k /\ i # n + 1
    <3>1. i \in 1..n /\ (l \in i..n \/ l = n + 1)
      BY <2>3, <1>3, <1>5
    <3> QED BY <2>3, <3>1, <1>3, <1>4, <1>5 DEF Ordered
  <2> QED BY <2>1, <2>2, <2>3
<1>9. Suffix'
  <2> SUFFICES ASSUME NEW j \in Keys, NEW i \in windows'[j], NEW l \in i..Len(granted'[j])
               PROVE  l \in windows'[j]
    BY DEF Suffix
  <2>1. CASE j # k
    BY <2>1, <1>6 DEF Suffix
  <2>2. CASE j = k
    <3>1. CASE l = n + 1
      BY <3>1, <2>2, <1>5
    <3>2. CASE l # n + 1
      <4>1. i \in V /\ l \in i..n
        BY <3>2, <2>2, <1>3, <1>5
      <4> QED BY <4>1, <2>2, <1>1, <1>5, ValidSuffix
    <3> QED BY <3>1, <3>2
  <2> QED BY <2>1, <2>2
<1>10. Forgotten'
  <2> SUFFICES ASSUME NEW j \in Keys, NEW i \in 1..Len(granted'[j]), i \notin windows'[j],
                      NEW q \in Policies[j]
               PROVE  \/ q.limit = 1 /\ i < Len(granted'[j])
                      \/ now - granted'[j][i].at >= Lesser(q.window, MaxWindow)
    BY <1>2 DEF Forgotten
  <2>1. CASE j # k
    BY <2>1, <1>6 DEF Forgotten
  <2>2. CASE j = k
    <3>1. i \in 1..n /\ i \notin V /\ granted'[k][i] = granted[k][i] /\ i < Len(granted'[k])
      BY <2>2, <1>3, <1>5
    <3>2. CASE q.limit = 1
      BY <3>1, <3>2, <2>2
    <3>3. CASE q.limit # 1 /\ i \notin windows[k]
      BY <3>1, <3>3, <2>2 DEF Forgotten
    <3>4. CASE q.limit # 1 /\ i \in windows[k]
      <4>1. granted[k][i].at \in Nat /\ now - granted[k][i].at >= p.window
        BY <1>1, <1>2, <3>1, <3>4, GrantFields DEF Valid
      <4>2. q.window = p.window
        BY <3>4, <2>2, PoliciesAssumption
      <4> QED BY <4>1, <4>2, <3>1, <2>2, <1>1, <1>2 DEF Lesser
    <3> QED BY <3>2, <3>3, <3>4
  <2> QED BY <2>1, <2>2
<1>11. Pending'
  BY <1>2 DEF Pending, LockedOut, TypeOK
<1>12. WindowRespected'
  <2> SUFFICES ASSUME NEW j \in Keys, NEW i \in 1..Len(granted'[j]),
                      i > granted'[j][i].limit
               PROVE  granted'[j][i].at - granted'[j][i - granted'[j][i].limit].at
                        >= Lesser(granted'[j][i].window, MaxWindow)
    BY DEF WindowRespected
  <2>1. CASE j # k
    BY <2>1, <1>6 DEF WindowRespected
  <2>2. CASE j = k /\ i # n + 1
    <3>1. i \in 1..n /\ granted'[j][i] = granted[k][i]
      BY <2>2, <1>3, <1>5
    <3>2. granted[k][i].limit \in Nat \ {0}
      BY <3>1, GrantFields
    <3>3. i - granted[k][i].limit \in 1..n
      BY <3>1, <3>2, <1>3
    <3> QED BY <3>1, <3>3, <2>2, <1>5 DEF WindowRespected
  <2>3. CASE j = k /\ i = n + 1
    <3> DEFINE b == n + 1 - p.limit
    <3>1. granted'[j][i] = g /\ b \in 1..n /\ granted'[j][b] = granted[k][b]
      BY <2>3, <1>1, <1>3, <1>4, <1>5
    <3>2. b \notin V
      BY <1>1, <1>2, <3>1, <1>3, FewValid
    <3>3. granted[k][b].at \in Nat
      BY <3>1, GrantFields
    <3>4. (p.limit = 1 => b = n) /\ i - p.limit = b
      BY SMTT(30), <1>1, <1>3, <2>3
    <3> HIDE DEF b, g
    <3>5. now - granted[k][b].at >= Lesser(p.window, MaxWindow)
      <4>1. CASE b \in windows[k]
        <5>1. ~(granted[k][b].at > now - p.window)
          BY <4>1, <3>2 DEF Valid
        <5> QED BY <5>1, <3>3, <1>1, <1>2 DEF Lesser
      <4>2. CASE b \notin windows[k]
        <5>1. \/ p.limit = 1 /\ b < n
              \/ now - granted[k][b].at >= Lesser(p.window, MaxWindow)
          BY <4>2, <3>1 DEF Forgotten
        <5> QED BY <5>1, <3>4, <1>3
      <4> QED BY <4>1, <4>2
    <3>6. i - granted'[j][i].limit = b
      BY <3>1, <3>4, <1>4
    <3> QED BY <3>1, <3>5, <3>6, <1>4
  <2> QED BY <2>1, <2>2, <2>3
<1> QED BY <1>7, <1>8, <1>9, <1>10, <1>11, <1>12

(* Lockout leaves the timestamps alone. *)
LEMMA LockoutKeeps ==
  ASSUME IndInv, NEW k \in Keys, NEW d \in Nat, Lockout(k, d)
  PROVE  IndInv'
<1>1. now \in Nat /\ lockouts \in [Keys -> Nat] /\ until \in [Keys -> Nat]
  BY DEF IndInv, TypeOK
<1> QED BY <1>1 DEF IndInv, Lockout, TypeOK, Ordered, Suffix, Forgotten, Pending, WindowRespected

(* IsLockedOut leaves the timestamps alone, too; Reset forgets the         *)
(* key; Cleanup forgets what is older than maxWindow; time passes.         *)
LEMMA OtherStepsKeep ==
  ASSUME IndInv,
         \/ \E k \in Keys : IsLockedOut(k) \/ Reset(k)
         \/ Cleanup \/ Tick
  PROVE  IndInv'
<1> USE DEF IndInv
<1>1. now \in Nat /\ MaxWindow \in Nat /\ lockouts \in [Keys -> Nat] /\ until \in [Keys -> Nat]
  BY TimesAssumption DEF TypeOK
<1>3. ASSUME NEW k \in Keys, IsLockedOut(k) PROVE IndInv'
  BY <1>1, <1>3
     DEF IsLockedOut, LockedOut, TypeOK, Ordered, Suffix, Forgotten, Pending, WindowRespected
<1>4. ASSUME NEW k \in Keys, Reset(k) PROVE IndInv'
  <2>1. granted'[k] = <<>> /\ Len(granted'[k]) = 0 /\ windows'[k] = {} /\ until'[k] = 0 /\ now' = now
    BY <1>4 DEF Reset, TypeOK
  <2>2. \A j \in Keys \ {k} : /\ granted'[j] = granted[j] /\ windows'[j] = windows[j]
                              /\ until'[j] = until[j] /\ lockouts'[j] = lockouts[j]
    BY <1>4 DEF Reset, TypeOK
  <2>3. TypeOK'
    BY <1>1, <1>4, <2>1, <2>2 DEF Reset, TypeOK
  <2>4. Ordered'
    BY <2>1, <2>2 DEF Ordered
  <2>5. Suffix'
    BY <2>1, <2>2 DEF Suffix
  <2>6. Forgotten'
    BY <2>1, <2>2 DEF Forgotten
  <2>7. Pending'
    BY <1>1, <2>1, <2>2 DEF Pending
  <2>8. WindowRespected'
    BY <2>1, <2>2 DEF WindowRespected
  <2> QED BY <2>3, <2>4, <2>5, <2>6, <2>7, <2>8
<1>5. CASE Cleanup
  <2>1. /\ granted' = granted /\ now' = now /\ until' = until
        /\ \A k \in Keys : windows'[k] = windows[k] \/ (windows'[k] = {} /\ Stale(k))
        /\ \A k \in Keys : lockouts'[k] = IF now > lockouts[k] THEN 0 ELSE lockouts[k]
    BY <1>5 DEF Cleanup
  <2>2. TypeOK'
    BY <1>1, <1>5, <2>1 DEF Cleanup, TypeOK
  <2>3. Suffix'
    BY <2>1 DEF Suffix
  <2>4. Forgotten'
    <3> SUFFICES ASSUME NEW k \in Keys, NEW i \in 1..Len(granted[k]), i \notin windows'[k],
                        NEW q \in Policies[k]
                 PROVE  \/ q.limit = 1 /\ i < Len(granted[k])
                        \/ now - granted[k][i].at >= Lesser(q.window, MaxWindow)
      BY <2>1 DEF Forgotten
    <3>1. CASE i \notin windows[k]
      BY <3>1 DEF Forgotten
    <3>2. CASE i \in windows[k]
      <4>1. granted[k][i].at <= now - MaxWindow
        BY <3>2, <2>1 DEF Stale
      <4>2. granted[k][i].at \in Nat /\ q.window \in Nat
        BY GrantFields, PoliciesAssumption
      <4>3. Lesser(q.window, MaxWindow) \in Nat /\ Lesser(q.window, MaxWindow) <= MaxWindow
        BY <4>2, <1>1, TimesAssumption DEF Lesser
      <4> QED BY <4>1, <4>2, <4>3, <1>1, TimesAssumption
    <3> QED BY <3>1, <3>2
  <2>5. Pending'
    BY <1>1, <2>1 DEF Pending
  <2> QED BY <2>1, <2>2, <2>3, <2>4, <2>5 DEF Ordered, WindowRespected
<1>6. CASE Tick
  <2>1. /\ now' = now + 1 /\ granted' = granted /\ windows' = windows
        /\ until' = until /\ lockouts' = lockouts
    BY <1>6 DEF Tick
  <2>2. Ordered'
    BY <1>1, <2>1, GrantFields DEF Ordered
  <2>3. Forgotten'
    <3> SUFFICES ASSUME NEW k \in Keys, NEW i \in (1..Len(granted[k])) \ windows[k],
                        NEW q \in Policies[k]
                 PROVE  \/ q.limit = 1 /\ i < Len(granted[k])
                        \/ now' - granted[k][i].at >= Lesser(q.window, MaxWindow)
      BY <2>1 DEF Forgotten
    <3>1. granted[k][i].at \in Nat /\ q.window \in Nat
      BY GrantFields, PoliciesAssumption
    <3>2. \/ q.limit = 1 /\ i < Len(granted[k])
          \/ now - granted[k][i].at >= Lesser(q.window, MaxWindow)
      BY DEF Forgotten
    <3>3. Lesser(q.window, MaxWindow) \in Nat
      BY <1>1, <3>1 DEF Lesser
    <3> QED BY <3>1, <3>2, <3>3, <1>1, <2>1
  <2>4. Pending'
    BY <1>1, <2>1 DEF Pending
  <2> QED BY <1>1, <2>1, <2>2, <2>3, <2>4 DEF TypeOK, Suffix, WindowRespected
<1> QED BY <1>3, <1>4, <1>5, <1>6

(* The inductive invariant holds throughout. *)
THEOREM LimiterInvariant == Spec => []IndInv
<1>1. ASSUME IndInv, [Next]_vars PROVE IndInv'
  <2>1. CASE Next
    <3>1. ASSUME NEW k \in Keys, NEW p \in Policies[k], Refuse(k, p) \/ Grant(k, p)
          PROVE  IndInv'
      BY <1>1, <3>1, RefuseKeeps, GrantKeeps
    <3>2. ASSUME NEW k \in Keys, NEW d \in Durations, Lockout(k, d) PROVE IndInv'
      BY <1>1, <3>2, LockoutKeeps, TimesAssumption
    <3> QED BY <1>1, <2>1, <3>1, <3>2, OtherStepsKeep DEF Next
  <2>2. CASE UNCHANGED vars
    BY <1>1, <2>2
       DEF vars, IndInv, TypeOK, Ordered, Suffix, Forgotten, Pending, WindowRespected
  <2> QED BY <1>1, <2>1, <2>2
<1> QED BY <1>1, InitIndInv, PTL DEF Spec

(* The limiter's state keeps its type: a remembered timestamp is that of a *)
(* granted request.                                                        *)
THEOREM LimiterTypeCorrect == Spec => []TypeOK
<1>1. IndInv => TypeOK
  BY DEF IndInv
<1> QED BY <1>1, LimiterInvariant, PTL

(* Allow grants no more than "limit" requests of a key per window, windows *)
(* longer than Cleanup's maxWindow counting as maxWindow.                  *)
THEOREM WindowAlwaysRespected == Spec => []WindowRespected
<1>1. IndInv => WindowRespected
  BY DEF IndInv
<1> QED BY <1>1, LimiterInvariant, PTL

(* A lockout lasts as long as Lockout was told, Cleanup or not. *)
THEOREM LockoutAlwaysKept == Spec => []LockoutKept
<1>1. IndInv => LockoutKept
  BY DEF IndInv, Pending, LockoutKept, LockedOut
<1> QED BY <1>1, LimiterInvariant, PTL
-----------------------------------------------------------------------------
Failure == [at : Nat, by : Requests, result : {"counted", "refused"}, grants : Nat]

LoginTypeOK ==
  /\ pc \in [Requests -> {"start", "password", "lock"}]
  /\ failures \in Seq(Failure)

FailedInOrder ==
  \A i \in 1..Len(failures) :
    /\ failures[i].at <= now
    /\ \A j \in i..Len(failures) : failures[i].at <= failures[j].at

(* A counted failure is one of the grants of failKey, later grants are     *)
(* later, and every grant was given under FailPolicy.                      *)
FailuresGranted ==
  /\ \A n \in 1..Len(granted[failKey]) :
       /\ granted[failKey][n].limit = FailPolicy.limit
       /\ granted[failKey][n].window = FailPolicy.window
  /\ \A i \in 1..Len(failures) :
       /\ failures[i].grants <= Len(granted[failKey])
       /\ failures[i].result = "counted" =>
            /\ failures[i].grants >= 1
            /\ granted[failKey][failures[i].grants].at = failures[i].at
       /\ \A j \in (i + 1)..Len(failures) :
            failures[j].result = "counted" => failures[i].grants < failures[j].grants
       /\ \A n \in 1..Len(granted[failKey]) :
            n > failures[i].grants => granted[failKey][n].at >= failures[i].at

(* A refused failure leads to a lock of a whole window: the handler is     *)
(* about to set it, or it has been set.  Whoever is past the lock check    *)
(* has waited for its end, so one handler is refused once per window.      *)
RefusedLocks ==
  /\ until[lockKey] <= now + FailPolicy.window
  /\ \A i \in 1..Len(failures) : failures[i].result = "refused" =>
       /\ \/ pc[failures[i].by] = "lock"
          \/ failures[i].at + FailPolicy.window <= until[lockKey]
       /\ pc[failures[i].by] = "password" => failures[i].at + FailPolicy.window <= now
       /\ \A j \in (i + 1)..Len(failures) :
            failures[j].result = "refused" /\ failures[j].by = failures[i].by =>
              failures[i].at + FailPolicy.window <= failures[j].at

LoginInv == IndInv /\ LoginTypeOK /\ FailedInOrder /\ FailuresGranted /\ RefusedLocks

(* The policy of failed logins: a positive limit, a window within reach of *)
(* Cleanup, and three different keys.                                      *)
LEMMA PolicyFacts ==
  /\ failKey \in Keys /\ lockKey \in Keys /\ slowKey \in Keys
  /\ failKey # lockKey /\ failKey # slowKey
  /\ FailPolicy \in Policies[failKey]
  /\ FailPolicy.limit \in Nat \ {0} /\ FailPolicy.window \in Nat
  /\ FailPolicy.window <= MaxWindow
<1>1. PICK p \in Policies[failKey] : Policies[failKey] = {p} /\ p.window <= MaxWindow
  BY KeysAssumption
<1>2. FailPolicy = p
  BY <1>1 DEF FailPolicy
<1> QED BY <1>1, <1>2, KeysAssumption, PoliciesAssumption

(* The fields of a recorded failure. *)
LEMMA FailureFields ==
  ASSUME LoginTypeOK
  PROVE  /\ Len(failures) \in Nat
         /\ \A i \in 1..Len(failures) :
              /\ failures[i].at \in Nat /\ failures[i].by \in Requests
              /\ failures[i].result \in {"counted", "refused"} /\ failures[i].grants \in Nat
<1>1. Len(failures) \in Nat /\ \A i \in 1..Len(failures) : failures[i] \in Failure
  BY DEF LoginTypeOK
<1> QED BY <1>1 DEF Failure

(* One more failure: the old ones keep their places. *)
LEMMA OneMore ==
  ASSUME LoginTypeOK, now \in Nat, NEW r \in Requests, NEW x \in {"counted", "refused"},
         NEW n \in Nat, Failed(r, x, n)
  PROVE  /\ failures' \in Seq(Failure) /\ Len(failures') = Len(failures) + 1
         /\ \A i \in 1..Len(failures) : failures'[i] = failures[i]
         /\ failures'[Len(failures) + 1].at = now /\ failures'[Len(failures) + 1].by = r
         /\ failures'[Len(failures) + 1].result = x /\ failures'[Len(failures) + 1].grants = n
<1> DEFINE f == [at |-> now, by |-> r, result |-> x, grants |-> n]
<1>1. f \in Failure
  BY DEF Failure
<1>2. failures' = Append(failures, f) /\ failures \in Seq(Failure)
  BY DEF Failed, LoginTypeOK
<1>3. f.at = now /\ f.by = r /\ f.result = x /\ f.grants = n
  OBVIOUS
<1> HIDE DEF f
<1> QED BY <1>1, <1>2, <1>3

(* A failed password: counted, or refused on the way to the lock. *)
LEMMA FailsKeep ==
  ASSUME LoginInv, NEW r \in Requests, CheckFails(r)
  PROVE  LoginInv'
<1> USE DEF LoginInv
<1> DEFINE n == Len(failures)
           m == Len(granted[failKey])
           W == FailPolicy.window
<1>1. /\ now \in Nat /\ now' = now /\ until' = until /\ pc[r] = "password"
      /\ n \in Nat /\ m \in Nat /\ W \in Nat
  BY FailureFields, PolicyFacts, GrantFields DEF IndInv, TypeOK, CheckFails, Grant, Refuse, Goto
<1>2. CASE Grant(failKey, FailPolicy) /\ Goto(r, "password", "start") /\ Failed(r, "counted", m + 1)
  <2>1. IndInv'
    BY <1>2, PolicyFacts, GrantKeeps
  <2>2. /\ failures' \in Seq(Failure) /\ Len(failures') = n + 1
        /\ \A i \in 1..n : failures'[i] = failures[i]
        /\ failures'[n + 1].at = now /\ failures'[n + 1].by = r
        /\ failures'[n + 1].result = "counted" /\ failures'[n + 1].grants = m + 1
    BY <1>1, <1>2, OneMore
  <2>3. LoginTypeOK'
    BY <1>2, <2>2 DEF LoginTypeOK, Goto
  <2>4. \A i \in 1..(n + 1) : i \in 1..n \/ i = n + 1
    BY <1>1
  <2>5. FailedInOrder'
    BY SMTT(30), <1>1, <2>2, <2>4, FailureFields DEF FailedInOrder
  <2>6. /\ Len(granted'[failKey]) = m + 1
        /\ \A j \in 1..m : granted'[failKey][j] = granted[failKey][j]
        /\ granted'[failKey][m + 1].at = now
        /\ granted'[failKey][m + 1].limit = FailPolicy.limit
        /\ granted'[failKey][m + 1].window = W
    <3> DEFINE g == [at |-> now, limit |-> FailPolicy.limit, window |-> W]
    <3>1. granted'[failKey] = Append(granted[failKey], g)
      BY <1>2, PolicyFacts DEF Grant, IndInv, TypeOK
    <3>2. granted[failKey] \in Seq(GrantRecord) /\ g \in GrantRecord
      BY <1>1, PolicyFacts, GrantFields DEF IndInv, GrantRecord
    <3>3. g.at = now /\ g.limit = FailPolicy.limit /\ g.window = W
      OBVIOUS
    <3> HIDE DEF g
    <3> QED BY <3>1, <3>2, <3>3
  <2>7. \A j \in 1..(m + 1) : j \in 1..m \/ j = m + 1
    BY <1>1
  <2>8. FailuresGranted'
    <3>1. \A j \in 1..(m + 1) : /\ granted'[failKey][j].limit = FailPolicy.limit
                                /\ granted'[failKey][j].window = W
      BY <2>6, <2>7 DEF FailuresGranted
    <3>2. ASSUME NEW i \in 1..n
          PROVE  /\ failures'[i].grants <= m + 1
                 /\ failures'[i].result = "counted" =>
                      /\ failures'[i].grants >= 1
                      /\ granted'[failKey][failures'[i].grants].at = failures'[i].at
                 /\ \A j \in (i + 1)..(n + 1) : failures'[j].result = "counted" =>
                      failures'[i].grants < failures'[j].grants
                 /\ \A j \in 1..(m + 1) : j > failures'[i].grants =>
                      granted'[failKey][j].at >= failures'[i].at
      <4>1. /\ failures[i].grants \in Nat /\ failures[i].grants <= m
            /\ failures[i].at \in Nat /\ failures[i].at <= now
        BY <3>2, FailureFields DEF FailuresGranted, FailedInOrder
      <4>2. failures[i].result = "counted" => failures[i].grants \in 1..m
        BY <1>1, <4>1 DEF FailuresGranted
      <4>3. \A j \in (i + 1)..(n + 1) : j \in (i + 1)..n \/ j = n + 1
        BY <1>1
      <4>4. \A j \in (i + 1)..n : j \in 1..n
        BY <1>1
      <4>5. \A j \in (i + 1)..(n + 1) : failures'[j].result = "counted" =>
              failures'[i].grants < failures'[j].grants
        BY <4>1, <4>3, <4>4, <2>2, <1>1 DEF FailuresGranted
      <4>6. \A j \in 1..(m + 1) : j > failures'[i].grants =>
              granted'[failKey][j].at >= failures'[i].at
        <5>1. \A j \in 1..m : j > failures[i].grants => granted[failKey][j].at >= failures[i].at
          BY DEF FailuresGranted
        <5>2. failures'[i] = failures[i]
          BY <2>2
        <5>3. \A j \in 1..m : j > failures[i].grants => granted'[failKey][j].at >= failures[i].at
          BY <5>1, <2>6
        <5>4. granted'[failKey][m + 1].at >= failures[i].at
          BY <4>1, <2>6, <1>1
        <5> QED BY <5>2, <5>3, <5>4, <2>7
      <4>7. failures'[i].result = "counted" =>
              /\ failures'[i].grants >= 1
              /\ granted'[failKey][failures'[i].grants].at = failures'[i].at
        <5>1. failures[i].result = "counted" =>
                failures[i].grants >= 1 /\ granted[failKey][failures[i].grants].at = failures[i].at
          BY DEF FailuresGranted
        <5>2. failures'[i] = failures[i]
          BY <2>2
        <5> QED BY <4>2, <5>1, <5>2, <2>6
      <4> QED BY <4>1, <4>5, <4>6, <4>7, <2>2, <1>1
    <3> QED BY SMTT(30), <1>1, <2>2, <2>4, <2>6, <3>1, <3>2 DEF FailuresGranted
  <2>9. RefusedLocks'
    <3>1. \A i \in 1..n : failures'[i].result = "refused" =>
            failures[i].at + W <= until[lockKey] \/ pc'[failures[i].by] = "lock"
      BY <1>1, <1>2, <2>2, FailureFields DEF RefusedLocks, Goto, LoginTypeOK
    <3>2. \A i \in 1..n : failures'[i].result = "refused" /\ pc'[failures[i].by] = "password" =>
            failures[i].at + W <= now
      BY <1>1, <1>2, <2>2, FailureFields DEF RefusedLocks, Goto, LoginTypeOK
    <3>3. \A i \in 1..n : \A j \in (i + 1)..(n + 1) : j \in (i + 1)..n \/ j = n + 1
      BY <1>1
    <3>4. \A i \in 1..n : \A j \in (i + 1)..n : j \in 1..n
      BY <1>1
    <3>5. \A i \in 1..n : \A j \in (i + 1)..(n + 1) :
            failures'[i].result = "refused" /\ failures'[j].result = "refused"
              /\ failures'[j].by = failures'[i].by => failures'[i].at + W <= failures'[j].at
      BY <2>2, <3>3, <3>4 DEF RefusedLocks
    <3>6. until'[lockKey] <= now' + W
      BY <1>1 DEF RefusedLocks
    <3> QED BY <1>1, <2>2, <2>4, <3>1, <3>2, <3>5, <3>6 DEF RefusedLocks
  <2> QED BY <2>1, <2>3, <2>5, <2>8, <2>9
<1>3. CASE Refuse(failKey, FailPolicy) /\ Goto(r, "password", "lock") /\ Failed(r, "refused", m)
  <2>1. IndInv' /\ granted' = granted
    BY <1>3, PolicyFacts, RefuseKeeps DEF Refuse
  <2>2. /\ failures' \in Seq(Failure) /\ Len(failures') = n + 1
        /\ \A i \in 1..n : failures'[i] = failures[i]
        /\ failures'[n + 1].at = now /\ failures'[n + 1].by = r
        /\ failures'[n + 1].result = "refused" /\ failures'[n + 1].grants = m
    BY <1>1, <1>3, OneMore
  <2>3. LoginTypeOK'
    BY <1>3, <2>2 DEF LoginTypeOK, Goto
  <2>4. \A i \in 1..(n + 1) : i \in 1..n \/ i = n + 1
    BY <1>1
  <2>5. FailedInOrder'
    BY <1>1, <2>2, <2>4, FailureFields DEF FailedInOrder
  <2>6. \A i \in 1..n : \A j \in (i + 1)..(n + 1) : (j \in (i + 1)..n /\ j \in 1..n) \/ j = n + 1
    BY <1>1
  <2>7. FailuresGranted'
    <3>1. ASSUME NEW i \in 1..n
          PROVE  /\ failures'[i].grants <= m
                 /\ failures'[i].result = "counted" =>
                      /\ failures'[i].grants >= 1
                      /\ granted[failKey][failures'[i].grants].at = failures'[i].at
                 /\ \A j \in (i + 1)..(n + 1) : failures'[j].result = "counted" =>
                      failures'[i].grants < failures'[j].grants
                 /\ \A j \in 1..m : j > failures'[i].grants =>
                      granted[failKey][j].at >= failures'[i].at
      BY <2>2, <2>6 DEF FailuresGranted
    <3>2. (n + 1 + 1)..(n + 1) = {} /\ m <= m /\ \A j \in 1..m : ~(j > m)
      BY <1>1
    <3>3. Len(failures') = n + 1 /\ Len(granted'[failKey]) = m
      BY <2>1, <2>2
    <3> QED BY <2>1, <2>2, <2>4, <3>1, <3>2, <3>3 DEF FailuresGranted
  <2>8. RefusedLocks'
    <3>1. pc'[r] = "lock" /\ \A q \in Requests \ {r} : pc'[q] = pc[q]
      BY <1>3 DEF Goto, LoginTypeOK
    <3>2. \A i \in 1..n : failures[i].by \in Requests
      BY FailureFields
    <3>3. \A i \in 1..n : failures[i].result = "refused" =>
            /\ failures[i].at + W <= until[lockKey] \/ pc'[failures[i].by] = "lock"
            /\ pc'[failures[i].by] = "password" => failures[i].at + W <= now
            /\ failures[i].by = r => failures[i].at + W <= now
      BY <1>1, <3>1, <3>2 DEF RefusedLocks
    <3>4. \A i \in 1..n : \A j \in (i + 1)..(n + 1) :
            failures'[i].result = "refused" /\ failures'[j].result = "refused"
              /\ failures'[j].by = failures'[i].by => failures'[i].at + W <= failures'[j].at
      BY <2>2, <2>6, <3>3 DEF RefusedLocks
    <3>5. until'[lockKey] <= now' + W
      BY <1>1 DEF RefusedLocks
    <3>6. \A i \in 1..(n + 1) : \A j \in (i + 1)..(n + 1) : i \in 1..n
      BY <1>1
    <3>7. \A i \in 1..(n + 1) : failures'[i].result = "refused" =>
            /\ pc'[failures'[i].by] = "lock" \/ failures'[i].at + W <= until'[lockKey]
            /\ pc'[failures'[i].by] = "password" => failures'[i].at + W <= now'
      BY <1>1, <2>2, <2>4, <3>1, <3>3
    <3>8. Len(failures') = n + 1
      BY <2>2
    <3> QED BY <3>4, <3>5, <3>6, <3>7, <3>8 DEF RefusedLocks
  <2> QED BY <2>1, <2>3, <2>5, <2>7, <2>8
<1> QED BY <1>2, <1>3 DEF CheckFails

(* The steps of the handlers beside a failed password, and of the others.  *)
(* No grant of failKey appears and until[lockKey] only grows.              *)
LEMMA HandlersKeep ==
  ASSUME LoginInv, [LoginNext]_loginVars, \A r \in Requests : ~CheckFails(r)
  PROVE  LoginInv'
<1> USE DEF LoginInv
<1> DEFINE W == FailPolicy.window
<1>1. /\ now \in Nat /\ until \in [Keys -> Nat] /\ W \in Nat /\ Len(failures) \in Nat
      /\ \A i \in 1..Len(failures) : failures[i].at \in Nat /\ failures[i].by \in Requests
  <2>1. now \in Nat /\ until \in [Keys -> Nat]
    BY DEF IndInv, TypeOK
  <2> QED BY <2>1, PolicyFacts, FailureFields
<1>0. \A i \in 1..Len(failures) : failures[i].result = "refused" =>
        /\ pc[failures[i].by] = "lock" \/ failures[i].at + W <= until[lockKey]
        /\ pc[failures[i].by] = "password" => failures[i].at + W <= now
  BY DEF RefusedLocks
<1>2. ASSUME NEW r \in Requests, CheckLock(r) PROVE LoginInv'
  <2>0. IsLockedOut(lockKey) /\ lockKey \in Keys /\ failures' = failures
    BY <1>2, PolicyFacts DEF CheckLock
  <2>1. IndInv' /\ UNCHANGED <<now, granted, until, failures>>
    <3>1. IndInv'
      BY <2>0, OtherStepsKeep
    <3> QED BY <2>0, <3>1 DEF IsLockedOut
  <2>2. LoginTypeOK' /\ \A q \in Requests \ {r} : pc'[q] = pc[q]
    BY <1>2, <2>1 DEF CheckLock, Goto, LoginTypeOK
  <2>3. pc[r] = "start" /\ (pc'[r] = "start" \/ (pc'[r] = "password" /\ ~LockedOut(lockKey)))
    BY <1>2 DEF CheckLock, Goto, LoginTypeOK
  <2>4. ~LockedOut(lockKey) => until[lockKey] <= now
    BY <1>1, PolicyFacts DEF IndInv, Pending, LockedOut
  <2>5. RefusedLocks'
    <3>1. \A i \in 1..Len(failures) : failures[i].result = "refused" =>
            /\ pc'[failures[i].by] = "lock" \/ failures[i].at + W <= until[lockKey]
            /\ pc'[failures[i].by] = "password" => failures[i].at + W <= now
      <4>1. ASSUME NEW i \in 1..Len(failures), failures[i].result = "refused",
                   failures[i].by = r
            PROVE  /\ failures[i].at + W <= until[lockKey]
                   /\ pc'[r] = "password" => failures[i].at + W <= now
        <5>1. /\ failures[i].at \in Nat /\ failures[i].at + W <= until[lockKey]
              /\ until[lockKey] \in Nat
          BY <1>0, <1>1, <2>3, <4>1, PolicyFacts
        <5> QED BY <1>1, <2>3, <2>4, <5>1
      <4> QED BY <1>0, <1>1, <2>2, <4>1
    <3> QED BY <2>1, <3>1 DEF RefusedLocks
  <2> QED BY <2>1, <2>2, <2>5 DEF FailedInOrder, FailuresGranted
<1>3. ASSUME NEW r \in Requests, CheckErrs(r) PROVE LoginInv'
  <2>1. IndInv' /\ UNCHANGED <<now, granted, until, failures>>
    BY <1>3 DEF CheckErrs, vars, IndInv, TypeOK, Ordered, Suffix, Forgotten, Pending,
                WindowRespected
  <2>2. /\ LoginTypeOK' /\ \A q \in Requests \ {r} : pc'[q] = pc[q]
        /\ pc[r] = "password" /\ pc'[r] = "start"
    BY <1>3, <2>1 DEF CheckErrs, Goto, LoginTypeOK
  <2>3. RefusedLocks'
    <3>1. \A i \in 1..Len(failures) : failures[i].result = "refused" =>
            /\ pc'[failures[i].by] = "lock" \/ failures[i].at + W <= until[lockKey]
            /\ pc'[failures[i].by] = "password" => failures[i].at + W <= now
      BY <1>0, <1>1, <2>2
    <3> QED BY <2>1, <3>1 DEF RefusedLocks
  <2> QED BY <2>1, <2>2, <2>3 DEF FailedInOrder, FailuresGranted
<1>4. ASSUME NEW r \in Requests, SetLock(r) PROVE LoginInv'
  <2>1. IndInv' /\ UNCHANGED <<now, granted, failures>> /\ until'[lockKey] = now + W
    <3>1. Lockout(lockKey, W) /\ lockKey \in Keys /\ failures' = failures
      BY <1>4, PolicyFacts DEF SetLock
    <3>2. IndInv'
      BY <3>1, <1>1, LockoutKeeps
    <3> QED BY <1>1, <3>1, <3>2 DEF Lockout
  <2>2. /\ LoginTypeOK' /\ \A q \in Requests \ {r} : pc'[q] = pc[q]
        /\ pc[r] = "lock" /\ pc'[r] = "start"
    BY <1>4, <2>1 DEF SetLock, Goto, LoginTypeOK
  <2>3. RefusedLocks'
    <3>1. \A i \in 1..Len(failures) : failures[i].result = "refused" =>
            /\ failures[i].at + W <= until'[lockKey]
            /\ pc'[failures[i].by] = "password" => failures[i].at + W <= now
      <4> SUFFICES ASSUME NEW i \in 1..Len(failures), failures[i].result = "refused"
                   PROVE  /\ failures[i].at + W <= until'[lockKey]
                          /\ pc'[failures[i].by] = "password" => failures[i].at + W <= now
        OBVIOUS
      <4>1. failures[i].at \in Nat /\ failures[i].by \in Requests
        BY <1>1
      <4>2. failures[i].at <= now
        BY DEF FailedInOrder
      <4>3. pc'[failures[i].by] = "password" => pc[failures[i].by] = "password"
        BY <2>2, <4>1
      <4>4. failures[i].at + W <= until'[lockKey]
        BY <1>1, <2>1, <4>1, <4>2
      <4> QED BY <1>0, <4>3, <4>4
    <3>2. until'[lockKey] <= now' + W
      BY <1>1, <2>1
    <3> QED BY <2>1, <3>1, <3>2 DEF RefusedLocks
  <2> QED BY <2>1, <2>2, <2>3 DEF FailedInOrder, FailuresGranted
<1>5. ASSUME NEW r \in Requests, CheckSucceeds(r) PROVE LoginInv'
  <2>1. /\ IndInv' /\ failures' = << >> /\ granted'[failKey] = << >>
        /\ now' = now /\ until'[lockKey] = until[lockKey]
    <3>1. Reset(failKey) /\ failKey \in Keys /\ failures' = << >>
      BY <1>5, PolicyFacts DEF CheckSucceeds
    <3>2. IndInv'
      BY <3>1, OtherStepsKeep
    <3> QED BY <3>1, <3>2, PolicyFacts DEF Reset, IndInv, TypeOK
  <2>2. LoginTypeOK'
    BY <1>5, <2>1 DEF CheckSucceeds, Goto, LoginTypeOK
  <2>3. FailedInOrder' /\ FailuresGranted'
    BY <2>1 DEF FailedInOrder, FailuresGranted
  <2>4. until[lockKey] <= now + W
    BY Zenon DEF RefusedLocks
  <2>5. RefusedLocks'
    <3>1. until'[lockKey] <= now' + W
      BY <2>1, <2>4
    <3>2. 1..Len(failures') = {}
      BY <2>1
    <3> QED BY Zenon, <3>1, <3>2 DEF RefusedLocks
  <2> QED BY <2>1, <2>2, <2>3, <2>5
<1>6. CASE SlowMode
  <2>1. PICK p \in Policies[slowKey] : Grant(slowKey, p) \/ Refuse(slowKey, p)
    BY <1>6 DEF SlowMode
  <2>2. IndInv'
    BY <2>1, PolicyFacts, GrantKeeps, RefuseKeeps
  <2>3. UNCHANGED <<now, until, pc, failures>> /\ granted'[failKey] = granted[failKey]
    BY <1>6, <2>1, PolicyFacts DEF SlowMode, Grant, Refuse, IndInv, TypeOK
  <2> QED BY <2>2, <2>3 DEF LoginTypeOK, FailedInOrder, FailuresGranted, RefusedLocks
<1>7. CASE (Cleanup \/ Tick) /\ UNCHANGED <<pc, failures>>
  <2>1. IndInv'
    BY <1>7, OtherStepsKeep
  <2>2. UNCHANGED <<granted, until, pc, failures>> /\ now' \in Nat /\ now <= now'
    <3>1. UNCHANGED <<granted, until, pc, failures>> /\ (now' = now \/ now' = now + 1)
      BY ZenonT(30), <1>7 DEF Cleanup, Tick
    <3>2. now' \in Nat /\ now <= now'
      BY <1>1, <3>1
    <3> QED BY Zenon, <3>1, <3>2
  <2>3. FailedInOrder'
    BY SMTT(30), ZenonT(30), <1>1, <2>2 DEF FailedInOrder
  <2>4. RefusedLocks'
    <3>0. until[lockKey] <= now + W
      BY Zenon DEF RefusedLocks
    <3>1. until'[lockKey] <= now' + W
      BY <1>1, <2>2, <3>0, PolicyFacts
    <3>2. ASSUME NEW i \in 1..Len(failures), failures[i].at + W <= now
          PROVE  failures[i].at + W <= now'
      BY <1>1, <2>2, <3>2, PolicyFacts
    <3> QED BY <2>2, <3>1, <3>2 DEF RefusedLocks
  <2> QED BY <2>1, <2>2, <2>3, <2>4 DEF LoginTypeOK, FailuresGranted
<1>8. CASE UNCHANGED loginVars
  BY ZenonT(40), <1>8 DEF loginVars, vars, IndInv, TypeOK, Ordered, Suffix, Forgotten, Pending,
              WindowRespected, LoginTypeOK, FailedInOrder, FailuresGranted, RefusedLocks
<1> QED BY <1>2, <1>3, <1>4, <1>5, <1>6, <1>7, <1>8 DEF LoginNext

(* The i-th to the j-th failure, those with one result. *)
Among(i, j, result) == {x \in i..j : failures[x].result = result}

(* Of the failures within one window no more than "limit" are counted.     *)
LEMMA FewCounted ==
  ASSUME LoginInv, NEW i \in 1..Len(failures), NEW j \in i..Len(failures),
         failures[j].at - failures[i].at < FailPolicy.window
  PROVE  IsFiniteSet(Among(i, j, "counted")) /\ Cardinality(Among(i, j, "counted")) <= FailPolicy.limit
<1> DEFINE C == {x \in i..j : failures[x].result = "counted"}
           L == FailPolicy.limit
           G == granted[failKey]
           first == IF failures[i].result = "counted" THEN failures[i].grants
                                                       ELSE failures[i].grants + 1
<1>1. /\ L \in Nat \ {0} /\ FailPolicy.window \in Nat /\ FailPolicy.window <= MaxWindow
      /\ Len(G) \in Nat /\ Len(failures) \in Nat /\ failKey \in Keys /\ MaxWindow \in Nat
      /\ \A n \in 1..Len(G) : G[n].at \in Nat
  BY PolicyFacts, GrantFields, FailureFields, TimesAssumption DEF LoginInv, IndInv
<1>2. \A x \in 1..Len(failures) : failures[x].at \in Nat /\ failures[x].grants \in Nat
  BY FailureFields DEF LoginInv
<1>3. first \in Nat \ {0}
  BY <1>2 DEF LoginInv, FailuresGranted
<1>g. /\ \A n \in 1..Len(G) : G[n].limit = L /\ G[n].window = FailPolicy.window
      /\ \A x \in 1..Len(failures) :
           /\ failures[x].grants <= Len(G)
           /\ failures[x].result = "counted" =>
                failures[x].grants >= 1 /\ G[failures[x].grants].at = failures[x].at
           /\ \A y \in (x + 1)..Len(failures) : failures[y].result = "counted" =>
                failures[x].grants < failures[y].grants
           /\ \A n \in 1..Len(G) : n > failures[x].grants => G[n].at >= failures[x].at
  BY DEF LoginInv, FailuresGranted
<1>o. \A m \in 1..Len(G) : \A n \in m..Len(G) : G[m].at <= G[n].at
  BY <1>1 DEF LoginInv, IndInv, Ordered
<1>w. \A n \in 1..Len(G) : n > L => G[n].at - G[n - L].at >= FailPolicy.window
  <2> SUFFICES ASSUME NEW n \in 1..Len(G), n > L
               PROVE  G[n].at - G[n - L].at >= FailPolicy.window
    OBVIOUS
  <2>1. G[n].limit = L /\ G[n].window = FailPolicy.window
    BY <1>g
  <2>2. G[n].at - G[n - G[n].limit].at >= Lesser(G[n].window, MaxWindow)
    BY SMTT(30), <1>1, <2>1 DEF LoginInv, IndInv, WindowRespected
  <2>3. Lesser(FailPolicy.window, MaxWindow) = FailPolicy.window
    BY <1>1 DEF Lesser
  <2> QED BY <2>1, <2>2, <2>3
<1>4. IsFiniteSet(C)
  <2>1. IsFiniteSet(i..j) /\ C \subseteq i..j
    BY <1>1, FS_Interval
  <2> QED BY <2>1, FS_Subset
<1>5. ASSUME NEW x \in C
      PROVE  failures[x].grants \in first..(first + L - 1)
  <2> DEFINE n == failures[x].grants
  <2>1. x \in 1..Len(failures) /\ failures[x].result = "counted" /\ x >= i /\ x <= j
    BY <1>1
  <2>2. n \in 1..Len(G) /\ G[n].at = failures[x].at
    BY <1>1, <1>2, <1>g, <2>1
  <2>3. failures[x].at <= failures[j].at
    BY <1>1, <2>1 DEF LoginInv, FailedInOrder
  <2>4. first <= n
    <3>1. CASE x = i
      BY <2>1, <2>2, <3>1
    <3>2. CASE x # i
      <4>1. x \in (i + 1)..Len(failures)
        BY <1>1, <2>1, <3>2
      <4>2. failures[i].grants < n
        BY <1>g, <2>1, <4>1
      <4> QED BY <1>2, <2>2, <4>2
    <3> QED BY <3>1, <3>2
  <2>5. first \in 1..Len(G)
    BY SMTT(30), <1>1, <1>3, <2>2, <2>4
  <2>6. G[first].at >= failures[i].at
    <3>1. CASE failures[i].result = "counted"
      <4>1. first = failures[i].grants /\ G[first].at = failures[i].at
        BY <1>g, <3>1
      <4> QED BY <1>2, <4>1
    <3>2. CASE failures[i].result # "counted"
      <4>1. first > failures[i].grants
        BY <1>2, <3>2
      <4> QED BY <1>g, <2>5, <4>1
    <3> QED BY <3>1, <3>2
  <2> HIDE DEF n, first, G, L
  <2>7. ASSUME n > first + L - 1 PROVE FALSE
    <3>1. n - L \in first..Len(G) /\ n > L
      BY SMTT(30), <1>1, <1>3, <2>2, <2>7
    <3>2. G[first].at <= G[n - L].at
      BY <1>o, <2>5, <3>1
    <3>3. G[n].at - G[n - L].at >= FailPolicy.window
      BY <1>w, <2>2, <3>1
    <3>4. G[n - L].at \in Nat /\ G[first].at \in Nat /\ G[n].at \in Nat
      BY <1>1, <1>3, <2>2, <2>5, <3>1
    <3>5. failures[i].at \in Nat /\ failures[j].at \in Nat /\ failures[x].at \in Nat
      BY <1>1, <1>2, <2>1
    <3>6. failures[i].at <= G[n - L].at
      BY <2>6, <3>2, <3>4, <3>5
    <3>7. G[n].at <= failures[j].at
      BY <2>2, <2>3
    <3>8. FailPolicy.window \in Nat /\ failures[j].at - failures[i].at < FailPolicy.window
      BY <1>1
    <3> QED BY SMTT(30), <3>3, <3>4, <3>5, <3>6, <3>7, <3>8
  <2>8. n \in first..(first + L - 1)
    BY <1>1, <1>3, <2>2, <2>4, <2>7
  <2> QED BY <2>8 DEF n
<1>6. \A x, y \in C : x # y => failures[x].grants # failures[y].grants
  <2> SUFFICES ASSUME NEW x \in C, NEW y \in C, x < y
               PROVE  failures[x].grants < failures[y].grants
    BY SMTT(30), <1>1, <1>2
  <2>1. x \in 1..Len(failures) /\ y \in (x + 1)..Len(failures)
    BY <1>1
  <2> QED BY <2>1 DEF LoginInv, FailuresGranted
<1>7. IsFiniteSet(first..(first + L - 1)) /\ Cardinality(first..(first + L - 1)) = L
  <2> HIDE DEF first, L
  <2>1. first \in Int /\ first + L - 1 \in Int /\ ~(first > first + L - 1)
    BY <1>1, <1>3
  <2>2. (first + L - 1) - first + 1 = L
    BY <1>1, <1>3
  <2> QED BY <2>1, <2>2, FS_Interval
<1>8. ASSUME Cardinality(C) > L PROVE FALSE
  <2> DEFINE f == [x \in C |-> failures[x].grants]
  <2>1. f \in [C -> first..(first + L - 1)]
    BY <1>5
  <2>2. \E x, y \in C : x # y /\ f[x] = f[y]
    <3> DEFINE T == first..(first + L - 1)
    <3>1. IsFiniteSet(T) /\ Cardinality(T) < Cardinality(C) /\ f \in [C -> T]
      <4>1. Cardinality(C) \in Nat
        BY <1>4, FS_CardinalityType
      <4> QED BY <1>1, <1>7, <1>8, <2>1, <4>1
    <3> HIDE DEF f, C, T
    <3> QED BY <1>4, <3>1, FS_PigeonHole
  <2> QED BY <1>6, <2>2
<1>9. Cardinality(C) \in Nat
  BY <1>4, FS_CardinalityType
<1>10. C = Among(i, j, "counted")
  BY DEF Among
<1> HIDE DEF C
<1> QED BY SMTT(30), ZenonT(30), <1>1, <1>4, <1>8, <1>9, <1>10

(* Of the failures within one window every handler is refused once.        *)
LEMMA FewRefused ==
  ASSUME LoginInv, NEW i \in 1..Len(failures), NEW j \in i..Len(failures),
         failures[j].at - failures[i].at < FailPolicy.window
  PROVE  IsFiniteSet(Among(i, j, "refused")) /\ Cardinality(Among(i, j, "refused")) <= Cardinality(Requests)
<1> DEFINE F == {x \in i..j : failures[x].result = "refused"}
           W == FailPolicy.window
<1>1. /\ Len(failures) \in Nat /\ W \in Nat
      /\ \A x \in 1..Len(failures) : failures[x].at \in Nat /\ failures[x].by \in Requests
  BY PolicyFacts, FailureFields DEF LoginInv
<1>2. IsFiniteSet(F)
  <2>1. IsFiniteSet(i..j) /\ F \subseteq i..j
    BY <1>1, FS_Interval
  <2> QED BY <2>1, FS_Subset
<1>3. IsFiniteSet(Requests) /\ Cardinality(Requests) \in Nat /\ Cardinality(F) \in Nat
  BY <1>2, KeysAssumption, FS_CardinalityType
<1>4. ASSUME NEW x \in F, NEW y \in F, x < y PROVE failures[x].by # failures[y].by
  <2>1. /\ x \in 1..Len(failures) /\ y \in (x + 1)..Len(failures) /\ y \in 1..Len(failures)
        /\ x \in i..Len(failures) /\ j \in y..Len(failures) /\ j \in 1..Len(failures)
    BY <1>1, <1>4
  <2>2. failures[i].at <= failures[x].at /\ failures[y].at <= failures[j].at
    BY <2>1 DEF LoginInv, FailedInOrder
  <2>3. failures[y].by = failures[x].by => failures[x].at + W <= failures[y].at
    BY <2>1 DEF LoginInv, RefusedLocks
  <2>4. /\ failures[i].at \in Nat /\ failures[x].at \in Nat
        /\ failures[y].at \in Nat /\ failures[j].at \in Nat
    BY <1>1, <2>1
  <2>5. ASSUME failures[x].by = failures[y].by PROVE FALSE
    <3>1. PICK a \in Nat, b \in Nat, c \in Nat, d \in Nat, w \in Nat :
            /\ a = failures[i].at /\ b = failures[x].at /\ c = failures[y].at
            /\ d = failures[j].at /\ w = W
      BY Zenon, <1>1, <2>4
    <3>2. a <= b /\ c <= d
      BY <2>2, <3>1
    <3>3. b + w <= c
      BY Zenon, <2>3, <2>5, <3>1
    <3>4. d - a < w
      BY <3>1
    <3> QED BY <3>2, <3>3, <3>4
  <2> QED BY <2>5
<1>5. ASSUME Cardinality(F) > Cardinality(Requests) PROVE FALSE
  <2> DEFINE f == [x \in F |-> failures[x].by]
  <2>1. f \in [F -> Requests] /\ Cardinality(Requests) < Cardinality(F)
    BY <1>1, <1>3, <1>5
  <2>2. \E x, y \in F : x # y /\ f[x] = f[y]
    <3> HIDE DEF f, F
    <3> QED BY <1>2, <1>3, <2>1, FS_PigeonHole
  <2>3. \A x, y \in F : x = y \/ x < y \/ y < x
    BY <1>1
  <2> QED BY <1>4, <2>2, <2>3
<1>6. F = Among(i, j, "refused")
  BY DEF Among
<1> HIDE DEF F
<1> QED BY <1>2, <1>3, <1>5, <1>6

(* More failures than the limit and one per handler span a window.         *)
LEMMA LoginInvBounds == LoginInv => FailuresBounded
<1> SUFFICES ASSUME LoginInv,
                    NEW i \in 1..(Len(failures) - (FailPolicy.limit + Cardinality(Requests)))
             PROVE  failures[i + (FailPolicy.limit + Cardinality(Requests))].at - failures[i].at
                      >= FailPolicy.window
  BY DEF FailuresBounded
<1> DEFINE most == FailPolicy.limit + Cardinality(Requests)
           j == i + most
           C == Among(i, j, "counted")
           F == Among(i, j, "refused")
<1>1. /\ Len(failures) \in Nat /\ FailPolicy.window \in Nat /\ FailPolicy.limit \in Nat
      /\ Cardinality(Requests) \in Nat
  BY PolicyFacts, FailureFields, KeysAssumption, FS_CardinalityType DEF LoginInv
<1>2. i \in 1..Len(failures) /\ j \in i..Len(failures) /\ j \in 1..Len(failures)
  BY <1>1
<1>3. \A x \in 1..Len(failures) :
        failures[x].at \in Nat /\ failures[x].result \in {"counted", "refused"}
  BY FailureFields DEF LoginInv
<1>4. CASE failures[j].at - failures[i].at < FailPolicy.window
  <2>1. /\ IsFiniteSet(C) /\ Cardinality(C) <= FailPolicy.limit
        /\ IsFiniteSet(F) /\ Cardinality(F) <= Cardinality(Requests)
    <3> HIDE DEF j
    <3>1. IsFiniteSet(C) /\ Cardinality(C) <= FailPolicy.limit
      BY <1>2, <1>4, FewCounted
    <3>2. IsFiniteSet(F) /\ Cardinality(F) <= Cardinality(Requests)
      BY <1>2, <1>4, FewRefused
    <3> QED BY <3>1, <3>2
  <2>2. i..j = C \cup F
    BY <1>1, <1>2, <1>3 DEF Among
  <2>3. /\ Cardinality(C) \in Nat /\ Cardinality(F) \in Nat /\ Cardinality(C \cap F) \in Nat
        /\ Cardinality(C \cup F) = Cardinality(C) + Cardinality(F) - Cardinality(C \cap F)
    <3> HIDE DEF C, F
    <3>1. IsFiniteSet(C \cap F)
      <4>1. C \cap F \subseteq C
        OBVIOUS
      <4> QED BY <2>1, <4>1, FS_Subset
    <3> QED BY <2>1, <3>1, FS_Union, FS_CardinalityType
  <2>4. Cardinality(i..j) = most + 1
    <3>1. i \in Int /\ j \in Int /\ ~(i > j) /\ j - i + 1 = most + 1
      BY <1>1, <1>2
    <3> HIDE DEF j, most
    <3> QED BY <3>1, FS_Interval
  <2>5. Cardinality(C \cup F) = FailPolicy.limit + Cardinality(Requests) + 1
    <3> DEFINE S == i..j
               U == C \cup F
    <3>1. S = U /\ Cardinality(S) = most + 1
      BY <2>2, <2>4
    <3> HIDE DEF S, U
    <3>2. Cardinality(U) = most + 1
      BY <3>1
    <3> QED BY <3>2 DEF U
  <2> HIDE DEF C, F
  <2> QED BY SMTT(30), <1>1, <2>1, <2>3, <2>5
<1>5. CASE ~(failures[j].at - failures[i].at < FailPolicy.window)
  <2>1. PICK a \in Nat, b \in Nat, w \in Nat :
          a = failures[i].at /\ b = failures[j].at /\ w = FailPolicy.window
    BY Zenon, <1>1, <1>2, <1>3
  <2>2. ~(b - a < w)
    BY Zenon, <1>5, <2>1
  <2>3. b - a >= w
    BY <2>2
  <2> QED BY Zenon, <2>1, <2>3
<1> QED BY <1>4, <1>5

(* The login handlers and the limiter keep LoginInv together.              *)
THEOREM LoginInvariant == LoginSpec => []LoginInv
<1>1. LoginInit => LoginInv
  <2> SUFFICES ASSUME LoginInit PROVE LoginInv
    OBVIOUS
  <2>1. IndInv
    BY InitIndInv DEF LoginInit
  <2>2. /\ failures = <<>> /\ Len(failures) = 0 /\ now \in Nat /\ until[lockKey] = 0
        /\ granted[failKey] = <<>> /\ Len(granted[failKey]) = 0
    BY PolicyFacts DEF LoginInit, Init
  <2>3. LoginTypeOK
    BY DEF LoginInit, LoginTypeOK
  <2> QED BY SMTT(30), <2>1, <2>2, <2>3, PolicyFacts
          DEF LoginInv, FailedInOrder, FailuresGranted, RefusedLocks
<1>2. LoginInv /\ [LoginNext]_loginVars => LoginInv'
  BY FailsKeep, HandlersKeep
<1> QED BY <1>1, <1>2, PTL DEF LoginSpec

(* However the handlers of one address interleave, within a window no more *)
(* passwords are tried than the limit and one per handler in flight.       *)
THEOREM FailuresAlwaysBounded == LoginSpec => []FailuresBounded
  BY LoginInvariant, LoginInvBounds, PTL

(* The limiter's guarantees hold as the login handlers and slow mode use   *)
(* it: no reset, lock or check of theirs breaks them.                      *)
THEOREM LoginKeepsLimiter == LoginSpec => [](TypeOK /\ WindowRespected /\ LockoutKept)
<1>1. LoginInv => TypeOK /\ WindowRespected /\ LockoutKept
  BY DEF LoginInv, IndInv, Pending, LockoutKept, LockedOut
<1> QED BY <1>1, LoginInvariant, PTL
=============================================================================
