--------------------------- MODULE IdentityProofs ---------------------------
(***************************************************************************)
(* The lookups under one semaphore and the match of a device with an       *)
(* entry, for any number of callers, hosts, permits, units and entries.    *)
(***************************************************************************)
EXTENDS Identity, FiniteSetTheorems, SequenceTheorems, TLAPS

-----------------------------------------------------------------------------
(* The queue                                                               *)

Distinct(w) == \A i, j \in DOMAIN w : w[i] = w[j] => i = j

(* The ranks of some positions are those of a sequence as long.            *)
LEMMA RankIsBijective ==
  ASSUME NEW kept \in SUBSET Nat, IsFiniteSet(kept)
  PROVE  /\ Cardinality(kept) \in Nat
         /\ \A i \in kept : Rank(kept, i) \in 1..Cardinality(kept)
         /\ \A i, j \in kept : Rank(kept, i) = Rank(kept, j) => i = j
         /\ \A k \in 1..Cardinality(kept) : \E i \in kept : Rank(kept, i) = k
  <1> DEFINE upto(i) == {j \in kept : j <= i}
             n       == Cardinality(kept)
             r       == [i \in kept |-> Rank(kept, i)]
  <1>1. n \in Nat
    BY FS_CardinalityType
  <1>2. ASSUME NEW i \in kept
        PROVE  IsFiniteSet(upto(i)) /\ Rank(kept, i) \in 1..n
    <2>1. IsFiniteSet(upto(i)) /\ Cardinality(upto(i)) <= n /\ Cardinality(upto(i)) \in Nat
      BY FS_Subset, FS_CardinalityType
    <2>2. upto(i) # {}
      OBVIOUS
    <2>3. Cardinality(upto(i)) # 0
      BY <2>1, <2>2, FS_EmptySet
    <2> QED
      BY <1>1, <2>1, <2>3 DEF Rank
  <1>3. ASSUME NEW i \in kept, NEW j \in kept, i < j
        PROVE  Rank(kept, i) # Rank(kept, j)
    <2>1. upto(i) \subseteq upto(j)
      <3>1. \A k \in kept : k <= i => k <= j
        BY <1>3
      <3> QED
        BY <3>1
    <2>2. j \in upto(j) /\ j \notin upto(i)
      BY <1>3
    <2> QED
      BY <1>2, <2>1, <2>2, FS_Subset DEF Rank
  <1>4. \A i, j \in kept : Rank(kept, i) = Rank(kept, j) => i = j
    <2> SUFFICES ASSUME NEW i \in kept, NEW j \in kept, Rank(kept, i) = Rank(kept, j), i # j
                 PROVE  FALSE
      OBVIOUS
    <2>1. i < j \/ j < i
      OBVIOUS
    <2> QED
      BY <1>3, <2>1
  <1>5. r \in Injection(kept, 1..n)
    BY <1>2, <1>4 DEF Injection, IsInjective
  <1>6. IsFiniteSet(1..n) /\ Cardinality(1..n) = n
    BY <1>1, FS_Interval
  <1>7. r \in Surjection(kept, 1..n)
    BY <1>5, <1>6, FS_Injection
  <1>8. \A k \in 1..n : \E i \in kept : r[i] = k
    BY <1>7 DEF Surjection
  <1> QED
    BY <1>1, <1>2, <1>4, <1>8

(* What is left of a queue are the lookups that did not leave, once each.  *)
LEMMA WithoutKeeps ==
  ASSUME NEW w \in Seq(Lookups), Distinct(w), NEW ts
  PROVE  /\ Without(w, ts) \in Seq(Lookups)
         /\ Distinct(Without(w, ts))
         /\ Waits(Without(w, ts)) = Waits(w) \ ts
  <1> DEFINE kept  == {i \in DOMAIN w : w[i] \notin ts}
             n     == Cardinality(kept)
             at(k) == CHOOSE i \in kept : Rank(kept, i) = k
             v     == [k \in 1..n |-> w[at(k)]]
  <1>1. DOMAIN w = 1..Len(w) /\ Len(w) \in Nat /\ \A i \in DOMAIN w : w[i] \in Lookups
    BY LenProperties, ElementOfSeq
  <1>2. kept \in SUBSET Nat /\ IsFiniteSet(kept)
    <2>1. kept \in SUBSET (1..Len(w)) /\ IsFiniteSet(1..Len(w))
      BY <1>1, FS_Interval
    <2> QED
      BY <1>1, <2>1, FS_Subset
  <1>3. n \in Nat
    BY <1>2, RankIsBijective
  <1>4. \A k \in 1..n : at(k) \in kept /\ Rank(kept, at(k)) = k
    BY <1>2, RankIsBijective
  <1>5. \A i \in kept : Rank(kept, i) \in 1..n /\ at(Rank(kept, i)) = i
    BY <1>2, <1>4, RankIsBijective
  <1>6. v = Without(w, ts)
    BY DEF Without
  <1> HIDE DEF at
  <1>7. \A k \in 1..n : v[k] = w[at(k)] /\ v[k] \in Lookups /\ v[k] \notin ts
    BY <1>1, <1>4
  <1>8. v \in Seq(Lookups) /\ DOMAIN v = 1..n
    BY <1>3, <1>7, SeqDef
  <1>9. Distinct(v)
    BY <1>4, <1>7, <1>8 DEF Distinct
  <1>10. Waits(v) = Waits(w) \ ts
    <2>1. Waits(v) \subseteq Waits(w) \ ts
      BY <1>4, <1>7, <1>8 DEF Waits
    <2>2. ASSUME NEW i \in kept PROVE w[i] \in Waits(v)
      BY <1>5, <1>7, <1>8 DEF Waits
    <2> QED
      BY <2>1, <2>2 DEF Waits
  <1> QED
    BY <1>6, <1>8, <1>9, <1>10

(* Every order of the lookups of some hosts has each of them, once.        *)
LEMMA OrdersAreWhole ==
  ASSUME NEW c \in Callers, NEW names \in SUBSET Hosts, IsFiniteSet(names),
         NEW q \in Orders(c, names)
  PROVE  q \in Seq(Lookups) /\ Distinct(q) /\ Waits(q) = {<<c, h>> : h \in names}
  <1> DEFINE n == Cardinality(names)
             T == {<<c, h>> : h \in names}
             f == [h \in names |-> <<c, h>>]
  <1>1. n \in Nat /\ IsFiniteSet(1..n) /\ Cardinality(1..n) = n
    BY FS_CardinalityType, FS_Interval
  <1>2. f \in Bijection(names, T)
    BY DEF Bijection, Injection, Surjection, IsInjective
  <1>3. IsFiniteSet(T) /\ Cardinality(T) = n
    BY <1>2, FS_Bijection DEF ExistsBijection
  <1>4. q \in [1..n -> T] /\ Distinct(q)
    BY DEF Orders, Distinct
  <1>5. q \in Injection(1..n, T)
    BY <1>4 DEF Injection, IsInjective, Distinct
  <1>6. q \in Surjection(1..n, T)
    BY <1>1, <1>3, <1>5, FS_Injection
  <1>7. T \subseteq Lookups
    BY DEF Lookups
  <1>8. q \in Seq(Lookups)
    BY <1>1, <1>4, <1>7, SeqDef
  <1>9. Waits(q) = T
    BY <1>4, <1>6 DEF Waits, Surjection
  <1> QED
    BY <1>4, <1>8, <1>9

(* Those who come wait behind those who do.                                *)
LEMMA QueuesJoin ==
  ASSUME NEW w \in Seq(Lookups), NEW q \in Seq(Lookups), Distinct(w), Distinct(q),
         Waits(w) \cap Waits(q) = {}
  PROVE  w \o q \in Seq(Lookups) /\ Distinct(w \o q) /\ Waits(w \o q) = Waits(w) \cup Waits(q)
  <1> DEFINE m == Len(w)
             n == Len(q)
             v == w \o q
  <1>1. /\ m \in Nat /\ DOMAIN w = 1..m
        /\ n \in Nat /\ DOMAIN q = 1..n
    BY LenProperties
  <1>2. /\ v \in Seq(Lookups) /\ Len(v) = m + n
        /\ \A i \in 1..m + n : v[i] = IF i <= m THEN w[i] ELSE q[i - m]
    BY ConcatProperties
  <1>3. DOMAIN v = 1..m + n
    BY <1>2, LenProperties
  <1> HIDE DEF v, m, n
  <1>4. /\ \A i, j \in 1..m : w[i] = w[j] => i = j
        /\ \A i, j \in 1..n : q[i] = q[j] => i = j
    BY <1>1, Zenon DEF Distinct
  <1>5. Waits(w) = {w[i] : i \in 1..m} /\ Waits(q) = {q[i] : i \in 1..n}
    BY <1>1 DEF Waits
  <1>6. \A i \in 1..m : v[i] = w[i]
    BY <1>1, <1>2
  <1>7. \A i \in 1..n : v[m + i] = q[i]
    <2> SUFFICES ASSUME NEW i \in 1..n PROVE v[m + i] = q[i]
      OBVIOUS
    <2>1. m + i \in 1..m + n /\ ~(m + i <= m) /\ (m + i) - m = i
      BY <1>1
    <2> QED
      BY <1>2, <2>1
  <1>8. Waits(v) = Waits(w) \cup Waits(q)
    <2>1. ASSUME NEW i \in 1..m + n PROVE v[i] \in Waits(w) \cup Waits(q)
      <3>1. CASE i <= m
        <4>1. i \in 1..m /\ v[i] = w[i]
          BY <1>1, <1>2, <3>1
        <4> QED
          BY <1>5, <4>1
      <3>2. CASE ~(i <= m)
        <4>1. i - m \in 1..n /\ v[i] = q[i - m]
          BY <1>1, <1>2, <3>2
        <4> QED
          BY <1>5, <4>1
      <3> QED
        BY <3>1, <3>2
    <2>2. \A i \in 1..m : w[i] \in Waits(v)
      <3>1. 1..m \subseteq 1..m + n
        BY <1>1
      <3> QED
        BY <1>3, <1>6, <3>1 DEF Waits
    <2>3. \A i \in 1..n : q[i] \in Waits(v)
      <3>1. \A i \in 1..n : m + i \in 1..m + n
        BY <1>1
      <3> QED
        BY <1>3, <1>7, <3>1 DEF Waits
    <2>4. Waits(v) = {v[i] : i \in 1..m + n}
      BY <1>3 DEF Waits
    <2> QED
      BY <1>5, <2>1, <2>2, <2>3, <2>4
  <1>9. ASSUME NEW i \in 1..m + n, NEW j \in 1..m + n, v[i] = v[j] PROVE i = j
    <2>1. \A k \in 1..m + n : \/ (k \in 1..m /\ v[k] = w[k])
                             \/ (k - m \in 1..n /\ v[k] = q[k - m])
      <3> SUFFICES ASSUME NEW k \in 1..m + n
                   PROVE  \/ (k \in 1..m /\ v[k] = w[k])
                          \/ (k - m \in 1..n /\ v[k] = q[k - m])
        OBVIOUS
      <3> QED
        BY <1>1, <1>2
    <2>2. \A k \in 1..m, l \in 1..n : w[k] # q[l]
      BY <1>1 DEF Waits
    <2>3. CASE i \in 1..m /\ v[i] = w[i] /\ j \in 1..m /\ v[j] = w[j]
      BY <1>9, <1>4, <2>3
    <2>4. CASE i - m \in 1..n /\ v[i] = q[i - m] /\ j - m \in 1..n /\ v[j] = q[j - m]
      <3>1. i - m = j - m
        BY <1>9, <1>4, <2>4
      <3> QED
        BY <1>1, <3>1
    <2> QED
      BY <1>9, <2>1, <2>2, <2>3, <2>4
  <1>10. Distinct(v)
    BY <1>3, <1>9, Zenon DEF Distinct
  <1> QED
    BY <1>2, <1>8, <1>10 DEF v

-----------------------------------------------------------------------------
(* The permits                                                             *)

(* Serving gives as many permits as there are, keeps every lookup open     *)
(* once, and leaves their timers alone.                                    *)
LEMMA ServeKeeps ==
  ASSUME NEW a \in SUBSET Lookups, IsFiniteSet(a), Cardinality(a) <= Limit,
         NEW w \in Seq(Lookups), Distinct(w), a \cap Waits(w) = {},
         NEW rest, \A t \in a \cup Waits(w) : rest[t] \in 0..Timeout,
         Serve(a, w, rest)
  PROVE  /\ active' \subseteq Lookups /\ IsFiniteSet(active') /\ Cardinality(active') <= Limit
         /\ waiting' \in Seq(Lookups) /\ Distinct(waiting')
         /\ waiting' # <<>> => Cardinality(active') = Limit
         /\ active' \cap Waits(waiting') = {}
         /\ Open' = a \cup Waits(w)
         /\ left' \in [Lookups -> 0..Timeout]
         /\ \A t \in Open' : left'[t] = rest[t]
  <1> DEFINE m == Len(w)
             k == Cardinality(a)
             n == IF m < Limit - k THEN m ELSE Limit - k
             s == {w[i] : i \in 1..n}
             f == [i \in 1..n |-> w[i]]
             v == SubSeq(w, n + 1, m)
  <1>1. m \in Nat /\ DOMAIN w = 1..m /\ \A i \in 1..m : w[i] \in Lookups
    BY LenProperties, ElementOfSeq
  <1>2. k \in Nat /\ Limit \in Nat /\ k <= Limit
    BY FS_CardinalityType, IdentityAssumption
  <1>3. n \in 0..m /\ n \in Nat /\ k + n <= Limit /\ (n < m => k + n = Limit)
    BY <1>1, <1>2
  <1>4. active' = a \cup s /\ waiting' = v
    BY DEF Serve
  <1>5. /\ left' \in [Lookups -> {IF t \in active' \cup Waits(waiting') THEN rest[t] ELSE 0 : t \in Lookups}]
        /\ \A t \in Lookups : left'[t] = IF t \in active' \cup Waits(waiting') THEN rest[t] ELSE 0
    BY DEF Serve
  <1> HIDE DEF m, k, n
  <1>6. /\ \A i, j \in 1..m : w[i] = w[j] => i = j
        /\ Waits(w) = {w[i] : i \in 1..m}
    BY <1>1, Zenon DEF Distinct, Waits
  <1>7. 1..n \subseteq 1..m /\ s \subseteq Waits(w)
    BY <1>1, <1>3, <1>6
  <1>8. IsFiniteSet(s) /\ Cardinality(s) = n
    <2>1. f \in Bijection(1..n, s)
      BY <1>6, <1>7 DEF Bijection, Injection, Surjection, IsInjective
    <2>2. IsFiniteSet(1..n) /\ Cardinality(1..n) = n
      BY <1>3, FS_Interval
    <2> QED
      BY <2>1, <2>2, FS_Bijection DEF ExistsBijection
  <1> HIDE DEF s
  <1>9. IsFiniteSet(active') /\ Cardinality(active') = k + n
    <2>1. a \cap s = {}
      BY <1>7
    <2>2. Cardinality(a \cap s) = 0
      BY <2>1, FS_EmptySet
    <2>3. /\ IsFiniteSet(a \cup s)
          /\ Cardinality(a \cup s) = k + Cardinality(s) - Cardinality(a \cap s)
      BY <1>8, FS_Union DEF k
    <2> QED
      BY <1>2, <1>3, <1>4, <1>8, <2>2, <2>3
  <1>10. v \in Seq(Lookups) /\ Len(v) = m - n /\ \A i \in 1..m - n : v[i] = w[n + i]
    <2>1. \A i \in n + 1..m : w[i] \in Lookups
      BY <1>1, <1>3
    <2>2. n + 1 \in Int /\ m \in Int /\ m - (n + 1) + 1 = m - n /\ (n + 1 > m => m - n = 0)
      BY <1>1, <1>3
    <2>3. /\ v \in Seq(Lookups)
          /\ Len(v) = IF n + 1 <= m THEN m - (n + 1) + 1 ELSE 0
          /\ \A i \in 1..m - (n + 1) + 1 : v[i] = w[n + 1 + i - 1]
      BY <2>1, <2>2, SubSeqProperties
    <2>4. \A i \in 1..m - n : n + 1 + i - 1 = n + i
      BY <1>1, <1>3
    <2> QED
      BY <1>1, <1>3, <2>2, <2>3, <2>4
  <1>11. DOMAIN v = 1..m - n
    BY <1>10, LenProperties
  <1> HIDE DEF v
  <1>12. \A i \in 1..m - n : n + i \in 1..m /\ n + i \notin 1..n
    BY <1>1, <1>3
  <1>13. Distinct(v)
    <2>1. ASSUME NEW i \in 1..m - n, NEW j \in 1..m - n, v[i] = v[j]
          PROVE  i = j
      <3>1. n + i = n + j
        BY <1>6, <1>10, <1>12, <2>1
      <3> QED
        BY <1>1, <1>3, <3>1
    <2> QED
      BY <1>11, <2>1, Zenon DEF Distinct
  <1>14. Waits(v) = {w[n + i] : i \in 1..m - n}
    BY <1>10, <1>11 DEF Waits
  <1>15. Waits(v) \subseteq Waits(w) /\ s \cap Waits(v) = {}
    BY <1>6, <1>7, <1>12, <1>14 DEF s
  <1>16. s \cup Waits(v) = Waits(w)
    <2>1. ASSUME NEW i \in 1..m PROVE w[i] \in s \cup Waits(v)
      <3>1. CASE i \in 1..n
        BY <3>1 DEF s
      <3>2. CASE i \notin 1..n
        <4>1. i - n \in 1..m - n /\ n + (i - n) = i
          BY <1>1, <1>3, <3>2
        <4> QED
          BY <1>14, <4>1
      <3> QED
        BY <3>1, <3>2
    <2> QED
      BY <1>6, <1>7, <1>15, <2>1
  <1>17. Open' = a \cup Waits(w)
    BY <1>4, <1>16 DEF Open, Waits
  <1>18. active' \cap Waits(waiting') = {}
    BY <1>4, <1>15
  <1>19. v # <<>> => n < m
    BY <1>1, <1>3, <1>10, EmptySeq, SeqEqual
  <1>20. a \cup Waits(w) \subseteq Lookups
    BY <1>1, <1>6
  <1>21. Open' = active' \cup Waits(waiting')
    BY DEF Open, Waits
  <1>22. /\ left' \in [Lookups -> 0..Timeout]
         /\ \A t \in Open' : left'[t] = rest[t]
    <2>1. 0 \in 0..Timeout
      BY IdentityAssumption
    <2> QED
      BY <1>5, <1>17, <1>20, <1>21, <2>1
  <1> QED
    BY <1>2, <1>3, <1>4, <1>9, <1>10, <1>13, <1>17, <1>18, <1>19, <1>20, <1>21, <1>22

-----------------------------------------------------------------------------
(* The match                                                               *)

RegistryOK == registered \subseteq entries \X Devices /\ entries \subseteq Devices

(* Devices are registered for entries there are, whatever else goes on.    *)
LEMMA RegistryInductive == RegistryOK /\ [Next]_vars => RegistryOK'
  <1> SUFFICES ASSUME RegistryOK, [Next]_vars PROVE RegistryOK'
    OBVIOUS
  <1> USE DEF RegistryOK
  <1>1. ASSUME NEW d \in Devices, AddEntry(d) PROVE RegistryOK'
    BY <1>1 DEF AddEntry
  <1>2. ASSUME NEW e \in Devices, NEW d \in Devices, Register(e, d) PROVE RegistryOK'
    BY <1>2 DEF Register
  <1>3. ASSUME NEW e \in Devices, RemoveEntry(e) PROVE RegistryOK'
    BY <1>3 DEF RemoveEntry
  <1>4. ASSUME NEW c \in Callers, Ask(c) \/ Return(c) \/ Cancel(c) PROVE RegistryOK'
    BY <1>4 DEF Ask, Return, Cancel, config
  <1>5. ASSUME NEW c \in Callers, NEW h \in Hosts, Answer(c, h) \/ Raise(c, h) \/ TimeOut(c, h)
        PROVE  RegistryOK'
    BY <1>5 DEF Answer, Raise, TimeOut, Nothing, config
  <1>6. CASE Tick \/ UNCHANGED vars
    BY <1>6 DEF Tick, vars, config
  <1> QED BY <1>1, <1>4, <1>5, <1>6, <1>2, <1>3 DEF Next

(* A serial that is one names the interfaces of one unit.                  *)
LEMMA MatchIsRight == RegistryOK => MatchRight
  <1> SUFFICES ASSUME RegistryOK, NEW d \in Devices
               PROVE  LET match == AuthenticatedEntry(d)
                          kin   == {e \in entries : \E x \in Devices :
                                       <<e, x>> \in registered /\ x.unit = d.unit}
                      IN  /\ d \in entries => match = d
                          /\ d \notin entries /\ d.serial = NoSerial => match = NoEntry
                          /\ d \notin entries /\ d.serial # NoSerial =>
                                IF Cardinality(kin) = 1 THEN match \in kin ELSE match = NoEntry
    BY DEF MatchRight
  <1> DEFINE matches == Matches(d)
             kin     == {e \in entries : \E x \in Devices :
                            <<e, x>> \in registered /\ x.unit = d.unit}
             match   == AuthenticatedEntry(d)
  <1>1. d.serial # NoSerial => matches = kin
    <2>1. ASSUME NEW x \in Devices, d.serial # NoSerial
          PROVE  (x.serial = d.serial /\ x.model = d.model) <=> x.unit = d.unit
      BY <2>1, IdentityAssumption
    <2> QED BY <2>1 DEF Matches
  <1>2. Cardinality(matches) = 1 => (CHOOSE e \in matches : TRUE) \in matches
    <2>1. Cardinality({}) = 0
      BY FS_EmptySet
    <2> HIDE DEF matches
    <2>2. Cardinality(matches) = 1 => matches # {}
      BY <2>1
    <2> QED BY <2>2
  <1>3. match = IF d \in entries THEN d
                ELSE IF d.serial = NoSerial \/ Cardinality(matches) # 1 THEN NoEntry
                ELSE CHOOSE e \in matches : TRUE
    BY DEF AuthenticatedEntry
  <1> HIDE DEF matches, kin, match
  <1>4. (d \in entries => match = d) /\ (d \notin entries /\ d.serial = NoSerial => match = NoEntry)
    BY <1>3
  <1>5. d \notin entries /\ d.serial # NoSerial =>
           IF Cardinality(kin) = 1 THEN match \in kin ELSE match = NoEntry
    BY <1>1, <1>2, <1>3
  <1> QED BY <1>4, <1>5 DEF match, kin

-----------------------------------------------------------------------------
(* The calls                                                               *)

(* The permits are in use by different lookups, none waits while one is    *)
(* free, and every timer runs.                                             *)
QueueOK ==
    /\ active \subseteq Lookups /\ IsFiniteSet(active) /\ Cardinality(active) <= Limit
    /\ waiting \in Seq(Lookups) /\ Distinct(waiting)
    /\ waiting # <<>> => Cardinality(active) = Limit
    /\ active \cap Waits(waiting) = {}
    /\ left \in [Lookups -> 0..Timeout]

(* The timers of a call's open lookups began with it; the addresses of a   *)
(* host it asked are found, or its lookup is open or returned nothing.     *)
CallsOK ==
    /\ asked \in [Callers -> SUBSET Hosts]
    /\ found \in [Callers -> SUBSET AllOf(Hosts)]
    /\ failed \in [Callers -> BOOLEAN]
    /\ age \in [Callers -> 0..Timeout + 1]
    /\ \A t \in Open : t[2] \in asked[t[1]] \ Literals /\ left[t] + age[t[1]] = Timeout
    /\ CallsInTime
    /\ \A c \in Callers : found[c] \in Answers(asked[c])
    /\ \A c \in Callers : \A h \in asked[c] :
          <<c, h>> \in Open \/ Addresses[h] \subseteq found[c] \/ failed[c]

IInv == RegistryOK /\ IsFiniteSet(entries) /\ QueueOK /\ CallsOK

(* The lookups that leave a queue are exactly those named.                 *)
LEMMA ServeSome ==
  ASSUME QueueOK, NEW ts, NEW w \in Seq(Lookups), Distinct(w), Waits(w) = Waits(waiting) \ ts,
         Serve(active \ ts, w, left)
  PROVE  QueueOK' /\ Open' = Open \ ts /\ \A t \in Open' : left'[t] = left[t]
  <1> DEFINE a == active \ ts
  <1>1. a \in SUBSET Lookups /\ IsFiniteSet(a) /\ Cardinality(a) <= Limit
    <2>1. IsFiniteSet(a) /\ Cardinality(a) <= Cardinality(active) /\ Cardinality(a) \in Nat
      BY FS_Subset, FS_CardinalityType DEF QueueOK
    <2> QED
      BY <2>1, FS_CardinalityType, IdentityAssumption DEF QueueOK
  <1>2. a \cap Waits(w) = {} /\ a \cup Waits(w) = Open \ ts
    BY DEF QueueOK, Open
  <1>3. Open \subseteq Lookups
    <2>1. Waits(waiting) \subseteq Lookups
      BY LenProperties, ElementOfSeq DEF QueueOK, Waits
    <2> QED
      BY <2>1 DEF QueueOK, Open
  <1>4. \A t \in a \cup Waits(w) : left[t] \in 0..Timeout
    BY <1>2, <1>3 DEF QueueOK
  <1>5. Serve(a, w, left)
    OBVIOUS
  <1> HIDE DEF a
  <1>6. /\ active' \subseteq Lookups /\ IsFiniteSet(active') /\ Cardinality(active') <= Limit
        /\ waiting' \in Seq(Lookups) /\ Distinct(waiting')
        /\ waiting' # <<>> => Cardinality(active') = Limit
        /\ active' \cap Waits(waiting') = {}
        /\ Open' = a \cup Waits(w)
        /\ left' \in [Lookups -> 0..Timeout]
        /\ \A t \in Open' : left'[t] = left[t]
    BY <1>1, <1>2, <1>4, <1>5, ServeKeeps
  <1> QED
    BY <1>2, <1>6 DEF QueueOK, Waits, Distinct

(* A call knows its literals when it begins.                               *)
LEMMA AnswersBegin == \A hosts : KnownAtOnce(hosts) \in Answers(hosts)
  <1> SUFFICES ASSUME NEW hosts PROVE KnownAtOnce(hosts) \in Answers(hosts)
    OBVIOUS
  <1>1. KnownAtOnce(hosts) = AllOf((hosts \cap Literals) \cup {})
    BY DEF KnownAtOnce, AllOf
  <1> QED
    BY <1>1 DEF Answers

(* One more name answers.                                                  *)
LEMMA AnswersGrow ==
  ASSUME NEW hosts, NEW h \in hosts \ Literals, NEW some \in Answers(hosts)
  PROVE  some \cup Addresses[h] \in Answers(hosts)
  <1>1. PICK names \in SUBSET (hosts \ Literals) : some = AllOf((hosts \cap Literals) \cup names)
    BY DEF Answers
  <1>2. some \cup Addresses[h] = AllOf((hosts \cap Literals) \cup (names \cup {h}))
    BY <1>1 DEF AllOf
  <1>3. names \cup {h} \in SUBSET (hosts \ Literals)
    OBVIOUS
  <1> QED
    BY <1>2, <1>3 DEF Answers

(* No call returns more than the addresses of all its hosts.               *)
LEMMA AnswersBounded == \A hosts : \A some \in Answers(hosts) : some \subseteq AllOf(hosts)
  BY DEF Answers, AllOf

(* Outside calls there are none.                                           *)
LEMMA NoAnswers == {} \in Answers({})
  <1>1. KnownAtOnce({}) = {}
    BY DEF KnownAtOnce
  <1> QED
    BY <1>1, AnswersBegin

(* Before any call there are no lookups.                                   *)
LEMMA InitIInv == Init => IInv
  <1> SUFFICES ASSUME Init PROVE IInv
    OBVIOUS
  <1> USE IdentityAssumption
  <1>1. Waits(waiting) = {} /\ Open = {} /\ Distinct(waiting)
    BY EmptySeq DEF Init, Waits, Open, Distinct
  <1>2. QueueOK
    BY <1>1, FS_EmptySet, EmptySeq DEF Init, QueueOK
  <1>3. CallsOK
    BY <1>1, NoAnswers DEF Init, CallsOK, CallsInTime
  <1> QED
    BY <1>2, <1>3, FS_EmptySet DEF Init, IInv, RegistryOK

(* Entries come and go beside the calls.                                   *)
LEMMA CallsUnchanged ==
  ASSUME IInv, UNCHANGED <<calls, active, waiting, left>>
  PROVE  QueueOK' /\ CallsOK'
  <1>1. Open' = Open
    BY DEF Open, Waits
  <1> QED
    BY <1>1 DEF IInv, QueueOK, CallsOK, CallsInTime, calls, Distinct, Waits, AllOf

(* The hosts a call asks about can be counted.                             *)
LEMMA EntriesFinite == IInv /\ [Next]_vars => IsFiniteSet(entries)'
  <1> SUFFICES ASSUME IInv, [Next]_vars PROVE IsFiniteSet(entries')
    OBVIOUS
  <1>1. ASSUME NEW d \in Devices, AddEntry(d) PROVE IsFiniteSet(entries')
    BY <1>1, FS_AddElement DEF AddEntry, IInv
  <1>2. ASSUME NEW d \in Devices, RemoveEntry(d) PROVE IsFiniteSet(entries')
    BY <1>2, FS_RemoveElement DEF RemoveEntry, IInv
  <1>3. ASSUME NEW e \in Devices, NEW d \in Devices, Register(e, d) PROVE UNCHANGED entries
    BY <1>3 DEF Register
  <1>4. ASSUME NEW c \in Callers, Ask(c) \/ Return(c) \/ Cancel(c) PROVE UNCHANGED entries
    BY <1>4 DEF Ask, Return, Cancel, config
  <1>5. ASSUME NEW c \in Callers, NEW h \in Hosts, Answer(c, h) \/ Raise(c, h) \/ TimeOut(c, h)
        PROVE  UNCHANGED entries
    BY <1>5 DEF Answer, Raise, TimeOut, Nothing, config
  <1>6. CASE Tick \/ UNCHANGED vars
    BY <1>6 DEF Tick, vars, config, IInv
  <1> QED
    BY <1>1, <1>2, <1>3, <1>4, <1>5, <1>6 DEF Next, IInv

(* An answer ends a lookup and adds its addresses.                         *)
LEMMA AnswerIInv ==
  ASSUME IInv, NEW c \in Callers, NEW h \in Hosts, Answer(c, h)
  PROVE  QueueOK' /\ CallsOK'
  <1> DEFINE ts == {<<c, h>>}
  <1>1. QueueOK /\ CallsOK /\ <<c, h>> \in active
    BY DEF IInv, Answer
  <1>2. Waits(waiting) = Waits(waiting) \ ts /\ waiting \in Seq(Lookups) /\ Distinct(waiting)
    BY <1>1 DEF QueueOK
  <1>3. Serve(active \ ts, waiting, left)
    BY DEF Answer
  <1> HIDE DEF ts
  <1>4. QueueOK' /\ Open' = Open \ ts /\ \A t \in Open' : left'[t] = left[t]
    BY <1>1, <1>2, <1>3, ServeSome
  <1>5. /\ UNCHANGED <<asked, failed, age>>
        /\ found' = [found EXCEPT ![c] = @ \cup Addresses[h]]
    BY DEF Answer
  <1>6. h \in asked[c] \ Literals
    BY <1>1 DEF CallsOK, Open
  <1>7. Addresses[h] \subseteq AllOf(Hosts)
    BY DEF AllOf
  <1>8. found[c] \cup Addresses[h] \in Answers(asked[c])
    BY <1>1, <1>6, AnswersGrow DEF CallsOK
  <1> QED
    BY <1>1, <1>4, <1>5, <1>6, <1>7, <1>8 DEF CallsOK, CallsInTime, ts

(* A lookup that returns nothing is remembered.                            *)
LEMMA NothingIInv ==
  ASSUME IInv, NEW c \in Callers, NEW h \in Hosts, <<c, h>> \in Open, Nothing(c, h)
  PROVE  QueueOK' /\ CallsOK'
  <1> DEFINE ts == {<<c, h>>}
             w  == Without(waiting, ts)
  <1>1. QueueOK /\ CallsOK
    BY DEF IInv
  <1>2. Waits(w) = Waits(waiting) \ ts /\ w \in Seq(Lookups) /\ Distinct(w)
    BY <1>1, WithoutKeeps DEF QueueOK
  <1>3. Serve(active \ ts, w, left)
    BY DEF Nothing
  <1> HIDE DEF ts, w
  <1>4. QueueOK' /\ Open' = Open \ ts /\ \A t \in Open' : left'[t] = left[t]
    BY <1>1, <1>2, <1>3, ServeSome
  <1>5. UNCHANGED <<asked, found, age>> /\ failed' = [failed EXCEPT ![c] = TRUE]
    BY DEF Nothing
  <1>6. /\ \A e \in Callers : failed'[e] = IF e = c THEN TRUE ELSE failed[e]
        /\ failed' \in [Callers -> BOOLEAN]
    BY <1>1, <1>5, Zenon DEF CallsOK
  <1> QED
    BY <1>1, <1>4, <1>5, <1>6 DEF CallsOK, CallsInTime, ts, AllOf

(* A call that is left has no lookups and no addresses.                    *)
LEMMA LeaveKeeps ==
  ASSUME CallsOK, NEW c \in Callers, Leave(c),
         Open' = Open \ ({c} \X Hosts), \A t \in Open' : left'[t] = left[t],
         Open \subseteq Lookups
  PROVE  CallsOK'
  <1>1. /\ asked' = [asked EXCEPT ![c] = {}] /\ asked \in [Callers -> SUBSET Hosts]
        /\ found' = [found EXCEPT ![c] = {}] /\ found \in [Callers -> SUBSET AllOf(Hosts)]
        /\ age' = [age EXCEPT ![c] = 0] /\ age \in [Callers -> 0..Timeout + 1]
    BY DEF Leave, CallsOK
  <1>2. /\ \A e \in Callers : failed'[e] = IF e = c THEN FALSE ELSE failed[e]
        /\ failed' \in [Callers -> BOOLEAN]
    BY Zenon DEF Leave, CallsOK
  <1>3. /\ asked' \in [Callers -> SUBSET Hosts] /\ asked'[c] = {}
        /\ found' \in [Callers -> SUBSET AllOf(Hosts)] /\ found'[c] = {}
        /\ age' \in [Callers -> 0..Timeout + 1] /\ age'[c] = 0
    BY <1>1, IdentityAssumption
  <1>4. \A e \in Callers \ {c} : asked'[e] = asked[e] /\ found'[e] = found[e] /\ age'[e] = age[e]
    BY <1>1
  <1>5. \A t \in Open' : t \in Open /\ t[1] \in Callers \ {c}
    BY DEF Lookups
  <1>6. \A e \in Callers \ {c}, h \in Hosts : <<e, h>> \in Open => <<e, h>> \in Open'
    OBVIOUS
  <1>7. \A t \in Open' : t[2] \in asked'[t[1]] \ Literals /\ left'[t] + age'[t[1]] = Timeout
    <2>1. \A t \in Open : t[2] \in asked[t[1]] \ Literals /\ left[t] + age[t[1]] = Timeout
      BY DEF CallsOK
    <2> QED
      BY <1>4, <1>5, <2>1
  <1>8. CallsInTime' /\ \A e \in Callers : found'[e] \in Answers(asked'[e])
    <2> SUFFICES ASSUME NEW e \in Callers
                 PROVE  /\ asked'[e] # {} => age'[e] <= Timeout
                        /\ found'[e] \in Answers(asked'[e])
      BY DEF CallsInTime
    <2>1. CASE e = c
      BY <1>3, <2>1, NoAnswers
    <2>2. CASE e # c
      <3>1. (asked[e] # {} => age[e] <= Timeout) /\ found[e] \in Answers(asked[e])
        BY DEF CallsOK, CallsInTime
      <3> QED
        BY <1>4, <2>2, <3>1
    <2> QED
      BY <2>1, <2>2
  <1>9. \A e \in Callers : \A h \in asked'[e] :
          <<e, h>> \in Open' \/ Addresses[h] \subseteq found'[e] \/ failed'[e]
    <2> SUFFICES ASSUME NEW e \in Callers \ {c}, NEW h \in asked[e]
                 PROVE  <<e, h>> \in Open' \/ Addresses[h] \subseteq found'[e] \/ failed'[e]
      BY <1>3, <1>4
    <2>1. h \in Hosts /\ (<<e, h>> \in Open \/ Addresses[h] \subseteq found[e] \/ failed[e])
      BY DEF CallsOK
    <2>2. failed'[e] = failed[e]
      BY <1>2, Zenon
    <2>3. (<<e, h>> \in Open => <<e, h>> \in Open') /\ found'[e] = found[e]
      BY <1>4, <1>6, <2>1
    <2> QED
      BY <2>1, <2>2, <2>3, Zenon
  <1> QED
    BY <1>2, <1>3, <1>7, <1>8, <1>9 DEF CallsOK, AllOf

(* Every open lookup is one of a caller for a host.                        *)
LEMMA OpenLookups == QueueOK => Open \subseteq Lookups
  BY LenProperties, ElementOfSeq DEF QueueOK, Open, Waits

(* A cancelled call takes its lookups with it.                             *)
LEMMA CancelIInv ==
  ASSUME IInv, NEW c \in Callers, Cancel(c)
  PROVE  QueueOK' /\ CallsOK'
  <1> DEFINE ts == {c} \X Hosts
             w  == Without(waiting, ts)
  <1>1. QueueOK /\ CallsOK /\ Open \subseteq Lookups
    BY OpenLookups DEF IInv
  <1>2. Waits(w) = Waits(waiting) \ ts /\ w \in Seq(Lookups) /\ Distinct(w)
    BY <1>1, WithoutKeeps DEF QueueOK
  <1>3. Serve(active \ ts, w, left) /\ Leave(c)
    BY DEF Cancel
  <1> HIDE DEF w
  <1>4. QueueOK' /\ Open' = Open \ ts /\ \A t \in Open' : left'[t] = left[t]
    BY <1>1, <1>2, <1>3, ServeSome
  <1> QED
    BY <1>1, <1>3, <1>4, LeaveKeeps

(* A call that returns has none left.                                      *)
LEMMA ReturnIInv ==
  ASSUME IInv, NEW c \in Callers, Return(c)
  PROVE  QueueOK' /\ CallsOK'
  <1>1. QueueOK /\ CallsOK /\ Open \subseteq Lookups
    BY OpenLookups DEF IInv
  <1>2. UNCHANGED <<active, waiting, left>> /\ Leave(c) /\ Done(c)
    BY DEF Return
  <1>3. Open' = Open
    BY <1>2 DEF Open, Waits
  <1>4. Open \cap ({c} \X Hosts) = {}
    BY <1>2 DEF Done
  <1>5. QueueOK'
    BY <1>1, <1>2 DEF QueueOK, Distinct, Waits
  <1> QED
    BY <1>1, <1>2, <1>3, <1>4, <1>5, LeaveKeeps

(* A call knows its literal addresses at once and looks the others up.     *)
LEMMA AskIInv ==
  ASSUME IInv, NEW c \in Callers, Ask(c)
  PROVE  QueueOK' /\ CallsOK'
  <1> DEFINE hosts == {d.host : d \in entries}
             names == hosts \ Literals
             rest  == [t \in Lookups |-> IF t[1] = c THEN Timeout ELSE left[t]]
  <1>1. QueueOK /\ CallsOK /\ Open \subseteq Lookups /\ Timeout \in Nat
    BY OpenLookups, IdentityAssumption DEF IInv
  <1>2. hosts \subseteq Hosts /\ names \in SUBSET Hosts /\ IsFiniteSet(names)
    <2>1. hosts \subseteq Hosts
      BY DEF IInv, RegistryOK, Hosts
    <2>2. [d \in entries |-> d.host] \in Surjection(entries, hosts)
      BY DEF Surjection
    <2>3. IsFiniteSet(hosts)
      BY <2>2, FS_Surjection DEF IInv
    <2> QED
      BY <2>1, <2>3, FS_Subset
  <1>3. PICK q \in Orders(c, names) : Serve(active, waiting \o q, rest)
    BY DEF Ask
  <1>4. /\ asked[c] = {}
        /\ asked' = [asked EXCEPT ![c] = hosts]
        /\ found' = [found EXCEPT ![c] = KnownAtOnce(hosts)]
        /\ failed' = [failed EXCEPT ![c] = FALSE]
        /\ age' = [age EXCEPT ![c] = 0]
    BY DEF Ask
  <1> HIDE DEF hosts, names, rest
  <1>5. q \in Seq(Lookups) /\ Distinct(q) /\ Waits(q) = {<<c, h>> : h \in names}
    BY <1>2, OrdersAreWhole
  <1>6. \A t \in Open : t[1] # c /\ t[1] \in Callers /\ t \in Lookups
    BY <1>1, <1>4 DEF CallsOK, Lookups
  <1>7. /\ active \subseteq Open /\ Waits(waiting) \subseteq Open
        /\ waiting \in Seq(Lookups) /\ Distinct(waiting)
    BY <1>1 DEF QueueOK, Open
  <1>8. \A t \in Waits(q) : t[1] = c /\ t[2] \in names /\ t \in Lookups
    BY <1>2, <1>5 DEF Lookups
  <1>9. Waits(waiting) \cap Waits(q) = {} /\ active \cap Waits(q) = {}
    BY <1>6, <1>7, <1>8
  <1>10. /\ waiting \o q \in Seq(Lookups) /\ Distinct(waiting \o q)
         /\ Waits(waiting \o q) = Waits(waiting) \cup Waits(q)
    BY <1>5, <1>7, <1>9, QueuesJoin
  <1>11. /\ \A t \in Open : rest[t] = left[t] /\ rest[t] \in 0..Timeout
         /\ \A t \in Waits(q) : rest[t] = Timeout /\ rest[t] \in 0..Timeout
    BY <1>1, <1>6, <1>8 DEF QueueOK, rest
  <1>12. \A t \in active \cup Waits(waiting \o q) : rest[t] \in 0..Timeout
    BY <1>7, <1>10, <1>11
  <1>13. /\ active \in SUBSET Lookups /\ IsFiniteSet(active) /\ Cardinality(active) <= Limit
         /\ active \cap Waits(waiting \o q) = {}
    BY <1>1, <1>9, <1>10 DEF QueueOK
  <1>14. /\ active' \subseteq Lookups /\ IsFiniteSet(active') /\ Cardinality(active') <= Limit
         /\ waiting' \in Seq(Lookups) /\ Distinct(waiting')
         /\ waiting' # <<>> => Cardinality(active') = Limit
         /\ active' \cap Waits(waiting') = {}
         /\ Open' = active \cup Waits(waiting \o q)
         /\ left' \in [Lookups -> 0..Timeout]
         /\ \A t \in Open' : left'[t] = rest[t]
    BY <1>3, <1>10, <1>12, <1>13, ServeKeeps
  <1>15. QueueOK'
    BY <1>14 DEF QueueOK, Waits, Distinct
  <1>16. Open' = Open \cup Waits(q)
    BY <1>10, <1>14 DEF Open
  <1>17. KnownAtOnce(hosts) \in Answers(hosts) /\ KnownAtOnce(hosts) \subseteq AllOf(Hosts)
    BY <1>2, AnswersBegin DEF KnownAtOnce, AllOf
  <1>18. /\ asked' \in [Callers -> SUBSET Hosts] /\ asked'[c] = hosts
         /\ found' \in [Callers -> SUBSET AllOf(Hosts)] /\ found'[c] = KnownAtOnce(hosts)
         /\ age' \in [Callers -> 0..Timeout + 1] /\ age'[c] = 0
         /\ \A e \in Callers \ {c} : asked'[e] = asked[e] /\ found'[e] = found[e] /\ age'[e] = age[e]
    BY <1>1, <1>2, <1>4, <1>17 DEF CallsOK
  <1>19. /\ failed' \in [Callers -> BOOLEAN]
         /\ \A e \in Callers \ {c} : failed'[e] = failed[e]
    BY <1>1, <1>4, Zenon DEF CallsOK
  <1>20. \A t \in Open' : t[2] \in asked'[t[1]] \ Literals /\ left'[t] + age'[t[1]] = Timeout
    <2>1. ASSUME NEW t \in Open
          PROVE  t[2] \in asked'[t[1]] \ Literals /\ left'[t] + age'[t[1]] = Timeout
      <3>1. t[2] \in asked[t[1]] \ Literals /\ left[t] + age[t[1]] = Timeout
        BY <1>1 DEF CallsOK
      <3>2. asked'[t[1]] = asked[t[1]] /\ age'[t[1]] = age[t[1]] /\ left'[t] = left[t]
        BY <1>6, <1>11, <1>14, <1>16, <1>18
      <3> QED
        BY <3>1, <3>2
    <2>2. ASSUME NEW t \in Waits(q)
          PROVE  t[2] \in asked'[t[1]] \ Literals /\ left'[t] + age'[t[1]] = Timeout
      <3>1. left'[t] = Timeout /\ age'[t[1]] = 0
        BY <1>8, <1>11, <1>14, <1>16, <1>18
      <3> QED
        BY <1>1, <1>8, <1>18, <3>1 DEF names
    <2> QED
      BY <1>16, <2>1, <2>2
  <1>21. CallsInTime' /\ \A e \in Callers : found'[e] \in Answers(asked'[e])
    <2> SUFFICES ASSUME NEW e \in Callers
                 PROVE  /\ asked'[e] # {} => age'[e] <= Timeout
                        /\ found'[e] \in Answers(asked'[e])
      BY DEF CallsInTime
    <2>1. CASE e = c
      BY <1>1, <1>17, <1>18, <2>1
    <2>2. CASE e # c
      <3>1. (asked[e] # {} => age[e] <= Timeout) /\ found[e] \in Answers(asked[e])
        BY <1>1 DEF CallsOK, CallsInTime
      <3> QED
        BY <1>18, <2>2, <3>1
    <2> QED
      BY <2>1, <2>2
  <1>22. \A e \in Callers : \A h \in asked'[e] :
           <<e, h>> \in Open' \/ Addresses[h] \subseteq found'[e] \/ failed'[e]
    <2>1. ASSUME NEW h \in asked'[c]
          PROVE  <<c, h>> \in Open' \/ Addresses[h] \subseteq found'[c]
      <3>1. CASE h \in Literals
        BY <1>18, <3>1 DEF KnownAtOnce
      <3>2. CASE h \notin Literals
        BY <1>5, <1>16, <1>18, <3>2 DEF names
      <3> QED
        BY <3>1, <3>2
    <2>2. ASSUME NEW e \in Callers \ {c}, NEW h \in asked'[e]
          PROVE  <<e, h>> \in Open' \/ Addresses[h] \subseteq found'[e] \/ failed'[e]
      <3>1. asked'[e] = asked[e] /\ found'[e] = found[e] /\ failed'[e] = failed[e]
        BY <1>18, <1>19, Zenon
      <3>2. <<e, h>> \in Open \/ Addresses[h] \subseteq found[e] \/ failed[e]
        BY <1>1, <3>1, Zenon DEF CallsOK
      <3>3. <<e, h>> \in Open => <<e, h>> \in Open'
        BY <1>16
      <3> QED
        BY <3>1, <3>2, <3>3, Zenon
    <2> QED
      BY <2>1, <2>2, Zenon
  <1> QED
    BY <1>15, <1>18, <1>19, <1>20, <1>21, <1>22 DEF CallsOK, AllOf

(* Time passes only while every open lookup has some of it left.           *)
LEMMA TickIInv ==
  ASSUME IInv, Tick
  PROVE  QueueOK' /\ CallsOK'
  <1>1. QueueOK /\ CallsOK /\ Open \subseteq Lookups /\ Timeout \in Nat
    BY OpenLookups, IdentityAssumption DEF IInv
  <1>2. /\ UNCHANGED <<asked, found, failed, active, waiting>>
        /\ left' = [t \in Lookups |-> IF t \in Open THEN left[t] - 1 ELSE left[t]]
        /\ age' = [c \in Callers |->
                      IF asked[c] # {} /\ age[c] <= Timeout THEN age[c] + 1 ELSE age[c]]
        /\ \A t \in Open : left[t] > 0
        /\ \A c \in Callers : ~Done(c)
    BY DEF Tick
  <1>3. Open' = Open
    BY <1>2 DEF Open, Waits
  <1>4. left \in [Lookups -> 0..Timeout] /\ age \in [Callers -> 0..Timeout + 1]
    BY <1>1 DEF QueueOK, CallsOK
  <1>5. left' \in [Lookups -> 0..Timeout]
    BY <1>1, <1>2, <1>4
  <1>6. QueueOK'
    BY <1>1, <1>2, <1>5 DEF QueueOK, Distinct, Waits
  <1>7. age' \in [Callers -> 0..Timeout + 1]
    BY <1>1, <1>2, <1>4
  <1>8. ASSUME NEW c \in Callers, asked[c] # {} PROVE age[c] < Timeout /\ age'[c] = age[c] + 1
    <2>1. PICK h \in Hosts : <<c, h>> \in Open
      BY <1>2, <1>8 DEF Done
    <2>2. <<c, h>> \in Lookups /\ <<c, h>>[1] = c
      BY <1>1, <2>1
    <2>3. left[<<c, h>>] + age[c] = Timeout
      BY <1>1, <2>1, <2>2 DEF CallsOK
    <2>4. left[<<c, h>>] \in Nat /\ left[<<c, h>>] > 0 /\ age[c] \in Nat
      BY <1>2, <1>4, <2>1, <2>2
    <2>5. age[c] < Timeout
      BY <1>1, <2>3, <2>4
    <2> QED
      BY <1>1, <1>2, <1>8, <2>4, <2>5
  <1>9. CallsInTime'
    BY <1>1, <1>2, <1>4, <1>8 DEF CallsInTime
  <1>10. \A t \in Open' : t[2] \in asked'[t[1]] \ Literals /\ left'[t] + age'[t[1]] = Timeout
    <2> SUFFICES ASSUME NEW t \in Open
                 PROVE  t[2] \in asked[t[1]] \ Literals /\ left'[t] + age'[t[1]] = Timeout
      BY <1>2, <1>3
    <2>1. t \in Lookups /\ t[1] \in Callers
      BY <1>1 DEF Lookups
    <2>2. t[2] \in asked[t[1]] \ Literals /\ left[t] + age[t[1]] = Timeout
      BY <1>1 DEF CallsOK
    <2>3. age'[t[1]] = age[t[1]] + 1
      BY <1>8, <2>1, <2>2
    <2>4. left'[t] = left[t] - 1
      BY <1>2, <2>1
    <2> QED
      BY <1>1, <1>4, <2>1, <2>2, <2>3, <2>4
  <1> QED
    BY <1>1, <1>2, <1>3, <1>6, <1>7, <1>9, <1>10, Zenon DEF CallsOK, AllOf

(* The queue, the calls and the registry step by step.                     *)
LEMMA Inductive == IInv /\ [Next]_vars => IInv'
  <1> SUFFICES ASSUME IInv, [Next]_vars PROVE IInv'
    OBVIOUS
  <1>1. RegistryOK' /\ IsFiniteSet(entries)'
    BY RegistryInductive, EntriesFinite DEF IInv
  <1>2. ASSUME NEW d \in Devices,
               AddEntry(d) \/ RemoveEntry(d) \/ \E x \in Devices : Register(d, x)
        PROVE  QueueOK' /\ CallsOK'
    BY <1>2, CallsUnchanged DEF AddEntry, Register, RemoveEntry
  <1>3. ASSUME NEW c \in Callers, Ask(c) \/ Return(c) \/ Cancel(c) PROVE QueueOK' /\ CallsOK'
    BY <1>3, AskIInv, ReturnIInv, CancelIInv
  <1>4. ASSUME NEW c \in Callers, NEW h \in Hosts, Answer(c, h) \/ Raise(c, h) \/ TimeOut(c, h)
        PROVE  QueueOK' /\ CallsOK'
    BY <1>4, AnswerIInv, NothingIInv DEF Raise, TimeOut, Open
  <1>5. CASE Tick
    BY <1>1, <1>5, TickIInv DEF IInv
  <1>6. CASE UNCHANGED vars
    BY <1>1, <1>6, CallsUnchanged DEF vars, IInv
  <1> QED
    BY <1>1, <1>2, <1>3, <1>4, <1>5, <1>6 DEF Next, IInv

(* The invariant holds for good.                                           *)
LEMMA Invariance == Spec => []IInv
  BY InitIInv, Inductive, PTL DEF Spec

-----------------------------------------------------------------------------
(* The theorems                                                            *)

(* It gives every variable its type.                                       *)
LEMMA TypesFollow == IInv => TypeOK
  <1> SUFFICES ASSUME IInv PROVE TypeOK
    OBVIOUS
  <1>1. QueueOK /\ CallsOK /\ RegistryOK
    BY DEF IInv
  <1>2. \A i, j \in DOMAIN waiting : waiting[i] = waiting[j] => i = j
    BY <1>1, Zenon DEF QueueOK, Distinct
  <1>3. \A i \in DOMAIN waiting : waiting[i] \notin active
    <2>1. active \cap Waits(waiting) = {}
      BY <1>1, Zenon DEF QueueOK
    <2>2. \A i \in DOMAIN waiting : waiting[i] \in Waits(waiting)
      BY Zenon DEF Waits
    <2> QED
      BY <2>1, <2>2, Zenon
  <1>4. \A t \in Open : t[2] \in asked[t[1]] \ Literals
    BY <1>1, Zenon DEF CallsOK
  <1> QED
    BY <1>1, <1>2, <1>3, <1>4, Zenon DEF RegistryOK, QueueOK, CallsOK, TypeOK

(* Every variable keeps its type; a lookup is open only in its call, once. *)
THEOREM TypeCorrect == Spec => []TypeOK
  BY Invariance, TypesFollow, PTL

(* No lookup runs without a permit, and none waits while one is free,      *)
(* whatever answers, fails, times out or is cancelled.                     *)
THEOREM PermitsAreKept == Spec => []PermitsKept
  <1>1. IInv => PermitsKept
    BY TypesFollow DEF IInv, QueueOK, PermitsKept
  <1> QED
    BY <1>1, Invariance, PTL

(* A call never lasts longer than one timeout, however many names are slow *)
(* and however few permits there are.                                      *)
THEOREM CallsEndInTime == Spec => []CallsInTime
  <1>1. IInv => CallsInTime
    BY DEF IInv, CallsOK
  <1> QED
    BY <1>1, Invariance, PTL

(* A call has the addresses of its literals and of the names that answered *)
(* and no others; when all answered, of every host configured at its start.*)
THEOREM AnswersAreWhole == Spec => []AnswersWhole
  <1>1. IInv => AnswersWhole
    <2> SUFFICES ASSUME IInv, NEW c \in Callers, asked[c] # {}
                 PROVE  /\ found[c] \in Answers(asked[c])
                        /\ Done(c) /\ ~failed[c] => found[c] = AllOf(asked[c])
      BY DEF AnswersWhole
    <2>1. /\ found[c] \in Answers(asked[c]) /\ found[c] \subseteq AllOf(asked[c])
          /\ asked[c] \subseteq Hosts
      BY AnswersBounded DEF IInv, CallsOK
    <2>2. ASSUME Done(c), ~failed[c] PROVE AllOf(asked[c]) \subseteq found[c]
      <3>1. ASSUME NEW h \in asked[c] PROVE Addresses[h] \subseteq found[c]
        <4>1. <<c, h>> \notin Open
          BY <2>1, <2>2 DEF Done
        <4> QED
          BY <2>2, <4>1, Zenon DEF IInv, CallsOK
      <3> QED
        BY <3>1 DEF AllOf
    <2> QED
      BY <2>1, <2>2
  <1> QED
    BY <1>1, Invariance, PTL

(* A device matches its own entry, or else the only one for which its unit *)
(* answered, and none where two of them would match.                       *)
THEOREM MatchesAreRight == Spec => []MatchRight
  <1>1. IInv => MatchRight
    BY MatchIsRight DEF IInv
  <1> QED
    BY <1>1, Invariance, PTL
=============================================================================
