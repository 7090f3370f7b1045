------------------------------ MODULE DlogProofs ------------------------------
(***************************************************************************)
(* Proofs about the discrete-logarithm solver: for every group order,      *)
(* every table size, every number of baby steps and every set of           *)
(* conjugations allowed by the assumptions of Dlog, the solver is sound    *)
(* and complete on its range.                                              *)
(***************************************************************************)
EXTENDS Dlog, TLAPS

(***************************************************************************)
(* Multiples of NumBabies: the few facts of nonlinear arithmetic that the  *)
(* proofs below use, so that all their other steps are linear.             *)
(***************************************************************************)
LEMMA GiantNat == \A j \in Nat : j * NumBabies \in Nat
  BY DlogAssumption

LEMMA RangeNat == DlogRange \in Nat
  BY DlogAssumption DEF DlogRange

LEMMA GiantNext == \A j \in Nat : (j + 1) * NumBabies = j * NumBabies + NumBabies
  BY DlogAssumption

LEMMA GiantBound == \A j \in 0 .. NumGiants : j * NumBabies <= DlogRange
<1> TAKE j \in 0 .. NumGiants
<1>1. PICK d \in Nat : NumGiants = j + d
  <2>1. NumGiants - j \in Nat /\ NumGiants = j + (NumGiants - j)
    BY DlogAssumption
  <2> QED BY <2>1
<1>2. NumGiants * NumBabies = j * NumBabies + d * NumBabies
  BY <1>1, DlogAssumption
<1> QED BY <1>2, GiantNat, DlogAssumption DEF DlogRange

LEMMA GiantInjective ==
  \A j, k \in Nat : j * NumBabies = k * NumBabies => j = k
<1> SUFFICES ASSUME NEW j \in Nat, NEW k \in Nat, j < k
             PROVE  j * NumBabies # k * NumBabies
  OBVIOUS
<1>1. PICK d \in Nat : k = j + 1 + d
  <2>1. k - j - 1 \in Nat /\ k = j + 1 + (k - j - 1)
    OBVIOUS
  <2> QED BY <2>1
<1>2. k * NumBabies = j * NumBabies + NumBabies + d * NumBabies
  BY <1>1, DlogAssumption
<1> QED BY <1>2, GiantNat, DlogAssumption

(* Every number of the range is followed, within NumBabies, by a giant step *)
(* that the table holds.                                                    *)
LEMMA NextGiant ==
  \A t \in 0 .. DlogRange - 1 :
    \E j \in 0 .. NumGiants, k \in 0 .. NumBabies - 1 : t + k + 1 = j * NumBabies
<1> TAKE t \in 0 .. DlogRange - 1
<1>0. t \in Nat /\ DlogRange \in Nat
  BY DlogAssumption DEF DlogRange
<1> DEFINE q == t \div NumBabies
           r == t % NumBabies
<1>1. q \in Nat /\ r \in 0 .. NumBabies - 1 /\ t = q * NumBabies + r
  BY <1>0, DlogAssumption
<1> HIDE DEF q, r
<1>2. q + 1 <= NumGiants
  <2> SUFFICES ASSUME NumGiants <= q PROVE FALSE
    BY <1>1, DlogAssumption
  <2>1. PICK d \in Nat : q = NumGiants + d
    <3>1. q - NumGiants \in Nat /\ q = NumGiants + (q - NumGiants)
      BY <1>1, DlogAssumption
    <3> QED BY <3>1
  <2>2. q * NumBabies = DlogRange + d * NumBabies
    BY <2>1, DlogAssumption DEF DlogRange
  <2> QED BY <2>2, <1>1, <1>0, GiantNat, DlogAssumption
<1>3. (q + 1) * NumBabies = q * NumBabies + NumBabies
  BY <1>1, GiantNext
<1>4. t + (NumBabies - r - 1) + 1 = (q + 1) * NumBabies
  BY <1>1, <1>3, GiantNat, <1>0, DlogAssumption
<1>5. q + 1 \in 0 .. NumGiants /\ NumBabies - r - 1 \in 0 .. NumBabies - 1
  BY <1>1, <1>2, DlogAssumption
<1> QED BY <1>4, <1>5

-----------------------------------------------------------------------------

(* A point is one of its own conjugates.                                    *)
LEMMA OwnKey == \A p \in Group : p \in PointKey(p)
<1> TAKE p \in Group
<1>1. (1 * p) % Order = p
  BY DlogAssumption DEF Group
<1> QED BY <1>1, ConjugationsAssumption DEF PointKey

LEMMA GiantInGroup == \A j \in 0 .. NumGiants : j * NumBabies \in Group
  BY GiantBound, GiantNat, RangeNat, DlogAssumption DEF Group

(* In the range of the table a key tells a point from every giant step.     *)
LEMMA KeyOfGiant ==
  ASSUME NEW j \in 0 .. NumGiants, NEW d \in 0 .. DlogRange + NumBabies,
         PointKey(d) = PointKey(j * NumBabies)
  PROVE  d = j * NumBabies
  BY KeysAssumption

LEMMA GiantKeys ==
  ASSUME NEW j \in 0 .. NumGiants, NEW k \in 0 .. NumGiants,
         PointKey(j * NumBabies) = PointKey(k * NumBabies)
  PROVE  j = k
<1>1. j * NumBabies \in 0 .. DlogRange + NumBabies
  BY GiantBound, GiantNat, RangeNat, DlogAssumption
<1>2. j * NumBabies = k * NumBabies
  BY <1>1, KeysAssumption
<1> QED BY <1>2, GiantInjective, DlogAssumption

(* usize arithmetic is exact where the code subtracts no more than it has. *)
LEMMA WordExact ==
  \A j \in 0 .. NumGiants, k \in 0 .. NumBabies - 1 :
    k + 1 <= j * NumBabies => WordExponent(j, k) = j * NumBabies - k - 1
<1> TAKE j \in 0 .. NumGiants, k \in 0 .. NumBabies - 1
<1> HAVE k + 1 <= j * NumBabies
<1> DEFINE m == j * NumBabies
<1>1. m \in Nat /\ m < Word /\ m <= DlogRange
  BY GiantNat, GiantBound, DlogAssumption DEF DlogRange
<1>2. k + 1 <= m /\ WordExponent(j, k) = ((m % Word) - k - 1) % Word
  BY DEF WordExponent
<1> HIDE DEF m
<1>3. m % Word = m
  BY <1>1, DlogAssumption
<1>4. (m - k - 1) \in 0 .. Word - 1
  BY <1>1, <1>2, DlogAssumption
<1>5. (m - k - 1) % Word = m - k - 1
  BY <1>4, DlogAssumption
<1> QED BY <1>2, <1>3, <1>5 DEF m

LEMMA WordRange ==
  \A j \in Nat, k \in Nat : WordExponent(j, k) \in 0 .. Word - 1
<1> TAKE j \in Nat, k \in Nat
<1> DEFINE m == ((j * NumBabies) % Word) - k - 1
<1>1. m \in Int
  BY GiantNat, DlogAssumption
<1> HIDE DEF m
<1>2. m % Word \in 0 .. Word - 1
  BY <1>1, DlogAssumption
<1> QED BY <1>2 DEF WordExponent, m

(***************************************************************************)
(* The inductive invariant.  The table holds exactly the giants inserted   *)
(* so far, each under its own number; a search has so far looked up the    *)
(* points just above its target and found none of them in the table; and   *)
(* the answers already given are the ones the properties promise.          *)
(***************************************************************************)
IsTable(map, n) ==
  /\ DOMAIN map = { PointKey(j * NumBabies) : j \in 0 .. n }
  /\ \A j \in 0 .. n : map[PointKey(j * NumBabies)] = j

BuildInv ==
  pc = "build" =>
    /\ i \in 1 .. num_markers
    /\ marker = (i - 1) * NumBabies
    /\ IsTable(markers_map, i - 1)

TableInv == pc # "build" => IsTable(markers_map, NumGiants)

SearchInv ==
  pc = "solve" =>
    /\ i \in 0 .. NumBabies
    /\ dart = target + i + 1 \/ dart = target + i + 1 - Order
    /\ target < DlogRange =>
         \A k \in 0 .. i - 1 : PointKey(target + k + 1) \notin DOMAIN markers_map

IInv ==
  /\ TypeOK
  /\ BuildInv
  /\ TableInv
  /\ SearchInv
  /\ SolveSound
  /\ SolveComplete
  /\ SpuriousOnlyByConjugates

LEMMA InitInv == Init => IInv
<1> SUFFICES ASSUME Init PROVE IInv
  OBVIOUS
<1>0. 0 \in Group /\ PointKey(0) \in Keys
  BY DlogAssumption DEF Group, Keys
<1>1. TypeOK
  BY <1>0, DlogAssumption DEF Init, TypeOK, num_markers
<1>2. 0 * NumBabies = 0
  BY DlogAssumption
<1>3. { PointKey(j * NumBabies) : j \in 0 .. 0 } = {PointKey(0)}
  BY <1>2
<1>4. BuildInv
  BY <1>0, <1>2, <1>3, DlogAssumption DEF Init, BuildInv, IsTable, num_markers
<1> QED BY <1>1, <1>4 DEF Init, IInv, TableInv, SearchInv, SolveSound, SolveComplete,
           SpuriousOnlyByConjugates

LEMMA InsertPreserves == IInv /\ InsertMarker => IInv'
<1> SUFFICES ASSUME IInv, InsertMarker PROVE IInv'
  OBVIOUS
<1>1. /\ TypeOK /\ pc = "build" /\ pc' = "build" /\ i \in 1 .. NumGiants
      /\ marker = (i - 1) * NumBabies /\ IsTable(markers_map, i - 1)
  BY DlogAssumption DEF IInv, BuildInv, InsertMarker, num_markers
<1>2. marker + NumBabies = i * NumBabies
  <2>1. i - 1 \in Nat /\ (i - 1) + 1 = i
    BY <1>1, DlogAssumption
  <2> QED BY <1>1, <2>1, GiantNext
<1>3. i * NumBabies \in Nat /\ 2 * (i * NumBabies) < Order
  BY <1>1, GiantBound, GiantNat, RangeNat, DlogAssumption
<1>4. marker' = i * NumBabies
  BY <1>1, <1>2, <1>3, DlogAssumption DEF InsertMarker, GroupAdd, step
<1>5. marker' \in Group /\ PointKey(marker') \in Keys
  BY <1>1, <1>4, GiantInGroup, DlogAssumption DEF Keys
<1> DEFINE K(j) == PointKey(j * NumBabies)
<1> HIDE DEF K
<1>6. DOMAIN markers_map' = DOMAIN markers_map \cup {K(i)}
  BY <1>4 DEF InsertMarker, K
<1>7. \A k \in DOMAIN markers_map' :
        markers_map'[k] = IF k = K(i) THEN i ELSE markers_map[k]
  BY <1>4 DEF InsertMarker, K
<1>8. i' = i + 1 /\ i' - 1 = i
  BY <1>1, DlogAssumption DEF InsertMarker
<1>9. IsTable(markers_map', i)
  <2>1. { K(j) : j \in 0 .. i } = { K(j) : j \in 0 .. i - 1 } \cup {K(i)}
    <3>1. 0 .. i = (0 .. i - 1) \cup {i}
      BY <1>1, DlogAssumption
    <3> QED BY <3>1
  <2>2. ASSUME NEW j \in 0 .. i
        PROVE  markers_map'[K(j)] = j
    <3>1. CASE j = i
      BY <3>1, <1>6, <1>7
    <3>2. CASE j # i
      <4>1. j \in 0 .. i - 1 /\ j \in 0 .. NumGiants /\ i \in 0 .. NumGiants
        BY <3>2, <1>1, DlogAssumption
      <4>2. K(j) # K(i)
        BY <4>1, <3>2, GiantKeys DEF K
      <4>3. K(j) \in DOMAIN markers_map /\ markers_map[K(j)] = j
        BY <4>1, <1>1 DEF IsTable, K
      <4> QED BY <4>2, <4>3, <1>6, <1>7
    <3> QED BY <3>1, <3>2
  <2>3. DOMAIN markers_map = { K(j) : j \in 0 .. i - 1 }
    BY <1>1 DEF IsTable, K
  <2>4. DOMAIN markers_map' = { K(j) : j \in 0 .. i }
    BY <2>1, <2>3, <1>6
  <2> QED BY <2>2, <2>4 DEF IsTable, K
<1>10. TypeOK'
  <2>1. DOMAIN markers_map' \subseteq Keys
    BY <1>1, <1>4, <1>5, <1>6 DEF TypeOK, K
  <2>2. \A k \in DOMAIN markers_map' : markers_map'[k] \in 0 .. NumGiants
    BY <1>1, <1>6, <1>7 DEF TypeOK
  <2> QED BY <1>1, <1>5, <1>8, <2>1, <2>2, DlogAssumption
          DEF TypeOK, InsertMarker, num_markers
<1>11. BuildInv'
  BY <1>1, <1>4, <1>8, <1>9, DlogAssumption DEF BuildInv, num_markers
<1> QED BY <1>1, <1>10, <1>11
        DEF IInv, TableInv, SearchInv, SolveSound, SolveComplete, SpuriousOnlyByConjugates

LEMMA BuiltPreserves == IInv /\ TableBuilt => IInv'
<1> SUFFICES ASSUME IInv, TableBuilt PROVE IInv'
  OBVIOUS
<1>1. i - 1 = NumGiants
  BY DlogAssumption DEF TableBuilt, num_markers
<1>2. IsTable(markers_map', NumGiants)
  BY <1>1 DEF IInv, BuildInv, TableBuilt
<1> QED BY <1>2 DEF IInv, TypeOK, TableBuilt, BuildInv, TableInv, SearchInv, SolveSound,
                    SolveComplete, SpuriousOnlyByConjugates

LEMMA StartPreserves == \A t \in Group : IInv /\ ComputeDlog(t) => IInv'
<1> SUFFICES ASSUME NEW t \in Group, IInv, ComputeDlog(t) PROVE IInv'
  OBVIOUS
<1>1. TypeOK' /\ (dart' = t + 1 \/ dart' = t + 1 - Order)
  BY DlogAssumption DEF IInv, TypeOK, ComputeDlog, GroupAdd, Group, num_markers
<1>2. SearchInv'
  BY <1>1, DlogAssumption DEF SearchInv, ComputeDlog, Group
<1>3. TableInv'
  BY DEF IInv, TableInv, ComputeDlog
<1> QED BY <1>1, <1>2, <1>3
        DEF IInv, ComputeDlog, BuildInv, SolveSound, SolveComplete, SpuriousOnlyByConjugates

(* A search for a target inside the range looks only at points that a key   *)
(* tells from every giant step.                                             *)
LEMMA DartInRange ==
  ASSUME IInv, pc = "solve", i < NumBabies, target < DlogRange
  PROVE  /\ target \in 0 .. DlogRange - 1
         /\ dart = target + i + 1
         /\ dart \in 0 .. DlogRange + NumBabies
<1>1. target \in 0 .. DlogRange - 1
  BY RangeNat, DlogAssumption DEF IInv, TypeOK, Group
<1>2. target + i + 1 \in 0 .. DlogRange + NumBabies /\ i \in Nat
  BY <1>1, RangeNat, DlogAssumption DEF IInv, SearchInv
<1>3. dart = target + i + 1
  BY <1>1, <1>2, RangeNat, DlogAssumption DEF IInv, SearchInv, TypeOK, Group
<1> QED BY <1>1, <1>2, <1>3

LEMMA HitPreserves == IInv /\ BabyHit => IInv'
<1> SUFFICES ASSUME IInv, BabyHit PROVE IInv'
  OBVIOUS
<1>1. PICK j \in 0 .. NumGiants :
        PointKey(dart) = PointKey(j * NumBabies) /\ markers_map[PointKey(dart)] = j
  BY DEF IInv, TableInv, IsTable, BabyHit
<1>2. x' = WordExponent(j, i) /\ i \in 0 .. NumBabies - 1 /\ j \in Nat
  BY <1>1, DlogAssumption DEF IInv, SearchInv, BabyHit
<1>3. TypeOK'
  BY <1>2, WordRange, DlogAssumption DEF IInv, TypeOK, BabyHit
<1>4. j * NumBabies \in Nat /\ j * NumBabies <= DlogRange
  BY <1>1, GiantBound, GiantNat
<1>5. SolveSound'
  <2> SUFFICES ASSUME target < DlogRange PROVE x' = target
    BY DEF SolveSound, BabyHit
  <2>1. target + i + 1 = j * NumBabies /\ target \in Nat
    <3>1. /\ target \in 0 .. DlogRange - 1
          /\ dart = target + i + 1
          /\ dart \in 0 .. DlogRange + NumBabies
      BY DartInRange DEF BabyHit
    <3>2. dart = j * NumBabies
      BY <1>1, <3>1, KeyOfGiant
    <3> QED BY <3>1, <3>2, RangeNat
  <2>2. i + 1 <= j * NumBabies
    BY <2>1, <1>2, DlogAssumption
  <2>3. x' = j * NumBabies - i - 1
    BY <1>2, <2>2, WordExact
  <2> QED BY <2>1, <2>3, <1>2, <1>4, DlogAssumption
<1>6. SpuriousOnlyByConjugates'
  <2> SUFFICES ASSUME x' # target
               PROVE  \E f \in Conjugations, l \in 0 .. NumGiants, k \in 1 .. NumBabies :
                        /\ GroupAdd(target, k) = (f * (l * NumBabies)) % Order
                        /\ f # 1 \/ l = 0
    BY DEF SpuriousOnlyByConjugates, BabyHit
  <2>1. /\ target \in Nat /\ target < Order /\ dart \in Group
        /\ dart = target + i + 1 \/ dart = target + i + 1 - Order
        /\ i + 1 \in 1 .. NumBabies
    BY <1>2, DlogAssumption DEF IInv, TypeOK, SearchInv, BabyHit, Group
  <2>2. GroupAdd(target, i + 1) = dart
    BY <1>2, <2>1, DlogAssumption DEF GroupAdd, Group
  <2>3. PICK f \in Conjugations : dart = (f * (j * NumBabies)) % Order
    BY <1>1, <2>1, OwnKey DEF PointKey
  <2>4. f # 1 \/ j = 0
    <3> SUFFICES ASSUME f = 1, j # 0 PROVE FALSE
      OBVIOUS
    <3>1. dart = j * NumBabies
      <4>1. 1 * (j * NumBabies) = j * NumBabies
        BY <1>4
      <4>2. (j * NumBabies) % Order = j * NumBabies
        BY <1>4, RangeNat, DlogAssumption
      <4> QED BY <4>1, <4>2, <2>3
    <3>2. NumBabies <= j * NumBabies
      <4>1. j - 1 \in Nat /\ (j - 1) + 1 = j
        BY <1>2
      <4>2. j * NumBabies = (j - 1) * NumBabies + NumBabies
        BY <4>1, GiantNext
      <4> QED BY <4>1, <4>2, GiantNat, DlogAssumption
    <3>3. x' = j * NumBabies - i - 1
      <4>1. i + 1 <= j * NumBabies
        BY <1>2, <1>4, <3>2, DlogAssumption
      <4> QED BY <1>2, <4>1, WordExact
    <3>4. dart = target + i + 1
      BY <2>1, <3>1, <3>2, <1>2, DlogAssumption
    <3> QED BY <3>1, <3>3, <3>4, <1>2, <1>4, <2>1
  <2> QED BY <2>1, <2>2, <2>3, <2>4, <1>1
<1> QED BY <1>3, <1>5, <1>6 DEF IInv, BabyHit, BuildInv, TableInv, SearchInv, SolveComplete

LEMMA MissPreserves == IInv /\ BabyMiss => IInv'
<1> SUFFICES ASSUME IInv, BabyMiss PROVE IInv'
  OBVIOUS
<1>1. i \in 0 .. NumBabies - 1 /\ i' = i + 1
  BY DlogAssumption DEF IInv, SearchInv, BabyMiss
<1>2. target \in Nat /\ target < Order /\ dart \in Nat /\ dart < Order
  BY DlogAssumption DEF IInv, TypeOK, Group
<1>3. /\ dart' \in Group
      /\ dart' = target + i' + 1 \/ dart' = target + i' + 1 - Order
  BY <1>1, <1>2, RangeNat, DlogAssumption DEF IInv, SearchInv, BabyMiss, GroupAdd, Group
<1>4. TypeOK'
  BY <1>1, <1>3, DlogAssumption DEF IInv, TypeOK, BabyMiss, num_markers
<1>5. ASSUME target < DlogRange, NEW k \in 0 .. i' - 1
      PROVE  PointKey(target + k + 1) \notin DOMAIN markers_map
  <2>1. CASE k = i
    BY <2>1, <1>5, DartInRange DEF BabyMiss
  <2>2. CASE k # i
    BY <2>2, <1>1, <1>5, DlogAssumption DEF IInv, SearchInv, BabyMiss
  <2> QED BY <2>1, <2>2
<1>6. SearchInv'
  BY <1>1, <1>3, <1>5, DlogAssumption DEF SearchInv, BabyMiss
<1> QED BY <1>4, <1>6 DEF IInv, BabyMiss, BuildInv, TableInv, SolveSound, SolveComplete,
                          SpuriousOnlyByConjugates

LEMMA GiveUpPreserves == IInv /\ OutOfSteps => IInv'
<1> SUFFICES ASSUME IInv, OutOfSteps PROVE IInv'
  OBVIOUS
<1>1. ASSUME target < DlogRange PROVE FALSE
  <2>1. target \in 0 .. DlogRange - 1
    BY <1>1, RangeNat, DlogAssumption DEF IInv, TypeOK, Group
  <2>2. PICK j \in 0 .. NumGiants, k \in 0 .. NumBabies - 1 : target + k + 1 = j * NumBabies
    BY <2>1, NextGiant
  <2>3. PointKey(target + k + 1) \in DOMAIN markers_map
    BY <2>2 DEF IInv, TableInv, IsTable, OutOfSteps
  <2> QED BY <2>3, <1>1, DlogAssumption DEF IInv, SearchInv, OutOfSteps
<1>2. SolveComplete'
  BY <1>1, RangeNat, DlogAssumption DEF SolveComplete, OutOfSteps, IInv, TypeOK, Group
<1> QED BY <1>2 DEF IInv, TypeOK, OutOfSteps, BuildInv, TableInv, SearchInv, SolveSound,
                    SpuriousOnlyByConjugates

LEMMA StutterPreserves == IInv /\ UNCHANGED vars => IInv'
  BY DEF IInv, vars, TypeOK, BuildInv, TableInv, SearchInv, SolveSound, SolveComplete,
         SpuriousOnlyByConjugates

LEMMA Invariance == Spec => []IInv
<1>1. IInv /\ [Next]_vars => IInv'
  BY InsertPreserves, BuiltPreserves, StartPreserves, HitPreserves, MissPreserves,
     GiveUpPreserves, StutterPreserves DEF Next, Loop
<1> QED BY InitInv, <1>1, PTL DEF Spec

(* Typing of the solver's variables, for every table and group size.        *)
THEOREM TypeCorrect == Spec => []TypeOK
  BY Invariance, PTL DEF IInv

(* compute_dlog (dlog/mod.rs:150-167) returns the discrete logarithm of     *)
(* every target in its range, whatever the order of the calls: an answer is *)
(* never wrong there, and None is never the answer there.                   *)
THEOREM SolverSound == Spec => []SolveSound
  BY Invariance, PTL DEF IInv

THEOREM SolverComplete == Spec => []SolveComplete
  BY Invariance, PTL DEF IInv

(* compute_dlog (dlog/mod.rs:157-161) answers wrongly only where the darts   *)
(* of a target meet a proper conjugate of a giant step (its inverse or a    *)
(* Frobenius image), or the identity: a giant step itself, met within       *)
(* 2^log_bases steps, always gives the exponent, however large the target.  *)
THEOREM SpuriousByConjugates == Spec => []SpuriousOnlyByConjugates
  BY Invariance, PTL DEF IInv
=============================================================================
