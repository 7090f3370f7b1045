------------------------------ MODULE BteProofs ------------------------------
(***************************************************************************)
(* Proofs about the batched scheme: the reference string, the evaluation   *)
(* loop of the decryption, and the evaluation of a full batch by           *)
(* transforms.  They hold for every batch size and batches of every        *)
(* length; up to the transforms for every commutative ring, and for those  *)
(* in every field with the roots of unity that BteFft assumes.             *)
(***************************************************************************)
EXTENDS BteFft, FieldLemmas

LEMMA BatchSizeNat == batch_size \in Nat /\ 1 <= batch_size
  BY BatchSizeAssumption

(***************************************************************************)
(* The inductive invariant.  While the powers are pushed, the array is a   *)
(* homomorphism from addition of indices to multiplication (ArePowers) and *)
(* cur is the next element.  Once the slot is overwritten that is lost,    *)
(* and what is left of it is what decryption needs: away from the slot, a  *)
(* pairing depends only on the sum of the two exponents (SumLaw).          *)
(***************************************************************************)
ArePowers(pw, m) ==
  /\ pw \in [0 .. m - 1 -> Scalar]
  /\ pw[0] = One
  /\ \A k \in 1 .. m - 1 : pw[k] = Mul(pw[k - 1], x)
  /\ \A a, b \in 0 .. m - 1 : a + b < m => Mul(pw[a], pw[b]) = pw[a + b]

LoopInv ==
  crs_pc = "powers" =>
    /\ len \in 1 .. 2 * batch_size + 2
    /\ ArePowers(powers_of_x, len)
    /\ cur = Mul(powers_of_x[len - 1], x)

Published == (0 .. 2 * batch_size) \ {batch_size + 1}

SumLaw ==
  crs_pc # "powers" =>
    \A a, b, c, d \in Published :
      a + b = c + d /\ a + b <= 2 * batch_size + 1 =>
        Mul(powers_of_g[a], powers_of_h[b]) = Mul(powers_of_g[c], powers_of_h[d])

SlotInv == crs_pc # "powers" => powers_of_h[batch_size + 1] = Zero

GtInv ==
  crs_pc = "ready" =>
    gt_powers =
      [k \in 0 .. batch_size - 1 |->
         IF k = 0 THEN Pairing(powers_of_g[batch_size], powers_of_h[1])
                  ELSE Pairing(powers_of_g[batch_size + 1 + k], powers_of_h[0])]

CrsInv == CrsTypeOK /\ LoopInv /\ SumLaw /\ SlotInv /\ GtInv

(* One more power keeps the homomorphism.                                   *)
LEMMA PowersGrow ==
  ASSUME NEW m \in Nat \ {0}, NEW pw, NEW qw, x \in Scalar,
         ArePowers(pw, m),
         qw = [k \in 0 .. m |-> IF k = m THEN Mul(pw[m - 1], x) ELSE pw[k]]
  PROVE  ArePowers(qw, m + 1)
<1> USE DEF ArePowers
<1>1. (m + 1) - 1 = m
  OBVIOUS
<1>2. \A k \in 0 .. m - 1 : qw[k] = pw[k] /\ pw[k] \in Scalar
  OBVIOUS
<1>3. qw[m] = Mul(pw[m - 1], x) /\ qw[m] \in Scalar
  BY <1>2, ScalarClosed
<1>4. qw \in [0 .. m -> Scalar]
  BY <1>2, <1>3
<1>5. qw[0] = One
  BY <1>2
<1>6. \A k \in 1 .. m : qw[k] = Mul(qw[k - 1], x)
  BY <1>2, <1>3
<1>7. ASSUME NEW a \in 0 .. m, NEW b \in 0 .. m, a + b < m + 1
      PROVE  Mul(qw[a], qw[b]) = qw[a + b]
  <2>1. CASE a + b < m
    BY <2>1, <1>2
  <2>2. CASE a + b = m /\ a = 0
    BY <2>2, <1>5, <1>3, MulOne
  <2>3. CASE a + b = m /\ b = 0
    BY <2>3, <1>5, <1>3, MulOne
  <2>4. CASE a + b = m /\ a # 0 /\ b # 0
    <3>1. a - 1 \in 0 .. m - 1 /\ a \in 1 .. m - 1 /\ b \in 0 .. m - 1 /\ (a - 1) + b = m - 1
      BY <2>4
    <3>2. pw[a - 1] \in Scalar /\ pw[b] \in Scalar /\ x \in Scalar
      BY <3>1
    <3>3. qw[a] = Mul(pw[a - 1], x) /\ qw[b] = pw[b]
      BY <3>1, <1>2
    <3>4. Mul(pw[a - 1], pw[b]) = pw[m - 1]
      <4>1. \A c, d \in 0 .. m - 1 : c + d < m => Mul(pw[c], pw[d]) = pw[c + d]
        OBVIOUS
      <4>2. Mul(pw[a - 1], pw[b]) = pw[(a - 1) + b]
        <5> HIDE DEF ArePowers
        <5> QED BY <3>1, <4>1
      <4> QED BY <3>1, <4>2
    <3>5. Mul(Mul(pw[a - 1], x), pw[b]) = Mul(Mul(pw[a - 1], pw[b]), x)
      <4>1. Mul(Mul(pw[a - 1], x), pw[b]) = Mul(pw[a - 1], Mul(x, pw[b]))
        BY <3>2, ScalarLaws
      <4>2. Mul(Mul(pw[a - 1], pw[b]), x) = Mul(pw[a - 1], Mul(pw[b], x))
        BY <3>2, ScalarLaws
      <4>3. Mul(x, pw[b]) = Mul(pw[b], x)
        BY <3>2, ScalarLaws
      <4> QED BY <4>1, <4>2, <4>3
    <3> QED BY <3>3, <3>4, <3>5, <1>3, <2>4
  <2> QED BY <1>7, <2>1, <2>2, <2>3, <2>4
<1> QED BY <1>1, <1>4, <1>5, <1>6, <1>7

LEMMA CrsInitInv == CrsInit => CrsInv
<1> SUFFICES ASSUME CrsInit PROVE CrsInv
  OBVIOUS
<1>1. CrsTypeOK
  BY ScalarClosed, BatchSizeNat DEF CrsInit, CrsTypeOK
<1>2. Mul(One, x) = x /\ Mul(One, One) = One
  BY ScalarClosed, MulOne DEF CrsInit
<1>3. LoopInv
  BY <1>2, ScalarClosed, BatchSizeNat DEF CrsInit, LoopInv, ArePowers
<1> QED BY <1>1, <1>3 DEF CrsInit, CrsInv, SumLaw, SlotInv, GtInv

LEMMA PushPreserves == CrsInv /\ PushPower => CrsInv'
<1> SUFFICES ASSUME CrsInv, PushPower PROVE CrsInv'
  OBVIOUS
<1>1. /\ crs_pc = "powers" /\ crs_pc' = "powers" /\ x' = x /\ x \in Scalar
      /\ len \in 1 .. 2 * batch_size + 1 /\ len' = len + 1
      /\ cur = Mul(powers_of_x[len - 1], x) /\ ArePowers(powers_of_x, len)
  BY BatchSizeNat DEF CrsInv, CrsTypeOK, LoopInv, PushPower
<1>2. powers_of_x' =
        [k \in 0 .. len |-> IF k = len THEN Mul(powers_of_x[len - 1], x) ELSE powers_of_x[k]]
  BY <1>1 DEF PushPower
<1>3. ArePowers(powers_of_x', len + 1)
  BY <1>1, <1>2, PowersGrow, BatchSizeNat
<1>4. cur' = Mul(powers_of_x'[len], x)
  BY <1>1, <1>2 DEF PushPower
<1>5. cur' \in Scalar
  BY <1>1, ScalarClosed DEF PushPower, CrsInv, CrsTypeOK
<1>6. LoopInv'
  <2>1. ArePowers(powers_of_x, len)' = ArePowers(powers_of_x', len')
    BY <1>1 DEF ArePowers
  <2> QED BY <1>1, <1>3, <1>4, <2>1, BatchSizeNat DEF LoopInv
<1>7. CrsTypeOK'
  BY <1>1, <1>3, <1>5, BatchSizeNat DEF CrsTypeOK, ArePowers
<1> QED BY <1>1, <1>6, <1>7 DEF CrsInv, SumLaw, SlotInv, GtInv

LEMMA ArraysPreserve == CrsInv /\ BuildArrays => CrsInv'
<1> SUFFICES ASSUME CrsInv, BuildArrays PROVE CrsInv'
  OBVIOUS
<1> DEFINE B == batch_size
<1>1. /\ crs_pc = "powers" /\ crs_pc' = "arrays"
      /\ len = 2 * B + 2 /\ len' = len /\ ArePowers(powers_of_x, 2 * B + 2)
  BY DEF CrsInv, LoopInv, BuildArrays
<1>2. powers_of_x \in [0 .. 2 * B + 1 -> Scalar]
  BY <1>1, BatchSizeNat DEF ArePowers
<1>3. /\ \A k \in 0 .. 2 * B + 1 : powers_of_x'[k] = IF k = B + 1 THEN Zero ELSE powers_of_x[k]
      /\ powers_of_x' \in [0 .. 2 * B + 1 -> Scalar]
  BY <1>2, ScalarClosed, BatchSizeNat DEF BuildArrays
<1>4. /\ powers_of_g' = [k \in 0 .. 2 * B |-> powers_of_x'[k]]
      /\ powers_of_h' = [k \in 0 .. 2 * B |-> powers_of_x'[k]]
  BY DEF BuildArrays
<1>5. CrsTypeOK'
  BY <1>1, <1>3, <1>4, BatchSizeNat DEF CrsTypeOK, BuildArrays, CrsInv
<1>6. \A k \in Published : powers_of_g'[k] = powers_of_x[k] /\ powers_of_h'[k] = powers_of_x[k]
  BY <1>3, <1>4, BatchSizeNat DEF Published
<1>7. \A a, b \in Published :
        a + b <= 2 * B + 1 => Mul(powers_of_g'[a], powers_of_h'[b]) = powers_of_x[a + b]
  BY <1>1, <1>6, BatchSizeNat DEF ArePowers, Published
<1>8. SumLaw'
  BY <1>7 DEF SumLaw, Published
<1>9. SlotInv'
  BY <1>3, <1>4, BatchSizeNat DEF SlotInv
<1> QED BY <1>1, <1>5, <1>8, <1>9 DEF CrsInv, LoopInv, GtInv

LEMMA GtPreserves == CrsInv /\ BuildGtPowers => CrsInv'
<1> SUFFICES ASSUME CrsInv, BuildGtPowers PROVE CrsInv'
  OBVIOUS
<1>1. /\ powers_of_g \in [0 .. 2 * batch_size -> Scalar]
      /\ powers_of_h \in [0 .. 2 * batch_size -> Scalar]
  BY DEF CrsInv, CrsTypeOK, BuildGtPowers
<1>2. GtInv'
  BY DEF BuildGtPowers, GtInv
<1>3. ASSUME NEW k \in 0 .. batch_size - 1
      PROVE  /\ k = 0 => Pairing(powers_of_g[batch_size], powers_of_h[1]) \in Scalar
             /\ k # 0 => Pairing(powers_of_g[batch_size + 1 + k], powers_of_h[0]) \in Scalar
  <2>1. /\ batch_size \in 0 .. 2 * batch_size /\ 1 \in 0 .. 2 * batch_size
        /\ 0 \in 0 .. 2 * batch_size
        /\ k # 0 => batch_size + 1 + k \in 0 .. 2 * batch_size
    BY BatchSizeNat
  <2> QED BY <1>1, <2>1, ScalarClosed DEF Pairing
<1>4. gt_powers' \in [0 .. batch_size - 1 -> Scalar]
  BY <1>3 DEF BuildGtPowers
<1>5. CrsTypeOK'
  BY <1>4 DEF CrsInv, CrsTypeOK, BuildGtPowers
<1> QED BY <1>2, <1>5 DEF CrsInv, BuildGtPowers, LoopInv, SumLaw, SlotInv, Published

LEMMA CrsStutter == CrsInv /\ UNCHANGED crsVars => CrsInv'
  BY DEF CrsInv, crsVars, CrsTypeOK, LoopInv, ArePowers, SumLaw, SlotInv, GtInv

LEMMA CrsInvariance == CrsSpec => []CrsInv
<1>1. CrsInv /\ [CrsNext]_crsVars => CrsInv'
  BY PushPreserves, ArraysPreserve, GtPreserves, CrsStutter DEF CrsNext
<1> QED BY CrsInitInv, <1>1, PTL DEF CrsSpec

-----------------------------------------------------------------------------

LEMMA InvEvalAgrees == CrsInv => PuncturedEvalAgrees
<1> SUFFICES ASSUME CrsInv, crs_pc = "ready",
                    NEW point \in 0 .. batch_size - 1, NEW input \in 0 .. batch_size - 1,
                    point # input
             PROVE  Pairing(powers_of_g[point], powers_of_h[batch_size + 1 + input - point])
                      = gt_powers[input]
  BY DEF PuncturedEvalAgrees
<1> DEFINE shift == batch_size + 1 + input - point
<1>1. point \in Published /\ shift \in Published /\ point + shift = batch_size + 1 + input
  BY BatchSizeNat DEF Published
<1> HIDE DEF shift
<1>4. \A a, b, c, d \in Published :
        a + b = c + d /\ a + b <= 2 * batch_size + 1 =>
          Mul(powers_of_g[a], powers_of_h[b]) = Mul(powers_of_g[c], powers_of_h[d])
  BY DEF CrsInv, SumLaw
<1>2. CASE input = 0
  <2>1. batch_size \in Published /\ 1 \in Published
    BY BatchSizeNat DEF Published
  <2>2. point + shift = batch_size + 1 /\ point + shift <= 2 * batch_size + 1
    BY <1>1, <1>2, BatchSizeNat
  <2>3. Mul(powers_of_g[point], powers_of_h[shift]) = Mul(powers_of_g[batch_size], powers_of_h[1])
    BY <1>1, <1>4, <2>1, <2>2
  <2> QED BY <1>2, <2>3 DEF CrsInv, GtInv, Pairing, shift
<1>3. CASE input # 0
  <2>1. batch_size + 1 + input \in Published /\ 0 \in Published
    BY <1>3, BatchSizeNat DEF Published
  <2>2. /\ point + shift = (batch_size + 1 + input) + 0
        /\ point + shift <= 2 * batch_size + 1
    BY <1>1, BatchSizeNat
  <2>3. Mul(powers_of_g[point], powers_of_h[shift])
          = Mul(powers_of_g[batch_size + 1 + input], powers_of_h[0])
    BY <1>1, <1>4, <2>1, <2>2
  <2> QED BY <1>3, <2>3 DEF CrsInv, GtInv, Pairing, shift
<1> QED BY <1>2, <1>3

LEMMA InvSlotIsZero == CrsInv => PuncturedSlotIsZero
<1> SUFFICES ASSUME CrsInv, crs_pc = "ready", NEW point \in 0 .. batch_size - 1
             PROVE  Pairing(powers_of_g[point], powers_of_h[batch_size + 1 + point - point]) = Zero
  BY DEF PuncturedSlotIsZero
<1>1. batch_size + 1 + point - point = batch_size + 1 /\ point \in 0 .. 2 * batch_size
  BY BatchSizeNat
<1>2. powers_of_g[point] \in Scalar
  BY <1>1 DEF CrsInv, CrsTypeOK
<1> QED BY <1>1, <1>2, MulZero DEF CrsInv, SlotInv, Pairing

(* Typing of the reference string, for every batch size.                    *)
THEOREM CrsTypeCorrect == CrsSpec => []CrsTypeOK
  BY CrsInvariance, PTL DEF CrsInv

(* The identity the batched decryption is built on, for every batch size    *)
(* and every ring: away from its point a punctured key evaluates like the   *)
(* key it was made from (bte/mod.rs:28-62 over crs.rs:36-72).               *)
THEOREM PuncturedEvalCorrect == CrsSpec => []PuncturedEvalAgrees
  BY CrsInvariance, InvEvalAgrees, PTL

(* On its point it evaluates to zero: the slot overwritten by crs.rs:46.    *)
THEOREM PuncturedSlotCorrect == CrsSpec => []PuncturedSlotIsZero
  BY CrsInvariance, InvSlotIsZero, PTL

-----------------------------------------------------------------------------
(* The reference string evolves on its own.                                 *)
LEMMA CrsRefines == Spec => CrsSpec
<1>1. Init => CrsInit
  BY DEF Init
<1>2. [Next]_vars => [CrsNext]_crsVars
  BY DEF Next, vars
<1> QED BY <1>1, <1>2, PTL DEF Spec, CrsSpec

LEMMA CrsInvHolds == Spec => []CrsInv
  BY CrsRefines, CrsInvariance, PTL

(* What one ciphertext contributes: its punctured evaluation is that of its *)
(* key, or zero on its own point, so that the difference of the two cancels *)
(* unless input is that point.                                              *)
LEMMA Contribution ==
  ASSUME CrsInv, crs_pc = "ready",
         NEW point \in 0 .. batch_size - 1, NEW input \in 0 .. batch_size - 1,
         NEW key \in Scalar
  PROVE  LET p == Pairing(puncture(key, point), powers_of_h[lag(point, input)])
             e == eval(key, input)
         IN  /\ lag(point, input) \in 0 .. 2 * batch_size
             /\ e \in Scalar /\ p \in Scalar
             /\ p = (IF point = input THEN Zero ELSE e)
             /\ Sub(e, p) = IF point = input THEN e ELSE Zero
<1> DEFINE g == powers_of_g[point]
           h == powers_of_h[lag(point, input)]
           p == Pairing(puncture(key, point), h)
           e == eval(key, input)
<1>1. lag(point, input) \in 0 .. 2 * batch_size /\ point \in 0 .. 2 * batch_size
  BY BatchSizeNat DEF lag
<1>2. g \in Scalar /\ h \in Scalar /\ gt_powers[input] \in Scalar
  BY <1>1 DEF CrsInv, CrsTypeOK
<1>3. e \in Scalar /\ p \in Scalar
  BY <1>2, ScalarClosed DEF eval, puncture, Pairing
<1>4. p = Mul(Mul(g, h), key)
  BY <1>2, MulSwap DEF Pairing, puncture
<1>5. CASE point = input
  <2>1. Mul(g, h) = Zero
    BY <1>5, InvSlotIsZero DEF PuncturedSlotIsZero, lag, Pairing
  <2>2. p = Zero
    BY <1>4, <2>1, MulZero
  <2>3. Add(Zero, Zero) = Zero /\ Zero \in Scalar
    BY ScalarClosed, ScalarLaws
  <2>4. Neg(Zero) = Zero
    BY <2>3, NegUnique
  <2> HIDE DEF e, p
  <2>5. Sub(e, p) = e
    BY <1>3, <2>2, <2>4, AddZero DEF Sub
  <2> QED BY <1>1, <1>3, <1>5, <2>2, <2>5 DEF e, p
<1>6. CASE point # input
  <2>1. Mul(g, h) = gt_powers[input]
    BY <1>6, InvEvalAgrees DEF PuncturedEvalAgrees, lag, Pairing
  <2>2. p = e
    BY <1>4, <2>1 DEF eval
  <2> HIDE DEF e, p
  <2>3. Sub(e, p) = Zero
    BY <1>3, <2>2, SubSelf
  <2> QED BY <1>1, <1>3, <1>6, <2>2, <2>3 DEF e, p
<1> QED BY <1>5, <1>6

-----------------------------------------------------------------------------

(***************************************************************************)
(* The inductive invariant.  Every ciphertext is what encrypt made; the    *)
(* accumulators of the fold are successive sums; and during an evaluation, *)
(* the first j keys evaluated minus the j pairings made so far is what     *)
(* OnlyPuncturedKeySurvives says of a batch of j ciphertexts.              *)
(***************************************************************************)
CtInv ==
  \A k \in 0 .. n - 1 :
    /\ ct[k].pprf = puncture(ct[k].key, ct[k].point)
    /\ ct[k].mask = eval(ct[k].key, ct[k].point)

CrsReady == pc # "collect" \/ n > 0 => crs_pc = "ready"

CollectInv == pc = "collect" => i = 0 /\ j = 0 /\ mask1 = Zero

FoldStart == pc = "fold" => i = 0 /\ mask1 = Zero

AccInv ==
  /\ acc[0] = Zero
  /\ \A k \in DOMAIN acc \ {0} : acc[k] = Add(acc[k - 1], ct[k - 1].key)

EvalInv ==
  pc = "eval" /\ i < batch_size /\ DistinctPoints =>
    /\ \A k \in 0 .. j - 1 : ct[k].point = i => Sub(eval(acc[j], i), mask1) = ct[k].mask
    /\ (\A k \in 0 .. j - 1 : ct[k].point # i) => Sub(eval(acc[j], i), mask1) = Zero

EndInv == pc = "eval" /\ j > 0 => i < n

DoneInv == pc = "eval" => i <= batch_size

IInv ==
  /\ CrsInv
  /\ TypeOK
  /\ CtInv
  /\ CrsReady
  /\ CollectInv
  /\ FoldStart
  /\ AccInv
  /\ EvalInv
  /\ EndInv
  /\ DoneInv
  /\ InOrderNeverPanics
  /\ OversizedBatchFails

LEMMA InvSurvives == IInv => OnlyPuncturedKeySurvives
  BY DEF IInv, TypeOK, EvalInv, OnlyPuncturedKeySurvives, unmasked

LEMMA InvKeysEvaluate == IInv => PuncturedKeyEvaluates
<1> SUFFICES ASSUME IInv, crs_pc = "ready", NEW k \in 0 .. n - 1
             PROVE  /\ \A input \in 0 .. batch_size - 1 :
                         IF PPRF_eval_panics(k, input) THEN input = ct[k].point
                         ELSE PPRF_eval(k, input) = eval(ct[k].key, input)
                    /\ PPRF_eval(k, ct[k].point) = Zero
  BY DEF PuncturedKeyEvaluates
<1> DEFINE point == ct[k].point
           key == ct[k].key
<1>1. point \in 0 .. batch_size - 1 /\ key \in Scalar /\ ct[k].pprf = puncture(key, point)
  BY DEF IInv, TypeOK, CtInv, Ciphertext
<1>2. ASSUME NEW input \in 0 .. batch_size - 1
      PROVE  PPRF_eval(k, input) = IF point = input THEN Zero ELSE eval(key, input)
  <2> HIDE DEF point, key
  <2>1. Pairing(puncture(key, point), powers_of_h[lag(point, input)])
          = IF point = input THEN Zero ELSE eval(key, input)
    BY <1>1, Contribution DEF IInv
  <2> QED BY <1>1, <2>1 DEF PPRF_eval, point, key
<1>3. ASSUME NEW input \in 0 .. batch_size - 1
      PROVE  PPRF_eval_panics(k, input) <=> input = point
  <2>1. input # batch_size + 1 /\ ~(lag(point, input) > 2 * batch_size)
    <3> HIDE DEF point
    <3> QED BY <1>1, BatchSizeNat DEF lag
  <2> QED BY <2>1 DEF PPRF_eval_panics
<1> QED BY <1>1, <1>2, <1>3

LEMMA BteInitInv == Init => IInv
<1> SUFFICES ASSUME Init PROVE IInv
  OBVIOUS
<1>1. CrsInv
  BY CrsInitInv DEF Init
<1>2. TypeOK
  BY <1>1, ScalarClosed DEF Init, BteInit, TypeOK, CrsInv, panics
<1> QED BY <1>1, <1>2
        DEF Init, BteInit, IInv, CtInv, CrsReady, CollectInv, FoldStart, AccInv, EvalInv,
            EndInv, DoneInv, InOrderNeverPanics, OversizedBatchFails, panics

(* The steps of the setup come before the first ciphertext.                 *)
LEMMA SetupPreserves == IInv /\ CrsNext /\ UNCHANGED bteVars => IInv'
<1> SUFFICES ASSUME IInv, CrsNext, UNCHANGED bteVars PROVE IInv'
  OBVIOUS
<1>1. CrsInv'
  BY PushPreserves, ArraysPreserve, GtPreserves DEF IInv, CrsNext
<1>2. pc = "collect" /\ n = 0
  BY DEF IInv, CrsReady, CrsNext, PushPower, BuildArrays, BuildGtPowers, TypeOK
<1>3. TypeOK'
  BY <1>1 DEF IInv, TypeOK, CrsInv, bteVars, Ciphertext, panics
<1> QED BY <1>1, <1>2, <1>3
        DEF IInv, bteVars, CtInv, CrsReady, CollectInv, FoldStart, AccInv, EvalInv, EndInv,
            DoneInv, InOrderNeverPanics, InOrder, OversizedBatchFails, panics

(* A step of the batch leaves the reference string alone, so that           *)
(* everything computed from it keeps its value.                             *)
LEMMA StringKept ==
  ASSUME IInv, UNCHANGED crsVars
  PROVE  /\ CrsInv' /\ crs_pc' = crs_pc
         /\ powers_of_g' = powers_of_g /\ powers_of_h' = powers_of_h /\ gt_powers' = gt_powers
         /\ CrsTypeOK'
  BY CrsStutter DEF IInv, crsVars, CrsInv

LEMMA EncryptPreserves ==
  ASSUME NEW position \in 0 .. batch_size, NEW key \in Scalar,
         IInv, crs_pc = "ready", Encrypt(position, key), UNCHANGED crsVars
  PROVE  IInv'
<1>1. /\ CrsInv' /\ crs_pc' = "ready" /\ CrsTypeOK'
      /\ powers_of_g' = powers_of_g /\ gt_powers' = gt_powers
  BY StringKept
<1>2. position \in 0 .. batch_size - 1 /\ n \in Nat /\ n' = n + 1 /\ pc = "collect" /\ pc' = pc
      /\ ct \in [0 .. n - 1 -> Ciphertext]
  BY BatchSizeNat DEF Encrypt, IInv, TypeOK
<1> DEFINE new == [point |-> position, pprf |-> puncture(key, position),
                   key |-> key, mask |-> eval(key, position)]
<1>3. new \in Ciphertext
  <2>1. powers_of_g[position] \in Scalar /\ gt_powers[position] \in Scalar
    BY <1>2, BatchSizeNat DEF IInv, CrsInv, CrsTypeOK
  <2> QED BY <1>2, <2>1, ScalarClosed DEF Ciphertext, puncture, eval
<1>4. ct' = [k \in 0 .. n |-> IF k = n THEN new ELSE ct[k]]
  BY DEF Encrypt
<1>5. /\ \A k \in 0 .. n - 1 : ct'[k] = ct[k]
      /\ ct'[n] = new
      /\ new.pprf = puncture(new.key, new.point) /\ new.mask = eval(new.key, new.point)
  BY <1>2, <1>4
<1> HIDE DEF new
<1>6. ct' \in [0 .. n' - 1 -> Ciphertext]
  BY <1>2, <1>3, <1>4
<1>7. TypeOK'
  BY <1>1, <1>2, <1>6 DEF IInv, TypeOK, Encrypt, CollectInv
<1>8. CtInv'
  <2> SUFFICES ASSUME NEW k \in 0 .. n
               PROVE  /\ ct'[k].pprf = Mul(powers_of_g'[ct'[k].point], ct'[k].key)
                      /\ ct'[k].mask = Mul(gt_powers'[ct'[k].point], ct'[k].key)
    BY <1>2 DEF CtInv, puncture, eval
  <2>1. /\ ct'[k].pprf = puncture(ct'[k].key, ct'[k].point)
        /\ ct'[k].mask = eval(ct'[k].key, ct'[k].point)
    BY <1>2, <1>5 DEF IInv, CtInv
  <2> QED BY <1>1, <2>1 DEF puncture, eval
<1>9. AccInv'
  BY <1>2 DEF IInv, TypeOK, AccInv, CollectInv, Encrypt
<1> QED BY <1>1, <1>2, <1>7, <1>8, <1>9
        DEF IInv, Encrypt, CrsReady, CollectInv, FoldStart, EvalInv, EndInv, DoneInv,
            InOrderNeverPanics, InOrder, OversizedBatchFails, panics

(* The conjuncts that no step of decrypt disturbs: it never writes the      *)
(* ciphertexts.                                                             *)
LEMMA BatchKept ==
  ASSUME IInv, UNCHANGED crsVars, ct' = ct, n' = n
  PROVE  CtInv' /\ CrsInv' /\ CrsTypeOK' /\ DistinctPoints' = DistinctPoints /\ InOrder' = InOrder
<1>1. /\ CrsInv' /\ CrsTypeOK'
      /\ powers_of_g' = powers_of_g /\ gt_powers' = gt_powers
  BY StringKept
<1>2. CtInv'
  <2> SUFFICES ASSUME NEW k \in 0 .. n - 1
               PROVE  /\ ct'[k].pprf = Mul(powers_of_g'[ct'[k].point], ct'[k].key)
                      /\ ct'[k].mask = Mul(gt_powers'[ct'[k].point], ct'[k].key)
    BY DEF CtInv, puncture, eval
  <2> QED BY <1>1 DEF IInv, CtInv, puncture, eval
<1> QED BY <1>1, <1>2 DEF DistinctPoints, InOrder

LEMMA DecryptPreserves == IInv /\ crs_pc = "ready" /\ Decrypt /\ UNCHANGED crsVars => IInv'
<1> SUFFICES ASSUME IInv, crs_pc = "ready", Decrypt, UNCHANGED crsVars PROVE IInv'
  OBVIOUS
<1>1. CtInv' /\ CrsInv' /\ CrsTypeOK' /\ crs_pc' = "ready"
  BY BatchKept, StringKept DEF Decrypt
<1>2. TypeOK'
  BY <1>1 DEF IInv, TypeOK, Decrypt
<1> QED BY <1>1, <1>2
        DEF IInv, Decrypt, CrsReady, CollectInv, FoldStart, AccInv, EvalInv, EndInv, DoneInv,
            InOrderNeverPanics, InOrder, OversizedBatchFails, panics

LEMMA FoldPreserves == IInv /\ crs_pc = "ready" /\ FoldKey /\ UNCHANGED crsVars => IInv'
<1> SUFFICES ASSUME IInv, crs_pc = "ready", FoldKey, UNCHANGED crsVars PROVE IInv'
  OBVIOUS
<1>1. CtInv' /\ CrsInv' /\ CrsTypeOK' /\ crs_pc' = "ready"
  BY BatchKept, StringKept DEF FoldKey
<1>2. /\ pc = "fold" /\ n \in Nat /\ j \in 0 .. n - 1 /\ DOMAIN acc = 0 .. j
      /\ acc[j] \in Scalar /\ ct[j].key \in Scalar
  BY DEF IInv, TypeOK, FoldKey, Ciphertext
<1>3. Add(acc[j], ct[j].key) \in Scalar
  BY <1>2, ScalarClosed
<1>4. /\ DOMAIN acc' = 0 .. j + 1
      /\ \A k \in 0 .. j : acc'[k] = acc[k]
      /\ acc'[j + 1] = Add(acc[j], ct[j].key)
  BY <1>2 DEF FoldKey
<1>5. TypeOK'
  BY <1>1, <1>2, <1>3, <1>4 DEF IInv, TypeOK, FoldKey
<1>6. AccInv'
  BY <1>2, <1>4 DEF IInv, AccInv, FoldKey
<1> QED BY <1>1, <1>5, <1>6
        DEF IInv, FoldKey, CrsReady, CollectInv, FoldStart, EvalInv, EndInv, DoneInv,
            InOrderNeverPanics, InOrder, OversizedBatchFails, panics

(* Nothing evaluated yet: the key so far is zero, and so is its evaluation. *)
LEMMA FreshEval ==
  ASSUME IInv, crs_pc = "ready", NEW input \in 0 .. batch_size - 1
  PROVE  Sub(eval(Zero, input), Zero) = Zero
<1>1. gt_powers[input] \in Scalar
  BY DEF IInv, CrsInv, CrsTypeOK
<1> QED BY <1>1, MulZero, SubSelf, ScalarClosed DEF eval

LEMMA FoldedPreserves == IInv /\ crs_pc = "ready" /\ Folded /\ UNCHANGED crsVars => IInv'
<1> SUFFICES ASSUME IInv, crs_pc = "ready", Folded, UNCHANGED crsVars PROVE IInv'
  OBVIOUS
<1>1. CtInv' /\ CrsInv' /\ CrsTypeOK' /\ crs_pc' = "ready" /\ gt_powers' = gt_powers
  BY BatchKept, StringKept DEF Folded
<1>2. i = 0 /\ mask1 = Zero /\ j = n /\ n \in Nat /\ acc[0] = Zero
  BY DEF IInv, TypeOK, FoldStart, AccInv, Folded
<1>3. TypeOK'
  BY <1>1, <1>2 DEF IInv, TypeOK, Folded
<1>4. EvalInv'
  <2>1. Sub(eval(Zero, 0), Zero) = Zero
    BY FreshEval, BatchSizeNat
  <2>2. Sub(eval(acc[0], 0), mask1)' = Zero
    BY <1>1, <1>2, <2>1 DEF Folded, Sub, eval
  <2> QED BY <1>2, <2>2 DEF EvalInv, Folded
<1>5. DoneInv'
  BY <1>2, BatchSizeNat DEF DoneInv, Folded
<1> QED BY <1>1, <1>2, <1>3, <1>4, <1>5
        DEF IInv, Folded, CrsReady, CollectInv, FoldStart, AccInv, EndInv,
            InOrderNeverPanics, InOrder, OversizedBatchFails, panics

LEMMA PairPreserves == IInv /\ crs_pc = "ready" /\ PairNext /\ UNCHANGED crsVars => IInv'
<1> SUFFICES ASSUME IInv, crs_pc = "ready", PairNext, UNCHANGED crsVars PROVE IInv'
  OBVIOUS
<1>1. /\ CtInv' /\ CrsInv' /\ CrsTypeOK' /\ crs_pc' = "ready" /\ gt_powers' = gt_powers
      /\ DistinctPoints' = DistinctPoints
  BY BatchKept, StringKept DEF PairNext
<1>2. /\ n \in Nat /\ j \in 0 .. n - 1 /\ i \in 0 .. n - 1 /\ mask1 \in Scalar
      /\ ct[j].point \in 0 .. batch_size - 1 /\ ct[j].key \in Scalar /\ ct[j].pprf \in Scalar
      /\ ct[j].pprf = puncture(ct[j].key, ct[j].point)
      /\ ct[j].mask = eval(ct[j].key, ct[j].point)
  BY DEF IInv, TypeOK, CtInv, PairNext, Ciphertext
<1>3. /\ DOMAIN acc = 0 .. n /\ acc[j] \in Scalar
      /\ acc[j + 1] = Add(acc[j], ct[j].key)
  <2>1. DOMAIN acc = 0 .. n
    BY DEF IInv, TypeOK, PairNext
  <2>2. \A k \in DOMAIN acc : acc[k] \in Scalar
    BY DEF IInv, TypeOK
  <2>3. \A k \in DOMAIN acc \ {0} : acc[k] = Add(acc[k - 1], ct[k - 1].key)
    BY DEF IInv, AccInv
  <2>4. j \in 0 .. n /\ j + 1 \in (0 .. n) \ {0} /\ (j + 1) - 1 = j
    BY <1>2
  <2> QED BY <2>1, <2>2, <2>3, <2>4
<1> DEFINE p == Pairing(ct[j].pprf, powers_of_h[lag(ct[j].point, i)])
           e == eval(ct[j].key, i)
           D == Sub(eval(acc[j], i), mask1)
<1>4. mask1' = Add(mask1, p) /\ j' = j + 1 /\ i' = i /\ pc' = "eval" /\ pc = "eval"
  BY DEF PairNext
<1>5. p \in Scalar
  <2>1. lag(ct[j].point, i) \in 0 .. 2 * batch_size
    BY <1>2, BatchSizeNat DEF PairNext, lag
  <2> QED BY <1>2, <2>1, ScalarClosed DEF IInv, CrsInv, CrsTypeOK, Pairing
<1>6. TypeOK'
  BY <1>1, <1>2, <1>4, <1>5, ScalarClosed DEF IInv, TypeOK, PairNext
<1>7. ASSUME i < batch_size, DistinctPoints
      PROVE  /\ \A k \in 0 .. j : ct[k].point = i =>
                  Sub(eval(acc[j + 1], i), Add(mask1, p)) = ct[k].mask
             /\ (\A k \in 0 .. j : ct[k].point # i) =>
                  Sub(eval(acc[j + 1], i), Add(mask1, p)) = Zero
  <2>1. i \in 0 .. batch_size - 1
    BY <1>2, <1>7, BatchSizeNat
  <2>2. /\ e \in Scalar /\ p \in Scalar
        /\ Sub(e, p) = IF ct[j].point = i THEN e ELSE Zero
    BY <1>2, <2>1, Contribution DEF IInv
  <2>3. gt_powers[i] \in Scalar /\ eval(acc[j], i) \in Scalar
    <3>1. gt_powers[i] \in Scalar
      BY <2>1 DEF IInv, CrsInv, CrsTypeOK
    <3> QED BY <1>3, <3>1, ScalarClosed DEF eval
  <2>4. eval(acc[j + 1], i) = Add(eval(acc[j], i), e)
    BY <1>2, <1>3, <2>3, MulAdd DEF eval
  <2>5. D \in Scalar
    BY <1>2, <2>3, SubClosed
  <2>6. Sub(eval(acc[j + 1], i), Add(mask1, p)) = Add(D, Sub(e, p))
    <3> HIDE DEF e, p
    <3> QED BY <1>2, <2>2, <2>3, <2>4, SubAdd
  <2>7. /\ \A k \in 0 .. j - 1 : ct[k].point = i => D = ct[k].mask
        /\ (\A k \in 0 .. j - 1 : ct[k].point # i) => D = Zero
    BY <1>4, <1>7 DEF IInv, EvalInv
  <2> HIDE DEF D, p, e
  <2>8. CASE ct[j].point = i
    <3>1. \A k \in 0 .. j - 1 : ct[k].point # i
      BY <1>2, <1>7, <2>8 DEF DistinctPoints
    <3>2. D = Zero
      BY <2>7, <3>1
    <3>3. Add(D, Sub(e, p)) = e
      BY <2>2, <2>8, <3>2, AddZero
    <3>4. e = ct[j].mask
      BY <1>2, <2>8 DEF e
    <3>5. \A k \in 0 .. j : ct[k].point = i => k = j
      BY <1>2, <3>1
    <3> QED BY <1>2, <2>6, <2>8, <3>3, <3>4, <3>5
  <2>9. CASE ct[j].point # i
    <3>1. Add(D, Sub(e, p)) = D
      BY <2>2, <2>5, <2>9, AddZero
    <3>2. \A k \in 0 .. j : ct[k].point = i => k \in 0 .. j - 1
      BY <1>2, <2>9
    <3>3. (\A k \in 0 .. j : ct[k].point # i) => \A k \in 0 .. j - 1 : ct[k].point # i
      BY <1>2
    <3> QED BY <2>6, <2>7, <3>1, <3>2, <3>3
  <2> QED BY <2>8, <2>9
<1>8. EvalInv'
  <2>1. Sub(eval(acc[j], i), mask1)' = Sub(eval(acc[j + 1], i), Add(mask1, p))
    <3> HIDE DEF p
    <3> QED BY <1>1, <1>4 DEF PairNext, Sub, eval
  <2>2. 0 .. j' - 1 = 0 .. j
    BY <1>2, <1>4
  <2> HIDE DEF p
  <2> QED BY <1>1, <1>4, <1>7, <2>1, <2>2 DEF EvalInv, PairNext
<1> QED BY <1>1, <1>2, <1>4, <1>6, <1>8
        DEF IInv, PairNext, CrsReady, CollectInv, FoldStart, AccInv, EndInv, DoneInv,
            InOrderNeverPanics, InOrder, OversizedBatchFails, panics

(* A batch in order has no two ciphertexts at one position and no more      *)
(* ciphertexts than positions.                                              *)
LEMMA InOrderFits == IInv /\ InOrder => n <= batch_size /\ DistinctPoints
<1> SUFFICES ASSUME IInv, InOrder PROVE n <= batch_size /\ DistinctPoints
  OBVIOUS
<1>1. n \in Nat /\ \A k \in 0 .. n - 1 : ct[k].point \in 0 .. batch_size - 1
  BY DEF IInv, TypeOK, Ciphertext
<1>2. n <= batch_size
  <2>1. CASE n = 0
    BY <2>1, BatchSizeNat
  <2>2. CASE n # 0
    <3>1. n - 1 \in 0 .. n - 1
      BY <1>1, <2>2
    <3>2. n - 1 \in 0 .. batch_size - 1
      BY <1>1, <3>1 DEF InOrder
    <3> QED BY <1>1, <3>2, BatchSizeNat
  <2> QED BY <2>1, <2>2
<1> QED BY <1>2 DEF InOrder, DistinctPoints

LEMMA IndexPanicPreserves ==
  IInv /\ crs_pc = "ready" /\ IndexPanic /\ UNCHANGED crsVars => IInv'
<1> SUFFICES ASSUME IInv, crs_pc = "ready", IndexPanic, UNCHANGED crsVars PROVE IInv'
  OBVIOUS
<1>1. CtInv' /\ CrsInv' /\ CrsTypeOK' /\ crs_pc' = "ready" /\ InOrder' = InOrder
  BY BatchKept, StringKept DEF IndexPanic
<1>2. n > batch_size
  <2>1. n \in Nat /\ i \in 0 .. n - 1 /\ ct[j].point \in 0 .. batch_size - 1
    BY DEF IInv, TypeOK, IndexPanic, Ciphertext
  <2> QED BY <2>1, BatchSizeNat DEF IndexPanic, lag
<1>3. ~InOrder
  BY <1>2, InOrderFits, BatchSizeNat DEF IInv, TypeOK
<1>4. TypeOK'
  BY <1>1 DEF IInv, TypeOK, IndexPanic, panics
<1> QED BY <1>1, <1>2, <1>3, <1>4
        DEF IInv, IndexPanic, CrsReady, CollectInv, FoldStart, AccInv, EvalInv, EndInv, DoneInv,
            InOrderNeverPanics, OversizedBatchFails, panics

LEMMA EvalPanicPreserves ==
  IInv /\ crs_pc = "ready" /\ EvalPanic /\ UNCHANGED crsVars => IInv'
<1> SUFFICES ASSUME IInv, crs_pc = "ready", EvalPanic, UNCHANGED crsVars PROVE IInv'
  OBVIOUS
<1>1. CtInv' /\ CrsInv' /\ CrsTypeOK' /\ crs_pc' = "ready" /\ InOrder' = InOrder
  BY BatchKept, StringKept DEF EvalPanic
<1>2. n > batch_size
  BY BatchSizeNat DEF IInv, TypeOK, EvalPanic
<1>3. ~InOrder
  BY <1>2, InOrderFits, BatchSizeNat DEF IInv, TypeOK
<1>4. TypeOK'
  BY <1>1 DEF IInv, TypeOK, EvalPanic, panics
<1> QED BY <1>1, <1>2, <1>3, <1>4
        DEF IInv, EvalPanic, CrsReady, CollectInv, FoldStart, AccInv, EvalInv, EndInv, DoneInv,
            InOrderNeverPanics, OversizedBatchFails, panics

LEMMA RecoverPreserves == IInv /\ crs_pc = "ready" /\ Recover /\ UNCHANGED crsVars => IInv'
<1> SUFFICES ASSUME IInv, crs_pc = "ready", Recover, UNCHANGED crsVars PROVE IInv'
  OBVIOUS
<1>1. /\ CtInv' /\ CrsInv' /\ CrsTypeOK' /\ crs_pc' = "ready" /\ InOrder' = InOrder
      /\ gt_powers' = gt_powers
  BY BatchKept, StringKept DEF Recover
<1>2. n \in Nat /\ i \in 0 .. n - 1 /\ i \in 0 .. batch_size - 1 /\ j = n /\ acc[0] = Zero
      /\ pc = "eval"
  BY BatchSizeNat DEF IInv, TypeOK, AccInv, Recover
<1>3. CASE unmasked = ct[i].mask
  <2>1. i' = i + 1 /\ j' = 0 /\ mask1' = Zero /\ pc' = "eval" /\ acc' = acc
    BY <1>2, <1>3 DEF Recover
  <2>2. TypeOK'
    BY <1>1, <1>2, <2>1, ScalarClosed DEF IInv, TypeOK, Recover
  <2>3. EvalInv'
    <3>1. ASSUME i + 1 < batch_size
          PROVE  Sub(eval(acc[j], i), mask1)' = Zero
      <4>1. Sub(eval(Zero, i + 1), Zero) = Zero
        BY <1>2, <3>1, FreshEval, BatchSizeNat
      <4> QED BY <1>1, <1>2, <2>1, <4>1 DEF Sub, eval
    <3> QED BY <2>1, <3>1 DEF EvalInv
  <2>4. DoneInv'
    BY <1>2, <2>1, BatchSizeNat DEF DoneInv, Recover
  <2> QED BY <1>1, <1>2, <2>1, <2>2, <2>3, <2>4
          DEF IInv, Recover, CrsReady, CollectInv, FoldStart, AccInv, EndInv,
              InOrderNeverPanics, OversizedBatchFails, panics
<1>4. CASE unmasked # ct[i].mask
  <2>1. pc' = "panic_mask" /\ UNCHANGED <<i, j, mask1, acc>>
    BY <1>4 DEF Recover
  <2>2. ~InOrder
    <3> SUFFICES ASSUME InOrder PROVE FALSE
      OBVIOUS
    <3>1. DistinctPoints /\ ct[i].point = i
      BY <1>2, InOrderFits DEF InOrder
    <3>2. unmasked = ct[i].mask
      BY <1>2, <3>1, BatchSizeNat DEF IInv, EvalInv, unmasked
    <3> QED BY <3>2, <1>4
  <2>3. TypeOK'
    BY <1>1, <1>2, <2>1 DEF IInv, TypeOK, Recover, panics
  <2> QED BY <1>1, <2>1, <2>2, <2>3
          DEF IInv, Recover, CrsReady, CollectInv, FoldStart, AccInv, EvalInv, EndInv, DoneInv,
              InOrderNeverPanics, OversizedBatchFails, panics
<1> QED BY <1>3, <1>4

LEMMA ReturnPreserves == IInv /\ crs_pc = "ready" /\ Return /\ UNCHANGED crsVars => IInv'
<1> SUFFICES ASSUME IInv, crs_pc = "ready", Return, UNCHANGED crsVars PROVE IInv'
  OBVIOUS
<1>1. CtInv' /\ CrsInv' /\ CrsTypeOK' /\ crs_pc' = "ready" /\ InOrder' = InOrder
  BY BatchKept, StringKept DEF Return
<1>2. n <= batch_size
  BY DEF IInv, DoneInv, Return
<1>3. TypeOK'
  BY <1>1 DEF IInv, TypeOK, Return
<1> QED BY <1>1, <1>2, <1>3
        DEF IInv, Return, CrsReady, CollectInv, FoldStart, AccInv, EvalInv, EndInv, DoneInv,
            InOrderNeverPanics, OversizedBatchFails, panics

LEMMA BteStutter == IInv /\ UNCHANGED vars => IInv'
<1> SUFFICES ASSUME IInv, UNCHANGED vars PROVE IInv'
  OBVIOUS
<1>1. /\ CtInv' /\ CrsInv' /\ CrsTypeOK' /\ DistinctPoints' = DistinctPoints
      /\ InOrder' = InOrder /\ gt_powers' = gt_powers /\ crs_pc' = crs_pc
  BY BatchKept, StringKept DEF vars, bteVars
<1>2. TypeOK'
  BY <1>1 DEF IInv, TypeOK, vars, bteVars
<1>3. EvalInv'
  BY <1>1 DEF IInv, EvalInv, eval, Sub, vars, bteVars
<1> QED BY <1>1, <1>2, <1>3
        DEF IInv, vars, bteVars, CrsReady, CollectInv, FoldStart, AccInv, EndInv, DoneInv,
            InOrderNeverPanics, OversizedBatchFails

LEMMA BteStep == IInv /\ [Next]_vars => IInv'
<1>1. IInv /\ crs_pc = "ready" /\ BteNext /\ UNCHANGED crsVars => IInv'
  BY EncryptPreserves, DecryptPreserves, FoldPreserves, FoldedPreserves, PairPreserves,
     IndexPanicPreserves, EvalPanicPreserves, RecoverPreserves, ReturnPreserves,
     BatchAssumption DEF BteNext
<1> QED BY <1>1, SetupPreserves, BteStutter DEF Next

LEMMA BteInvariance == Spec => []IInv
  BY BteInitInv, BteStep, PTL DEF Spec

(* Typing of the batch, for every ring, batch size and number of ciphertexts.*)
THEOREM BteTypeCorrect == Spec => []TypeOK
  BY BteInvariance, PTL DEF IInv

(* The correctness of batched decryption (decryption.rs:61-65): subtracting *)
(* all punctured evaluations from the aggregated key leaves exactly the one *)
(* mask that belongs to the position, for batches in any order.             *)
THEOREM MaskRecovered == Spec => []OnlyPuncturedKeySurvives
  BY BteInvariance, InvSurvives, PTL

(* A batch in order decrypts: none of the panics of the loop is reachable.  *)
THEOREM InOrderDecrypts == Spec => []InOrderNeverPanics
  BY BteInvariance, PTL DEF IInv

(* A batch with more ciphertexts than positions is never accepted, and it   *)
(* is the only one to run out of bounds.                                    *)
THEOREM OversizedRejected == Spec => []OversizedBatchFails
  BY BteInvariance, PTL DEF IInv

(* A punctured key answers like its key on every input of the scheme but    *)
(* its point, the only one PPRF::eval refuses (mod.rs:51-65), and adds zero *)
(* there to the unguarded sum of batch_eval (mod.rs:67-79).                 *)
THEOREM PuncturedKeysEvaluate == Spec => []PuncturedKeyEvaluates
  BY BteInvariance, InvKeysEvaluate, PTL

-----------------------------------------------------------------------------
(***************************************************************************)
(* The evaluation of a full batch by transforms.                           *)
(***************************************************************************)
element == [k \in Int |-> Domain!element(k)]

LEMMA FftSizeNat == fft_size \in Nat \ {0} /\ 2 * batch_size <= fft_size
  BY DomainAssumption, BatchSizeNat

LEMMA FftRoots == Roots(element, fft_size, SizeInv)
<1>1. Domain!Pow = CHOOSE q : q = [k \in Nat |-> IF k = 0 THEN One ELSE Mul(q[k - 1], omega)]
  BY DEF Domain!Pow
<1>2. /\ Domain!Pow[fft_size] = One
      /\ \A k \in 1 .. fft_size - 1 : Domain!Pow[k] # One
      /\ Mul(Domain!Sum([k \in 1 .. fft_size |-> One]), SizeInv) = One
  BY DomainAssumption DEF Domain!IsDomain
<1>3. Domain!Sum([k \in 1 .. fft_size |-> One]) = Total([k \in 1 .. fft_size |-> One])
  BY DEF Domain!Sum, Total, FoldFunction, FoldFunctionOnSet, MapThenFoldSet,
         Domain!FoldFunction, Domain!FoldFunctionOnSet, Domain!MapThenFoldSet
<1>4. element = [k \in Int |-> Domain!Pow[k % fft_size]]
  BY DEF element, Domain!element
<1>5. omega \in Scalar /\ SizeInv \in Scalar /\ fft_size \in Nat \ {0}
  BY DomainAssumption, FftSizeNat
<1>6. DomainOf(element, Domain!Pow, omega, fft_size, SizeInv)
  BY <1>1, <1>2, <1>3, <1>4 DEF DomainOf
<1> QED BY <1>5, <1>6, DomainRoots

(* The transforms of arkworks are those of FieldLemmas.                     *)
LEMMA FftIsDft ==
  ASSUME NEW a, DOMAIN a = Slots
  PROVE  Dft(Domain!fft(a), a, element, fft_size)
<1> SUFFICES ASSUME NEW k \in 0 .. fft_size - 1
             PROVE  Domain!fft(a)[k] = Dot(0 .. fft_size - 1, a, Wave(element, fft_size, k))
  BY DEF Dft
<1>1. Domain!fft(a)[k] = Domain!Sum([m \in DOMAIN a |-> Mul(a[m], Domain!element(m * k))])
  BY DEF Domain!fft, Domain!Slots
<1> DEFINE f == [m \in DOMAIN a |-> Mul(a[m], Domain!element(m * k))]
<1>2. Domain!Sum(f) = Total(f)
  BY DEF Domain!Sum, Total, FoldFunction, FoldFunctionOnSet, MapThenFoldSet,
         Domain!FoldFunction, Domain!FoldFunctionOnSet, Domain!MapThenFoldSet
<1>3. f = [m \in 0 .. fft_size - 1 |-> Mul(a[m], Wave(element, fft_size, k)[m])]
  <2>1. \A m \in 0 .. fft_size - 1 : Wave(element, fft_size, k)[m] = Domain!element(m * k)
    <3>1. \A m \in 0 .. fft_size - 1 : m * k \in Int
      BY FftSizeNat
    <3> QED BY <3>1 DEF Wave, element
  <2> QED BY <2>1 DEF Slots
<1> QED BY <1>1, <1>2, <1>3 DEF Dot

LEMMA IfftIsInverse ==
  ASSUME NEW a, DOMAIN a = Slots, NEW k \in Slots
  PROVE  Domain!ifft(a)[k]
           = Mul(SizeInv, Dot(0 .. fft_size - 1, a, Wave(element, fft_size, -k)))
<1> DEFINE f == [m \in DOMAIN a |-> Mul(a[m], Domain!element(-(m * k)))]
<1>1. Domain!ifft(a)[k] = Mul(SizeInv, Domain!Sum(f))
  BY DEF Domain!ifft, Domain!Slots, Slots
<1>2. Domain!Sum(f) = Total(f)
  BY DEF Domain!Sum, Total, FoldFunction, FoldFunctionOnSet, MapThenFoldSet,
         Domain!FoldFunction, Domain!FoldFunctionOnSet, Domain!MapThenFoldSet
<1>3. f = [m \in 0 .. fft_size - 1 |-> Mul(a[m], Wave(element, fft_size, -k)[m])]
  <2>1. \A m \in 0 .. fft_size - 1 : Wave(element, fft_size, -k)[m] = Domain!element(-(m * k))
    <3>1. \A m \in 0 .. fft_size - 1 : m * (-k) \in Int /\ m * (-k) = -(m * k)
      BY FftSizeNat DEF Slots
    <3> QED BY <3>1 DEF Wave, element
  <2> QED BY <2>1 DEF Slots
<1> QED BY <1>1, <1>2, <1>3 DEF Dot

(* On a full batch in order, the circular layout pairs every key with the   *)
(* power of its lag.                                                        *)
LEMMA LagInLayout ==
  ASSUME NEW k \in 0 .. batch_size - 1, NEW a \in 0 .. batch_size - 1
  PROVE  b_vec[(k - a) % fft_size] = powers_of_h[lag(a, k)]
<1> DEFINE z == k - a
           N == fft_size
<1>1. N \in Nat \ {0} /\ 2 * batch_size <= N /\ batch_size \in Nat /\ z \in Int
  BY FftSizeNat, BatchSizeNat
<1>2. CASE a <= k
  <2>1. z = N * 0 + z /\ z \in 0 .. N - 1 /\ z < batch_size /\ 0 \in Int
    BY <1>1, <1>2
  <2> HIDE DEF z
  <2>2. z % N = z
    <3> HIDE DEF N
    <3> QED BY <1>1, <2>1, DivModUnique
  <2>3. b_vec[z] = powers_of_h[batch_size + 1 + z]
    BY <2>1 DEF b_vec, Slots
  <2>4. batch_size + 1 + z = lag(a, k)
    BY <1>1 DEF z, lag
  <2> QED BY <2>2, <2>3, <2>4 DEF z
<1>3. CASE k < a
  <2> DEFINE s == N + z
  <2>1. z = N * (-1) + s /\ s \in 0 .. N - 1 /\ ~(s < batch_size) /\ N - s < batch_size
        /\ batch_size + 1 - (N - s) = lag(a, k) /\ -1 \in Int
    BY <1>1, <1>3 DEF lag
  <2> HIDE DEF z, s
  <2>2. z % N = s
    <3> DEFINE m1 == -1
    <3>1. m1 \in Int /\ z = N * m1 + s
      BY <2>1
    <3> HIDE DEF N, m1
    <3> QED BY <1>1, <2>1, <3>1, DivModUnique
  <2>3. b_vec[s] = powers_of_h[batch_size + 1 - (N - s)]
    BY <2>1 DEF b_vec, Slots
  <2> QED BY <2>1, <2>2, <2>3 DEF z
<1> QED BY <1>1, <1>2, <1>3

LEMMA FftComputesNaive ==
  ASSUME IInv, crs_pc = "ready", n = batch_size, InOrder, NEW k \in 0 .. batch_size - 1
  PROVE  c_vec[k] = naive_batch_eval(k)
<1> DEFINE N == fft_size
           R == 0 .. N - 1
           p == Domain!fft(a_vec)
           y == [m \in Slots |-> Pairing(p[m], fft_h[m])]
           w == [b \in R |-> Total([a \in R |-> Mul(a_vec[a], b_vec[(b - a) % N])])]
           T == 0 .. n - 1
           f == [a \in R |-> Mul(a_vec[a], b_vec[(k - a) % N])]
           r == [a \in T |-> Pairing(ct[a].pprf, powers_of_h[lag(ct[a].point, k)])]
<1>1. /\ N \in Nat \ {0} /\ batch_size \in Nat /\ 2 * batch_size <= N /\ R = Slots
      /\ k \in R /\ T \in SUBSET R
  BY FftSizeNat, BatchSizeNat DEF Slots
<1>2. /\ powers_of_h \in [0 .. 2 * batch_size -> Scalar]
      /\ \A a \in T : ct[a].pprf \in Scalar /\ ct[a].point = a
  BY DEF IInv, CrsInv, CrsTypeOK, TypeOK, InOrder, Ciphertext
<1>3. Vec(a_vec, R) /\ DOMAIN a_vec = Slots
  BY <1>1, <1>2, ScalarClosed DEF a_vec, Vec
<1>4. Vec(b_vec, R) /\ DOMAIN b_vec = Slots
  <2>1. ASSUME NEW m \in R PROVE b_vec[m] \in Scalar
    <3>1. CASE m < batch_size
      BY <1>1, <1>2, <3>1 DEF b_vec
    <3>2. CASE ~(m < batch_size) /\ N - m < batch_size
      BY <1>1, <1>2, <3>2 DEF b_vec
    <3>3. CASE ~(m < batch_size) /\ ~(N - m < batch_size)
      BY <1>1, <3>3, ScalarClosed DEF b_vec
    <3> QED BY <3>1, <3>2, <3>3
  <2> QED BY <2>1 DEF Vec, b_vec
<1>5. Convolves(w, a_vec, b_vec, N)
  BY DEF Convolves
<1>6. Dft(p, a_vec, element, N) /\ Dft(fft_h, b_vec, element, N)
  BY <1>3, <1>4, FftIsDft DEF fft_h
<1>7. ProductOf(y, p, fft_h, N)
  BY <1>1 DEF ProductOf, Pairing
<1>8. c_vec = Domain!ifft(y)
  BY DEF c_vec
<1> HIDE DEF p, w, y
<1>9. c_vec[k] = Mul(SizeInv, Dot(R, y, Wave(element, N, -k)))
  <2>1. DOMAIN y = Slots
    BY DEF y
  <2> QED BY <1>1, <1>8, <2>1, IfftIsInverse
<1>10. c_vec[k] = w[k]
  <2>1. IsField
    BY DomainAssumption
  <2> QED BY <1>1, <1>3, <1>4, <1>5, <1>6, <1>7, <1>9, <2>1, FftRoots, Convolution
<1>11. w[k] = Total(f)
  BY <1>1 DEF w
<1>12. ASSUME NEW a \in T PROVE f[a] = r[a] /\ r[a] \in Scalar
  <2>1. a \in 0 .. batch_size - 1 /\ a \in R /\ a_vec[a] = ct[a].pprf
    BY <1>1 DEF a_vec
  <2>2. b_vec[(k - a) % fft_size] = powers_of_h[lag(a, k)]
    BY <2>1, LagInLayout
  <2>3. lag(a, k) \in 0 .. 2 * batch_size
    BY <1>1, <2>1 DEF lag
  <2>4. powers_of_h[lag(a, k)] \in Scalar
    BY <1>2, <2>3
  <2> QED BY <1>2, <2>1, <2>2, <2>4, ScalarClosed DEF Pairing
<1>13. ASSUME NEW a \in R \ T PROVE f[a] = Zero
  <2>1. a_vec[a] = Zero /\ a \in Int
    BY <1>1 DEF a_vec
  <2> DEFINE z == k - a
  <2>2. z \in Int
    BY <2>1
  <2> HIDE DEF z
  <2>3. z % N \in R
    BY <1>1, <2>2, DivMod
  <2>4. b_vec[z % N] \in Scalar
    BY <1>4, <2>3 DEF Vec
  <2> QED BY <2>1, <2>4, MulZero DEF z
<1>14. f \in [R -> Scalar]
  <2>1. \A a \in R : f[a] \in Scalar
    <3> TAKE a \in R
    <3> HIDE DEF f, R, T
    <3>1. CASE a \in T
      BY <1>12, <3>1
    <3>2. CASE a \notin T
      BY <1>13, <3>2, ScalarClosed
    <3> QED BY <3>1, <3>2
  <2> QED BY <2>1
<1>15. r \in [T -> Scalar] /\ Restricts(r, f, T) /\ AllZero(f, R \ T)
  <2>1. r \in [T -> Scalar]
    <3>1. \A a \in T : r[a] \in Scalar
      BY <1>12
    <3> QED BY <3>1
  <2>2. Restricts(r, f, T)
    <3> HIDE DEF r, f
    <3> QED BY <1>12 DEF Restricts
  <2>3. AllZero(f, R \ T)
    <3> HIDE DEF f
    <3> QED BY <1>13 DEF AllZero
  <2> QED BY <2>1, <2>2, <2>3
<1>16. Total(f) = Total(r)
  <2>1. IsFiniteSet(R)
    BY <1>1, IntervalFinite
  <2>2. T \in SUBSET R
    BY <1>1
  <2> HIDE DEF f, r, R, T
  <2> QED BY <1>14, <1>15, <2>1, <2>2, TotalSubset
<1>17. naive_batch_eval(k) = Total(r)
  <2>1. naive_batch_eval(k) = Domain!Sum(r)
    BY DEF naive_batch_eval
  <2> HIDE DEF r
  <2> QED BY <2>1 DEF Domain!Sum, Total, FoldFunction, FoldFunctionOnSet, MapThenFoldSet,
         Domain!FoldFunction, Domain!FoldFunctionOnSet, Domain!MapThenFoldSet
<1> QED BY <1>10, <1>11, <1>16, <1>17

(* The aggregated key minus the punctured evaluations of its first m keys,  *)
(* in order: the mask of k once its key is in.                              *)
LEMMA NaiveRecovers ==
  ASSUME IInv, crs_pc = "ready", InOrder, DOMAIN acc = 0 .. n,
         NEW k \in 0 .. n - 1
  PROVE  Sub(eval(acc[n], k), naive_batch_eval(k)) = ct[k].mask
<1> DEFINE p(a) == Pairing(ct[a].pprf, powers_of_h[lag(ct[a].point, k)])
           part(m) == Total([a \in 0 .. m - 1 |-> p(a)])
           left(m) == Sub(eval(acc[m], k), part(m))
           T == { m \in Nat : m <= n => left(m) = IF k < m THEN ct[k].mask ELSE Zero }
<1>1. n \in Nat /\ n <= batch_size /\ k \in 0 .. batch_size - 1 /\ k \in Nat
  BY InOrderFits, BatchSizeNat DEF IInv, TypeOK
<1>2. /\ gt_powers[k] \in Scalar /\ acc[0] = Zero
      /\ \A m \in 0 .. n : acc[m] \in Scalar
      /\ \A m \in 0 .. n - 1 : acc[m + 1] = Add(acc[m], ct[m].key)
  <2>1. \A m \in (0 .. n) \ {0} : acc[m] = Add(acc[m - 1], ct[m - 1].key)
    BY DEF IInv, AccInv
  <2>2. ASSUME NEW m \in 0 .. n - 1 PROVE acc[m + 1] = Add(acc[m], ct[m].key)
    <3>1. m + 1 \in (0 .. n) \ {0} /\ (m + 1) - 1 = m
      BY <1>1
    <3> QED BY <2>1, <3>1
  <2>3. gt_powers[k] \in Scalar
    BY <1>1 DEF IInv, CrsInv, CrsTypeOK
  <2> QED BY <2>2, <2>3 DEF IInv, TypeOK, AccInv
<1>3. ASSUME NEW a \in 0 .. n - 1
      PROVE  /\ ct[a].key \in Scalar /\ p(a) \in Scalar /\ eval(ct[a].key, k) \in Scalar
             /\ Sub(eval(ct[a].key, k), p(a)) = IF a = k THEN ct[k].mask ELSE Zero
  <2>1. /\ ct[a].point = a /\ ct[a].key \in Scalar /\ a \in 0 .. batch_size - 1
        /\ ct[a].pprf = puncture(ct[a].key, a) /\ ct[a].mask = eval(ct[a].key, a)
    BY <1>1 DEF IInv, TypeOK, InOrder, Ciphertext, CtInv
  <2> QED BY <1>1, <2>1, Contribution DEF IInv
<1> HIDE DEF p
<1>4. \A m \in 0 .. n : part(m) \in Scalar
  <2> TAKE m \in 0 .. n
  <2> DEFINE R == 0 .. m - 1
             f == [a \in R |-> p(a)]
  <2>1. f \in [R -> Scalar]
    BY <1>1, <1>3
  <2>2. IsFiniteSet(R)
    BY <1>1, IntervalFinite
  <2> HIDE DEF f, R
  <2>3. Total(f) \in Scalar
    BY <2>1, <2>2, TotalType
  <2> QED BY <2>3 DEF f, R
<1>5. ASSUME NEW m \in 0 .. n - 1
      PROVE  part(m + 1) = Add(part(m), p(m))
  <2> DEFINE R == 0 .. m - 1
             S == 0 .. m
             r == [a \in R |-> p(a)]
             f == [a \in S |-> p(a)]
  <2>1. f \in [S -> Scalar] /\ r \in [R -> Scalar] /\ f[m] = p(m) /\ Restricts(r, f, R)
    BY <1>1, <1>3 DEF Restricts
  <2>2. part(m + 1) = Total(f) /\ part(m) = Total(r)
    <3>1. (m + 1) - 1 = m
      OBVIOUS
    <3> QED BY <3>1
  <2>3. m \in Nat /\ R = 0 .. m - 1
    OBVIOUS
  <2> HIDE DEF r, f, R, part
  <2>4. Total(f) = Add(f[m], Total(r))
    BY <2>1, <2>3, TotalLast
  <2>5. part(m) \in Scalar /\ p(m) \in Scalar
    <3>1. m \in 0 .. n
      BY <1>1
    <3> QED BY <1>3, <1>4, <3>1
  <2> QED BY <2>1, <2>2, <2>4, <2>5, ScalarLaws
<1>6. 0 \in T
  <2>1. part(0) = Zero
    <3> DEFINE f == [a \in {} |-> p(a)]
    <3>1. f \in [{} -> Scalar] /\ 0 .. 0 - 1 = {}
      OBVIOUS
    <3> HIDE DEF f
    <3>2. Total(f) = Zero
      BY <3>1, TotalEmpty
    <3> QED BY <3>1, <3>2 DEF f
  <2> HIDE DEF part
  <2>2. eval(acc[0], k) = Zero
    BY <1>2, MulZero DEF eval
  <2> QED BY <1>1, <2>1, <2>2, SubSelf, ScalarClosed
<1> HIDE DEF part
<1>7. ASSUME NEW m \in Nat, m \in T PROVE m + 1 \in T
  <2>1. SUFFICES ASSUME m + 1 <= n
                 PROVE  left(m + 1) = IF k < m + 1 THEN ct[k].mask ELSE Zero
    BY <1>1
  <2>2. m \in 0 .. n - 1 /\ m \in 0 .. n
    BY <1>1, <2>1
  <2> DEFINE e == eval(ct[m].key, k)
             b == eval(acc[m], k)
  <2>3. /\ e \in Scalar /\ p(m) \in Scalar /\ part(m) \in Scalar /\ acc[m] \in Scalar
        /\ ct[m].key \in Scalar /\ b \in Scalar
    BY <1>2, <1>3, <1>4, <2>2, ScalarClosed DEF eval
  <2>4. eval(acc[m + 1], k) = Add(b, e)
    <3>1. acc[m + 1] = Add(acc[m], ct[m].key)
      BY <1>2, <2>2
    <3>2. Mul(gt_powers[k], Add(acc[m], ct[m].key))
            = Add(Mul(gt_powers[k], acc[m]), Mul(gt_powers[k], ct[m].key))
      BY <1>2, <2>3, MulAdd
    <3> QED BY <3>1, <3>2 DEF eval
  <2>5. Sub(e, p(m)) = IF m = k THEN ct[k].mask ELSE Zero
    BY <1>3, <2>2
  <2>6. left(m) = IF k < m THEN ct[k].mask ELSE Zero
    BY <1>7, <2>2
  <2>7. part(m + 1) = Add(part(m), p(m))
    BY <1>5, <2>2
  <2> HIDE DEF e, b
  <2>8. left(m + 1) = Add(Sub(b, part(m)), Sub(e, p(m)))
    BY <2>3, <2>4, <2>7, SubAdd
  <2>9. left(m) = Sub(b, part(m))
    BY DEF b
  <2>10. ct[k].mask \in Scalar
    BY DEF IInv, TypeOK, Ciphertext
  <2> HIDE DEF left
  <2> QED BY <1>1, <2>2, <2>5, <2>6, <2>8, <2>9, <2>10, AddZero, ScalarClosed
<1>8. \A m \in Nat : m \in T
  <2> HIDE DEF T
  <2> QED BY <1>6, <1>7, Induction
<1>9. left(n) = ct[k].mask
  BY <1>1, <1>8
<1>10. naive_batch_eval(k) = part(n)
  <2> DEFINE f == [a \in 0 .. n - 1 |-> p(a)]
  <2>1. naive_batch_eval(k) = Domain!Sum(f)
    BY DEF naive_batch_eval, p
  <2>2. Domain!Sum(f) = Total(f)
    <3> HIDE DEF f
    <3> QED BY DEF Domain!Sum, Total, FoldFunction, FoldFunctionOnSet, MapThenFoldSet,
         Domain!FoldFunction, Domain!FoldFunctionOnSet, Domain!MapThenFoldSet
  <2> QED BY <2>1, <2>2 DEF part
<1> QED BY <1>9, <1>10

(***************************************************************************)
(* The inductive invariant of BteFft: that of Bte, and, while the masks    *)
(* are compared, that they are those of the loop.  That no mask of a batch *)
(* in order differs is InOrderNeverPanics, which is part of IInv.          *)
(***************************************************************************)
LengthInv == (pc = "compare" => n = batch_size) /\ (pc = "panic_len" => n # batch_size)

FftInv == IInv /\ FftAgreesInOrder /\ LengthInv

LEMMA FftInvDecrypts == FftInv => FftFullBatchDecrypts
<1> SUFFICES ASSUME FftInv, InOrder, pc \in fftPanics PROVE pc = "panic_len" /\ n < batch_size
  BY DEF FftFullBatchDecrypts
<1>1. n <= batch_size /\ n \in Nat
  BY InOrderFits DEF FftInv, IInv, TypeOK
<1>2. pc = "panic_len"
  BY DEF FftInv, IInv, InOrderNeverPanics, panics, fftPanics
<1> QED BY <1>1, <1>2, BatchSizeNat DEF FftInv, LengthInv

LEMMA FftInitInv == Init => FftInv
  BY BteInitInv DEF Init, BteInit, FftInv, FftAgreesInOrder, LengthInv

LEMMA LoopStep == FftInv /\ Next => FftInv'
<1> SUFFICES ASSUME FftInv, Next PROVE FftInv'
  OBVIOUS
<1>1. IInv'
  BY BteStep DEF FftInv
<1>2. pc' # "compare" /\ pc' # "panic_len"
  <2>1. CASE CrsNext /\ UNCHANGED bteVars
    <3>1. crs_pc # "ready"
      BY <2>1 DEF CrsNext, PushPower, BuildArrays, BuildGtPowers
    <3> QED BY <2>1, <3>1 DEF FftInv, IInv, CrsReady, bteVars
  <2>2. CASE BteNext
    BY <2>2 DEF BteNext, Encrypt, Decrypt, FoldKey, Folded, PairNext, IndexPanic, EvalPanic,
                Recover, Return
  <2> QED BY <2>1, <2>2 DEF Next
<1> QED BY <1>1, <1>2 DEF FftInv, FftAgreesInOrder, LengthInv

(* A step that leaves the batch and the reference string alone.             *)
LEMMA FftKept ==
  ASSUME IInv, UNCHANGED crsVars, UNCHANGED <<n, ct, acc>>
  PROVE  /\ CrsInv' /\ CtInv' /\ AccInv' /\ InOrder' = InOrder /\ crs_pc' = crs_pc
         /\ \A k : eval(acc[n], k)' = eval(acc[n], k)
         /\ \A k : naive_batch_eval(k)' = naive_batch_eval(k)
<1>1. CrsInv' /\ crs_pc' = crs_pc /\ powers_of_h' = powers_of_h /\ gt_powers' = gt_powers
  BY StringKept
<1>2. CtInv' /\ InOrder' = InOrder
  BY BatchKept
<1> QED BY <1>1, <1>2 DEF AccInv, IInv, eval, naive_batch_eval, lag

LEMMA LengthPanicPreserves ==
  FftInv /\ crs_pc = "ready" /\ FftLengthPanic /\ UNCHANGED crsVars => FftInv'
<1> SUFFICES ASSUME FftInv, crs_pc = "ready", FftLengthPanic, UNCHANGED crsVars PROVE FftInv'
  OBVIOUS
<1>1. CrsInv' /\ CtInv' /\ AccInv' /\ CrsTypeOK' /\ crs_pc' = crs_pc
  BY FftKept, StringKept DEF FftLengthPanic, FftInv
<1>2. TypeOK'
  BY <1>1 DEF FftInv, IInv, TypeOK, FftLengthPanic
<1>3. IInv'
  BY <1>1, <1>2 DEF FftInv, IInv, FftLengthPanic, CrsReady, CollectInv, FoldStart, EvalInv,
       EndInv, DoneInv, InOrderNeverPanics, OversizedBatchFails, panics
<1> QED BY <1>3 DEF FftInv, FftAgreesInOrder, LengthInv, FftLengthPanic

LEMMA BatchEvalPreserves ==
  FftInv /\ crs_pc = "ready" /\ FftBatchEval /\ UNCHANGED crsVars => FftInv'
<1> SUFFICES ASSUME FftInv, crs_pc = "ready", FftBatchEval, UNCHANGED crsVars PROVE FftInv'
  OBVIOUS
<1>1. /\ CrsInv' /\ CtInv' /\ AccInv' /\ CrsTypeOK' /\ crs_pc' = crs_pc /\ InOrder' = InOrder
      /\ \A k : eval(acc[n], k)' = eval(acc[n], k)
      /\ \A k : naive_batch_eval(k)' = naive_batch_eval(k)
  BY FftKept, StringKept DEF FftBatchEval, FftInv
<1>2. TypeOK'
  BY <1>1 DEF FftInv, IInv, TypeOK, FftBatchEval
<1>3. IInv'
  BY <1>1, <1>2 DEF FftInv, IInv, FftBatchEval, CrsReady, CollectInv, FoldStart, EvalInv,
       EndInv, DoneInv, InOrderNeverPanics, OversizedBatchFails, panics
<1>4. ASSUME InOrder, NEW k \in 0 .. batch_size - 1
      PROVE  recovered'[k] = Sub(eval(acc[n], k), naive_batch_eval(k))
  <2>1. c_vec[k] = naive_batch_eval(k)
    BY <1>4, FftComputesNaive DEF FftInv, FftBatchEval
  <2>2. recovered'[k] = Sub(eval(acc[n], k), c_vec[k])
    BY DEF FftBatchEval
  <2> QED BY <2>1, <2>2
<1>5. FftAgreesInOrder'
  <2> SUFFICES ASSUME InOrder', NEW k \in 0 .. batch_size - 1
               PROVE  recovered'[k] = Sub(eval(acc[n], k)', naive_batch_eval(k)')
    BY DEF FftAgreesInOrder, Sub
  <2> QED BY <1>1, <1>4
<1> QED BY <1>3, <1>5 DEF FftInv, LengthInv, FftBatchEval

(* The comparison does not panic on a batch in order.                       *)
LEMMA ComparePreserves ==
  FftInv /\ crs_pc = "ready" /\ FftCompare /\ UNCHANGED crsVars => FftInv'
<1> SUFFICES ASSUME FftInv, crs_pc = "ready", FftCompare, UNCHANGED crsVars PROVE FftInv'
  OBVIOUS
<1>1. /\ CrsInv' /\ CtInv' /\ AccInv' /\ CrsTypeOK' /\ crs_pc' = crs_pc /\ InOrder' = InOrder
      /\ \A k : eval(acc[n], k)' = eval(acc[n], k)
      /\ \A k : naive_batch_eval(k)' = naive_batch_eval(k)
  BY FftKept, StringKept DEF FftCompare, FftInv
<1>2. TypeOK'
  BY <1>1 DEF FftInv, IInv, TypeOK, FftCompare, panics
<1>3. InOrder => recovered[i] = ct[i].mask
  <2> SUFFICES ASSUME InOrder PROVE recovered[i] = ct[i].mask
    OBVIOUS
  <2>1. i \in 0 .. n - 1 /\ n = batch_size /\ DOMAIN acc = 0 .. n
    BY DEF FftInv, LengthInv, FftCompare, IInv, TypeOK
  <2>2. recovered[i] = Sub(eval(acc[n], i), naive_batch_eval(i))
    BY <2>1 DEF FftInv, FftAgreesInOrder, FftCompare
  <2> QED BY <2>1, <2>2, NaiveRecovers DEF FftInv
<1>4. InOrderNeverPanics'
  BY <1>1, <1>3 DEF FftInv, IInv, FftCompare, InOrderNeverPanics, panics
<1>5. IInv'
  BY <1>1, <1>2, <1>4 DEF FftInv, IInv, FftCompare, CrsReady, CollectInv, FoldStart, EvalInv,
       EndInv, DoneInv, OversizedBatchFails
<1>6. FftAgreesInOrder'
  <2> SUFFICES ASSUME InOrder', pc' = "compare", NEW k \in 0 .. batch_size - 1
               PROVE  recovered'[k] = Sub(eval(acc[n], k)', naive_batch_eval(k)')
    BY DEF FftAgreesInOrder, Sub
  <2>1. recovered[k] = Sub(eval(acc[n], k), naive_batch_eval(k)) /\ recovered' = recovered
    BY <1>1 DEF FftInv, FftAgreesInOrder, FftCompare
  <2> QED BY <1>1, <2>1
<1> QED BY <1>5, <1>6 DEF FftInv, LengthInv, FftCompare

LEMMA FftReturnPreserves ==
  FftInv /\ crs_pc = "ready" /\ FftReturn /\ UNCHANGED crsVars => FftInv'
<1> SUFFICES ASSUME FftInv, crs_pc = "ready", FftReturn, UNCHANGED crsVars PROVE FftInv'
  OBVIOUS
<1>1. CrsInv' /\ CtInv' /\ AccInv' /\ CrsTypeOK' /\ crs_pc' = crs_pc
  BY FftKept, StringKept DEF FftReturn, FftInv
<1>2. TypeOK'
  BY <1>1 DEF FftInv, IInv, TypeOK, FftReturn
<1>3. n <= batch_size
  BY BatchSizeNat DEF FftInv, LengthInv, FftReturn
<1>4. IInv'
  BY <1>1, <1>2, <1>3 DEF FftInv, IInv, FftReturn, CrsReady, CollectInv, FoldStart, EvalInv,
       EndInv, DoneInv, InOrderNeverPanics, OversizedBatchFails, panics
<1> QED BY <1>4 DEF FftInv, FftAgreesInOrder, LengthInv, FftReturn

LEMMA FftStutter == FftInv /\ UNCHANGED vars => FftInv'
<1> SUFFICES ASSUME FftInv, UNCHANGED vars PROVE FftInv'
  OBVIOUS
<1>1. IInv'
  BY BteStutter DEF FftInv
<1>2. /\ InOrder' = InOrder
      /\ \A k : eval(acc[n], k)' = eval(acc[n], k)
      /\ \A k : naive_batch_eval(k)' = naive_batch_eval(k)
  BY FftKept DEF FftInv, vars, bteVars
<1>3. FftAgreesInOrder'
  <2> SUFFICES ASSUME InOrder', pc' = "compare", NEW k \in 0 .. batch_size - 1
               PROVE  recovered'[k] = Sub(eval(acc[n], k)', naive_batch_eval(k)')
    BY DEF FftAgreesInOrder, Sub
  <2>1. /\ recovered[k] = Sub(eval(acc[n], k), naive_batch_eval(k))
        /\ recovered' = recovered
    BY <1>2 DEF FftInv, FftAgreesInOrder, vars, bteVars
  <2> QED BY <1>2, <2>1
<1> QED BY <1>1, <1>3 DEF FftInv, LengthInv, vars, bteVars

LEMMA FftInvariance == FftSpec => []FftInv
<1>1. FftInv /\ [FftNext]_vars => FftInv'
  BY LoopStep, LengthPanicPreserves, BatchEvalPreserves, ComparePreserves, FftReturnPreserves,
     FftStutter DEF FftNext
<1> QED BY <1>1, FftInitInv, PTL DEF FftSpec

(* What holds of the loop holds with the evaluation by transforms beside it.*)
THEOREM FftKeepsLoop ==
  FftSpec => [](TypeOK /\ OnlyPuncturedKeySurvives /\ InOrderNeverPanics /\ OversizedBatchFails)
<1>1. FftInv => TypeOK /\ OnlyPuncturedKeySurvives /\ InOrderNeverPanics /\ OversizedBatchFails
  BY InvSurvives DEF FftInv, IInv
<1> QED BY <1>1, FftInvariance, PTL

(* The masks that a circular correlation by transforms yields on a full     *)
(* batch in order are those of the loop, for every batch size and every     *)
(* domain of at least twice that size (mod.rs:116-155, crs.rs:79-100).      *)
THEOREM FftEvaluates == FftSpec => []FftAgreesInOrder
  BY FftInvariance, PTL DEF FftInv

(* decrypt_fft accepts every full batch in order, and a batch in order that *)
(* it refuses is shorter than the batch size (mod.rs:118).                  *)
THEOREM FftDecrypts == FftSpec => []FftFullBatchDecrypts
  BY FftInvariance, FftInvDecrypts, PTL
=============================================================================
