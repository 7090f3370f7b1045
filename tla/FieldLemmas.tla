----------------------------- MODULE FieldLemmas -----------------------------
(***************************************************************************)
(* Algebra for the proofs: the laws of the scalar ring, finite sums of     *)
(* scalars, powers, roots of unity and the discrete Fourier transform.     *)
(* Everything is stated for data, functions among it, and for every ring   *)
(* that ScalarLaws allows; what needs a field says so.                     *)
(***************************************************************************)
EXTENDS ScalarField, FoldLemmas

(* Multiplying by zero, from the laws of the ring.                          *)
LEMMA MulZero == \A a \in Scalar : Mul(a, Zero) = Zero /\ Mul(Zero, a) = Zero
<1> TAKE a \in Scalar
<1> DEFINE z == Mul(Zero, a)
<1>1. z \in Scalar /\ Neg(z) \in Scalar
  BY ScalarClosed
<1>2. Add(Zero, Zero) = Zero
  BY ScalarClosed, ScalarLaws
<1>3. Mul(Add(Zero, Zero), a) = Add(Mul(Zero, a), Mul(Zero, a))
  BY ScalarClosed, ScalarLaws
<1>4. z = Add(z, z)
  BY <1>2, <1>3
<1> HIDE DEF z
<1>5. Add(Add(z, z), Neg(z)) = Add(z, Add(z, Neg(z)))
  BY <1>1, ScalarLaws
<1>6. Add(z, Neg(z)) = Zero /\ Add(z, Zero) = z
  BY <1>1, ScalarLaws
<1>7. z = Zero
  BY <1>4, <1>5, <1>6
<1>8. Mul(a, Zero) = Mul(Zero, a)
  BY ScalarClosed, ScalarLaws
<1> QED BY <1>7, <1>8 DEF z

LEMMA MulOne == \A a \in Scalar : Mul(a, One) = a /\ Mul(One, a) = a
  BY ScalarClosed, ScalarLaws

LEMMA SubClosed == \A a, b \in Scalar : Sub(a, b) \in Scalar
  BY ScalarClosed DEF Sub

LEMMA SubSelf == \A a \in Scalar : Sub(a, a) = Zero
  BY ScalarLaws DEF Sub

LEMMA AddZero == \A a \in Scalar : Add(a, Zero) = a /\ Add(Zero, a) = a
  BY ScalarClosed, ScalarLaws

(* A sum of four, with its middle terms swapped.                            *)
LEMMA AddSwap ==
  \A a, b, c, d \in Scalar : Add(Add(a, b), Add(c, d)) = Add(Add(a, c), Add(b, d))
<1> TAKE a, b, c, d \in Scalar
<1>1. Add(Add(a, b), Add(c, d)) = Add(a, Add(b, Add(c, d)))
  BY ScalarClosed, ScalarLaws
<1>2. Add(b, Add(c, d)) = Add(Add(b, c), d) /\ Add(b, c) = Add(c, b)
  BY ScalarLaws
<1>3. Add(Add(c, b), d) = Add(c, Add(b, d))
  BY ScalarLaws
<1>4. Add(a, Add(c, Add(b, d))) = Add(Add(a, c), Add(b, d))
  BY ScalarClosed, ScalarLaws
<1> QED BY <1>1, <1>2, <1>3, <1>4

(* Negation is determined by the sum.                                       *)
LEMMA NegUnique == \A a, b \in Scalar : Add(a, b) = Zero => b = Neg(a)
<1> SUFFICES ASSUME NEW a \in Scalar, NEW b \in Scalar, Add(a, b) = Zero
             PROVE  b = Neg(a)
  OBVIOUS
<1>1. Neg(a) \in Scalar
  BY ScalarClosed
<1>2. Add(Neg(a), Add(a, b)) = Add(Add(Neg(a), a), b)
  BY <1>1, ScalarLaws
<1>3. Add(Neg(a), a) = Zero
  BY <1>1, ScalarLaws
<1> QED BY <1>1, <1>2, <1>3, AddZero

LEMMA NegAdd == \A a, b \in Scalar : Neg(Add(a, b)) = Add(Neg(a), Neg(b))
<1> TAKE a, b \in Scalar
<1>1. Neg(a) \in Scalar /\ Neg(b) \in Scalar /\ Add(a, b) \in Scalar
      /\ Add(Neg(a), Neg(b)) \in Scalar
  BY ScalarClosed
<1>2. Add(Add(a, b), Add(Neg(a), Neg(b))) = Add(Add(a, Neg(a)), Add(b, Neg(b)))
  BY <1>1, AddSwap
<1>3. Add(a, Neg(a)) = Zero /\ Add(b, Neg(b)) = Zero
  BY ScalarLaws
<1> QED BY <1>1, <1>2, <1>3, AddZero, ScalarClosed, NegUnique

(* (a + c) - (b + d) = (a - b) + (c - d)                                    *)
LEMMA SubAdd ==
  \A a, b, c, d \in Scalar : Sub(Add(a, c), Add(b, d)) = Add(Sub(a, b), Sub(c, d))
<1> TAKE a, b, c, d \in Scalar
<1>1. Neg(b) \in Scalar /\ Neg(d) \in Scalar
  BY ScalarClosed
<1>2. Add(Add(a, c), Add(Neg(b), Neg(d))) = Add(Add(a, Neg(b)), Add(c, Neg(d)))
  BY <1>1, AddSwap
<1> QED BY <1>2, NegAdd DEF Sub

LEMMA MulAdd == \A a, b, c \in Scalar : Mul(c, Add(a, b)) = Add(Mul(c, a), Mul(c, b))
<1> TAKE a, b, c \in Scalar
<1>1. Add(a, b) \in Scalar
  BY ScalarClosed
<1>2. Mul(c, Add(a, b)) = Mul(Add(a, b), c) /\ Mul(c, a) = Mul(a, c) /\ Mul(c, b) = Mul(b, c)
  BY <1>1, ScalarLaws
<1> QED BY <1>2, ScalarLaws

LEMMA MulSwap == \A a, b, c \in Scalar : Mul(Mul(a, b), c) = Mul(Mul(a, c), b)
<1> TAKE a, b, c \in Scalar
<1>1. Mul(Mul(a, b), c) = Mul(a, Mul(b, c)) /\ Mul(Mul(a, c), b) = Mul(a, Mul(c, b))
  BY ScalarLaws
<1> QED BY <1>1, ScalarLaws


(* The middle factor of three moves out of a product.                       *)
LEMMA MulMiddle ==
  \A a, b, c \in Scalar : Mul(a, Mul(b, c)) = Mul(b, Mul(a, c)) /\ Mul(a, Mul(b, c)) \in Scalar
<1> SUFFICES ASSUME NEW a \in Scalar, NEW b \in Scalar, NEW c \in Scalar
             PROVE  Mul(a, Mul(b, c)) = Mul(b, Mul(a, c)) /\ Mul(a, Mul(b, c)) \in Scalar
  OBVIOUS
<1>1. Mul(a, Mul(b, c)) = Mul(Mul(a, b), c) /\ Mul(b, Mul(a, c)) = Mul(Mul(b, a), c)
  BY ScalarLaws
<1>2. Mul(a, b) = Mul(b, a)
  BY ScalarLaws
<1> QED BY <1>1, <1>2, ScalarClosed

(* The middle operand of three moves out of a sum.                          *)
LEMMA AddMiddle == \A a, b, c \in Scalar : Add(a, Add(b, c)) = Add(b, Add(a, c))
<1> TAKE a, b, c \in Scalar
<1>1. Add(a, Add(b, c)) = Add(Add(a, b), c) /\ Add(b, Add(a, c)) = Add(Add(b, a), c)
  BY ScalarLaws
<1> QED BY <1>1, ScalarLaws

LEMMA NegNeg == \A a \in Scalar : Neg(Neg(a)) = a
<1> TAKE a \in Scalar
<1>1. Neg(a) \in Scalar /\ Add(Neg(a), a) = Zero
  BY ScalarClosed, ScalarLaws
<1> QED BY <1>1, NegUnique

LEMMA NegMul == \A a, b \in Scalar : Mul(Neg(a), b) = Neg(Mul(a, b))
<1> TAKE a, b \in Scalar
<1>1. Neg(a) \in Scalar /\ Mul(a, b) \in Scalar /\ Mul(Neg(a), b) \in Scalar
  BY ScalarClosed
<1>2. Add(Mul(a, b), Mul(Neg(a), b)) = Mul(Add(a, Neg(a)), b)
  BY <1>1, ScalarLaws
<1>3. Add(a, Neg(a)) = Zero
  BY ScalarLaws
<1> QED BY <1>1, <1>2, <1>3, MulZero, NegUnique

(* A difference is zero only between equals.                                *)
LEMMA SubZero == \A a, b \in Scalar : Sub(a, b) = Zero => a = b
<1> SUFFICES ASSUME NEW a \in Scalar, NEW b \in Scalar, Sub(a, b) = Zero PROVE a = b
  OBVIOUS
<1>1. Neg(b) \in Scalar /\ Add(Neg(b), a) = Zero
  BY ScalarClosed, ScalarLaws DEF Sub
<1> QED BY <1>1, NegUnique, NegNeg

LEMMA NegSub == \A a, b \in Scalar : Sub(a, b) = Neg(Sub(b, a))
<1> SUFFICES ASSUME NEW a \in Scalar, NEW b \in Scalar
             PROVE  Sub(a, b) = Neg(Sub(b, a))
  OBVIOUS
<1>1. Neg(Sub(b, a)) = Add(Neg(b), Neg(Neg(a))) /\ Neg(Neg(a)) = a
  BY NegAdd, NegNeg, ScalarClosed DEF Sub
<1> QED BY <1>1, ScalarClosed, ScalarLaws DEF Sub

LEMMA MulSub == \A a, b, c \in Scalar : Mul(Sub(a, b), c) = Sub(Mul(a, c), Mul(b, c))
<1> TAKE a, b, c \in Scalar
<1>1. Neg(b) \in Scalar
  BY ScalarClosed
<1>2. Mul(Add(a, Neg(b)), c) = Add(Mul(a, c), Mul(Neg(b), c))
  BY <1>1, ScalarLaws
<1> QED BY <1>2, NegMul DEF Sub

(* What is added can be subtracted again, and the other way round.          *)
LEMMA AddSub ==
  \A a, b \in Scalar : Sub(Add(a, b), b) = a /\ Add(Sub(a, b), b) = a /\ Sub(Add(a, b), a) = b
<1> TAKE a, b \in Scalar
<1>1. Neg(b) \in Scalar /\ Neg(a) \in Scalar
  BY ScalarClosed
<1>2. Add(Add(a, b), Neg(b)) = Add(a, Add(b, Neg(b))) /\ Add(b, Neg(b)) = Zero
  BY <1>1, ScalarLaws
<1>3. Add(Add(a, Neg(b)), b) = Add(a, Add(Neg(b), b)) /\ Add(Neg(b), b) = Zero
  BY <1>1, ScalarLaws
<1>4. Add(Add(b, a), Neg(a)) = Add(b, Add(a, Neg(a))) /\ Add(a, Neg(a)) = Zero
  BY <1>1, ScalarLaws
<1>5. Add(a, b) = Add(b, a)
  BY ScalarLaws
<1> QED BY <1>2, <1>3, <1>4, <1>5, AddZero DEF Sub

LEMMA AddCancel == \A a, b, c \in Scalar : Add(a, b) = Add(a, c) => b = c
<1> SUFFICES ASSUME NEW a \in Scalar, NEW b \in Scalar, NEW c \in Scalar,
                    Add(a, b) = Add(a, c)
             PROVE  b = c
  OBVIOUS
<1>1. Sub(Add(a, b), a) = b /\ Sub(Add(a, c), a) = c
  BY AddSub
<1> QED BY <1>1

(* An inverse is unique, and a field has no divisors of zero.               *)
LEMMA InverseUnique ==
  \A a, b, c \in Scalar : Mul(a, b) = One /\ Mul(a, c) = One => b = c
<1> SUFFICES ASSUME NEW a \in Scalar, NEW b \in Scalar, NEW c \in Scalar,
                    Mul(a, b) = One, Mul(a, c) = One
             PROVE  b = c
  OBVIOUS
<1>1. Mul(Mul(a, b), c) = Mul(Mul(a, c), b)
  BY MulSwap
<1> QED BY <1>1, MulOne

LEMMA NoZeroDivisors ==
  ASSUME IsField, NEW a \in Scalar, NEW b \in Scalar, Mul(a, b) = Zero, a # Zero
  PROVE  b = Zero
<1>1. PICK c \in Scalar : Mul(a, c) = One
  BY DEF IsField
<1>2. Mul(Mul(a, b), c) = Mul(Mul(a, c), b)
  BY MulSwap
<1> QED BY <1>1, <1>2, MulOne, MulZero

(* Only one factor fits between two scalars.                                *)
LEMMA MulCancel ==
  ASSUME IsField, NEW a \in Scalar, NEW b \in Scalar, NEW c \in Scalar,
         Mul(a, c) = Mul(b, c), c # Zero
  PROVE  a = b
<1>1. Mul(Sub(a, b), c) = Zero
  <2>1. Mul(a, c) \in Scalar
    BY ScalarClosed
  <2> QED BY <2>1, MulSub, SubSelf
<1>2. Sub(a, b) \in Scalar /\ Mul(c, Sub(a, b)) = Mul(Sub(a, b), c)
  BY SubClosed, ScalarLaws
<1> QED BY <1>1, <1>2, NoZeroDivisors, SubZero

-----------------------------------------------------------------------------
(* The sums of Ste and of Radix2Domain.                                     *)
Total(f) == FoldFunction(Add, Zero, f)

plus == [a \in Scalar |-> [b \in Scalar |-> Add(a, b)]]

LEMMA PlusMonoid == CommutativeMonoid(Scalar, plus, Zero)
<1>1. \A a, b \in Scalar : Add(a, b) \in Scalar
  BY ScalarClosed
<1>2. plus \in [Scalar -> [Scalar -> Scalar]] /\ \A a, b \in Scalar : plus[a][b] = Add(a, b)
  BY <1>1 DEF plus
<1> HIDE DEF plus
<1>3. \A a, b, c \in Scalar : plus[plus[a][b]][c] = plus[a][plus[b][c]]
  <2> TAKE a, b, c \in Scalar
  <2>1. plus[plus[a][b]][c] = Add(Add(a, b), c) /\ plus[a][plus[b][c]] = Add(a, Add(b, c))
    BY <1>1, <1>2
  <2> QED BY <2>1, ScalarLaws
<1>4. /\ \A a \in Scalar : plus[a][Zero] = a
      /\ \A a, b \in Scalar : plus[a][b] = plus[b][a]
  <2>1. \A a, b \in Scalar : Add(a, b) = Add(b, a)
    BY ScalarLaws
  <2>2. \A a \in Scalar : Add(a, Zero) = a
    BY ScalarLaws
  <2>3. \A a, b \in Scalar : plus[a][b] = plus[b][a]
    BY <1>2, <2>1
  <2>4. ASSUME NEW a \in Scalar PROVE plus[a][Zero] = a
    <3>1. plus[a][Zero] = Add(a, Zero)
      BY <1>2, ScalarClosed
    <3> QED BY <3>1, <2>2
  <2> QED BY <2>3, <2>4
<1> QED BY <1>2, <1>3, <1>4, ScalarClosed DEF CommutativeMonoid

LEMMA PlusIsAdd == \A a, b \in Scalar : plus[a][b] = Add(a, b)
  BY DEF plus

(* FoldFunction computes the fold of FoldLemmas.                            *)
LEMMA TotalIsFold ==
  ASSUME NEW S, IsFiniteSet(S), NEW f \in [S -> Scalar]
  PROVE  Total(f) = Fold(plus, Zero, f)
<1> DEFINE c(s) == CHOOSE e \in s : TRUE
           Adds(g) == g = [s \in SUBSET S |-> IF s = {} THEN Zero
                                              ELSE Add(f[c(s)], g[s \ {c(s)}])]
           Folds(g) == FoldsTo(g, S, plus, Zero, f)
<1>1. \A s \in SUBSET S : s # {} => c(s) \in s /\ f[c(s)] \in Scalar
  OBVIOUS
<1>2. Total(f) = (CHOOSE g : Adds(g))[S]
  BY DEF Total, FoldFunction, FoldFunctionOnSet, MapThenFoldSet
<1>3. Fold(plus, Zero, f) = (CHOOSE g : Folds(g))[S]
  BY DEF Fold
<1>4. PICK g \in [SUBSET S -> Scalar] : Folds(g)
  BY PlusMonoid, FoldExists
<1>5. \A s \in SUBSET S : g[s] = IF s = {} THEN Zero ELSE plus[f[c(s)]][g[s \ {c(s)}]]
  BY <1>4 DEF FoldsTo
<1> HIDE DEF c
<1>6. \A s \in SUBSET S : g[s] = IF s = {} THEN Zero ELSE Add(f[c(s)], g[s \ {c(s)}])
  BY <1>1, <1>5, PlusIsAdd
<1>7. Adds(g)
  BY <1>6
<1> HIDE DEF Adds
<1>8. Adds(CHOOSE v : Adds(v))
  BY <1>7
<1>9. ASSUME NEW q, Adds(q) PROVE q[S] = g[S]
  <2> DEFINE F == { s \in SUBSET S : q[s] = g[s] }
  <2>1. \A s \in SUBSET S : q[s] = IF s = {} THEN Zero ELSE Add(f[c(s)], q[s \ {c(s)}])
    BY <1>9 DEF Adds
  <2>2. {} \in F
    BY <1>6, <2>1
  <2>3. ASSUME NEW s \in SUBSET S, s # {}, \A e \in s : s \ {e} \in F
        PROVE  s \in F
    BY <1>1, <1>6, <2>1, <2>3
  <2>4. S \in F
    <3> HIDE DEF F
    <3> QED BY <2>2, <2>3, SetInduction
  <2> QED BY <2>4
<1>10. ASSUME NEW q, Folds(q) PROVE q[S] = g[S]
  BY <1>4, <1>10, FoldUnique
<1> HIDE DEF Folds
<1>11. Folds(CHOOSE v : Folds(v))
  BY <1>4
<1> QED BY <1>2, <1>3, <1>8, <1>9, <1>10, <1>11

LEMMA TotalType ==
  ASSUME NEW S, IsFiniteSet(S), NEW f \in [S -> Scalar]
  PROVE  Total(f) \in Scalar
<1>1. PartSplits(Scalar, plus, Zero, f, S)
  BY PlusMonoid, PartLaws
<1>2. f = [k \in S |-> f[k]]
  OBVIOUS
<1>3. Part(plus, Zero, f, S) = Total(f)
  BY <1>2, TotalIsFold, PartOfAll
<1> QED BY <1>1, <1>3 DEF PartSplits

(* How two or three vectors are related on a set, named so that the provers *)
(* match the lemmas below as they stand.                                    *)
Restricts(r, f, R) == \A k \in R : r[k] = f[k]
AllZero(f, S) == \A k \in S : f[k] = Zero
AddsUp(h, f, g, S) == \A k \in S : h[k] = Add(f[k], g[k])
ScaledBy(h, f, a, S) == \A k \in S : h[k] = Mul(f[k], a)
Shifted(h, g, S) == \A k \in S : h[k] = g[k + 1]
Without(R, S, e) == R = S \ {e}

(* One summand split off.                                                   *)
LEMMA TotalStep ==
  ASSUME NEW S, IsFiniteSet(S), NEW f \in [S -> Scalar], NEW e \in S,
         NEW R, Without(R, S, e), NEW r \in [R -> Scalar], Restricts(r, f, R)
  PROVE  Total(f) = Add(f[e], Total(r))
<1> USE DEF Without, Restricts
<1>1. PartSplits(Scalar, plus, Zero, f, S)
  BY PlusMonoid, PartLaws
<1>2. f = [k \in S |-> f[k]]
  OBVIOUS
<1>3. Part(plus, Zero, f, S) = Total(f)
  BY <1>2, TotalIsFold, PartOfAll
<1>4. IsFiniteSet(S \ {e}) /\ r = [k \in S \ {e} |-> f[k]]
  BY FS_RemoveElement
<1>5. Part(plus, Zero, f, S \ {e}) = Total(r)
  BY <1>4, TotalIsFold DEF Part
<1>6. Part(plus, Zero, f, S) = plus[f[e]][Part(plus, Zero, f, S \ {e})]
  BY <1>1 DEF PartSplits
<1>7. Total(r) \in Scalar /\ f[e] \in Scalar
  BY <1>4, TotalType
<1>8. plus[f[e]][Total(r)] = Add(f[e], Total(r))
  BY <1>7, PlusIsAdd
<1> QED BY <1>3, <1>5, <1>6, <1>8

LEMMA TotalPlus ==
  ASSUME NEW S, IsFiniteSet(S),
         NEW f \in [S -> Scalar], NEW g \in [S -> Scalar], NEW h \in [S -> Scalar],
         AddsUp(h, f, g, S)
  PROVE  Total(h) = Add(Total(f), Total(g))
<1> USE DEF AddsUp
<1>1. \A k \in S : h[k] = plus[f[k]][g[k]]
  BY PlusIsAdd
<1>2. Fold(plus, Zero, h) = plus[Fold(plus, Zero, f)][Fold(plus, Zero, g)]
  BY <1>1, PlusMonoid, FoldOp
<1>3. Total(f) \in Scalar /\ Total(g) \in Scalar
  BY TotalType
<1> QED BY <1>2, <1>3, TotalIsFold, PlusIsAdd

(* Zeros do not count.                                                      *)
LEMMA TotalSubset ==
  ASSUME NEW S, IsFiniteSet(S), NEW f \in [S -> Scalar], NEW T \in SUBSET S,
         AllZero(f, S \ T), NEW r \in [T -> Scalar], Restricts(r, f, T)
  PROVE  Total(f) = Total(r)
<1> USE DEF AllZero, Restricts
<1>1. Fold(plus, Zero, f) = Part(plus, Zero, f, T)
  BY PlusMonoid, FoldSubset
<1>2. r = [k \in T |-> f[k]]
  OBVIOUS
<1>3. IsFiniteSet(T)
  BY FS_Subset
<1> QED BY <1>1, <1>2, <1>3, TotalIsFold DEF Part

LEMMA TotalEmpty ==
  ASSUME NEW f \in [{} -> Scalar]
  PROVE  Total(f) = Zero
<1>1. PartSplits(Scalar, plus, Zero, f, {})
  BY PlusMonoid, PartLaws, FS_EmptySet
<1>2. f = [k \in {} |-> f[k]]
  OBVIOUS
<1>3. Part(plus, Zero, f, {}) = Total(f)
  <2>1. Part(plus, Zero, f, {}) = Fold(plus, Zero, f)
    BY <1>2 DEF Part
  <2>2. IsFiniteSet({})
    BY FS_EmptySet
  <2> QED BY <2>1, <2>2, TotalIsFold
<1> QED BY <1>1, <1>3 DEF PartSplits

LEMMA TotalZero ==
  ASSUME NEW S, IsFiniteSet(S), NEW f \in [S -> Scalar], AllZero(f, S)
  PROVE  Total(f) = Zero
<1> DEFINE T == {}
           r == [k \in T |-> f[k]]
<1>1. T \in SUBSET S /\ AllZero(f, S \ T)
  BY DEF AllZero
<1>2. r \in [T -> Scalar] /\ Restricts(r, f, T)
  BY DEF Restricts
<1>3. Total(r) = Zero
  <2> HIDE DEF r
  <2> QED BY <1>2, TotalEmpty
<1> HIDE DEF r, T
<1> QED BY <1>1, <1>2, <1>3, TotalSubset

(* Only one summand counts.                                                 *)
LEMMA TotalSingle ==
  ASSUME NEW S, IsFiniteSet(S), NEW f \in [S -> Scalar], NEW e \in S,
         AllZero(f, S \ {e})
  PROVE  Total(f) = f[e]
<1> DEFINE R == S \ {e}
           r == [k \in R |-> f[k]]
<1>1. R = S \ {e} /\ IsFiniteSet(R) /\ r \in [R -> Scalar] /\ AllZero(r, R) /\ Without(R, S, e)
  BY FS_RemoveElement DEF AllZero, Without
<1>2. Restricts(r, f, R)
  BY DEF Restricts
<1> HIDE DEF r, R
<1>3. Total(r) = Zero
  BY <1>1, TotalZero
<1>4. Total(f) = Add(f[e], Total(r))
  BY <1>1, <1>2, TotalStep
<1> QED BY <1>3, <1>4, AddZero

LEMMA TotalSwap ==
  ASSUME NEW S, IsFiniteSet(S), NEW R, IsFiniteSet(R), NEW f \in [S -> [R -> Scalar]]
  PROVE  Total([a \in S |-> Total(f[a])]) = Total([b \in R |-> Total([a \in S |-> f[a][b]])])
<1> DEFINE row == [a \in S |-> Total(f[a])]
           col(b) == [a \in S |-> f[a][b]]
           cols == [b \in R |-> Total(col(b))]
<1>1. row = [a \in S |-> Fold(plus, Zero, f[a])] /\ row \in [S -> Scalar]
  BY TotalIsFold, TotalType
<1>2. \A b \in R : Total(col(b)) = Fold(plus, Zero, col(b)) /\ Total(col(b)) \in Scalar
  <2> TAKE b \in R
  <2>1. col(b) \in [S -> Scalar]
    OBVIOUS
  <2> HIDE DEF col
  <2> QED BY <2>1, TotalIsFold, TotalType
<1>3. cols = [b \in R |-> Fold(plus, Zero, col(b))] /\ cols \in [R -> Scalar]
  <2> HIDE DEF col
  <2> QED BY <1>2
<1>4. Fold(plus, Zero, [a \in S |-> Fold(plus, Zero, f[a])])
        = Fold(plus, Zero, [b \in R |-> Fold(plus, Zero, col(b))])
  BY PlusMonoid, FoldSwap
<1>5. Fold(plus, Zero, row) = Fold(plus, Zero, cols)
  BY <1>1, <1>3, <1>4
<1> HIDE DEF row, cols
<1>6. Total(row) = Total(cols)
  BY <1>1, <1>3, <1>5, TotalIsFold
<1> QED BY <1>6 DEF row, cols

LEMMA TotalReindex ==
  ASSUME NEW S, IsFiniteSet(S), NEW R,
         NEW f \in [R -> Scalar], NEW g \in [S -> Scalar], NEW h, Renames(g, f, h, S, R)
  PROVE  Total(g) = Total(f)
<1>1. Fold(plus, Zero, g) = Fold(plus, Zero, f) /\ IsFiniteSet(R)
  BY PlusMonoid, FoldReindex
<1> QED BY <1>1, TotalIsFold

(* A common factor.                                                         *)
LEMMA TotalTimes ==
  ASSUME NEW S, IsFiniteSet(S), NEW a \in Scalar,
         NEW f \in [S -> Scalar], NEW h \in [S -> Scalar], ScaledBy(h, f, a, S)
  PROVE  Total(h) = Mul(Total(f), a)
<1> USE DEF ScaledBy
<1> DEFINE part(g, T) == Total([k \in T |-> g[k]])
           F == { T \in SUBSET S : part(h, T) = Mul(part(f, T), a) }
<1>1. {} \in F
  <2>1. part(h, {}) = Zero /\ part(f, {}) = Zero
    BY TotalEmpty
  <2> QED BY <2>1, MulZero
<1>2. ASSUME NEW T \in SUBSET S, T # {}, \A e \in T : T \ {e} \in F
      PROVE  T \in F
  <2>1. PICK e \in T : TRUE
    BY <1>2
  <2>2. IsFiniteSet(T) /\ IsFiniteSet(T \ {e})
    BY FS_Subset
  <2>3. ASSUME NEW g \in [S -> Scalar]
        PROVE  part(g, T) = Add(g[e], part(g, T \ {e})) /\ part(g, T \ {e}) \in Scalar
    <3> DEFINE R == T \ {e}
               u == [k \in T |-> g[k]]
               v == [k \in R |-> g[k]]
    <3>1. u \in [T -> Scalar] /\ u[e] = g[e] /\ Without(R, T, e) /\ Restricts(v, u, R)
          /\ v \in [R -> Scalar] /\ IsFiniteSet(R)
      BY <2>2 DEF Without, Restricts
    <3> HIDE DEF u, v, R
    <3>2. Total(u) = Add(u[e], Total(v))
      BY <2>1, <2>2, <3>1, TotalStep
    <3>3. Total(v) \in Scalar
      BY <2>2, <3>1, TotalType
    <3> QED BY <3>1, <3>2, <3>3 DEF u, v, R
  <2>4. part(h, T \ {e}) = Mul(part(f, T \ {e}), a)
    BY <1>2, <2>1
  <2> HIDE DEF part
  <2>5. part(h, T) = Add(Mul(f[e], a), Mul(part(f, T \ {e}), a))
    BY <2>3, <2>4
  <2>6. part(f, T \ {e}) \in Scalar /\ f[e] \in Scalar
    BY <2>3
  <2>7. Mul(Add(f[e], part(f, T \ {e})), a) = Add(Mul(f[e], a), Mul(part(f, T \ {e}), a))
    BY <2>6, ScalarLaws
  <2> QED BY <2>3, <2>5, <2>7
<1>3. S \in F
  <2> HIDE DEF F
  <2> QED BY <1>1, <1>2, SetInduction
<1>4. [k \in S |-> h[k]] = h /\ [k \in S |-> f[k]] = f
  OBVIOUS
<1> QED BY <1>3, <1>4

-----------------------------------------------------------------------------
(* Sums over an interval, taken apart at either end.                        *)
LEMMA TotalLast ==
  ASSUME NEW m \in Nat, NEW f \in [0 .. m -> Scalar],
         NEW R, R = 0 .. m - 1, NEW r \in [R -> Scalar], Restricts(r, f, R)
  PROVE  Total(f) = Add(f[m], Total(r))
<1> DEFINE S == 0 .. m
<1>1. IsFiniteSet(S)
  BY IntervalFinite
<1>2. m \in S /\ f \in [S -> Scalar]
  OBVIOUS
<1>3. Without(R, S, m)
  BY DEF Without
<1> HIDE DEF S
<1> QED BY <1>1, <1>2, <1>3, TotalStep

LEMMA TotalFirst ==
  ASSUME NEW m \in Nat, NEW f \in [0 .. m -> Scalar],
         NEW R, R = 0 .. m - 1, NEW r \in [R -> Scalar], Shifted(r, f, R)
  PROVE  Total(f) = Add(f[0], Total(r))
<1> DEFINE S == 0 .. m
           T == 1 .. m
           t == [k \in T |-> f[k]]
           h == [k \in R |-> k + 1]
<1>1. IsFiniteSet(S) /\ IsFiniteSet(R)
  BY IntervalFinite
<1>7. 0 \in S /\ f \in [S -> Scalar]
  OBVIOUS
<1>8. Without(T, S, 0)
  BY DEF Without
<1>2. t \in [T -> Scalar] /\ Restricts(t, f, T)
  BY DEF Restricts
<1>3. h \in [R -> T] /\ (\A k \in R : r[k] = t[h[k]]) /\ \A a, b \in R : h[a] = h[b] => a = b
  BY DEF Shifted
<1>4. \A b \in T : \E a \in R : h[a] = b
  <2> TAKE b \in T
  <2>1. b - 1 \in R /\ h[b - 1] = b
    OBVIOUS
  <2> QED BY <2>1
<1>9. Renames(r, t, h, R, T)
  BY <1>3, <1>4 DEF Renames, Bijective
<1> HIDE DEF S, T, t, h
<1>5. Total(f) = Add(f[0], Total(t))
  BY <1>1, <1>2, <1>7, <1>8, TotalStep
<1>6. Total(r) = Total(t)
  BY <1>1, <1>2, <1>9, TotalReindex
<1> QED BY <1>5, <1>6

(* A sum over a full period may start one later: g repeats after m steps,   *)
(* and f and h are its parts from 0 and from 1.                             *)
Periodic(f, h, g, m) ==
  /\ g \in [0 .. m -> Scalar] /\ g[m] = g[0]
  /\ f \in [0 .. m - 1 -> Scalar] /\ Restricts(f, g, 0 .. m - 1)
  /\ h \in [0 .. m - 1 -> Scalar] /\ Shifted(h, g, 0 .. m - 1)

LEMMA TotalPeriod ==
  ASSUME NEW m \in Nat, NEW f, NEW h, NEW g, Periodic(f, h, g, m)
  PROVE  Total(h) = Total(f)
<1> DEFINE R == 0 .. m - 1
<1>1. /\ g \in [0 .. m -> Scalar] /\ f \in [R -> Scalar] /\ h \in [R -> Scalar]
      /\ g[m] = g[0] /\ Restricts(f, g, R) /\ Shifted(h, g, R)
  BY DEF Periodic
<1>2. IsFiniteSet(R) /\ g[0] \in Scalar /\ R = 0 .. m - 1
  BY <1>1, IntervalFinite
<1> HIDE DEF R
<1>3. Total(g) = Add(g[0], Total(f)) /\ Total(g) = Add(g[0], Total(h))
  BY <1>1, <1>2, TotalLast, TotalFirst
<1>4. Total(f) \in Scalar /\ Total(h) \in Scalar
  BY <1>1, <1>2, TotalType
<1> QED BY <1>2, <1>3, <1>4, AddCancel

-----------------------------------------------------------------------------
(* Inner products.  Vec, like the relations above, is named to stay opaque. *)
Vec(u, S) == \A k \in S : u[k] \in Scalar
Dot(S, u, w) == Total([k \in S |-> Mul(u[k], w[k])])

LEMMA VecFcn ==
  ASSUME NEW S, NEW u \in [S -> Scalar]
  PROVE  Vec(u, S)
  BY DEF Vec

LEMMA DotTerms ==
  ASSUME NEW S, NEW u, NEW w, Vec(u, S), Vec(w, S)
  PROVE  [k \in S |-> Mul(u[k], w[k])] \in [S -> Scalar]
  BY ScalarClosed DEF Vec

LEMMA DotType ==
  ASSUME NEW S, IsFiniteSet(S), NEW u, NEW w, Vec(u, S), Vec(w, S)
  PROVE  Dot(S, u, w) \in Scalar
<1> DEFINE f == [k \in S |-> Mul(u[k], w[k])]
<1>1. f \in [S -> Scalar]
  BY DotTerms
<1> HIDE DEF f
<1>2. Total(f) \in Scalar
  BY <1>1, TotalType
<1> QED BY <1>2 DEF Dot, f

(* Equal vectors, and the order of the two.                                 *)
LEMMA DotSame ==
  ASSUME NEW S, NEW u, NEW w, NEW p, NEW q, Restricts(p, u, S), Restricts(q, w, S)
  PROVE  Dot(S, p, q) = Dot(S, u, w)
<1>1. [k \in S |-> Mul(p[k], q[k])] = [k \in S |-> Mul(u[k], w[k])]
  BY DEF Restricts
<1> QED BY <1>1 DEF Dot

LEMMA DotComm ==
  ASSUME NEW S, NEW u, NEW w, Vec(u, S), Vec(w, S)
  PROVE  Dot(S, u, w) = Dot(S, w, u)
<1>1. \A k \in S : Mul(u[k], w[k]) = Mul(w[k], u[k])
  BY ScalarLaws DEF Vec
<1>2. [k \in S |-> Mul(u[k], w[k])] = [k \in S |-> Mul(w[k], u[k])]
  BY <1>1
<1> QED BY <1>2 DEF Dot

LEMMA DotTimes ==
  ASSUME NEW S, IsFiniteSet(S), NEW a \in Scalar, NEW u, NEW w, NEW p,
         Vec(u, S), Vec(w, S), ScaledBy(p, u, a, S)
  PROVE  Dot(S, p, w) = Mul(Dot(S, u, w), a) /\ Vec(p, S)
<1> DEFINE f == [k \in S |-> Mul(u[k], w[k])]
           h == [k \in S |-> Mul(p[k], w[k])]
<1>1. f \in [S -> Scalar]
  BY DotTerms
<1>2. \A k \in S : p[k] = Mul(u[k], a) /\ u[k] \in Scalar /\ w[k] \in Scalar /\ p[k] \in Scalar
  BY ScalarClosed DEF ScaledBy, Vec
<1>3. Vec(p, S)
  BY <1>2 DEF Vec
<1>4. h \in [S -> Scalar]
  BY <1>3, DotTerms
<1>5. \A k \in S : Mul(p[k], w[k]) = Mul(Mul(u[k], w[k]), a)
  BY <1>2, MulSwap
<1>6. ScaledBy(h, f, a, S)
  BY <1>5 DEF ScaledBy
<1> HIDE DEF f, h
<1>7. Total(h) = Mul(Total(f), a)
  BY <1>1, <1>4, <1>6, TotalTimes
<1> QED BY <1>3, <1>7 DEF Dot, f, h

LEMMA DotPlus ==
  ASSUME NEW S, IsFiniteSet(S), NEW u, NEW v, NEW w, NEW p,
         Vec(u, S), Vec(v, S), Vec(w, S), AddsUp(p, u, v, S)
  PROVE  Dot(S, p, w) = Add(Dot(S, u, w), Dot(S, v, w)) /\ Vec(p, S)
<1> DEFINE f == [k \in S |-> Mul(u[k], w[k])]
           g == [k \in S |-> Mul(v[k], w[k])]
           h == [k \in S |-> Mul(p[k], w[k])]
<1>1. \A k \in S : /\ p[k] = Add(u[k], v[k]) /\ u[k] \in Scalar /\ v[k] \in Scalar
                   /\ w[k] \in Scalar /\ p[k] \in Scalar
  BY ScalarClosed DEF AddsUp, Vec
<1>2. Vec(p, S)
  BY <1>1 DEF Vec
<1>3. f \in [S -> Scalar] /\ g \in [S -> Scalar] /\ h \in [S -> Scalar]
  BY <1>2, DotTerms
<1>4. \A k \in S : Mul(p[k], w[k]) = Add(Mul(u[k], w[k]), Mul(v[k], w[k]))
  BY <1>1, ScalarLaws
<1>5. AddsUp(h, f, g, S)
  BY <1>4 DEF AddsUp
<1> HIDE DEF f, g, h
<1>6. Total(h) = Add(Total(f), Total(g))
  BY <1>3, <1>5, TotalPlus
<1> QED BY <1>2, <1>6 DEF Dot, f, g, h

(* Where one of the two is zero does not count.                             *)
LEMMA DotSubset ==
  ASSUME NEW S, IsFiniteSet(S), NEW u, NEW w, Vec(u, S), Vec(w, S),
         NEW T \in SUBSET S, AllZero(u, S \ T)
  PROVE  Dot(S, u, w) = Dot(T, u, w)
<1> DEFINE f == [k \in S |-> Mul(u[k], w[k])]
           r == [k \in T |-> Mul(u[k], w[k])]
<1>1. f \in [S -> Scalar]
  BY DotTerms
<1>2. r \in [T -> Scalar] /\ Restricts(r, f, T)
  <2>1. Vec(u, T) /\ Vec(w, T)
    BY DEF Vec
  <2>2. r \in [T -> Scalar]
    BY <2>1, DotTerms
  <2> QED BY <2>2 DEF Restricts
<1>3. AllZero(f, S \ T)
  <2>1. \A k \in S \ T : Mul(u[k], w[k]) = Zero
    BY MulZero DEF AllZero, Vec
  <2> QED BY <2>1 DEF AllZero
<1> HIDE DEF f, r
<1>4. Total(f) = Total(r)
  BY <1>1, <1>2, <1>3, TotalSubset
<1> QED BY <1>4 DEF Dot, f, r

LEMMA DotSingle ==
  ASSUME NEW S, IsFiniteSet(S), NEW u, NEW w, Vec(u, S), Vec(w, S),
         NEW e \in S, AllZero(u, S \ {e})
  PROVE  Dot(S, u, w) = Mul(u[e], w[e])
<1> DEFINE f == [k \in S |-> Mul(u[k], w[k])]
<1>1. f \in [S -> Scalar] /\ f[e] = Mul(u[e], w[e])
  BY DotTerms
<1>2. AllZero(f, S \ {e})
  <2>1. \A k \in S \ {e} : Mul(u[k], w[k]) = Zero
    BY MulZero DEF AllZero, Vec
  <2> QED BY <2>1 DEF AllZero
<1> HIDE DEF f
<1>3. Total(f) = f[e]
  BY <1>1, <1>2, TotalSingle
<1> QED BY <1>1, <1>3 DEF Dot, f

(* p is x times the matrix M, and q is M times y.                           *)
Matrix(M, S, R) == M \in [S -> [R -> Scalar]]
FromLeft(p, x, M, S, R) == \A k \in R : p[k] = Total([a \in S |-> Mul(x[a], M[a][k])])
FromRight(q, M, y, S, R) == \A a \in S : q[a] = Dot(R, M[a], y)

(* (x M) y = x (M y)                                                        *)
LEMMA DotSwap ==
  ASSUME NEW S, IsFiniteSet(S), NEW R, IsFiniteSet(R), NEW M, Matrix(M, S, R),
         NEW x, NEW y, Vec(x, S), Vec(y, R),
         NEW p, NEW q, FromLeft(p, x, M, S, R), FromRight(q, M, y, S, R)
  PROVE  Dot(R, p, y) = Dot(S, x, q) /\ Vec(p, R) /\ Vec(q, S)
<1> USE DEF Matrix
<1> DEFINE f == [a \in S |-> [k \in R |-> Mul(x[a], Mul(M[a][k], y[k]))]]
           c(k) == [a \in S |-> Mul(x[a], M[a][k])]
           d(k) == [a \in S |-> f[a][k]]
<1>1. \A a \in S, k \in R : x[a] \in Scalar /\ y[k] \in Scalar /\ M[a][k] \in Scalar
  BY DEF Vec
<1>9. (\A a \in S : x[a] \in Scalar) /\ (\A k \in R : y[k] \in Scalar)
  BY DEF Vec
<1>2. f \in [S -> [R -> Scalar]]
  BY <1>1, ScalarClosed
<1>3. ASSUME NEW k \in R
      PROVE  Mul(p[k], y[k]) = Total(d(k)) /\ p[k] \in Scalar
  <2>6. \A a \in S : Mul(x[a], M[a][k]) \in Scalar
    BY <1>1, ScalarClosed
  <2>7. \A a \in S : f[a][k] \in Scalar
    <3> HIDE DEF f
    <3> QED BY <1>2
  <2>1. c(k) \in [S -> Scalar] /\ d(k) \in [S -> Scalar] /\ y[k] \in Scalar
    <3> HIDE DEF f
    <3> QED BY <1>9, <2>6, <2>7
  <2>2. \A a \in S : Mul(x[a], Mul(M[a][k], y[k])) = Mul(Mul(x[a], M[a][k]), y[k])
    BY <1>1, ScalarLaws
  <2>3. ScaledBy(d(k), c(k), y[k], S)
    BY <2>2 DEF ScaledBy
  <2>4. p[k] = Total(c(k))
    BY DEF FromLeft
  <2> HIDE DEF c, d
  <2>5. Total(d(k)) = Mul(Total(c(k)), y[k]) /\ Total(c(k)) \in Scalar
    BY <2>1, <2>3, TotalTimes, TotalType
  <2> QED BY <2>4, <2>5
<1>4. ASSUME NEW a \in S
      PROVE  Mul(x[a], q[a]) = Total(f[a]) /\ q[a] \in Scalar
  <2> DEFINE g == [k \in R |-> Mul(M[a][k], y[k])]
             h == f[a]
  <2>5. \A k \in R : Mul(M[a][k], y[k]) \in Scalar
    BY <1>1, ScalarClosed
  <2>6. h \in [R -> Scalar]
    <3> HIDE DEF f
    <3> QED BY <1>2
  <2>1. g \in [R -> Scalar] /\ h \in [R -> Scalar] /\ x[a] \in Scalar
    <3> HIDE DEF h
    <3> QED BY <1>9, <2>5, <2>6
  <2>2. ScaledBy(h, g, x[a], R)
    <3>1. \A k \in R : h[k] = Mul(x[a], g[k]) /\ g[k] \in Scalar
      BY <2>1
    <3> HIDE DEF g, h
    <3> QED BY <2>1, <3>1, ScalarLaws DEF ScaledBy
  <2>3. q[a] = Total(g)
    BY DEF FromRight, Dot
  <2> HIDE DEF g, h
  <2>4. Total(h) = Mul(Total(g), x[a]) /\ Total(g) \in Scalar
    BY <2>1, <2>2, TotalTimes, TotalType
  <2> QED BY <2>1, <2>3, <2>4, ScalarLaws DEF h
<1>5. [k \in R |-> Mul(p[k], y[k])] = [k \in R |-> Total([a \in S |-> f[a][k]])]
  <2> HIDE DEF f
  <2> QED BY <1>3
<1>6. [a \in S |-> Mul(x[a], q[a])] = [a \in S |-> Total(f[a])]
  BY <1>4
<1>7. Total([a \in S |-> Total(f[a])]) = Total([k \in R |-> Total([a \in S |-> f[a][k]])])
  <2> HIDE DEF f
  <2> QED BY <1>2, TotalSwap
<1>8. Vec(p, R) /\ Vec(q, S)
  BY <1>3, <1>4 DEF Vec
<1> HIDE DEF f
<1> QED BY <1>5, <1>6, <1>7, <1>8 DEF Dot

-----------------------------------------------------------------------------
(* Powers of a scalar, and how the code's recursions compute them.          *)
IsPowers(p, a) ==
  /\ p \in [Nat -> Scalar]
  /\ p[0] = One
  /\ \A k \in Nat : p[k + 1] = Mul(p[k], a)

Powers(a) == CHOOSE p : IsPowers(p, a)

LEMMA PowersExist == \A a \in Scalar : IsPowers(Powers(a), a)
<1> TAKE a \in Scalar
<1> DEFINE step == [k \in Nat |-> [v \in Scalar |-> Mul(v, a)]]
<1>1. step \in [Nat -> [Scalar -> Scalar]]
  BY ScalarClosed
<1>2. PICK p \in [Nat -> Scalar] : NatRecursive(p, One, step)
  <2> HIDE DEF step
  <2> QED BY <1>1, ScalarClosed, NatRecursion
<1>3. IsPowers(p, a)
  <2>1. \A k \in Nat : p[k + 1] = step[k][p[k]] /\ p[k] \in Scalar
    BY <1>2 DEF NatRecursive
  <2>2. \A k \in Nat : p[k + 1] = Mul(p[k], a)
    BY <2>1
  <2> QED BY <1>2, <2>2 DEF IsPowers, NatRecursive
<1> QED BY <1>3 DEF Powers

LEMMA PowersType == \A a \in Scalar, k \in Nat : Powers(a)[k] \in Scalar
  BY PowersExist DEF IsPowers

(* The first m + 1 powers, however they are stored.                         *)
ArePowersOf(g, a, m) == g[0] = One /\ \A k \in 0 .. m - 1 : g[k + 1] = Mul(g[k], a)

LEMMA PowersUnique ==
  ASSUME NEW a \in Scalar, NEW m \in Nat, NEW g, ArePowersOf(g, a, m)
  PROVE  \A k \in 0 .. m : g[k] = Powers(a)[k]
<1> DEFINE p == Powers(a)
           T == { k \in Nat : k <= m => g[k] = p[k] }
<1>1. IsPowers(p, a)
  BY PowersExist
<1> HIDE DEF p
<1>2. 0 \in T
  BY <1>1 DEF IsPowers, ArePowersOf
<1>3. \A k \in Nat : k \in T => k + 1 \in T
  BY <1>1 DEF IsPowers, ArePowersOf
<1>4. \A k \in Nat : k \in T
  <2> HIDE DEF T
  <2> QED BY <1>2, <1>3, Induction
<1> QED BY <1>4 DEF p

LEMMA PowersAdd ==
  \A a \in Scalar : \A j, k \in Nat : Powers(a)[j + k] = Mul(Powers(a)[j], Powers(a)[k])
<1> SUFFICES ASSUME NEW a \in Scalar, NEW j \in Nat
             PROVE  \A k \in Nat : Powers(a)[j + k] = Mul(Powers(a)[j], Powers(a)[k])
  OBVIOUS
<1> DEFINE p == Powers(a)
           T == { k \in Nat : p[j + k] = Mul(p[j], p[k]) }
<1>1. p \in [Nat -> Scalar] /\ p[0] = One /\ \A k \in Nat : p[k + 1] = Mul(p[k], a)
  BY PowersExist DEF IsPowers
<1> HIDE DEF p
<1>2. 0 \in T
  BY <1>1, MulOne
<1>3. ASSUME NEW k \in Nat, k \in T PROVE k + 1 \in T
  <2>1. p[j + (k + 1)] = Mul(p[j + k], a)
    <3>1. j + (k + 1) = (j + k) + 1 /\ j + k \in Nat
      OBVIOUS
    <3> QED BY <1>1, <3>1
  <2>2. Mul(Mul(p[j], p[k]), a) = Mul(p[j], Mul(p[k], a))
    BY <1>1, ScalarLaws
  <2>3. p[k + 1] = Mul(p[k], a)
    BY <1>1
  <2> QED BY <1>3, <2>1, <2>2, <2>3
<1>4. \A k \in Nat : k \in T
  <2> HIDE DEF T
  <2> QED BY <1>2, <1>3, Induction
<1> QED BY <1>4 DEF p

(* Powers of a power.                                                       *)
LEMMA PowersTimes ==
  \A a \in Scalar : \A j, k \in Nat : Powers(Powers(a)[j])[k] = Powers(a)[j * k]
<1> SUFFICES ASSUME NEW a \in Scalar, NEW j \in Nat
             PROVE  \A k \in Nat : Powers(Powers(a)[j])[k] = Powers(a)[j * k]
  OBVIOUS
<1> DEFINE p == Powers(a)
           b == p[j]
           q == Powers(b)
           T == { k \in Nat : q[k] = p[j * k] }
<1>1. p \in [Nat -> Scalar] /\ p[0] = One /\ b \in Scalar
      /\ \A k, m \in Nat : p[k + m] = Mul(p[k], p[m])
  BY PowersExist, PowersAdd DEF IsPowers
<1>2. q[0] = One /\ \A k \in Nat : q[k + 1] = Mul(q[k], b)
  <2> HIDE DEF b
  <2> QED BY <1>1, PowersExist DEF IsPowers
<1> HIDE DEF p, q
<1>3. 0 \in T
  <2>1. j * 0 = 0 /\ 0 \in Nat
    OBVIOUS
  <2>2. q[0] = p[0]
    BY <1>1, <1>2
  <2>3. q[0] = p[j * 0]
    BY <2>1, <2>2
  <2> QED BY <2>1, <2>3
<1>4. ASSUME NEW k \in Nat, k \in T PROVE k + 1 \in T
  <2>1. j * (k + 1) = j * k + j /\ j * k \in Nat
    OBVIOUS
  <2>2. p[j * k + j] = Mul(p[j * k], p[j])
    BY <1>1, <2>1
  <2> QED BY <1>2, <1>4, <2>1, <2>2
<1>5. \A k \in Nat : k \in T
  <2> HIDE DEF T
  <2> QED BY <1>3, <1>4, Induction
<1> QED BY <1>5 DEF p, q

-----------------------------------------------------------------------------
(* The N-th roots of unity, as a function of all integers.                  *)
Ones(N) == [k \in 0 .. N - 1 |-> One]

Roots(el, N, ninv) ==
  /\ N \in Nat \ {0}
  /\ el \in [Int -> Scalar]
  /\ el[0] = One
  /\ \A a, b \in Int : el[a + b] = Mul(el[a], el[b])
  /\ \A a \in Int : el[a] = el[a % N]
  /\ \A a \in 1 .. N - 1 : el[a] # One
  /\ ninv \in Scalar
  /\ Mul(Total(Ones(N)), ninv) = One

(* They are the powers of a generator of order N.                           *)
LEMMA RootsOfGenerator ==
  ASSUME NEW N \in Nat \ {0}, NEW a \in Scalar, NEW ninv \in Scalar,
         Powers(a)[N] = One, \A k \in 1 .. N - 1 : Powers(a)[k] # One,
         Mul(Total(Ones(N)), ninv) = One,
         NEW el, el = [k \in Int |-> Powers(a)[k % N]]
  PROVE  Roots(el, N, ninv)
<1> DEFINE p == Powers(a)
<1>1. p \in [Nat -> Scalar] /\ p[0] = One /\ \A k, m \in Nat : p[k + m] = Mul(p[k], p[m])
  BY PowersExist, PowersAdd DEF IsPowers
<1> HIDE DEF p
<1>2. \A k \in Int : k % N \in Nat /\ k % N \in 0 .. N - 1 /\ el[k] = p[k % N]
  BY DivMod DEF p
<1>3. el \in [Int -> Scalar]
  <2>1. \A k \in Int : p[k % N] \in Scalar
    BY <1>1, <1>2
  <2> QED BY <2>1 DEF p
<1>4. \A k \in 0 .. N - 1 : k % N = k
  <2> TAKE k \in 0 .. N - 1
  <2>1. k = N * 0 + k /\ k \in Int
    OBVIOUS
  <2> QED BY <2>1, DivModUnique
<1>5. \A k \in Int : el[k] = el[k % N]
  BY <1>2, <1>4
<1>6. ASSUME NEW j \in Int, NEW k \in Int
      PROVE  el[j + k] = Mul(el[j], el[k])
  <2> DEFINE r == j % N
             s == k % N
             u == j \div N
             v == k \div N
  <2>1. /\ r \in 0 .. N - 1 /\ s \in 0 .. N - 1 /\ u \in Int /\ v \in Int
        /\ j = N * u + r /\ k = N * v + s
    BY DivMod
  <2>2. el[j] = p[r] /\ el[k] = p[s]
    BY <1>2
  <2> HIDE DEF r, s, u, v
  <2>7. r \in Nat /\ s \in Nat
    BY <2>1
  <2>3. p[r + s] = Mul(p[r], p[s])
    BY <1>1, <2>7
  <2>4. N * (u + v) = N * u + N * v /\ N * (u + v + 1) = N * u + N * v + N
    BY <2>1
  <2>5. CASE r + s < N
    <3>1. r + s \in 0 .. N - 1 /\ j + k = N * (u + v) + (r + s) /\ u + v \in Int /\ j + k \in Int
      BY <2>1, <2>4, <2>5
    <3>2. (j + k) % N = r + s
      <4> DEFINE t == r + s
                 w == u + v
                 z == j + k
      <4>1. t \in 0 .. N - 1 /\ w \in Int /\ z \in Int /\ z = N * w + t
        BY <3>1
      <4> HIDE DEF t, w, z
      <4>2. z % N = t
        BY <4>1, DivModUnique
      <4> QED BY <4>2 DEF t, z
    <3> QED BY <1>2, <2>2, <2>3, <3>1, <3>2
  <2>6. CASE ~(r + s < N)
    <3> DEFINE t == r + s - N
               w == u + v + 1
               z == j + k
    <3>1. t \in 0 .. N - 1 /\ z = N * w + t /\ w \in Int /\ z \in Int /\ r + s = N + t
      BY <2>1, <2>4, <2>6
    <3> HIDE DEF t, w
    <3>2. z % N = t
      <4> HIDE DEF z
      <4> QED BY <3>1, DivModUnique
    <3>5. N \in Nat /\ t \in Nat
      BY <3>1
    <3>3. p[N + t] = Mul(p[N], p[t]) /\ p[t] \in Scalar
      BY <1>1, <3>5
    <3>4. p[N + t] = p[t]
      BY <3>3, MulOne DEF p
    <3> QED BY <1>2, <2>2, <2>3, <3>1, <3>2, <3>4
  <2> QED BY <2>5, <2>6
<1>7. el[0] = One
  <2>1. 0 \in 0 .. N - 1 /\ 0 \in Int
    OBVIOUS
  <2> QED BY <1>1, <1>2, <1>4, <2>1
<1>8. \A k \in 1 .. N - 1 : el[k] # One
  <2> TAKE k \in 1 .. N - 1
  <2>1. k \in 0 .. N - 1 /\ k \in Int
    OBVIOUS
  <2> QED BY <1>2, <1>4, <2>1 DEF p
<1> QED BY <1>3, <1>5, <1>6, <1>7, <1>8 DEF Roots

LEMMA RootsType ==
  ASSUME NEW N, NEW el, NEW ninv, Roots(el, N, ninv)
  PROVE  /\ N \in Nat \ {0} /\ ninv \in Scalar /\ el[0] = One
         /\ \A a \in Int : el[a] \in Scalar
         /\ \A a, b \in Int : el[a + b] = Mul(el[a], el[b])
  BY DEF Roots

LEMMA RootInverse ==
  ASSUME NEW N, NEW el, NEW ninv, Roots(el, N, ninv), NEW a \in Int
  PROVE  Mul(el[a], el[-a]) = One
<1>1. -a \in Int /\ a + (-a) = 0
  OBVIOUS
<1>2. el[a + (-a)] = Mul(el[a], el[-a])
  BY <1>1, RootsType
<1> QED BY <1>1, <1>2, RootsType

(* Multiples of N do not matter.                                            *)
LEMMA RootOfMultiple ==
  ASSUME NEW N, NEW el, NEW ninv, Roots(el, N, ninv), NEW a \in Int, NEW z, z = N * a
  PROVE  el[z] = One
<1>1. N \in Nat \ {0}
  BY DEF Roots
<1>2. z = N * a + 0 /\ z \in Int /\ 0 \in 0 .. N - 1
  BY <1>1
<1>3. z % N = 0
  BY <1>1, <1>2, DivModUnique
<1> QED BY <1>2, <1>3 DEF Roots

(* Different roots are different.                                           *)
LEMMA RootsDiffer ==
  ASSUME NEW N, NEW el, NEW ninv, Roots(el, N, ninv),
         NEW a \in 0 .. N - 1, NEW b \in 0 .. N - 1, a # b
  PROVE  el[a - b] # One
<1>1. N \in Nat \ {0}
  BY DEF Roots
<1>2. CASE a - b \in 1 .. N - 1
  BY <1>2 DEF Roots
<1>3. CASE b - a \in 1 .. N - 1
  <2> DEFINE d == b - a
  <2>1. d \in Int /\ a - b = -d /\ el[d] # One
    BY <1>3 DEF Roots
  <2>2. el[d] \in Scalar /\ el[-d] \in Scalar /\ Mul(el[d], el[-d]) = One
    <3> HIDE DEF d
    <3>1. -d \in Int
      BY <2>1
    <3> QED BY <2>1, <3>1, RootInverse, RootsType
  <2> QED BY <2>1, <2>2, MulOne
<1> QED BY <1>1, <1>2, <1>3

(* The powers of a root other than one add up to zero.                      *)
LEMMA RootSum ==
  ASSUME IsField, NEW N, NEW el, NEW ninv, Roots(el, N, ninv), NEW d \in Int, el[d] # One,
         NEW f, f = [k \in 0 .. N - 1 |-> el[d * k]]
  PROVE  Total(f) = Zero
<1> DEFINE R == 0 .. N - 1
           g == [k \in 0 .. N |-> el[d * k]]
           h == [k \in R |-> el[d * k + d]]
           e == el[d]
<1>1. N \in Nat \ {0} /\ \A k \in Nat : d * k \in Int /\ d * k + d \in Int /\ d * (k + 1) = d * k + d
  BY DEF Roots
<1>2. e \in Scalar /\ \A k \in Int : el[k] \in Scalar
  BY DEF Roots
<1>3. f \in [R -> Scalar] /\ g \in [0 .. N -> Scalar] /\ h \in [R -> Scalar]
  <2> HIDE DEF e
  <2> QED BY <1>1, <1>2
<1>4. g[N] = g[0]
  <2>1. d * N = N * d /\ d * 0 = 0 /\ 0 \in 0 .. N /\ N \in 0 .. N
    BY <1>1
  <2>2. el[d * N] = One
    BY <2>1, RootOfMultiple
  <2> QED BY <2>1, <2>2 DEF Roots
<1>5. Restricts(f, g, R)
  BY <1>1 DEF Restricts
<1>6. Shifted(h, g, R)
  BY <1>1 DEF Shifted
<1>7. ScaledBy(h, f, e, R)
  <2>1. \A k \in R : el[d * k + d] = Mul(el[d * k], el[d])
    BY <1>1 DEF Roots
  <2> QED BY <2>1 DEF ScaledBy
<1>8. IsFiniteSet(R)
  BY <1>1, IntervalFinite
<1>9. Total(h) = Total(f)
  <2>1. Periodic(f, h, g, N) /\ N \in Nat
    <3> HIDE DEF g, h
    <3> QED BY <1>1, <1>3, <1>4, <1>5, <1>6 DEF Periodic
  <2> HIDE DEF g, h
  <2> QED BY <2>1, TotalPeriod
<1>10. Total(h) = Mul(Total(f), e) /\ Total(f) \in Scalar
  <2> HIDE DEF g, h, e, R
  <2> QED BY <1>2, <1>3, <1>7, <1>8, TotalTimes, TotalType
<1>11. Mul(Total(f), e) = Mul(Total(f), One)
  BY <1>9, <1>10, MulOne
<1>12. Mul(e, Total(f)) = Mul(One, Total(f))
  BY <1>2, <1>10, <1>11, ScalarLaws, ScalarClosed
<1> HIDE DEF e
<1>13. e # One
  BY DEF e
<1> QED BY <1>2, <1>10, <1>12, <1>13, MulCancel, ScalarClosed

-----------------------------------------------------------------------------
(* The discrete Fourier transform: its k-th value is the inner product with *)
(* the k-th wave, and the inverse transform uses those of negative k.       *)
Wave(el, N, k) == [m \in 0 .. N - 1 |-> el[m * k]]

Dft(y, u, el, N) == \A k \in 0 .. N - 1 : y[k] = Dot(0 .. N - 1, u, Wave(el, N, k))

LEMMA WaveType ==
  ASSUME NEW N, NEW el, NEW ninv, Roots(el, N, ninv), NEW k \in Int
  PROVE  Wave(el, N, k) \in [0 .. N - 1 -> Scalar] /\ Vec(Wave(el, N, k), 0 .. N - 1)
<1>1. \A m \in 0 .. N - 1 : m * k \in Int /\ el[m * k] \in Scalar
  BY DEF Roots
<1>2. Wave(el, N, k) \in [0 .. N - 1 -> Scalar]
  BY <1>1 DEF Wave
<1> QED BY <1>2, VecFcn

LEMMA DftType ==
  ASSUME NEW N, NEW el, NEW ninv, Roots(el, N, ninv),
         NEW u, Vec(u, 0 .. N - 1), NEW y, Dft(y, u, el, N)
  PROVE  Vec(y, 0 .. N - 1)
<1> DEFINE R == 0 .. N - 1
<1>1. \A k \in R : Vec(Wave(el, N, k), R) /\ IsFiniteSet(R)
  <2> TAKE k \in R
  <2>1. k \in Int /\ N - 1 \in Int
    BY DEF Roots
  <2> QED BY <2>1, WaveType, IntervalFinite
<1>2. \A k \in R : Dot(R, u, Wave(el, N, k)) \in Scalar
  <2> TAKE k \in R
  <2> HIDE DEF R
  <2> QED BY <1>1, DotType DEF R
<1> QED BY <1>2 DEF Dft, Vec

(* Transforming back.                                                       *)
LEMMA DftInverse ==
  ASSUME IsField, NEW N, NEW el, NEW ninv, Roots(el, N, ninv),
         NEW u, Vec(u, 0 .. N - 1), NEW y, Dft(y, u, el, N), NEW k \in 0 .. N - 1
  PROVE  Mul(ninv, Dot(0 .. N - 1, y, Wave(el, N, -k))) = u[k]
<1> DEFINE R == 0 .. N - 1
           back == Wave(el, N, -k)
           M == [a \in R |-> [m \in R |-> el[a * m]]]
           q == [a \in R |-> Dot(R, M[a], back)]
           e == Total(Ones(N))
<1>1. N \in Nat \ {0} /\ -k \in Int /\ IsFiniteSet(R)
  BY IntervalFinite DEF Roots
<1>2. \A a, m \in R : a * m \in Int /\ el[a * m] \in Scalar /\ a * m = m * a
  BY DEF Roots
<1>3. Matrix(M, R, R)
  <2> HIDE DEF R
  <2> QED BY <1>2 DEF Matrix
<1>4. Vec(back, R)
  BY <1>1, WaveType
<1>5. FromLeft(y, u, M, R, R)
  <2> SUFFICES ASSUME NEW b \in R
               PROVE  y[b] = Total([a \in R |-> Mul(u[a], M[a][b])])
    BY DEF FromLeft
  <2>1. [m \in R |-> Mul(u[m], Wave(el, N, b)[m])] = [a \in R |-> Mul(u[a], M[a][b])]
    BY DEF Wave
  <2> QED BY <2>1 DEF Dft, Dot
<1>6. FromRight(q, M, back, R, R)
  BY DEF FromRight
<1>15. Vec(u, R)
  OBVIOUS
<1>7. Dot(R, y, back) = Dot(R, u, q) /\ Vec(q, R)
  <2> HIDE DEF R, M, back, q
  <2> QED BY <1>1, <1>3, <1>4, <1>5, <1>6, <1>15, DotSwap
<1>8. ASSUME NEW a \in R
      PROVE  q[a] = Total([m \in R |-> el[(a - k) * m]])
  <2>1. \A m \in R : Mul(el[a * m], el[m * (-k)]) = el[(a - k) * m]
    <3> TAKE m \in R
    <3>1. a * m \in Int /\ m * (-k) \in Int /\ a * m + m * (-k) = (a - k) * m
      OBVIOUS
    <3> QED BY <3>1 DEF Roots
  <2>2. [m \in R |-> Mul(M[a][m], back[m])] = [m \in R |-> el[(a - k) * m]]
    BY <2>1 DEF Wave
  <2> QED BY <2>2 DEF Dot
<1>9. q[k] = e
  <2>1. \A m \in R : el[(k - k) * m] = One
    <3> TAKE m \in R
    <3>1. (k - k) * m = 0
      OBVIOUS
    <3> QED BY <3>1 DEF Roots
  <2>2. [m \in R |-> el[(k - k) * m]] = Ones(N)
    BY <2>1 DEF Ones
  <2> QED BY <1>8, <2>2
<1>10. ASSUME NEW a \in R \ {k} PROVE q[a] = Zero
  <2>1. el[a - k] # One /\ a - k \in Int
    BY RootsDiffer
  <2> DEFINE d == a - k
             f == [m \in R |-> el[d * m]]
  <2>2. Total(f) = Zero
    <3> HIDE DEF d
    <3> QED BY <2>1, RootSum DEF d
  <2> QED BY <1>8, <2>2
<1>11. AllZero(q, R \ {k})
  <2> HIDE DEF q
  <2> QED BY <1>10 DEF AllZero
<1>12. Dot(R, u, q) = Mul(q[k], u[k])
  <2>1. Dot(R, u, q) = Dot(R, q, u)
    BY <1>7, DotComm
  <2>2. k \in R
    OBVIOUS
  <2> HIDE DEF q, R
  <2> QED BY <1>1, <1>7, <1>11, <1>15, <2>1, <2>2, DotSingle
<1>13. e \in Scalar /\ ninv \in Scalar /\ u[k] \in Scalar /\ Mul(e, ninv) = One
  <2>1. Vec(q, R)
    BY <1>7
  <2>2. q[k] \in Scalar
    BY <2>1 DEF Vec
  <2> QED BY <1>9, <2>2 DEF Roots, Vec
<1> HIDE DEF q, e, back
<1>14. Mul(ninv, Mul(e, u[k])) = Mul(Mul(e, ninv), u[k])
  BY <1>13, ScalarLaws
<1> QED BY <1>7, <1>9, <1>12, <1>13, <1>14, MulOne DEF back

(* A vector turned by a places: its transform is multiplied by a wave.      *)
Turned(r, v, a, N) == \A b \in 0 .. N - 1 : r[b] = v[(b - a) % N]

LEMMA TurnBijective ==
  ASSUME NEW N \in Nat \ {0}, NEW a \in Int, NEW R, R = 0 .. N - 1,
         NEW h, h = [b \in R |-> (b - a) % N]
  PROVE  Bijective(h, R, R)
<1>1. ASSUME NEW b \in R PROVE (b - a) % N \in R
  <2> DEFINE z == b - a
  <2>1. z \in Int
    OBVIOUS
  <2> HIDE DEF z
  <2>2. z % N \in 0 .. N - 1
    BY <2>1, DivMod
  <2> QED BY <2>2 DEF z
<1>2. h \in [R -> R]
  BY <1>1
<1>3. ASSUME NEW c \in R PROVE \E b \in R : h[b] = c
  <2> DEFINE b == (c + a) % N
             q == (c + a) \div N
  <2>1. b \in R /\ q \in Int /\ c + a = N * q + b
    <3>1. c + a \in Int
      OBVIOUS
    <3> QED BY <3>1, DivMod
  <2> HIDE DEF b, q
  <2>2. N * (-q) = -(N * q)
    BY <2>1
  <2> DEFINE z == b - a
  <2>3. z = N * (-q) + c /\ -q \in Int /\ z \in Int /\ c \in 0 .. N - 1
    BY <2>1, <2>2
  <2> HIDE DEF z
  <2>4. z % N = c
    <3> DEFINE s == -q
    <3>1. s \in Int /\ z = N * s + c
      BY <2>3
    <3> HIDE DEF s
    <3> QED BY <2>3, <3>1, DivModUnique
  <2> QED BY <2>1, <2>4 DEF z
<1>4. ASSUME NEW b \in R, NEW c \in R, h[b] = h[c] PROVE b = c
  <2> DEFINE y == b - a
             z == c - a
             p == y \div N
             q == z \div N
             r == y % N
             P == N * p
             Q == N * q
  <2>1. y \in Int /\ z \in Int
    OBVIOUS
  <2>2. r = z % N
    BY <1>4
  <2> HIDE DEF y, z
  <2>3. /\ p \in Int /\ q \in Int /\ r \in 0 .. N - 1
        /\ y = P + r /\ z = P + r - P + Q
    <3>1. y % N \in 0 .. N - 1 /\ p \in Int /\ y = P + (y % N)
      BY <2>1, DivMod
    <3>2. q \in Int /\ z = Q + (z % N)
      BY <2>1, DivMod
    <3> QED BY <2>2, <3>1, <3>2
  <2>4. P \in Int /\ Q \in Int /\ (p < q => P + N <= Q) /\ (q < p => Q + N <= P) /\ (p = q => P = Q)
    <3>1. p \in Int /\ q \in Int
      BY <2>3
    <3> HIDE DEF p, q
    <3>2. P \in Int /\ Q \in Int
      BY <3>1
    <3>3. ASSUME p < q PROVE P + N <= Q
      BY <3>1, <3>3, MultiplesApart
    <3>4. ASSUME q < p PROVE Q + N <= P
      BY <3>1, <3>4, MultiplesApart
    <3> QED BY <3>2, <3>3, <3>4
  <2> HIDE DEF p, q, r, P, Q
  <2>5. b - a = P + r /\ c - a = Q + r
    BY <2>3, <2>4 DEF y, z
  <2> QED BY <2>3, <2>4, <2>5
<1> QED BY <1>2, <1>3, <1>4 DEF Bijective

LEMMA TurnedWave ==
  ASSUME NEW N, NEW el, NEW ninv, Roots(el, N, ninv), NEW v, Vec(v, 0 .. N - 1),
         NEW a \in Int, NEW m \in Int, NEW r, Turned(r, v, a, N)
  PROVE  /\ Vec(r, 0 .. N - 1)
         /\ Dot(0 .. N - 1, r, Wave(el, N, m))
              = Mul(Dot(0 .. N - 1, v, Wave(el, N, m)), el[a * m])
<1> DEFINE R == 0 .. N - 1
           h == [b \in R |-> (b - a) % N]
           e == el[a * m]
           f == [c \in R |-> Mul(v[c], el[c * m])]
           s == [c \in R |-> Mul(f[c], e)]
           g == [b \in R |-> Mul(r[b], el[b * m])]
<1>1. N \in Nat \ {0} /\ IsFiniteSet(R) /\ a * m \in Int /\ e \in Scalar
  <2>1. N \in Nat \ {0} /\ a * m \in Int
    BY DEF Roots
  <2> QED BY <2>1, IntervalFinite, RootsType
<1>2. Bijective(h, R, R) /\ h \in [R -> R]
  <2>1. Bijective(h, R, R)
    BY <1>1, TurnBijective
  <2> QED BY <2>1 DEF Bijective
<1>3. Vec(r, R)
  <2>1. \A b \in R : h[b] \in R /\ r[b] = v[h[b]]
    BY <1>2 DEF Turned
  <2> QED BY <2>1 DEF Vec
<1>4. f \in [R -> Scalar]
  <2>1. \A c \in R : c * m \in Int
    OBVIOUS
  <2>2. \A c \in R : v[c] \in Scalar /\ el[c * m] \in Scalar
    BY <2>1, RootsType DEF Vec
  <2> QED BY <2>2, ScalarClosed
<1>5. s \in [R -> Scalar] /\ ScaledBy(s, f, e, R)
  <2> HIDE DEF f, e
  <2>1. \A c \in R : Mul(f[c], e) \in Scalar
    BY <1>1, <1>4, ScalarClosed
  <2> QED BY <2>1 DEF ScaledBy
<1>6. ASSUME NEW b \in R
      PROVE  g[b] = s[h[b]]
  <2> DEFINE c == (b - a) % N
             q == (b - a) \div N
  <2>1. c \in R /\ q \in Int /\ b - a = N * q + c
    <3>1. b - a \in Int
      OBVIOUS
    <3> QED BY <1>1, <3>1, DivMod
  <2>2. h[b] = c /\ r[b] = v[c]
    BY DEF Turned
  <2> HIDE DEF c, q
  <2> DEFINE z == N * (q * m)
  <2>3. z + (c * m + a * m) = b * m /\ z \in Int /\ c * m \in Int /\ c * m + a * m \in Int /\ q * m \in Int
    <3>1. (N * q + c) * m = z + c * m /\ q * m \in Int
      BY <1>1, <2>1
    <3>2. (b - a) * m = b * m - a * m
      BY <2>1
    <3>3. z \in Int /\ c * m \in Int /\ b * m \in Int
      BY <1>1, <2>1, <3>1
    <3> QED BY <1>1, <2>1, <3>1, <3>2, <3>3
  <2>4. el[z] = One
    BY <1>1, <2>3, RootOfMultiple
  <2> HIDE DEF z
  <2>5. el[z + (c * m + a * m)] = Mul(el[z], el[c * m + a * m])
    BY <2>3, RootsType
  <2>6. el[c * m + a * m] = Mul(el[c * m], el[a * m])
    BY <1>1, <2>3, RootsType
  <2>7. el[c * m] \in Scalar /\ el[c * m + a * m] \in Scalar /\ v[c] \in Scalar
    BY <2>1, <2>3, RootsType DEF Vec
  <2>8. el[b * m] = Mul(el[c * m], e)
    BY <2>3, <2>4, <2>5, <2>6, <2>7, MulOne
  <2>9. Mul(v[c], Mul(el[c * m], e)) = Mul(Mul(v[c], el[c * m]), e)
    <3> HIDE DEF e
    <3> QED BY <1>1, <2>7, ScalarLaws
  <2>10. s[c] = Mul(Mul(v[c], el[c * m]), e)
    BY <2>1
  <2> QED BY <2>2, <2>8, <2>9, <2>10
<1>7. Renames(g, s, h, R, R)
  <2> HIDE DEF g, s, h, R
  <2> QED BY <1>2, <1>6 DEF Renames
<1>8. g \in [R -> Scalar]
  <2>1. \A b \in R : h[b] \in R /\ g[b] = s[h[b]] /\ s[h[b]] \in Scalar
    <3> HIDE DEF g, s, h, R
    <3> QED BY <1>2, <1>5, <1>6
  <2> QED BY <2>1
<1> HIDE DEF e, f, g, s, h, R
<1>9. Total(g) = Total(s)
  BY <1>1, <1>5, <1>7, <1>8, TotalReindex
<1>10. Total(s) = Mul(Total(f), e)
  BY <1>1, <1>4, <1>5, TotalTimes
<1>11. Total(g) = Dot(R, r, Wave(el, N, m)) /\ Total(f) = Dot(R, v, Wave(el, N, m))
  BY DEF g, f, R, Wave, Dot
<1> QED BY <1>3, <1>9, <1>10, <1>11 DEF R, e

(* The circular convolution of u and v.                                     *)
Convolves(w, u, v, N) ==
  \A b \in 0 .. N - 1 : w[b] = Total([a \in 0 .. N - 1 |-> Mul(u[a], v[(b - a) % N])])

(* The transform of the convolution is the product of the transforms.       *)
LEMMA ConvolutionDft ==
  ASSUME NEW N, NEW el, NEW ninv, Roots(el, N, ninv),
         NEW u, Vec(u, 0 .. N - 1), NEW v, Vec(v, 0 .. N - 1), NEW w, Convolves(w, u, v, N),
         NEW m \in 0 .. N - 1
  PROVE  /\ Vec(w, 0 .. N - 1)
         /\ Dot(0 .. N - 1, w, Wave(el, N, m))
              = Mul(Dot(0 .. N - 1, u, Wave(el, N, m)), Dot(0 .. N - 1, v, Wave(el, N, m)))
<1> DEFINE R == 0 .. N - 1
           wave == Wave(el, N, m)
           M == [a \in R |-> [b \in R |-> v[(b - a) % N]]]
           d == Dot(R, v, wave)
           q == [a \in R |-> Dot(R, M[a], wave)]
<1>1. N \in Nat \ {0} /\ IsFiniteSet(R) /\ m \in Int
  <2>1. N \in Nat \ {0} /\ m \in Int
    BY DEF Roots
  <2> QED BY <2>1, IntervalFinite
<1>2. Vec(wave, R) /\ \A a \in R : wave[a] = el[a * m]
  BY <1>1, WaveType DEF Wave
<1>3. Matrix(M, R, R)
  <2>1. ASSUME NEW a \in R, NEW b \in R PROVE (b - a) % N \in R
    <3> DEFINE z == b - a
    <3>1. z \in Int
      OBVIOUS
    <3> HIDE DEF z
    <3>2. z % N \in 0 .. N - 1
      BY <1>1, <3>1, DivMod
    <3> QED BY <3>2 DEF z
  <2>2. \A a, b \in R : v[(b - a) % N] \in Scalar
    BY <2>1 DEF Vec
  <2> QED BY <2>2 DEF Matrix
<1>4. FromLeft(w, u, M, R, R)
  <2>1. \A b \in R : [a \in R |-> Mul(u[a], v[(b - a) % N])] = [a \in R |-> Mul(u[a], M[a][b])]
    OBVIOUS
  <2> QED BY <2>1 DEF Convolves, FromLeft
<1>5. FromRight(q, M, wave, R, R)
  BY DEF FromRight
<1>6. Vec(u, R) /\ Vec(v, R)
  OBVIOUS
<1>7. Dot(R, w, wave) = Dot(R, u, q) /\ Vec(w, R) /\ Vec(q, R)
  <2> HIDE DEF R, M, wave, q
  <2> QED BY <1>1, <1>2, <1>3, <1>4, <1>5, <1>6, DotSwap
<1>8. d \in Scalar
  <2> HIDE DEF R, wave
  <2> QED BY <1>1, <1>2, <1>6, DotType
<1>9. ASSUME NEW a \in R PROVE q[a] = Mul(wave[a], d)
  <2>1. Turned(M[a], v, a, N) /\ a \in Int
    BY DEF Turned
  <2>2. Dot(R, M[a], wave) = Mul(d, el[a * m])
    <3> HIDE DEF M
    <3> QED BY <1>1, <2>1, TurnedWave
  <2>3. wave[a] \in Scalar
    BY <1>2 DEF Vec
  <2> HIDE DEF d, wave, M
  <2> QED BY <1>2, <1>8, <2>2, <2>3, ScalarLaws
<1>10. ScaledBy(q, wave, d, R)
  <2> HIDE DEF q, wave, d
  <2> QED BY <1>9 DEF ScaledBy
<1> HIDE DEF R, M, wave, q, d
<1>11. Dot(R, u, q) = Dot(R, q, u) /\ Dot(R, u, wave) = Dot(R, wave, u)
  BY <1>2, <1>6, <1>7, DotComm
<1>12. Dot(R, q, u) = Mul(Dot(R, wave, u), d)
  BY <1>1, <1>2, <1>6, <1>8, <1>10, DotTimes
<1> QED BY <1>7, <1>11, <1>12 DEF d, R, wave

ProductOf(y, p, q, N) == \A m \in 0 .. N - 1 : y[m] = Mul(p[m], q[m])

(* Multiplying the transforms and transforming back convolves.              *)
LEMMA Convolution ==
  ASSUME IsField, NEW N, NEW el, NEW ninv, Roots(el, N, ninv),
         NEW u, Vec(u, 0 .. N - 1), NEW v, Vec(v, 0 .. N - 1), NEW w, Convolves(w, u, v, N),
         NEW p, Dft(p, u, el, N), NEW q, Dft(q, v, el, N),
         NEW y, ProductOf(y, p, q, N), NEW k \in 0 .. N - 1
  PROVE  Mul(ninv, Dot(0 .. N - 1, y, Wave(el, N, -k))) = w[k]
<1>1. Vec(w, 0 .. N - 1)
  BY ConvolutionDft
<1>2. Dft(y, w, el, N)
  <2> SUFFICES ASSUME NEW m \in 0 .. N - 1
               PROVE  y[m] = Dot(0 .. N - 1, w, Wave(el, N, m))
    BY DEF Dft
  <2>1. /\ p[m] = Dot(0 .. N - 1, u, Wave(el, N, m))
        /\ q[m] = Dot(0 .. N - 1, v, Wave(el, N, m))
    BY DEF Dft
  <2>2. Dot(0 .. N - 1, w, Wave(el, N, m))
          = Mul(Dot(0 .. N - 1, u, Wave(el, N, m)), Dot(0 .. N - 1, v, Wave(el, N, m)))
    BY ConvolutionDft
  <2> QED BY <2>1, <2>2 DEF ProductOf
<1> QED BY <1>1, <1>2, DftInverse

(* The powers that Radix2Domain computes by recursion.                      *)
LEMMA PowChosen ==
  ASSUME NEW a \in Scalar, NEW P,
         P = CHOOSE q : q = [k \in Nat |-> IF k = 0 THEN One ELSE Mul(q[k - 1], a)]
  PROVE  \A k \in Nat : P[k] = Powers(a)[k]
<1> DEFINE p == Powers(a)
           Rec(q) == q = [k \in Nat |-> IF k = 0 THEN One ELSE Mul(q[k - 1], a)]
<1>1. p \in [Nat -> Scalar] /\ p[0] = One /\ \A k \in Nat : p[k + 1] = Mul(p[k], a)
  BY PowersExist DEF IsPowers
<1> HIDE DEF p
<1>2. Rec(p)
  <2>1. ASSUME NEW k \in Nat PROVE p[k] = IF k = 0 THEN One ELSE Mul(p[k - 1], a)
    <3>1. CASE k = 0
      BY <1>1, <3>1
    <3>2. CASE k # 0
      <4>1. k - 1 \in Nat /\ (k - 1) + 1 = k
        BY <3>2
      <4>2. p[(k - 1) + 1] = Mul(p[k - 1], a)
        BY <1>1, <4>1
      <4> QED BY <3>2, <4>1, <4>2
    <3> QED BY <3>1, <3>2
  <2> QED BY <1>1, <2>1
<1>3. P = CHOOSE q : Rec(q)
  OBVIOUS
<1>4. Rec(P)
  <2> HIDE DEF Rec
  <2> QED BY <1>2, <1>3
<1>5. ASSUME NEW m \in Nat PROVE ArePowersOf(P, a, m)
  <2>1. \A k \in Nat : P[k] = IF k = 0 THEN One ELSE Mul(P[k - 1], a)
    BY <1>4
  <2>2. P[0] = One
    BY <2>1
  <2>3. ASSUME NEW k \in 0 .. m - 1 PROVE P[k + 1] = Mul(P[k], a)
    <3>1. k + 1 \in Nat /\ k + 1 # 0 /\ (k + 1) - 1 = k
      OBVIOUS
    <3>2. P[k + 1] = IF k + 1 = 0 THEN One ELSE Mul(P[(k + 1) - 1], a)
      <4> DEFINE z == k + 1
      <4>1. z \in Nat
        BY <3>1
      <4> HIDE DEF z
      <4>2. P[z] = IF z = 0 THEN One ELSE Mul(P[z - 1], a)
        BY <2>1, <4>1
      <4> QED BY <4>2 DEF z
    <3> QED BY <3>1, <3>2
  <2> QED BY <2>2, <2>3 DEF ArePowersOf
<1>6. ASSUME NEW m \in Nat PROVE P[m] = p[m]
  <2>1. m \in 0 .. m /\ ArePowersOf(P, a, m)
    BY <1>5
  <2> HIDE DEF Rec
  <2> QED BY <2>1, PowersUnique DEF p
<1> QED BY <1>6 DEF p

(* The domain of Radix2Domain is one of roots of unity: P are the powers of *)
(* its generator a, and el its elements.                                    *)
DomainOf(el, P, a, N, ninv) ==
  /\ P = CHOOSE q : q = [k \in Nat |-> IF k = 0 THEN One ELSE Mul(q[k - 1], a)]
  /\ P[N] = One /\ \A k \in 1 .. N - 1 : P[k] # One
  /\ Mul(Total([k \in 1 .. N |-> One]), ninv) = One
  /\ el = [k \in Int |-> P[k % N]]

LEMMA DomainRoots ==
  ASSUME NEW N \in Nat \ {0}, NEW a \in Scalar, NEW ninv \in Scalar,
         NEW P, NEW el, DomainOf(el, P, a, N, ninv)
  PROVE  Roots(el, N, ninv)
<1> USE DEF DomainOf
<1>1. \A k \in Nat : P[k] = Powers(a)[k]
  BY PowChosen
<1>2. Powers(a)[N] = One /\ \A k \in 1 .. N - 1 : Powers(a)[k] # One
  <2>1. N \in Nat /\ \A k \in 1 .. N - 1 : k \in Nat
    OBVIOUS
  <2>2. P[N] = Powers(a)[N]
    BY <1>1, <2>1
  <2>3. \A k \in 1 .. N - 1 : P[k] = Powers(a)[k]
    BY <1>1, <2>1
  <2> QED BY <2>2, <2>3
<1>3. el = [k \in Int |-> Powers(a)[k % N]]
  <2>1. \A k \in Int : k % N \in Nat
    <3> TAKE k \in Int
    <3>1. k % N \in 0 .. N - 1
      BY DivMod
    <3> QED BY <3>1
  <2> QED BY <1>1, <2>1
<1>4. Total([k \in 1 .. N |-> One]) = Total(Ones(N))
  <2> DEFINE R == 0 .. N - 1
             T == 1 .. N
             f == [k \in T |-> One]
             g == [k \in R |-> One]
             h == [k \in R |-> k + 1]
  <2>1. IsFiniteSet(R)
    BY IntervalFinite
  <2>2. f \in [T -> Scalar] /\ g \in [R -> Scalar]
    BY ScalarClosed
  <2>3. h \in [R -> T] /\ (\A j, k \in R : h[j] = h[k] => j = k)
    OBVIOUS
  <2>4. ASSUME NEW b \in T PROVE \E k \in R : h[k] = b
    <3>1. b - 1 \in R /\ h[b - 1] = b
      OBVIOUS
    <3> QED BY <3>1
  <2>5. Renames(g, f, h, R, T)
    BY <2>3, <2>4 DEF Renames, Bijective
  <2> HIDE DEF R, T, f, g, h
  <2>6. Total(g) = Total(f)
    BY <2>1, <2>2, <2>5, TotalReindex
  <2> QED BY <2>6 DEF R, T, f, g, Ones
<1> HIDE DEF Ones
<1> QED BY <1>2, <1>3, <1>4, RootsOfGenerator

-----------------------------------------------------------------------------
(* Products, by the same folds.                                             *)
times == [a \in Scalar |-> [b \in Scalar |-> Mul(a, b)]]

LEMMA TimesMonoid == CommutativeMonoid(Scalar, times, One)
<1>1. \A a, b \in Scalar : Mul(a, b) \in Scalar
  BY ScalarClosed
<1>2. times \in [Scalar -> [Scalar -> Scalar]] /\ \A a, b \in Scalar : times[a][b] = Mul(a, b)
  BY <1>1 DEF times
<1> HIDE DEF times
<1>3. \A a, b, c \in Scalar : times[times[a][b]][c] = times[a][times[b][c]]
  <2> TAKE a, b, c \in Scalar
  <2>1. times[times[a][b]][c] = Mul(Mul(a, b), c) /\ times[a][times[b][c]] = Mul(a, Mul(b, c))
    BY <1>1, <1>2
  <2> QED BY <2>1, ScalarLaws
<1>4. /\ \A a \in Scalar : times[a][One] = a
      /\ \A a, b \in Scalar : times[a][b] = times[b][a]
  <2>1. \A a, b \in Scalar : Mul(a, b) = Mul(b, a)
    BY ScalarLaws
  <2>2. \A a, b \in Scalar : times[a][b] = times[b][a]
    BY <1>2, <2>1
  <2>3. ASSUME NEW a \in Scalar PROVE times[a][One] = a
    <3>1. times[a][One] = Mul(a, One)
      BY <1>2, ScalarClosed
    <3> QED BY <3>1, MulOne
  <2> QED BY <2>2, <2>3
<1> QED BY <1>2, <1>3, <1>4, ScalarClosed DEF CommutativeMonoid

LEMMA TimesIsMul == \A a, b \in Scalar : times[a][b] = Mul(a, b)
  BY DEF times

(* FoldFunction computes the fold of FoldLemmas.                            *)
LEMMA ProductIsFold ==
  ASSUME NEW S, IsFiniteSet(S), NEW f \in [S -> Scalar]
  PROVE  FoldFunction(Mul, One, f) = Fold(times, One, f)
<1> DEFINE c(s) == CHOOSE e \in s : TRUE
           Muls(g) == g = [s \in SUBSET S |-> IF s = {} THEN One
                                              ELSE Mul(f[c(s)], g[s \ {c(s)}])]
           Folds(g) == FoldsTo(g, S, times, One, f)
<1>1. \A s \in SUBSET S : s # {} => c(s) \in s /\ f[c(s)] \in Scalar
  OBVIOUS
<1>2. FoldFunction(Mul, One, f) = (CHOOSE g : Muls(g))[S]
  BY DEF FoldFunction, FoldFunctionOnSet, MapThenFoldSet
<1>3. Fold(times, One, f) = (CHOOSE g : Folds(g))[S]
  BY DEF Fold
<1>4. PICK g \in [SUBSET S -> Scalar] : Folds(g)
  BY TimesMonoid, FoldExists
<1>5. \A s \in SUBSET S : g[s] = IF s = {} THEN One ELSE times[f[c(s)]][g[s \ {c(s)}]]
  BY <1>4 DEF FoldsTo
<1> HIDE DEF c
<1>6. \A s \in SUBSET S : g[s] = IF s = {} THEN One ELSE Mul(f[c(s)], g[s \ {c(s)}])
  BY <1>1, <1>5, TimesIsMul
<1>7. Muls(g)
  BY <1>6
<1> HIDE DEF Muls
<1>8. Muls(CHOOSE v : Muls(v))
  BY <1>7
<1>9. ASSUME NEW q, Muls(q) PROVE q[S] = g[S]
  <2> DEFINE F == { s \in SUBSET S : q[s] = g[s] }
  <2>1. \A s \in SUBSET S : q[s] = IF s = {} THEN One ELSE Mul(f[c(s)], q[s \ {c(s)}])
    BY <1>9 DEF Muls
  <2>2. {} \in F
    BY <1>6, <2>1
  <2>3. ASSUME NEW s \in SUBSET S, s # {}, \A e \in s : s \ {e} \in F
        PROVE  s \in F
    BY <1>1, <1>6, <2>1, <2>3
  <2>4. S \in F
    <3> HIDE DEF F
    <3> QED BY <2>2, <2>3, SetInduction
  <2> QED BY <2>4
<1>10. ASSUME NEW q, Folds(q) PROVE q[S] = g[S]
  BY <1>4, <1>10, FoldUnique
<1> HIDE DEF Folds
<1>11. Folds(CHOOSE v : Folds(v))
  BY <1>4
<1> QED BY <1>2, <1>3, <1>8, <1>9, <1>10, <1>11

(* A product over a subset, taken apart.                                    *)
Times(f, T) == Part(times, One, f, T)

LEMMA TimesLaws ==
  ASSUME NEW S, IsFiniteSet(S), NEW f, Vec(f, S)
  PROVE  /\ Times(f, {}) = One
         /\ \A T \in SUBSET S :
              /\ Times(f, T) \in Scalar
              /\ \A e \in T : Times(f, T) = Mul(f[e], Times(f, T \ {e}))
<1>1. PartSplits(Scalar, times, One, f, S)
  BY TimesMonoid, PartLaws DEF Vec
<1>2. \A T \in SUBSET S : \A e \in T :
        T \ {e} \in SUBSET S /\ f[e] \in Scalar /\ Times(f, T \ {e}) \in Scalar
  BY <1>1 DEF PartSplits, Times, Vec
<1> QED BY <1>1, <1>2, TimesIsMul DEF PartSplits, Times

(* It is zero just when a factor is.                                        *)
LEMMA TimesZero ==
  ASSUME IsField, NEW S, IsFiniteSet(S), NEW f, Vec(f, S)
  PROVE  Times(f, S) = Zero <=> \E e \in S : f[e] = Zero
<1> DEFINE F == { T \in SUBSET S : Times(f, T) = Zero <=> \E e \in T : f[e] = Zero }
<1>1. {} \in F
  BY TimesLaws DEF IsField
<1>2. ASSUME NEW T \in SUBSET S, T # {}, \A e \in T : T \ {e} \in F
      PROVE  T \in F
  <2>1. PICK e \in T : TRUE
    BY <1>2
  <2> DEFINE R == T \ {e}
  <2>2. /\ Times(f, T) = Mul(f[e], Times(f, R)) /\ Times(f, R) \in Scalar /\ f[e] \in Scalar
        /\ (Times(f, R) = Zero <=> \E d \in R : f[d] = Zero)
    BY <1>2, TimesLaws DEF Vec
  <2>3. (\E d \in T : f[d] = Zero) <=> f[e] = Zero \/ \E d \in R : f[d] = Zero
    OBVIOUS
  <2> HIDE DEF R
  <2>4. Mul(f[e], Times(f, R)) = Zero <=> f[e] = Zero \/ Times(f, R) = Zero
    BY <2>2, MulZero, NoZeroDivisors
  <2> QED BY <2>2, <2>3, <2>4
<1>3. S \in F
  <2> HIDE DEF F
  <2> QED BY <1>1, <1>2, SetInduction
<1> QED BY <1>3

-----------------------------------------------------------------------------
(* The value at x of the polynomial with coefficients f[0] to f[d].         *)
Value(f, d, x) == Dot(0 .. d, f, Powers(x))

LEMMA ValueType ==
  ASSUME NEW d \in Nat, NEW f, Vec(f, 0 .. d), NEW x \in Scalar
  PROVE  Value(f, d, x) \in Scalar /\ Vec(Powers(x), 0 .. d)
<1>1. Vec(Powers(x), 0 .. d)
  BY PowersType DEF Vec
<1>2. IsFiniteSet(0 .. d)
  BY IntervalFinite
<1> QED BY <1>1, <1>2, DotType DEF Value

(* The highest coefficient split off.                                       *)
LEMMA ValueHigh ==
  ASSUME NEW d \in Nat, NEW f, Vec(f, 0 .. d + 1), NEW x \in Scalar
  PROVE  /\ Value(f, d + 1, x) = Add(Mul(f[d + 1], Powers(x)[d + 1]), Value(f, d, x))
         /\ Vec(f, 0 .. d)
<1> DEFINE m == d + 1
           R == 0 .. d
           g == [k \in 0 .. m |-> Mul(f[k], Powers(x)[k])]
           r == [k \in R |-> Mul(f[k], Powers(x)[k])]
<1>1. /\ g \in [0 .. m -> Scalar] /\ r \in [R -> Scalar] /\ Restricts(r, g, R)
      /\ m \in Nat /\ R = 0 .. m - 1 /\ g[m] = Mul(f[m], Powers(x)[m])
  BY PowersType, ScalarClosed DEF Vec, Restricts
<1>2. Total(g) = Value(f, m, x) /\ Total(r) = Value(f, d, x)
  BY DEF Value, Dot
<1>3. Vec(f, 0 .. d)
  BY DEF Vec
<1>4. m = d + 1
  OBVIOUS
<1> HIDE DEF m, R, g, r
<1>5. Total(g) = Add(g[m], Total(r))
  BY <1>1, TotalLast
<1> QED BY <1>1, <1>2, <1>3, <1>4, <1>5

(* The constant coefficient split off.                                      *)
LEMMA ValueLow ==
  ASSUME NEW d \in Nat, NEW f, Vec(f, 0 .. d + 1), NEW s, Shifted(s, f, 0 .. d),
         NEW x \in Scalar
  PROVE  Value(f, d + 1, x) = Add(f[0], Mul(Value(s, d, x), x)) /\ Vec(s, 0 .. d)
<1> DEFINE m == d + 1
           R == 0 .. d
           g == [k \in 0 .. m |-> Mul(f[k], Powers(x)[k])]
           u == [k \in R |-> Mul(s[k], Powers(x)[k])]
           r == [k \in R |-> Mul(u[k], x)]
<1>0. Vec(s, 0 .. d)
  BY DEF Vec, Shifted
<1>1. /\ IsPowers(Powers(x), x)
      /\ \A k \in Nat : Powers(x)[k] \in Scalar
  BY PowersExist, PowersType
<1>2. /\ g \in [0 .. m -> Scalar] /\ u \in [R -> Scalar]
  BY <1>0, <1>1, ScalarClosed DEF Vec
<1>3. r \in [R -> Scalar] /\ IsFiniteSet(R) /\ ScaledBy(r, u, x, R)
  BY <1>2, ScalarClosed, IntervalFinite DEF ScaledBy
<1>4. Shifted(r, g, R)
  <2> SUFFICES ASSUME NEW k \in R
               PROVE  r[k] = g[k + 1]
    BY DEF Shifted
  <2>1. g[k + 1] = Mul(f[k + 1], Mul(Powers(x)[k], x)) /\ f[k + 1] = s[k]
    BY <1>1 DEF IsPowers, Shifted
  <2>2. r[k] = Mul(Mul(s[k], Powers(x)[k]), x)
    OBVIOUS
  <2>3. s[k] \in Scalar /\ Powers(x)[k] \in Scalar
    BY <1>0, <1>1 DEF Vec
  <2> QED BY <2>1, <2>2, <2>3, ScalarLaws
<1>5. g[0] = f[0]
  <2>1. f[0] \in Scalar /\ Powers(x)[0] = One
    BY <1>1 DEF Vec, IsPowers
  <2> QED BY <2>1, MulOne
<1>6. m \in Nat /\ R = 0 .. m - 1 /\ m = d + 1
  OBVIOUS
<1>7. Total(g) = Value(f, m, x) /\ Total(u) = Value(s, d, x)
  BY DEF Value, Dot
<1> HIDE DEF m, R, g, u, r
<1>8. Total(g) = Add(g[0], Total(r))
  BY <1>2, <1>3, <1>4, <1>6, TotalFirst
<1>9. Total(r) = Mul(Total(u), x)
  BY <1>2, <1>3, TotalTimes
<1> QED BY <1>0, <1>5, <1>6, <1>7, <1>8, <1>9

(* At zero a polynomial has its constant coefficient.                       *)
LEMMA ValueAtZero ==
  ASSUME NEW d \in Nat, NEW f, Vec(f, 0 .. d)
  PROVE  Value(f, d, Zero) = f[0]
<1> DEFINE P == Powers(Zero)
           R == 0 .. d
<1>1. IsPowers(P, Zero)
  BY PowersExist, ScalarClosed
<1>2. Vec(P, R) /\ IsFiniteSet(R) /\ 0 \in R /\ Vec(f, R)
  BY PowersType, ScalarClosed, IntervalFinite DEF Vec
<1>3. AllZero(P, R \ {0}) /\ P[0] = One
  <2> SUFFICES ASSUME NEW k \in R \ {0}
               PROVE  P[k] = Zero
    BY <1>1 DEF AllZero, IsPowers
  <2>1. k - 1 \in Nat /\ (k - 1) + 1 = k
    OBVIOUS
  <2>2. P[k] = Mul(P[k - 1], Zero) /\ P[k - 1] \in Scalar
    BY <1>1, <2>1 DEF IsPowers
  <2> QED BY <2>2, MulZero
<1>4. f[0] \in Scalar
  BY DEF Vec
<1>5. Value(f, d, Zero) = Dot(R, f, P)
  BY DEF Value
<1> HIDE DEF P, R
<1>6. Dot(R, f, P) = Dot(R, P, f)
  BY <1>2, DotComm
<1>7. Dot(R, P, f) = Mul(P[0], f[0])
  BY <1>2, <1>3, DotSingle
<1> QED BY <1>3, <1>4, <1>5, <1>6, <1>7, MulOne

(* Coefficients of zero may be added on top.                                *)
LEMMA ValuePadded ==
  ASSUME NEW d \in Nat, NEW m \in Nat, d <= m, NEW f, Vec(f, 0 .. d), NEW g,
         Restricts(g, f, 0 .. d), AllZero(g, (0 .. m) \ (0 .. d)), NEW x \in Scalar
  PROVE  Value(g, m, x) = Value(f, d, x) /\ Vec(g, 0 .. m)
<1> DEFINE R == 0 .. m
           T == 0 .. d
           P == Powers(x)
<1>1. T \in SUBSET R /\ IsFiniteSet(R) /\ Vec(P, R)
  BY IntervalFinite, PowersType DEF Vec
<1>2. Vec(g, R)
  <2> SUFFICES ASSUME NEW k \in R
               PROVE  g[k] \in Scalar
    BY DEF Vec
  <2>1. CASE k \in T
    BY <2>1 DEF Restricts, Vec
  <2>2. CASE k \notin T
    BY <2>2, ScalarClosed DEF AllZero
  <2> QED BY <2>1, <2>2
<1>3. Dot(R, g, P) = Dot(T, g, P)
  <2>1. AllZero(g, R \ T)
    OBVIOUS
  <2> HIDE DEF R, T, P
  <2> QED BY <1>1, <1>2, <2>1, DotSubset
<1>4. Dot(T, g, P) = Dot(T, f, P)
  <2>1. Restricts(g, f, T) /\ Restricts(P, P, T)
    BY DEF Restricts
  <2> HIDE DEF T, P
  <2> QED BY <2>1, DotSame
<1> QED BY <1>2, <1>3, <1>4 DEF Value

(* f times x^t: t coefficients of zero in front.                            *)
Raised(f, d, t) == [k \in 0 .. t + d |-> IF k < t THEN Zero ELSE f[k - t]]

LEMMA ValueRaised ==
  ASSUME NEW d \in Nat, NEW f, Vec(f, 0 .. d), NEW x \in Scalar, NEW t \in Nat
  PROVE  /\ Value(Raised(f, d, t), t + d, x) = Mul(Powers(x)[t], Value(f, d, x))
         /\ Vec(Raised(f, d, t), 0 .. t + d)
<1> DEFINE P == Powers(x)
           v == Value(f, d, x)
           T == { k \in Nat : /\ Value(Raised(f, d, k), k + d, x) = Mul(P[k], v)
                              /\ Vec(Raised(f, d, k), 0 .. k + d) }
<1>1. IsPowers(P, x) /\ v \in Scalar /\ \A k \in Nat : P[k] \in Scalar
  BY PowersExist, PowersType, ValueType
<1>2. 0 \in T
  <2>1. 0 + d = d /\ P[0] = One
    BY <1>1 DEF IsPowers
  <2>2. \A k \in 0 .. d : Raised(f, d, 0)[k] = f[k]
    BY DEF Raised
  <2>3. Restricts(Raised(f, d, 0), f, 0 .. d) /\ Restricts(P, P, 0 .. d)
    BY <2>2 DEF Restricts
  <2>4. Dot(0 .. d, Raised(f, d, 0), P) = Dot(0 .. d, f, P)
    BY <2>3, DotSame
  <2>5. Vec(Raised(f, d, 0), 0 .. d)
    BY <2>2 DEF Vec
  <2>6. Value(Raised(f, d, 0), d, x) = v
    BY <2>4 DEF Value
  <2>7. Mul(P[0], v) = v
    BY <1>1, <2>1, MulOne
  <2> QED BY <2>1, <2>5, <2>6, <2>7
<1>3. ASSUME NEW k \in Nat, k \in T
      PROVE  k + 1 \in T
  <2> DEFINE g == Raised(f, d, k)
             h == Raised(f, d, k + 1)
             m == k + d
  <2>1. m \in Nat /\ (k + 1) + d = m + 1 /\ k + 1 \in Nat
    OBVIOUS
  <2>2. Value(g, m, x) = Mul(P[k], v) /\ Vec(g, 0 .. m)
    BY <1>3
  <2>3. h[0] = Zero
    BY DEF Raised
  <2>4. Shifted(g, h, 0 .. m)
    <3> SUFFICES ASSUME NEW j \in 0 .. m
                 PROVE  g[j] = h[j + 1]
      BY DEF Shifted
    <3>1. j + 1 \in 0 .. (k + 1) + d /\ (j + 1) - (k + 1) = j - k /\ (j + 1 < k + 1 <=> j < k)
      BY <2>1
    <3> QED BY <3>1 DEF Raised
  <2>5. Vec(h, 0 .. m + 1)
    <3> SUFFICES ASSUME NEW j \in 0 .. m + 1
                 PROVE  h[j] \in Scalar
      BY DEF Vec
    <3>1. CASE j = 0
      BY <2>3, <3>1, ScalarClosed
    <3>2. CASE j # 0
      <4>1. j - 1 \in 0 .. m /\ (j - 1) + 1 = j
        BY <3>2
      <4>2. h[j] = g[j - 1] /\ g[j - 1] \in Scalar
        <5> HIDE DEF g, h, m
        <5> QED BY <2>2, <2>4, <4>1 DEF Shifted, Vec
      <4> QED BY <4>2
    <3> QED BY <3>1, <3>2
  <2>6. Value(h, m + 1, x) = Add(h[0], Mul(Value(g, m, x), x))
    <3> HIDE DEF g, h, m
    <3> QED BY <2>1, <2>4, <2>5, ValueLow
  <2>7. Mul(Mul(P[k], v), x) = Mul(P[k + 1], v) /\ Mul(P[k + 1], v) \in Scalar
    <3>1. P[k + 1] = Mul(P[k], x) /\ P[k] \in Scalar
      BY <1>1 DEF IsPowers
    <3> DEFINE p == P[k]
    <3>2. p \in Scalar /\ P[k + 1] = Mul(p, x)
      BY <3>1
    <3> HIDE DEF v, P, p
    <3>3. Mul(Mul(p, v), x) = Mul(Mul(p, x), v) /\ Mul(p, x) \in Scalar
      BY <1>1, <3>2, MulSwap, ScalarClosed
    <3> QED BY <1>1, <3>2, <3>3, ScalarClosed DEF p
  <2>8. Value(h, m + 1, x) = Mul(P[k + 1], v)
    <3> HIDE DEF g, h, m, v, P
    <3> QED BY <2>2, <2>3, <2>6, <2>7, AddZero
  <2> QED BY <2>1, <2>5, <2>8
<1>4. t \in T
  <2> HIDE DEF T
  <2> QED BY <1>2, <1>3, Induction
<1> QED BY <1>4

(* g is f times X - p.                                                      *)
TimesMonomial(g, f, d, p) ==
  \A k \in 0 .. d + 1 : g[k] = Add(IF k = 0 THEN Zero ELSE f[k - 1],
                                   IF k > d THEN Zero ELSE Mul(f[k], Neg(p)))

LEMMA ValueOfMonomial ==
  ASSUME NEW d \in Nat, NEW f, Vec(f, 0 .. d), NEW p \in Scalar, NEW x \in Scalar,
         NEW g, TimesMonomial(g, f, d, p)
  PROVE  Value(g, d + 1, x) = Mul(Value(f, d, x), Sub(x, p)) /\ Vec(g, 0 .. d + 1)
<1> DEFINE a == [k \in 0 .. d + 1 |-> IF k = 0 THEN Zero ELSE f[k - 1]]
           b == [k \in 0 .. d + 1 |-> IF k > d THEN Zero ELSE Mul(f[k], Neg(p))]
           v == Value(f, d, x)
<1>1. Vec(a, 0 .. d + 1) /\ Vec(b, 0 .. d + 1)
  BY ScalarClosed DEF Vec
<1>2. Shifted(f, a, 0 .. d) /\ a[0] = Zero
  BY DEF Shifted
<1>3. AddsUp(g, a, b, 0 .. d + 1)
  BY DEF AddsUp, TimesMonomial
<1>4. ScaledBy(b, f, Neg(p), 0 .. d) /\ b[d + 1] = Zero
  BY DEF ScaledBy
<1>5. Vec(Powers(x), 0 .. d + 1) /\ Powers(x)[d + 1] \in Scalar
  BY PowersType DEF Vec
<1>6. Neg(p) \in Scalar /\ IsFiniteSet(0 .. d) /\ IsFiniteSet(0 .. d + 1)
  BY ScalarClosed, IntervalFinite
<1> HIDE DEF a, b
<1>7. Value(a, d + 1, x) = Add(a[0], Mul(v, x))
  BY <1>1, <1>2, ValueLow
<1>8. Value(b, d + 1, x) = Add(Mul(b[d + 1], Powers(x)[d + 1]), Value(b, d, x))
  BY <1>1, ValueHigh
<1>9. v \in Scalar /\ Vec(Powers(x), 0 .. d)
  BY ValueType
<1> HIDE DEF v
<1>10. Value(b, d, x) = Mul(v, Neg(p))
  BY <1>4, <1>6, <1>9, DotTimes DEF Value, v
<1>11. Value(g, d + 1, x) = Add(Value(a, d + 1, x), Value(b, d + 1, x)) /\ Vec(g, 0 .. d + 1)
  BY <1>1, <1>3, <1>5, <1>6, DotPlus DEF Value
<1>12. Mul(v, x) \in Scalar /\ Mul(v, Neg(p)) \in Scalar
  BY <1>6, <1>9, ScalarClosed
<1>13. Value(a, d + 1, x) = Mul(v, x)
  BY <1>2, <1>7, <1>12, AddZero
<1>14. Value(b, d + 1, x) = Mul(v, Neg(p))
  BY <1>4, <1>5, <1>8, <1>10, <1>12, AddZero, MulZero
<1>15. Mul(v, Sub(x, p)) = Add(Mul(v, x), Mul(v, Neg(p)))
  BY <1>6, <1>9, MulAdd DEF Sub
<1> QED BY <1>11, <1>13, <1>14, <1>15 DEF v

(* h is the quotient of f - f(p) by X - p, by Horner's rule.                *)
Quotient(h, f, d, p) == h[d] = Zero /\ \A k \in 1 .. d : h[k - 1] = Add(f[k], Mul(p, h[k]))

LEMMA ValueOfQuotient ==
  ASSUME NEW d \in Nat, NEW f, Vec(f, 0 .. d), NEW h, Vec(h, 0 .. d), NEW p \in Scalar,
         Quotient(h, f, d, p), NEW x \in Scalar
  PROVE  Mul(Value(h, d, x), Sub(x, p)) = Sub(Value(f, d, x), Value(f, d, p))
<1> DEFINE c == Add(f[0], Mul(p, h[0]))
           e == [k \in 0 .. d + 1 |-> IF k = 0 THEN c ELSE h[k - 1]]
           u == [k \in 0 .. d |-> Mul(h[k], p)]
<1>1. c \in Scalar /\ e[0] = c /\ e[d + 1] = Zero /\ f[0] \in Scalar /\ h[0] \in Scalar
  <2>1. f[0] \in Scalar /\ h[0] \in Scalar
    BY DEF Vec
  <2> QED BY <2>1, ScalarClosed DEF Quotient
<1>2. Vec(e, 0 .. d + 1) /\ Shifted(h, e, 0 .. d)
  BY <1>1 DEF Vec, Shifted
<1>3. Vec(u, 0 .. d) /\ ScaledBy(u, h, p, 0 .. d)
  BY ScalarClosed DEF Vec, ScaledBy
<1>4. AddsUp(e, f, u, 0 .. d)
  <2> SUFFICES ASSUME NEW k \in 0 .. d
               PROVE  e[k] = Add(f[k], u[k])
    BY DEF AddsUp
  <2>1. u[k] = Mul(p, h[k])
    BY ScalarLaws DEF Vec
  <2>2. CASE k = 0
    BY <1>1, <2>1, <2>2
  <2>3. CASE k # 0
    <3>1. k \in 1 .. d /\ e[k] = h[k - 1]
      BY <2>3
    <3> QED BY <3>1, <2>1 DEF Quotient
  <2> QED BY <2>2, <2>3
<1>5. IsFiniteSet(0 .. d) /\ d + 1 \in 0 .. d + 1
  BY IntervalFinite
<1> HIDE DEF c, e, u
<1>6. ASSUME NEW y \in Scalar
      PROVE  /\ Add(c, Mul(Value(h, d, y), y)) = Add(Value(f, d, y), Mul(Value(h, d, y), p))
             /\ Value(f, d, y) \in Scalar /\ Value(h, d, y) \in Scalar
  <2>1. Value(f, d, y) \in Scalar /\ Value(h, d, y) \in Scalar /\ Vec(Powers(y), 0 .. d)
    BY ValueType
  <2>2. Value(e, d + 1, y) = Add(e[0], Mul(Value(h, d, y), y))
    BY <1>2, ValueLow
  <2>3. Value(e, d + 1, y) = Add(Mul(e[d + 1], Powers(y)[d + 1]), Value(e, d, y)) /\ Vec(e, 0 .. d)
    BY <1>2, ValueHigh
  <2>4. Value(u, d, y) = Mul(Value(h, d, y), p)
    BY <1>3, <1>5, <2>1, DotTimes DEF Value
  <2>5. Value(e, d, y) = Add(Value(f, d, y), Value(u, d, y))
    BY <1>3, <1>4, <1>5, <2>1, DotPlus DEF Value
  <2>6. Powers(y)[d + 1] \in Scalar /\ Value(e, d, y) \in Scalar
    BY <2>3, PowersType, ValueType
  <2>7. Value(e, d + 1, y) = Value(e, d, y)
    BY <1>1, <2>3, <2>6, MulZero, AddZero
  <2> QED BY <1>1, <2>1, <2>2, <2>4, <2>5, <2>7
<1>7. Value(f, d, p) = c
  <2> DEFINE z == Mul(Value(h, d, p), p)
  <2>1. Add(c, z) = Add(Value(f, d, p), z) /\ z \in Scalar /\ Value(f, d, p) \in Scalar
    BY <1>6, ScalarClosed
  <2> HIDE DEF z
  <2> QED BY <1>1, <2>1, AddCancel, ScalarLaws
<1>8. Add(c, Mul(Value(h, d, x), x)) = Add(Value(f, d, x), Mul(Value(h, d, x), p))
      /\ Value(f, d, x) \in Scalar /\ Value(h, d, x) \in Scalar
  BY <1>6
<1> DEFINE A == Value(h, d, x)
           B == Value(f, d, x)
<1> HIDE DEF A, B
<1>9. Add(c, Mul(A, x)) = Add(B, Mul(A, p)) /\ A \in Scalar /\ B \in Scalar
  BY <1>8 DEF A, B
<1>10. Mul(A, Sub(x, p)) = Sub(Mul(A, x), Mul(A, p))
  <2>1. Mul(Sub(x, p), A) = Sub(Mul(x, A), Mul(p, A))
    BY <1>9, MulSub
  <2>2. Sub(x, p) \in Scalar
    BY SubClosed
  <2> QED BY <1>9, <2>1, <2>2, ScalarLaws
<1> DEFINE X == Mul(A, x)
           P == Mul(A, p)
<1>11. X \in Scalar /\ P \in Scalar /\ Add(c, X) = Add(B, P) /\ Mul(A, Sub(x, p)) = Sub(X, P)
  BY <1>9, <1>10, ScalarClosed
<1> HIDE DEF X, P
<1>12. Sub(X, P) = Sub(B, c)
  <2>1. Sub(Add(X, c), Add(P, c)) = Add(Sub(X, P), Sub(c, c))
    BY <1>1, <1>11, SubAdd
  <2>2. Sub(Add(B, P), Add(c, P)) = Add(Sub(B, c), Sub(P, P))
    BY <1>1, <1>9, <1>11, SubAdd
  <2>3. Sub(c, c) = Zero /\ Sub(P, P) = Zero /\ Sub(X, P) \in Scalar /\ Sub(B, c) \in Scalar
    BY <1>1, <1>9, <1>11, SubSelf, SubClosed
  <2>4. Add(X, c) = Add(B, P) /\ Add(P, c) = Add(c, P)
    BY <1>1, <1>11, ScalarLaws
  <2> QED BY <2>1, <2>2, <2>3, <2>4, AddZero
<1> QED BY <1>7, <1>11, <1>12 DEF A, B

-----------------------------------------------------------------------------
(* Polynomials at the roots of unity.                                       *)

(* u is a with zeros behind.                                                *)
Padded(u, a, N) ==
  /\ DOMAIN a \in SUBSET (0 .. N - 1)
  /\ Vec(u, 0 .. N - 1)
  /\ Restricts(u, a, DOMAIN a)
  /\ AllZero(u, (0 .. N - 1) \ DOMAIN a)

(* A transform of a vector that is too short.                               *)
LEMMA PaddedDft ==
  ASSUME NEW N, NEW el, NEW ninv, Roots(el, N, ninv),
         NEW a, NEW u, Padded(u, a, N), NEW k \in Int, NEW T, T = DOMAIN a
  PROVE  Total([m \in T |-> Mul(a[m], el[m * k])]) = Dot(0 .. N - 1, u, Wave(el, N, k))
<1> DEFINE R == 0 .. N - 1
           w == Wave(el, N, k)
<1>1. /\ T \in SUBSET R /\ Vec(u, R) /\ Restricts(u, a, T) /\ AllZero(u, R \ T)
      /\ Vec(w, R) /\ IsFiniteSet(R)
  <2>1. N \in Nat \ {0}
    BY RootsType
  <2>2. IsFiniteSet(R)
    BY <2>1, IntervalFinite
  <2>3. Vec(w, R)
    BY WaveType
  <2> QED BY <2>2, <2>3 DEF Padded
<1>2. \A m \in R : w[m] = el[m * k]
  BY DEF Wave
<1> HIDE DEF R, w
<1>3. Dot(R, u, w) = Dot(T, u, w)
  BY <1>1, DotSubset
<1>4. [m \in T |-> Mul(a[m], el[m * k])] = [m \in T |-> Mul(u[m], w[m])]
  BY <1>1, <1>2 DEF Restricts
<1> QED BY <1>3, <1>4 DEF Dot, R, w

(* The powers of a root are roots.                                          *)
LEMMA RootPowers ==
  ASSUME NEW N, NEW el, NEW ninv, Roots(el, N, ninv), NEW a \in Int, NEW k \in Nat
  PROVE  Powers(el[a])[k] = el[k * a]
<1> DEFINE g == [j \in Nat |-> el[j * a]]
<1>1. /\ el[0] = One /\ \A b \in Int : el[b] \in Scalar
      /\ \A b, c \in Int : el[b + c] = Mul(el[b], el[c])
  BY RootsType
<1>2. \A j \in 0 .. k : j * a \in Int /\ (j + 1) * a = j * a + a /\ 0 * a = 0
  OBVIOUS
<1>3. ArePowersOf(g, el[a], k)
  <2>1. \A j \in 0 .. k - 1 : g[j + 1] = Mul(g[j], el[a])
    BY <1>1, <1>2
  <2>2. g[0] = One
    BY <1>1, <1>2
  <2> QED BY <2>1, <2>2 DEF ArePowersOf
<1>4. \A j \in 0 .. k : g[j] = Powers(el[a])[j]
  <2> HIDE DEF g
  <2>1. el[a] \in Scalar
    BY <1>1
  <2> QED BY <1>3, <2>1, PowersUnique
<1> QED BY <1>4

(* The transform evaluates at the roots.                                    *)
LEMMA ValueAtRoot ==
  ASSUME NEW N, NEW el, NEW ninv, Roots(el, N, ninv), NEW f, NEW a \in Int
  PROVE  Value(f, N - 1, el[a]) = Dot(0 .. N - 1, f, Wave(el, N, a))
<1>1. \A k \in 0 .. N - 1 : Powers(el[a])[k] = Wave(el, N, a)[k]
  BY RootPowers DEF Wave
<1>2. Restricts(Powers(el[a]), Wave(el, N, a), 0 .. N - 1) /\ Restricts(f, f, 0 .. N - 1)
  BY <1>1 DEF Restricts
<1> QED BY <1>2, DotSame DEF Value

(* The coefficients of a Lagrange polynomial, but for the factor 1 / N.     *)
Inverses(f, el, N, a) == \A k \in 0 .. N : f[k] = el[-(k * a)]

(* (x^N - 1) / (x - el[a]), by the geometric sum.                           *)
LEMMA GeometricSum ==
  ASSUME NEW N, NEW el, NEW ninv, Roots(el, N, ninv), NEW a \in Int, NEW x \in Scalar,
         NEW f, Inverses(f, el, N, a)
  PROVE  /\ Vec(f, 0 .. N - 1)
         /\ Mul(Value(f, N - 1, x), Sub(x, el[a])) = Mul(el[a], Sub(Powers(x)[N], One))
<1>1. /\ N \in Nat \ {0} /\ el[0] = One /\ \A b \in Int : el[b] \in Scalar
      /\ \A b, c \in Int : el[b + c] = Mul(el[b], el[c])
  BY RootsType
<1>2. \A k \in 0 .. N : k * a \in Int /\ -(k * a) \in Int /\ 0 * a = 0
  BY <1>1
<1>3. \A k \in 0 .. N - 1 : (k + 1) * a = k * a + a /\ -((k + 1) * a) = -(k * a) + (-a)
  BY <1>1
<1> DEFINE d == N - 1
           s == [k \in 0 .. N - 1 |-> f[k + 1]]
           c == el[-a]
           e == el[a]
           X == Powers(x)[N]
           F == Value(f, d, x)
<1>4. d \in Nat /\ d + 1 = N
  BY <1>1
<1>5. Vec(f, 0 .. d + 1) /\ f[0] = One
  <2>1. \A k \in 0 .. N : f[k] = el[-(k * a)]
    BY DEF Inverses
  <2>2. \A k \in 0 .. N : f[k] \in Scalar
    BY <1>1, <1>2, <2>1
  <2>3. 0 \in 0 .. N /\ -(0 * a) = 0
    BY <1>1
  <2>4. f[0] = One
    BY <1>1, <2>1, <2>3
  <2> QED BY <1>4, <2>2, <2>4 DEF Vec
<1>6. f[N] = One
  <2>1. -(N * a) = N * (-a) /\ -a \in Int
    BY <1>1
  <2>2. el[-(N * a)] = One
    BY <2>1, RootOfMultiple
  <2>3. N \in 0 .. N
    BY <1>1
  <2> QED BY <2>2, <2>3 DEF Inverses
<1>7. Shifted(s, f, 0 .. d)
  BY DEF Shifted
<1>8. ScaledBy(s, f, c, 0 .. d)
  <2> SUFFICES ASSUME NEW k \in 0 .. d
               PROVE  s[k] = Mul(f[k], c)
    BY DEF ScaledBy
  <2>1. k \in 0 .. N /\ k + 1 \in 0 .. N /\ s[k] = f[k + 1] /\ -a \in Int /\ k \in 0 .. N - 1
    BY <1>1
  <2>2. f[k + 1] = el[-((k + 1) * a)] /\ f[k] = el[-(k * a)]
    BY <2>1 DEF Inverses
  <2>3. f[k + 1] = el[-(k * a) + (-a)]
    BY <1>3, <2>1, <2>2
  <2> QED BY <1>1, <1>2, <2>1, <2>2, <2>3
<1>9. /\ e \in Scalar /\ c \in Scalar /\ Mul(e, c) = One /\ X \in Scalar
      /\ IsFiniteSet(0 .. d)
  <2>1. -a \in Int
    BY <1>1
  <2>2. e \in Scalar /\ c \in Scalar
    BY <1>1, <2>1
  <2>3. Mul(e, c) = One
    BY RootInverse
  <2>4. X \in Scalar
    BY <1>1, PowersType
  <2> QED BY <1>4, <2>2, <2>3, <2>4, IntervalFinite
<1> HIDE DEF s, c, e, X
<1>10. Value(f, d + 1, x) = Add(Mul(f[d + 1], Powers(x)[d + 1]), F) /\ Vec(f, 0 .. d)
  <2> HIDE DEF d
  <2> QED BY <1>4, <1>5, ValueHigh
<1>11. Value(f, d + 1, x) = Add(f[0], Mul(Value(s, d, x), x))
  <2> HIDE DEF d
  <2> QED BY <1>4, <1>5, <1>7, ValueLow
<1>12. F \in Scalar /\ Vec(Powers(x), 0 .. d)
  <2> HIDE DEF d
  <2> QED BY <1>4, <1>10, ValueType
<1>13. Value(s, d, x) = Mul(F, c)
  <2> HIDE DEF d
  <2> QED BY <1>8, <1>9, <1>10, <1>12, DotTimes DEF Value
<1> HIDE DEF F
<1>14. Add(X, F) = Add(One, Mul(Mul(F, c), x))
  <2>1. Mul(f[d + 1], Powers(x)[d + 1]) = X
    BY <1>4, <1>6, <1>9, MulOne DEF X
  <2> QED BY <1>5, <1>10, <1>11, <1>13, <2>1
<1>15. Mul(e, Mul(Mul(F, c), x)) = Mul(F, x)
  <2>1. Mul(e, Mul(Mul(F, c), x)) = Mul(Mul(Mul(e, c), F), x)
    BY <1>9, <1>12, ScalarClosed, ScalarLaws
  <2> QED BY <1>9, <1>12, <2>1, MulOne
<1>16. Add(Mul(e, X), Mul(F, e)) = Add(e, Mul(F, x))
  <2>1. Mul(e, Add(X, F)) = Add(Mul(e, X), Mul(e, F))
    BY <1>9, <1>12, MulAdd
  <2>2. Mul(Mul(F, c), x) \in Scalar /\ Mul(e, One) = e /\ Mul(e, F) = Mul(F, e)
    BY <1>9, <1>12, ScalarClosed, ScalarLaws
  <2>3. Mul(e, Add(One, Mul(Mul(F, c), x))) = Add(Mul(e, One), Mul(e, Mul(Mul(F, c), x)))
    BY <1>9, <2>2, MulAdd, ScalarClosed
  <2> QED BY <1>14, <1>15, <2>1, <2>2, <2>3
<1>17. Mul(F, Sub(x, e)) = Mul(e, Sub(X, One))
  <2> DEFINE p == Mul(e, X)
             q == Mul(F, e)
             r == Mul(F, x)
  <2>1. p \in Scalar /\ q \in Scalar /\ r \in Scalar /\ Add(p, q) = Add(e, r)
    BY <1>9, <1>12, <1>16, ScalarClosed
  <2>2. Mul(F, Sub(x, e)) = Sub(r, q)
    <3>1. Mul(Sub(x, e), F) = Sub(Mul(x, F), Mul(e, F))
      BY <1>9, <1>12, MulSub
    <3> QED BY <1>9, <1>12, <3>1, SubClosed, ScalarLaws
  <2>3. Mul(e, Sub(X, One)) = Sub(p, e)
    <3>1. Mul(Sub(X, One), e) = Sub(Mul(X, e), Mul(One, e)) /\ Mul(One, e) = e
      BY <1>9, MulSub, MulOne, ScalarClosed
    <3> QED BY <1>9, <3>1, SubClosed, ScalarLaws, ScalarClosed
  <2> HIDE DEF p, q, r
  <2>4. Sub(Add(p, q), Add(e, q)) = Add(Sub(p, e), Sub(q, q))
    BY <1>9, <2>1, SubAdd
  <2>5. Sub(Add(r, e), Add(q, e)) = Add(Sub(r, q), Sub(e, e))
    BY <1>9, <2>1, SubAdd
  <2>6. /\ Sub(q, q) = Zero /\ Sub(e, e) = Zero /\ Sub(p, e) \in Scalar /\ Sub(r, q) \in Scalar
        /\ Add(e, q) = Add(q, e) /\ Add(r, e) = Add(p, q)
    BY <1>9, <2>1, SubSelf, SubClosed, ScalarLaws
  <2> QED BY <2>2, <2>3, <2>4, <2>5, <2>6, AddZero
<1> QED BY <1>10, <1>17 DEF F, e, X
=============================================================================
