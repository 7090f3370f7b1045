----------------------------- MODULE FoldLemmas ------------------------------
(***************************************************************************)
(* What the proofs about folds and recursive functions rest on: induction  *)
(* over the naturals and over finite sets, that a function defined by      *)
(* recursion exists, and that a fold over a finite set does not depend on  *)
(* the order. An operation is a function of two arguments here, so that    *)
(* one lemma serves sums, products and integer sums alike.                 *)
(***************************************************************************)
EXTENDS Integers, Functions, FiniteSetTheorems, WellFoundedInduction, TLAPS

(* A set of naturals has a least element.                                   *)
LEMMA Least ==
  ASSUME NEW T \in SUBSET Nat, T # {}
  PROVE  \E k \in T : \A q \in T : k <= q
<1> DEFINE R == { ss \in Nat \X Nat : ss[1] < ss[2] }
<1>1. IsWellFoundedOn(R, Nat)
  BY NatLessThanWellFounded DEF OpToRel
<1>2. PICK k \in T : \A q \in T : ~(<<q, k>> \in R)
  <2> HIDE DEF R
  <2> QED BY <1>1, WFMin
<1>3. \A q \in T : q < k => <<q, k>> \in R
  OBVIOUS
<1>4. \A q \in T : ~(q < k) /\ q \in Nat /\ k \in Nat
  BY <1>2, <1>3
<1> HIDE DEF R
<1> QED
  BY <1>4

(* Induction: a set with 0 and with every successor has every natural.      *)
LEMMA Induction ==
  ASSUME NEW T, 0 \in T, \A k \in Nat : k \in T => k + 1 \in T
  PROVE  \A k \in Nat : k \in T
<1> DEFINE U == { k \in Nat : k \notin T }
<1> SUFFICES ASSUME U # {} PROVE FALSE
  OBVIOUS
<1>1. PICK k \in U : \A q \in U : k <= q
  BY Least
<1>2. k # 0 /\ k - 1 \in Nat /\ k - 1 \in T
  BY <1>1
<1> QED
  BY <1>1, <1>2

(* Induction over finite sets: a family with the empty set, and with every  *)
(* subset of S that is in it once one of its elements is left out, has S.   *)
LEMMA SetInduction ==
  ASSUME NEW S, IsFiniteSet(S), NEW F, {} \in F,
         \A A \in SUBSET S : A # {} /\ (\A e \in A : A \ {e} \in F) => A \in F
  PROVE  S \in F
<1> DEFINE T == { k \in Nat : \A A \in SUBSET S : Cardinality(A) = k => A \in F }
<1>1. 0 \in T
  <2> SUFFICES ASSUME NEW A \in SUBSET S, Cardinality(A) = 0 PROVE A \in F
    OBVIOUS
  <2> QED BY FS_Subset, FS_EmptySet
<1>2. ASSUME NEW k \in Nat, k \in T PROVE k + 1 \in T
  <2> SUFFICES ASSUME NEW A \in SUBSET S, Cardinality(A) = k + 1 PROVE A \in F
    OBVIOUS
  <2>1. IsFiniteSet(A) /\ A # {}
    BY FS_Subset, FS_EmptySet
  <2>2. \A e \in A : Cardinality(A \ {e}) = k
    <3> TAKE e \in A
    <3>1. Cardinality(A \ {e}) = Cardinality(A) - 1
      BY <2>1, FS_RemoveElement
    <3> QED BY <3>1
  <2>3. \A e \in A : A \ {e} \in F
    BY <1>2, <2>2
  <2> QED BY <2>1, <2>3
<1>3. \A k \in Nat : k \in T
  <2> HIDE DEF T
  <2> QED BY <1>1, <1>2, Induction
<1>4. Cardinality(S) \in Nat
  BY FS_CardinalityType
<1> QED BY <1>3, <1>4

-----------------------------------------------------------------------------
(* Each value of g is computed from the one before.                         *)
NatRecursive(g, base, step) == g[0] = base /\ \A k \in Nat : g[k + 1] = step[k][g[k]]

(* A function of the naturals defined by recursion exists.                  *)
LEMMA NatRecursion ==
  ASSUME NEW X, NEW base \in X, NEW step \in [Nat -> [X -> X]]
  PROVE  \E g \in [Nat -> X] : NatRecursive(g, base, step)
<1> DEFINE Upto(g, m) == g[0] = base /\ \A k \in 0 .. m - 1 : g[k + 1] = step[k][g[k]]
           T == { m \in Nat : \E g \in [Nat -> X] : Upto(g, m) }
           G == [m \in Nat |-> CHOOSE g \in [Nat -> X] : Upto(g, m)]
<1>1. 0 \in T
  <2>1. [k \in Nat |-> base] \in [Nat -> X] /\ Upto([k \in Nat |-> base], 0)
    OBVIOUS
  <2> QED BY <2>1
<1>2. ASSUME NEW m \in Nat, m \in T PROVE m + 1 \in T
  <2>1. PICK g \in [Nat -> X] : Upto(g, m)
    BY <1>2
  <2> DEFINE h == [k \in Nat |-> IF k = m + 1 THEN step[m][g[m]] ELSE g[k]]
  <2>2. h \in [Nat -> X] /\ h[m + 1] = step[m][g[m]] /\ \A k \in 0 .. m : h[k] = g[k]
    OBVIOUS
  <2> HIDE DEF h
  <2>3. Upto(h, m + 1)
    <3>1. h[0] = base
      BY <2>1, <2>2
    <3>2. ASSUME NEW k \in 0 .. m PROVE h[k + 1] = step[k][h[k]]
      <4>1. CASE k = m
        BY <2>2, <4>1
      <4>2. CASE k # m
        BY <2>1, <2>2, <4>2
      <4> QED BY <4>1, <4>2
    <3> QED BY <3>1, <3>2
  <2> QED BY <2>2, <2>3
<1>3. \A m \in Nat : m \in T
  <2> HIDE DEF T
  <2> QED BY <1>1, <1>2, Induction
<1>4. \A m \in Nat : G[m] \in [Nat -> X] /\ Upto(G[m], m)
  <2> TAKE m \in Nat
  <2>1. \E g \in [Nat -> X] : Upto(g, m)
    BY <1>3
  <2> HIDE DEF Upto
  <2> QED BY <2>1
<1> HIDE DEF G, T
<1> DEFINE U == { k \in Nat : \A m \in Nat : k <= m => G[m][k] = G[k][k] }
<1>5. 0 \in U
  BY <1>4
<1>6. ASSUME NEW k \in Nat, k \in U PROVE k + 1 \in U
  <2> SUFFICES ASSUME NEW m \in Nat, k + 1 <= m PROVE G[m][k + 1] = G[k + 1][k + 1]
    OBVIOUS
  <2>1. G[m][k + 1] = step[k][G[m][k]] /\ G[k + 1][k + 1] = step[k][G[k + 1][k]]
    BY <1>4
  <2>2. G[m][k] = G[k][k] /\ G[k + 1][k] = G[k][k]
    BY <1>6
  <2> QED BY <2>1, <2>2
<1>7. \A k \in Nat : k \in U
  <2> HIDE DEF U
  <2> QED BY <1>5, <1>6, Induction
<1> DEFINE h == [k \in Nat |-> G[k][k]]
<1>8. h \in [Nat -> X] /\ h[0] = base
  BY <1>4
<1>9. \A k \in Nat : h[k + 1] = step[k][h[k]]
  <2> TAKE k \in Nat
  <2>1. h[k + 1] = step[k][G[k + 1][k]]
    BY <1>4
  <2>2. G[k + 1][k] = G[k][k]
    BY <1>7
  <2> QED BY <2>1, <2>2
<1> QED BY <1>8, <1>9 DEF NatRecursive

(* A function of the subsets of S, each value computed from that of the     *)
(* subset without a chosen element.                                         *)
SetRecursive(g, S, base, step) ==
  g = [s \in SUBSET S |-> IF s = {} THEN base ELSE step[s][g[s \ {CHOOSE e \in s : TRUE}]]]

(* It exists when S is finite.                                              *)
LEMMA SetRecursion ==
  ASSUME NEW S, IsFiniteSet(S), NEW X, NEW base \in X, NEW step \in [SUBSET S -> [X -> X]]
  PROVE  \E g \in [SUBSET S -> X] : SetRecursive(g, S, base, step)
<1> DEFINE c(s) == CHOOSE e \in s : TRUE
           next(v) == [s \in SUBSET S |-> IF s = {} THEN base ELSE step[s][v[s \ {c(s)}]]]
           Y == [SUBSET S -> X]
           start == [s \in SUBSET S |-> base]
           grow == [k \in Nat |-> [v \in Y |-> next(v)]]
<1>1. \A s \in SUBSET S : s # {} => c(s) \in s /\ s \ {c(s)} \in SUBSET S
  OBVIOUS
<1> HIDE DEF c
<1>2. \A v \in Y : next(v) \in Y
  BY <1>1
<1>3. grow \in [Nat -> [Y -> Y]] /\ start \in Y
  BY <1>2
<1>4. \A k \in Nat, v \in Y : grow[k][v] = next(v)
  OBVIOUS
<1>5. PICK h \in [Nat -> Y] : h[0] = start /\ \A k \in Nat : h[k + 1] = grow[k][h[k]]
  <2> HIDE DEF grow, next, Y, start
  <2>1. PICK h \in [Nat -> Y] : NatRecursive(h, start, grow)
    BY <1>3, NatRecursion
  <2> QED BY <2>1 DEF NatRecursive
<1> DEFINE g == [s \in SUBSET S |-> h[Cardinality(s)][s]]
<1>6. \A s \in SUBSET S : IsFiniteSet(s) /\ Cardinality(s) \in Nat
  BY FS_Subset, FS_CardinalityType
<1>7. g \in [SUBSET S -> X]
  BY <1>6
<1>8. ASSUME NEW s \in SUBSET S
      PROVE  g[s] = IF s = {} THEN base ELSE step[s][g[s \ {c(s)}]]
  <2>1. CASE s = {}
    BY <2>1, <1>5, FS_EmptySet
  <2>2. CASE s # {}
    <3>1. s \ {c(s)} \in SUBSET S /\ c(s) \in s
      BY <1>1, <2>2
    <3>2. Cardinality(s \ {c(s)}) = Cardinality(s) - 1
      BY <1>6, <3>1, FS_RemoveElement
    <3>3. PICK k \in Nat : k = Cardinality(s) - 1
      BY <1>6, <3>1, <3>2
    <3>4. g[s \ {c(s)}] = h[k][s \ {c(s)}]
      BY <3>1, <3>2, <3>3
    <3>5. g[s] = h[k + 1][s]
      BY <3>3, <1>6
    <3>6. h[k + 1] = next(h[k])
      <4>1. h[k] \in Y
        OBVIOUS
      <4> HIDE DEF grow, next, Y
      <4> QED BY <1>4, <1>5, <4>1
    <3> HIDE DEF g
    <3> QED BY <2>2, <3>4, <3>5, <3>6
  <2> QED BY <2>1, <2>2
<1> HIDE DEF g
<1>9. g = [s \in SUBSET S |-> IF s = {} THEN base ELSE step[s][g[s \ {c(s)}]]]
  BY <1>7, <1>8
<1> QED BY <1>7, <1>9 DEF c, SetRecursive
-----------------------------------------------------------------------------
(* An operation on E, in which the order of the operands does not matter.   *)
CommutativeMonoid(E, op, unit) ==
  /\ unit \in E
  /\ op \in [E -> [E -> E]]
  /\ \A a \in E : op[a][unit] = a
  /\ \A a, b \in E : op[a][b] = op[b][a]
  /\ \A a, b, c \in E : op[op[a][b]][c] = op[a][op[b][c]]

(* The function that MapThenFoldSet computes by recursion.                  *)
FoldsTo(g, S, op, unit, f) ==
  g = [s \in SUBSET S |-> IF s = {} THEN unit
         ELSE op[f[CHOOSE e \in s : TRUE]][g[s \ {CHOOSE e \in s : TRUE}]]]

Fold(op, unit, f) == (CHOOSE g : FoldsTo(g, DOMAIN f, op, unit, f))[DOMAIN f]

LEMMA FoldExists ==
  ASSUME NEW S, IsFiniteSet(S), NEW E, NEW op, NEW unit, NEW f \in [S -> E],
         CommutativeMonoid(E, op, unit)
  PROVE  \E g \in [SUBSET S -> E] : FoldsTo(g, S, op, unit, f)
<1> DEFINE c(s) == CHOOSE e \in s : TRUE
           step == [s \in SUBSET S |-> [v \in E |-> IF s = {} THEN unit ELSE op[f[c(s)]][v]]]
<1>1. \A s \in SUBSET S : s # {} => c(s) \in s
  OBVIOUS
<1> HIDE DEF c
<1>2. step \in [SUBSET S -> [E -> E]] /\ unit \in E
  <2>1. \A a, v \in E : op[a][v] \in E
    BY DEF CommutativeMonoid
  <2>2. \A s \in SUBSET S : s # {} => f[c(s)] \in E
    BY <1>1
  <2>3. \A s \in SUBSET S, v \in E : (IF s = {} THEN unit ELSE op[f[c(s)]][v]) \in E
    BY <2>1, <2>2 DEF CommutativeMonoid
  <2> QED BY <2>3 DEF CommutativeMonoid
<1> HIDE DEF step
<1>3. PICK g \in [SUBSET S -> E] : SetRecursive(g, S, unit, step)
  BY <1>2, SetRecursion
<1>4. g = [s \in SUBSET S |-> IF s = {} THEN unit ELSE step[s][g[s \ {c(s)}]]]
  BY <1>3 DEF SetRecursive, c
<1>5. \A s \in SUBSET S : s # {} => step[s][g[s \ {c(s)}]] = op[f[c(s)]][g[s \ {c(s)}]]
  <2> TAKE s \in SUBSET S
  <2>1. g[s \ {c(s)}] \in E
    OBVIOUS
  <2> QED BY <2>1 DEF step
<1>6. g = [s \in SUBSET S |-> IF s = {} THEN unit ELSE op[f[c(s)]][g[s \ {c(s)}]]]
  BY <1>4, <1>5
<1> QED BY <1>6 DEF FoldsTo, c

(* Two folds agree where the functions agree.                               *)
LEMMA FoldUnique ==
  ASSUME NEW S, NEW R, NEW op, NEW unit, NEW f, NEW h, NEW g, NEW q,
         FoldsTo(g, S, op, unit, f), FoldsTo(q, R, op, unit, h),
         NEW T, IsFiniteSet(T), T \subseteq S, T \subseteq R, \A e \in T : f[e] = h[e]
  PROVE  g[T] = q[T]
<1> DEFINE c(s) == CHOOSE e \in s : TRUE
           F == { s \in SUBSET T : g[s] = q[s] }
<1>1. \A s \in SUBSET T : s # {} => c(s) \in s
  OBVIOUS
<1>2. /\ \A s \in SUBSET T : g[s] = IF s = {} THEN unit ELSE op[f[c(s)]][g[s \ {c(s)}]]
      /\ \A s \in SUBSET T : q[s] = IF s = {} THEN unit ELSE op[h[c(s)]][q[s \ {c(s)}]]
  BY DEF FoldsTo
<1> HIDE DEF c
<1>3. {} \in F
  BY <1>2
<1>4. ASSUME NEW s \in SUBSET T, s # {}, \A e \in s : s \ {e} \in F
      PROVE  s \in F
  <2>1. c(s) \in s /\ c(s) \in T /\ s \ {c(s)} \in F
    BY <1>1, <1>4
  <2> QED BY <1>2, <1>4, <2>1
<1>5. T \in F
  <2> HIDE DEF F
  <2> QED BY <1>3, <1>4, SetInduction
<1> QED BY <1>5

(* Any element of the set may come first.                                   *)
LEMMA FoldAny ==
  ASSUME NEW S, IsFiniteSet(S), NEW E, NEW op, NEW unit, NEW f \in [S -> E],
         CommutativeMonoid(E, op, unit),
         NEW g \in [SUBSET S -> E], FoldsTo(g, S, op, unit, f)
  PROVE  \A T \in SUBSET S : \A e \in T : g[T] = op[f[e]][g[T \ {e}]]
<1> DEFINE c(s) == CHOOSE e \in s : TRUE
           F == { s \in SUBSET S : \A e \in s : g[s] = op[f[e]][g[s \ {e}]] }
<1>1. \A s \in SUBSET S : s # {} => c(s) \in s
  OBVIOUS
<1>2. \A s \in SUBSET S : s # {} => g[s] = op[f[c(s)]][g[s \ {c(s)}]]
  BY DEF FoldsTo
<1> HIDE DEF c
<1>3. ASSUME NEW s \in SUBSET S, s # {}, \A e \in s : s \ {e} \in F
      PROVE  s \in F
  <2> SUFFICES ASSUME NEW e \in s PROVE g[s] = op[f[e]][g[s \ {e}]]
    OBVIOUS
  <2>1. c(s) \in s /\ g[s] = op[f[c(s)]][g[s \ {c(s)}]]
    BY <1>1, <1>2
  <2>2. ASSUME e # c(s) PROVE g[s] = op[f[e]][g[s \ {e}]]
    <3> DEFINE r == (s \ {e}) \ {c(s)}
    <3>1. s \ {c(s)} \in F /\ s \ {e} \in F /\ e \in s \ {c(s)} /\ c(s) \in s \ {e}
      BY <1>3, <2>1, <2>2
    <3>2. (s \ {c(s)}) \ {e} = r
      OBVIOUS
    <3>3. g[s \ {c(s)}] = op[f[e]][g[r]]
      BY <3>1, <3>2
    <3>4. g[s \ {e}] = op[f[c(s)]][g[r]]
      BY <3>1
    <3>5. r \in SUBSET S /\ f[e] \in E /\ f[c(s)] \in E
      BY <2>1
    <3>6. g[r] \in E
      BY <3>5
    <3> HIDE DEF r, F
    <3>7. op[f[c(s)]][op[f[e]][g[r]]] = op[op[f[c(s)]][f[e]]][g[r]]
      BY <3>5, <3>6 DEF CommutativeMonoid
    <3>8. op[op[f[e]][f[c(s)]]][g[r]] = op[f[e]][op[f[c(s)]][g[r]]]
      BY <3>5, <3>6 DEF CommutativeMonoid
    <3>9. op[f[c(s)]][f[e]] = op[f[e]][f[c(s)]]
      BY <3>5 DEF CommutativeMonoid
    <3> QED BY <2>1, <3>3, <3>4, <3>7, <3>8, <3>9
  <2> QED BY <2>1, <2>2
<1>4. \A T \in SUBSET S : T \in F
  <2> TAKE T \in SUBSET S
  <2>1. IsFiniteSet(T) /\ {} \in F
    BY FS_Subset
  <2>2. \A s \in SUBSET T : s # {} /\ (\A e \in s : s \ {e} \in F) => s \in F
    BY <1>3
  <2> HIDE DEF F
  <2> QED BY <2>1, <2>2, SetInduction
<1> QED BY <1>4
-----------------------------------------------------------------------------
(* The fold over a part T of the domain of f.                               *)
Part(op, unit, f, T) == Fold(op, unit, [k \in T |-> f[k]])

LEMMA PartOfAll ==
  ASSUME NEW S, NEW op, NEW unit, NEW f, f = [k \in S |-> f[k]]
  PROVE  Part(op, unit, f, S) = Fold(op, unit, f)
  BY DEF Part

(* Over nothing it is the unit, and any element may be split off.           *)
PartSplits(E, op, unit, f, S) ==
  /\ Part(op, unit, f, {}) = unit
  /\ \A T \in SUBSET S :
       /\ Part(op, unit, f, T) \in E
       /\ \A e \in T : Part(op, unit, f, T) = op[f[e]][Part(op, unit, f, T \ {e})]

LEMMA PartLaws ==
  ASSUME NEW S, IsFiniteSet(S), NEW E, NEW op, NEW unit, NEW f,
         \A k \in S : f[k] \in E, CommutativeMonoid(E, op, unit)
  PROVE  PartSplits(E, op, unit, f, S)
<1> DEFINE r == [k \in S |-> f[k]]
<1>1. r \in [S -> E] /\ \A k \in S : r[k] = f[k]
  OBVIOUS
<1> HIDE DEF r
<1>2. PICK g \in [SUBSET S -> E] : FoldsTo(g, S, op, unit, r)
  BY <1>1, FoldExists
<1>3. ASSUME NEW T \in SUBSET S PROVE Part(op, unit, f, T) = g[T]
  <2> DEFINE h == [k \in T |-> f[k]]
  <2>1. h \in [T -> E] /\ DOMAIN h = T /\ \A k \in T : h[k] = f[k]
    OBVIOUS
  <2>2. IsFiniteSet(T)
    BY FS_Subset
  <2> HIDE DEF h
  <2>3. \E q : FoldsTo(q, T, op, unit, h)
    BY <2>1, <2>2, FoldExists
  <2> DEFINE q == CHOOSE v : FoldsTo(v, T, op, unit, h)
  <2>4. FoldsTo(q, T, op, unit, h)
    BY <2>3
  <2> HIDE DEF q
  <2>5. q[T] = g[T]
    <3>1. \A e \in T : h[e] = r[e]
      BY <1>1, <2>1
    <3> QED BY <3>1, <1>2, <2>2, <2>4, FoldUnique
  <2> QED BY <2>1, <2>5 DEF Part, Fold, h, q
<1>4. g[{}] = unit
  BY <1>2 DEF FoldsTo
<1>5. \A T \in SUBSET S : \A e \in T : g[T] = op[f[e]][g[T \ {e}]]
  <2>1. \A T \in SUBSET S : \A e \in T : g[T] = op[r[e]][g[T \ {e}]]
    <3> SUFFICES ASSUME NEW T \in SUBSET S, NEW e \in T PROVE g[T] = op[r[e]][g[T \ {e}]]
      OBVIOUS
    <3> QED BY <1>1, <1>2, FoldAny
  <2> QED BY <1>1, <2>1
<1> QED BY <1>3, <1>4, <1>5 DEF PartSplits

(* Folding element by element results.                                      *)
LEMMA FoldOp ==
  ASSUME NEW S, IsFiniteSet(S), NEW E, NEW op, NEW unit, CommutativeMonoid(E, op, unit),
         NEW f \in [S -> E], NEW g \in [S -> E], NEW h \in [S -> E],
         \A k \in S : h[k] = op[f[k]][g[k]]
  PROVE  Fold(op, unit, h) = op[Fold(op, unit, f)][Fold(op, unit, g)]
<1> DEFINE P(v, T) == Part(op, unit, v, T)
           F == { T \in SUBSET S : P(h, T) = op[P(f, T)][P(g, T)] }
<1>1. /\ P(f, {}) = unit /\ P(g, {}) = unit /\ P(h, {}) = unit
      /\ \A T \in SUBSET S :
           /\ P(f, T) \in E /\ P(g, T) \in E /\ P(h, T) \in E
           /\ \A e \in T : /\ P(f, T) = op[f[e]][P(f, T \ {e})]
                           /\ P(g, T) = op[g[e]][P(g, T \ {e})]
                           /\ P(h, T) = op[h[e]][P(h, T \ {e})]
  <2>1. \A v \in [S -> E] : PartSplits(E, op, unit, v, S)
    BY PartLaws
  <2> QED BY <2>1 DEF PartSplits
<1> HIDE DEF P
<1>2. {} \in F
  BY <1>1 DEF CommutativeMonoid
<1>3. ASSUME NEW T \in SUBSET S, T # {}, \A e \in T : T \ {e} \in F
      PROVE  T \in F
  <2>1. PICK e \in T : TRUE
    BY <1>3
  <2> DEFINE R == T \ {e}
             a == f[e]
             b == g[e]
             p == P(f, R)
             q == P(g, R)
  <2>2. P(h, T) = op[op[a][b]][op[p][q]]
    BY <1>1, <1>3
  <2>3. a \in E /\ b \in E /\ p \in E /\ q \in E
    BY <1>1
  <2>4. P(f, T) = op[a][p] /\ P(g, T) = op[b][q]
    BY <1>1
  <2> HIDE DEF a, b, p, q
  <2>5. op[op[a][b]][op[p][q]] = op[op[a][p]][op[b][q]]
    <3> USE DEF CommutativeMonoid
    <3>1. op[p][q] \in E /\ op[b][q] \in E /\ op[a][b] \in E /\ op[a][p] \in E
      BY <2>3
    <3>2. op[op[a][b]][op[p][q]] = op[a][op[b][op[p][q]]]
      BY <2>3, <3>1
    <3>3. op[b][op[p][q]] = op[op[b][p]][q]
      BY <2>3
    <3>4. op[op[b][p]][q] = op[p][op[b][q]]
      BY <2>3
    <3>5. op[a][op[p][op[b][q]]] = op[op[a][p]][op[b][q]]
      BY <2>3, <3>1
    <3> QED BY <3>2, <3>3, <3>4, <3>5
  <2> QED BY <2>2, <2>4, <2>5
<1>4. S \in F
  <2> HIDE DEF F
  <2> QED BY <1>2, <1>3, SetInduction
<1>5. \A v \in [S -> E] : P(v, S) = Fold(op, unit, v)
  <2> TAKE v \in [S -> E]
  <2>1. v = [k \in S |-> v[k]]
    OBVIOUS
  <2> QED BY <2>1, PartOfAll DEF P
<1> QED BY <1>4, <1>5

(* Elements that map to the unit do not count.                              *)
LEMMA FoldSubset ==
  ASSUME NEW S, IsFiniteSet(S), NEW E, NEW op, NEW unit, CommutativeMonoid(E, op, unit),
         NEW f \in [S -> E], NEW T \in SUBSET S, \A k \in S \ T : f[k] = unit
  PROVE  Fold(op, unit, f) = Part(op, unit, f, T)
<1> DEFINE P(A) == Part(op, unit, f, A)
           F == { A \in SUBSET (S \ T) : P(T \cup A) = P(T) }
<1>1. \A A \in SUBSET S : P(A) \in E /\ \A e \in A : P(A) = op[f[e]][P(A \ {e})]
  <2>1. PartSplits(E, op, unit, f, S)
    BY PartLaws
  <2> QED BY <2>1 DEF PartSplits
<1> HIDE DEF P
<1>2. {} \in F
  <2>1. T \cup {} = T
    OBVIOUS
  <2> QED BY <2>1
<1>3. ASSUME NEW A \in SUBSET (S \ T), A # {}, \A e \in A : A \ {e} \in F
      PROVE  A \in F
  <2>1. PICK e \in A : TRUE
    BY <1>3
  <2>2. P(T \cup A) = op[f[e]][P((T \cup A) \ {e})]
    BY <1>1
  <2>3. (T \cup A) \ {e} = T \cup (A \ {e}) /\ f[e] = unit
    OBVIOUS
  <2>4. P(T \cup (A \ {e})) = P(T) /\ P(T) \in E
    BY <1>1, <1>3
  <2>5. op[unit][P(T)] = P(T)
    BY <2>4 DEF CommutativeMonoid
  <2> QED BY <2>2, <2>3, <2>4, <2>5
<1>4. S \ T \in F
  <2>1. IsFiniteSet(S \ T)
    BY FS_Difference
  <2> HIDE DEF F
  <2> QED BY <1>2, <1>3, <2>1, SetInduction
<1>5. T \cup (S \ T) = S
  OBVIOUS
<1> QED BY <1>4, <1>5, PartOfAll DEF P
(* A double fold may be taken in either order.                              *)
LEMMA FoldSwap ==
  ASSUME NEW S, IsFiniteSet(S), NEW R, IsFiniteSet(R),
         NEW E, NEW op, NEW unit, CommutativeMonoid(E, op, unit),
         NEW f \in [S -> [R -> E]]
  PROVE  Fold(op, unit, [a \in S |-> Fold(op, unit, f[a])])
           = Fold(op, unit, [b \in R |-> Fold(op, unit, [a \in S |-> f[a][b]])])
<1> DEFINE row == [a \in S |-> Fold(op, unit, f[a])]
           col(b) == [a \in S |-> f[a][b]]
           cols(A) == [b \in R |-> Part(op, unit, col(b), A)]
           F == { A \in SUBSET S : Part(op, unit, row, A) = Fold(op, unit, cols(A)) }
<1>1. ASSUME NEW v \in [R -> E] PROVE Fold(op, unit, v) \in E
  <2>1. PartSplits(E, op, unit, v, R)
    BY PartLaws
  <2>2. Part(op, unit, v, R) \in E
    BY <2>1 DEF PartSplits
  <2>3. v = [k \in R |-> v[k]]
    OBVIOUS
  <2> QED BY <2>2, <2>3, PartOfAll
<1>2. row \in [S -> E] /\ \A b \in R : col(b) \in [S -> E]
  BY <1>1
<1>3. PartSplits(E, op, unit, row, S)
  <2>1. \A k \in S : row[k] \in E
    BY <1>2
  <2> HIDE DEF row
  <2> QED BY <2>1, PartLaws
<1>4. ASSUME NEW b \in R PROVE PartSplits(E, op, unit, col(b), S)
  <2>1. \A k \in S : col(b)[k] \in E
    OBVIOUS
  <2> HIDE DEF col
  <2> QED BY <2>1, PartLaws
<1>5. \A A \in SUBSET S : cols(A) \in [R -> E]
  <2> HIDE DEF col
  <2> QED BY <1>4 DEF PartSplits
<1>6. {} \in F
  <2>1. \A b \in R : cols({})[b] = unit
    <3> HIDE DEF col
    <3> QED BY <1>4 DEF PartSplits
  <2>2. cols({}) \in [R -> E]
    BY <1>5
  <2> HIDE DEF cols
  <2>3. Fold(op, unit, cols({})) = Part(op, unit, cols({}), {})
    BY <2>1, <2>2, FoldSubset
  <2>4. PartSplits(E, op, unit, cols({}), R)
    BY <2>2, PartLaws
  <2> HIDE DEF row
  <2> QED BY <1>3, <2>3, <2>4 DEF PartSplits
<1>7. ASSUME NEW A \in SUBSET S, A # {}, \A e \in A : A \ {e} \in F
      PROVE  A \in F
  <2>1. PICK e \in A : TRUE
    BY <1>7
  <2> DEFINE B == A \ {e}
  <2>2. B \in SUBSET S /\ Part(op, unit, row, B) = Fold(op, unit, cols(B))
    BY <1>7
  <2>3. \A b \in R : cols(A)[b] = op[f[e][b]][cols(B)[b]]
    <3> TAKE b \in R
    <3>1. col(b)[e] = f[e][b]
      OBVIOUS
    <3> HIDE DEF col
    <3> QED BY <1>4, <2>2, <3>1 DEF PartSplits
  <2>4. cols(A) \in [R -> E] /\ cols(B) \in [R -> E] /\ f[e] \in [R -> E]
    BY <1>5, <2>2
  <2> HIDE DEF cols, B
  <2>5. Fold(op, unit, cols(A)) = op[Fold(op, unit, f[e])][Fold(op, unit, cols(B))]
    BY <2>3, <2>4, FoldOp
  <2>6. row[e] = Fold(op, unit, f[e])
    OBVIOUS
  <2> HIDE DEF row
  <2>7. Part(op, unit, row, A) = op[row[e]][Part(op, unit, row, B)]
    BY <1>3 DEF PartSplits, B
  <2> QED BY <2>2, <2>5, <2>6, <2>7
<1>8. S \in F
  <2> HIDE DEF F
  <2> QED BY <1>6, <1>7, SetInduction
<1>9. Part(op, unit, row, S) = Fold(op, unit, row)
  <2>1. row = [k \in S |-> row[k]]
    OBVIOUS
  <2> HIDE DEF row
  <2> QED BY <2>1, PartOfAll
<1>10. cols(S) = [b \in R |-> Fold(op, unit, col(b))]
  <2>1. \A b \in R : Part(op, unit, col(b), S) = Fold(op, unit, col(b))
    <3> TAKE b \in R
    <3>1. col(b) = [k \in S |-> col(b)[k]]
      OBVIOUS
    <3> HIDE DEF col
    <3> QED BY <3>1, PartOfAll
  <2> HIDE DEF col
  <2> QED BY <2>1
<1> QED BY <1>8, <1>9, <1>10

Bijective(h, S, R) ==
  /\ h \in [S -> R]
  /\ \A b \in R : \E a \in S : h[a] = b
  /\ \A a, b \in S : h[a] = h[b] => a = b

(* g is f, its domain R renamed to S by the bijection h.                    *)
Renames(g, f, h, S, R) == Bijective(h, S, R) /\ \A k \in S : g[k] = f[h[k]]

(* Renaming the elements does not matter.                                   *)
LEMMA FoldReindex ==
  ASSUME NEW S, IsFiniteSet(S), NEW R, NEW E, NEW op, NEW unit,
         CommutativeMonoid(E, op, unit),
         NEW f \in [R -> E], NEW g \in [S -> E], NEW h, Renames(g, f, h, S, R)
  PROVE  Fold(op, unit, g) = Fold(op, unit, f) /\ IsFiniteSet(R)
<1> USE DEF Renames, Bijective
<1> DEFINE Im(A) == { h[k] : k \in A }
           F == { A \in SUBSET S : Part(op, unit, g, A) = Part(op, unit, f, Im(A)) }
<1>1. Im(S) = R
  OBVIOUS
<1>2. IsFiniteSet(R)
  <2>1. h \in Surjection(S, R)
    BY DEF Surjection
  <2> QED BY <2>1, FS_Surjection
<1>3. PartSplits(E, op, unit, f, R) /\ PartSplits(E, op, unit, g, S)
  BY <1>2, PartLaws
<1>4. {} \in F
  <2>1. Im({}) = {}
    OBVIOUS
  <2> QED BY <1>3, <2>1 DEF PartSplits
<1>5. ASSUME NEW A \in SUBSET S, A # {}, \A e \in A : A \ {e} \in F
      PROVE  A \in F
  <2>1. PICK e \in A : TRUE
    BY <1>5
  <2>2. Im(A) \ {h[e]} = Im(A \ {e}) /\ h[e] \in Im(A) /\ Im(A) \in SUBSET R
    OBVIOUS
  <2>3. Part(op, unit, g, A \ {e}) = Part(op, unit, f, Im(A \ {e}))
    BY <1>5
  <2> HIDE DEF Im
  <2>4. Part(op, unit, g, A) = op[g[e]][Part(op, unit, g, A \ {e})]
    BY <1>3 DEF PartSplits
  <2>5. Part(op, unit, f, Im(A)) = op[f[h[e]]][Part(op, unit, f, Im(A) \ {h[e]})]
    BY <1>3, <2>2 DEF PartSplits
  <2> QED BY <2>2, <2>3, <2>4, <2>5
<1>6. S \in F
  <2> HIDE DEF F
  <2> QED BY <1>4, <1>5, SetInduction
<1>7. Part(op, unit, g, S) = Fold(op, unit, g) /\ Part(op, unit, f, R) = Fold(op, unit, f)
  BY PartOfAll
<1> QED BY <1>1, <1>2, <1>6, <1>7

LEMMA IntervalFinite == \A a, b \in Int : IsFiniteSet(a .. b)
  BY FS_Interval

-----------------------------------------------------------------------------
(* Division with remainder, for a divisor that is not a numeral.            *)
LEMMA DivMod ==
  ASSUME NEW m \in Nat \ {0}, NEW x \in Int
  PROVE  x % m \in 0 .. m - 1 /\ x \div m \in Int /\ x = m * (x \div m) + (x % m)
<1>1. x % m \in 0 .. m - 1
  OBVIOUS
<1>2. x \div m \in Int
  OBVIOUS
<1>3. x = m * (x \div m) + (x % m)
  OBVIOUS
<1> QED BY <1>1, <1>2, <1>3

LEMMA MultiplesApart ==
  ASSUME NEW m \in Nat \ {0}, NEW q \in Int, NEW p \in Int, q < p
  PROVE  m * q + m <= m * p
<1>1. m * (p - q - 1) >= 0
  OBVIOUS
<1>2. m * (p - q - 1) = m * p - m * q - m
  OBVIOUS
<1> QED BY <1>1, <1>2

LEMMA DivModUnique ==
  ASSUME NEW m \in Nat \ {0}, NEW x \in Int, NEW q \in Int, NEW r \in 0 .. m - 1, x = m * q + r
  PROVE  x % m = r /\ x \div m = q
<1> DEFINE p == x \div m
           s == x % m
<1>1. p \in Int /\ s \in 0 .. m - 1 /\ m * p + s = m * q + r
  BY DivMod
<1> HIDE DEF p, s
<1>2. m * p \in Int /\ m * q \in Int
  BY <1>1
<1>3. p = q
  <2>1. CASE p < q
    <3>1. m * p + m <= m * q
      BY <1>1, <2>1, MultiplesApart
    <3> QED BY <1>1, <1>2, <3>1
  <2>2. CASE q < p
    <3>1. m * q + m <= m * p
      BY <1>1, <2>2, MultiplesApart
    <3> QED BY <1>1, <1>2, <3>1
  <2> QED BY <2>1, <2>2, <1>1
<1>4. r = s
  BY <1>1, <1>2, <1>3
<1> QED BY <1>3, <1>4 DEF p, s
=============================================================================
