------------------------ MODULE SilentThresholdProofs -------------------------
(***************************************************************************)
(* Proofs about SilentThreshold, and about the algebra of Ste it rests on: *)
(* polynomials on the roots of unity, the two ways to a party's hints, and *)
(* the pairing equation of agg_dec.                                        *)
(***************************************************************************)
EXTENDS SilentThreshold, FieldLemmas

(* The roots of unity of the two domains.                                   *)
el == [k \in Int |-> Domain!element(k)]
topel == [k \in Int |-> Top!element(k)]

LEMMA Sizes ==
  /\ n \in Nat \ {0} /\ n >= 2 /\ 2 * n \in Nat \ {0} /\ l \in Nat \ {0}
  /\ IsFiniteSet(positions) /\ IsFiniteSet(chunks) /\ positions = 0 .. n - 1 /\ 0 \in chunks
BY SteAssumption, IntervalFinite DEF positions, chunks

LEMMA RootsOfDomain == Roots(el, n, n_inv)
<1>1. Domain!Pow = CHOOSE q : q = [k \in Nat |-> IF k = 0 THEN One
                                                 ELSE Mul(q[k - 1], Mul(top_gen, top_gen))]
  BY DEF Domain!Pow
<1>2. /\ Domain!Pow[n] = One
      /\ \A k \in 1 .. n - 1 : Domain!Pow[k] # One
      /\ Mul(Domain!Sum([k \in 1 .. n |-> One]), n_inv) = One
  BY SteAssumption DEF Domain!IsDomain
<1>3. Domain!Sum([k \in 1 .. n |-> One]) = Total([k \in 1 .. n |-> One])
  BY DEF Domain!Sum, Total, FoldFunction, FoldFunctionOnSet, MapThenFoldSet,
         Domain!FoldFunction, Domain!FoldFunctionOnSet, Domain!MapThenFoldSet
<1>4. el = [k \in Int |-> Domain!Pow[k % n]]
  BY DEF el, Domain!element
<1>5. Mul(top_gen, top_gen) \in Scalar /\ n_inv \in Scalar /\ n \in Nat \ {0}
  BY SteAssumption, Sizes, ScalarClosed
<1>6. DomainOf(el, Domain!Pow, Mul(top_gen, top_gen), n, n_inv)
  BY <1>1, <1>2, <1>3, <1>4 DEF DomainOf
<1> QED BY <1>5, <1>6, DomainRoots

LEMMA RootsOfTop == Roots(topel, 2 * n, top_inv)
<1>1. Top!Pow = CHOOSE q : q = [k \in Nat |-> IF k = 0 THEN One ELSE Mul(q[k - 1], top_gen)]
  BY DEF Top!Pow
<1>2. /\ Top!Pow[2 * n] = One
      /\ \A k \in 1 .. 2 * n - 1 : Top!Pow[k] # One
      /\ Mul(Top!Sum([k \in 1 .. 2 * n |-> One]), top_inv) = One
  BY SteAssumption DEF Top!IsDomain
<1>3. Top!Sum([k \in 1 .. 2 * n |-> One]) = Total([k \in 1 .. 2 * n |-> One])
  BY DEF Top!Sum, Total, FoldFunction, FoldFunctionOnSet, MapThenFoldSet,
         Top!FoldFunction, Top!FoldFunctionOnSet, Top!MapThenFoldSet
<1>4. topel = [k \in Int |-> Top!Pow[k % (2 * n)]]
  BY DEF topel, Top!element
<1>5. top_gen \in Scalar /\ top_inv \in Scalar /\ 2 * n \in Nat \ {0}
  BY SteAssumption, Sizes
<1>6. DomainOf(topel, Top!Pow, top_gen, 2 * n, top_inv)
  BY <1>1, <1>2, <1>3, <1>4 DEF DomainOf
<1> QED BY <1>5, <1>6, DomainRoots

LEMMA SteIsField == IsField
BY SteAssumption

(* The sums of the three modules are one.                                   *)
LEMMA SumIsTotal == \A f : Sum(f) = Total(f) /\ Domain!Sum(f) = Total(f) /\ Top!Sum(f) = Total(f)
<1> SUFFICES ASSUME NEW f
             PROVE  Sum(f) = Total(f) /\ Domain!Sum(f) = Total(f) /\ Top!Sum(f) = Total(f)
  OBVIOUS
<1>1. Sum(f) = Total(f)
  BY DEF Sum, Total
<1>2. Domain!Sum(f) = Total(f)
  BY DEF Domain!Sum, Total, FoldFunction, FoldFunctionOnSet, MapThenFoldSet,
         Domain!FoldFunction, Domain!FoldFunctionOnSet, Domain!MapThenFoldSet
<1>3. Top!Sum(f) = Total(f)
  BY DEF Top!Sum, Total, FoldFunction, FoldFunctionOnSet, MapThenFoldSet,
         Top!FoldFunction, Top!FoldFunctionOnSet, Top!MapThenFoldSet
<1> QED BY <1>1, <1>2, <1>3

(* The recursion of power.                                                  *)
LEMMA PowerIs ==
  ASSUME NEW a \in Scalar, NEW k \in Nat
  PROVE  power(a, k) = Powers(a)[k]
<1> DEFINE Rec(f) == f = [e \in 0 .. k |-> IF e = 0 THEN One ELSE Mul(f[e - 1], a)]
           f0 == CHOOSE f : Rec(f)
           g == [e \in 0 .. k |-> Powers(a)[e]]
<1>1. power(a, k) = f0[k]
  BY DEF power
<1>2. IsPowers(Powers(a), a)
  BY PowersExist
<1>3. Rec(g)
  <2>1. \A e \in 0 .. k : e # 0 => e - 1 \in Nat /\ e - 1 \in 0 .. k /\ (e - 1) + 1 = e
    OBVIOUS
  <2> QED BY <1>2, <2>1 DEF IsPowers
<1>4. Rec(f0)
  <2> HIDE DEF Rec, g
  <2> QED BY <1>3
<1>5. ArePowersOf(f0, a, k)
  <2> HIDE DEF f0
  <2>1. f0[0] = One
    BY <1>4
  <2>2. \A e \in 0 .. k - 1 : f0[e + 1] = Mul(f0[e], a)
    <3> TAKE e \in 0 .. k - 1
    <3>1. e + 1 \in 0 .. k /\ e + 1 # 0 /\ (e + 1) - 1 = e
      OBVIOUS
    <3> QED BY <1>4, <3>1
  <2> QED BY <2>1, <2>2 DEF ArePowersOf
<1> HIDE DEF f0
<1>6. \A e \in 0 .. k : f0[e] = Powers(a)[e]
  BY <1>5, PowersUnique
<1> QED BY <1>1, <1>6

(* The inner products of the code.                                          *)
LEMMA MsmIsDot ==
  ASSUME NEW bases, NEW scalars
  PROVE  msm(bases, scalars) = Dot(DOMAIN scalars, bases, scalars)
BY SumIsTotal DEF msm, Dot

LEMMA EvaluateIs ==
  ASSUME NEW f, NEW d \in Nat, DOMAIN f = 0 .. d, NEW a \in Scalar
  PROVE  evaluate(f, a) = Value(f, d, a)
<1>1. \A k \in 0 .. d : power(a, k) = Powers(a)[k]
  BY PowerIs
<1>2. [k \in DOMAIN f |-> Mul(f[k], power(a, k))] = [k \in 0 .. d |-> Mul(f[k], Powers(a)[k])]
  BY <1>1
<1> QED BY <1>2, SumIsTotal DEF evaluate, Value, Dot

LEMMA InverseIs ==
  ASSUME NEW a \in Scalar, a # Zero
  PROVE  inverse(a) \in Scalar /\ Mul(a, inverse(a)) = One
BY SteIsField DEF IsField, inverse

(* The transforms of arkworks are those of FieldLemmas.                     *)
LEMMA FftIs ==
  ASSUME NEW a, NEW u, Padded(u, a, n)
  PROVE  Dft(Domain!fft(a), u, el, n) /\ DOMAIN Domain!fft(a) = positions
<1> SUFFICES ASSUME NEW k \in 0 .. n - 1
             PROVE  Domain!fft(a)[k] = Dot(0 .. n - 1, u, Wave(el, n, k))
  BY DEF Dft, Domain!fft, Domain!Slots, positions
<1>1. Domain!fft(a)[k] = Total([m \in DOMAIN a |-> Mul(a[m], Domain!element(m * k))])
  BY SumIsTotal DEF Domain!fft, Domain!Slots
<1>2. \A m \in DOMAIN a : el[m * k] = Domain!element(m * k)
  <2>1. \A m \in DOMAIN a : m * k \in Int
    BY Sizes DEF Padded
  <2> QED BY <2>1 DEF el
<1>3. k \in Int
  BY Sizes
<1>4. Total([m \in DOMAIN a |-> Mul(a[m], el[m * k])]) = Dot(0 .. n - 1, u, Wave(el, n, k))
  BY <1>3, RootsOfDomain, PaddedDft
<1> QED BY <1>1, <1>2, <1>4

LEMMA TopFftIs ==
  ASSUME NEW a, NEW u, Padded(u, a, 2 * n)
  PROVE  Dft(Top!fft(a), u, topel, 2 * n) /\ DOMAIN Top!fft(a) = 0 .. 2 * n - 1
<1> SUFFICES ASSUME NEW k \in 0 .. 2 * n - 1
             PROVE  Top!fft(a)[k] = Dot(0 .. 2 * n - 1, u, Wave(topel, 2 * n, k))
  BY DEF Dft, Top!fft, Top!Slots
<1>1. Top!fft(a)[k] = Total([m \in DOMAIN a |-> Mul(a[m], Top!element(m * k))])
  BY SumIsTotal DEF Top!fft, Top!Slots
<1>2. \A m \in DOMAIN a : topel[m * k] = Top!element(m * k)
  <2>1. \A m \in DOMAIN a : m * k \in Int
    BY Sizes DEF Padded
  <2> QED BY <2>1 DEF topel
<1>3. k \in Int
  BY Sizes
<1>4. Total([m \in DOMAIN a |-> Mul(a[m], topel[m * k])])
        = Dot(0 .. 2 * n - 1, u, Wave(topel, 2 * n, k))
  BY <1>3, RootsOfTop, PaddedDft
<1> QED BY <1>1, <1>2, <1>4

LEMMA IfftIs ==
  ASSUME NEW a, DOMAIN a = positions, NEW k \in positions
  PROVE  Domain!ifft(a)[k] = Mul(n_inv, Dot(positions, a, Wave(el, n, -k)))
<1>1. Domain!ifft(a)[k]
        = Mul(n_inv, Total([m \in positions |-> Mul(a[m], Domain!element(-(m * k)))]))
  BY SumIsTotal DEF Domain!ifft, Domain!Slots, positions
<1>2. \A m \in positions : Wave(el, n, -k)[m] = Domain!element(-(m * k))
  <2>1. \A m \in positions : m * (-k) \in Int /\ m * (-k) = -(m * k)
    BY Sizes
  <2> QED BY <2>1 DEF Wave, el, positions
<1> QED BY <1>1, <1>2 DEF Dot

LEMMA TopIfftIs ==
  ASSUME NEW a, DOMAIN a = 0 .. 2 * n - 1, NEW k \in 0 .. 2 * n - 1
  PROVE  Top!ifft(a)[k] = Mul(top_inv, Dot(0 .. 2 * n - 1, a, Wave(topel, 2 * n, -k)))
<1>1. Top!ifft(a)[k]
        = Mul(top_inv, Total([m \in 0 .. 2 * n - 1 |-> Mul(a[m], Top!element(-(m * k)))]))
  BY SumIsTotal DEF Top!ifft, Top!Slots
<1>2. \A m \in 0 .. 2 * n - 1 : Wave(topel, 2 * n, -k)[m] = Top!element(-(m * k))
  <2>1. \A m \in 0 .. 2 * n - 1 : m * (-k) \in Int /\ m * (-k) = -(m * k)
    BY Sizes
  <2> QED BY <2>1 DEF Wave, topel
<1> QED BY <1>1, <1>2 DEF Dot

-----------------------------------------------------------------------------
(* Lagrange polynomials                                                     *)

(* The i-th polynomial is 1/n times the powers of the inverse of its root.  *)
LEMMA LagrangeIs ==
  ASSUME NEW i \in positions
  PROVE  /\ lagrange_poly(i) \in [positions -> Scalar]
         /\ \A k \in positions : lagrange_poly(i)[k] = Mul(n_inv, el[-(k * i)])
<1> DEFINE unit == [j \in positions |-> IF i = j THEN One ELSE Zero]
<1>1. /\ Vec(unit, positions) /\ AllZero(unit, positions \ {i}) /\ unit[i] = One
      /\ IsFiniteSet(positions) /\ DOMAIN unit = positions
  BY ScalarClosed, Sizes DEF Vec, AllZero
<1>2. lagrange_poly(i) = Domain!ifft(unit)
  BY DEF lagrange_poly
<1>3. DOMAIN Domain!ifft(unit) = positions
  BY DEF Domain!ifft, Domain!Slots, positions
<1>4. Domain!ifft(unit) = [k \in positions |-> Domain!ifft(unit)[k]]
  BY <1>3 DEF Domain!ifft
<1> HIDE DEF unit
<1>5. ASSUME NEW k \in positions
      PROVE  Domain!ifft(unit)[k] = Mul(n_inv, el[-(k * i)]) /\ Mul(n_inv, el[-(k * i)]) \in Scalar
  <2> DEFINE w == Wave(el, n, -k)
  <2>1. Domain!ifft(unit)[k] = Mul(n_inv, Dot(positions, unit, w))
    BY <1>1, IfftIs
  <2>2. -k \in Int /\ i * (-k) = -(k * i) /\ i \in 0 .. n - 1 /\ -(k * i) \in Int
    BY Sizes
  <2>3. Vec(w, positions)
    BY <2>2, RootsOfDomain, WaveType, Sizes
  <2>4. w[i] = el[-(k * i)]
    BY <2>2 DEF Wave
  <2> HIDE DEF w
  <2>5. Dot(positions, unit, w) = Mul(unit[i], w[i])
    BY <1>1, <2>3, DotSingle
  <2>6. el[-(k * i)] \in Scalar /\ n_inv \in Scalar
    BY <2>2, RootsOfDomain, RootsType
  <2> QED BY <1>1, <2>1, <2>4, <2>5, <2>6, MulOne, ScalarClosed
<1> QED BY <1>2, <1>4, <1>5

(* L_i(x)                                                                   *)
lag(i, x) == Value(lagrange_poly(i), n - 1, x)

LEMMA LagrangeType ==
  ASSUME NEW i \in positions, NEW x \in Scalar
  PROVE  /\ lag(i, x) \in Scalar /\ Vec(lagrange_poly(i), positions)
         /\ lagrange_poly(i)[0] = n_inv
         /\ evaluate(lagrange_poly(i), x) = lag(i, x)
<1>1. lagrange_poly(i) \in [positions -> Scalar] /\ positions = 0 .. n - 1 /\ n - 1 \in Nat
  BY LagrangeIs, Sizes
<1>2. Vec(lagrange_poly(i), positions)
  BY <1>1, VecFcn
<1>3. lag(i, x) \in Scalar
  BY <1>1, <1>2, ValueType DEF lag
<1>4. lagrange_poly(i)[0] = n_inv
  <2>1. 0 \in positions /\ -(0 * i) = 0
    BY Sizes
  <2>2. lagrange_poly(i)[0] = Mul(n_inv, el[0])
    BY <2>1, LagrangeIs
  <2>3. n_inv \in Scalar /\ el[0] = One
    BY RootsOfDomain, RootsType
  <2> QED BY <2>2, <2>3, MulOne
<1>5. evaluate(lagrange_poly(i), x) = lag(i, x)
  <2> DEFINE f == lagrange_poly(i)
             d == n - 1
  <2>1. DOMAIN f = 0 .. d /\ d \in Nat
    BY <1>1
  <2> HIDE DEF f, d
  <2>2. evaluate(f, x) = Value(f, d, x)
    BY <2>1, EvaluateIs
  <2> QED BY <2>2 DEF f, d, lag
<1> QED BY <1>2, <1>3, <1>4, <1>5

(* L_i(x) (x - w^i) = w^i (x^n - 1) / n                                     *)
LEMMA LagrangeAway ==
  ASSUME NEW i \in positions, NEW x \in Scalar
  PROVE  Mul(lag(i, x), Sub(x, el[i])) = Mul(n_inv, Mul(el[i], Sub(Powers(x)[n], One)))
<1> DEFINE f == [k \in 0 .. n |-> el[-(k * i)]]
           g == lagrange_poly(i)
           d == n - 1
           F == Value(f, d, x)
           e == el[i]
           Y == Sub(Powers(x)[n], One)
<1>1. i \in Int /\ d \in Nat /\ n \in Nat /\ 0 .. d = positions /\ IsFiniteSet(0 .. d)
  BY Sizes
<1>2. Inverses(f, el, n, i)
  BY DEF Inverses
<1>3. n_inv \in Scalar /\ e \in Scalar /\ Y \in Scalar
  <2>1. Powers(x)[n] \in Scalar
    BY <1>1, PowersType
  <2> QED BY <1>1, <2>1, RootsOfDomain, RootsType, SubClosed, ScalarClosed
<1>4. Vec(f, 0 .. n - 1) /\ Mul(F, Sub(x, e)) = Mul(e, Y)
  <2> HIDE DEF f
  <2> QED BY <1>1, <1>2, RootsOfDomain, GeometricSum
<1>5. ScaledBy(g, f, n_inv, 0 .. d)
  <2> SUFFICES ASSUME NEW k \in 0 .. d
               PROVE  g[k] = Mul(f[k], n_inv)
    BY DEF ScaledBy
  <2>1. k \in positions /\ k \in 0 .. n
    BY Sizes
  <2>2. g[k] = Mul(n_inv, el[-(k * i)]) /\ f[k] = el[-(k * i)]
    BY <2>1, LagrangeIs
  <2>3. f[k] \in Scalar
    BY <1>4 DEF Vec
  <2> QED BY <1>3, <2>2, <2>3, ScalarLaws
<1> HIDE DEF f, g, e, Y
<1>6. Vec(f, 0 .. d) /\ Vec(Powers(x), 0 .. d) /\ F \in Scalar
  <2>1. Vec(f, 0 .. d)
    BY <1>4
  <2> HIDE DEF d
  <2> QED BY <1>1, <2>1, ValueType
<1>7. lag(i, x) = Mul(F, n_inv)
  <2>1. Value(g, d, x) = Mul(F, n_inv)
    <3> HIDE DEF d
    <3> QED BY <1>1, <1>3, <1>5, <1>6, DotTimes DEF Value
  <2> QED BY <2>1 DEF lag, g
<1> HIDE DEF F
<1>8. Mul(Mul(F, n_inv), Sub(x, e)) = Mul(n_inv, Mul(F, Sub(x, e)))
  <2>1. Sub(x, e) \in Scalar
    BY <1>3, SubClosed
  <2> QED BY <1>3, <1>6, <2>1, ScalarClosed, ScalarLaws
<1> QED BY <1>4, <1>7, <1>8 DEF F, e, Y

(* One at the i-th root of unity and zero at the others.                    *)
LEMMA LagrangeAtRoot ==
  ASSUME NEW i \in positions, NEW j \in positions
  PROVE  lag(i, el[j]) = IF i = j THEN One ELSE Zero
<1> DEFINE g == lagrange_poly(i)
           d == j - i
           w == Wave(el, n, j)
           f == [k \in 0 .. n - 1 |-> el[d * k]]
           h == [k \in 0 .. n - 1 |-> Mul(g[k], w[k])]
<1>1. i \in Int /\ j \in Int /\ d \in Int /\ 0 .. n - 1 = positions /\ IsFiniteSet(0 .. n - 1)
      /\ \A k \in 0 .. n - 1 : -(k * i) \in Int /\ k * j \in Int /\ d * k \in Int
                               /\ -(k * i) + k * j = d * k
  BY Sizes
<1>2. /\ n_inv \in Scalar /\ \A a \in Int : el[a] \in Scalar
      /\ \A a, b \in Int : el[a + b] = Mul(el[a], el[b])
  BY RootsOfDomain, RootsType
<1>3. f \in [0 .. n - 1 -> Scalar]
  BY <1>1, <1>2
<1>4. \A k \in 0 .. n - 1 : h[k] = Mul(f[k], n_inv)
  <2> TAKE k \in 0 .. n - 1
  <2>1. g[k] = Mul(n_inv, el[-(k * i)]) /\ w[k] = el[k * j]
    BY <1>1, LagrangeIs DEF Wave
  <2>2. el[d * k] = Mul(el[-(k * i)], el[k * j])
    BY <1>1, <1>2
  <2>3. el[-(k * i)] \in Scalar /\ el[k * j] \in Scalar
    BY <1>1, <1>2
  <2> DEFINE A == el[-(k * i)]
             B == el[k * j]
  <2>4. A \in Scalar /\ B \in Scalar /\ h[k] = Mul(Mul(n_inv, A), B) /\ f[k] = Mul(A, B)
    BY <2>1, <2>2, <2>3
  <2> HIDE DEF A, B, f, h
  <2>5. Mul(Mul(n_inv, A), B) = Mul(n_inv, Mul(A, B)) /\ Mul(A, B) \in Scalar
    BY <1>2, <2>4, ScalarClosed, ScalarLaws
  <2> QED BY <1>2, <2>4, <2>5, ScalarLaws
<1>5. h \in [0 .. n - 1 -> Scalar] /\ ScaledBy(h, f, n_inv, 0 .. n - 1)
  BY <1>2, <1>3, <1>4, ScalarClosed DEF ScaledBy
<1>6. lag(i, el[j]) = Dot(0 .. n - 1, g, w)
  BY <1>1, RootsOfDomain, ValueAtRoot DEF lag
<1>7. Dot(0 .. n - 1, g, w) = Total(h)
  BY DEF Dot
<1>8. Total(h) = Mul(Total(f), n_inv)
  <2> HIDE DEF f, h
  <2> QED BY <1>1, <1>2, <1>3, <1>5, TotalTimes
<1>9. CASE i = j
  <2>1. f = Ones(n)
    <3>1. \A k \in 0 .. n - 1 : d * k = 0
      BY <1>9, Sizes
    <3>2. el[0] = One
      BY RootsOfDomain, RootsType
    <3> QED BY <3>1, <3>2 DEF Ones
  <2>2. Mul(Total(Ones(n)), n_inv) = One
    BY RootsOfDomain DEF Roots
  <2> QED BY <1>6, <1>7, <1>8, <1>9, <2>1, <2>2
<1>10. CASE i # j
  <2>1. el[d] # One
    <3>1. j \in 0 .. n - 1 /\ i \in 0 .. n - 1 /\ j # i
      BY <1>1, <1>10
    <3> QED BY <3>1, RootsOfDomain, RootsDiffer
  <2>2. Total(f) = Zero
    <3> HIDE DEF d
    <3> QED BY <1>1, <2>1, SteIsField, RootsOfDomain, RootSum
  <2> QED BY <1>2, <1>6, <1>7, <1>8, <1>10, <2>2, MulZero
<1> QED BY <1>9, <1>10

(* A polynomial of degree below n is the combination of the L_i with its    *)
(* values at the roots of unity as weights.                                 *)
LEMMA Interpolation ==
  ASSUME NEW b, Vec(b, positions), NEW y, Dft(y, b, el, n), NEW x \in Scalar,
         NEW q, q = [i \in positions |-> lag(i, x)]
  PROVE  Dot(positions, y, q) = Value(b, n - 1, x) /\ Vec(y, positions) /\ Vec(q, positions)
<1> DEFINE R == positions
           M == [i \in R |-> lagrange_poly(i)]
           P == Powers(x)
<1>1. IsFiniteSet(R) /\ R = 0 .. n - 1 /\ n \in Nat
  BY Sizes
<1>2. Matrix(M, R, R)
  BY LagrangeIs DEF Matrix
<1>3. Vec(y, R)
  BY <1>1, RootsOfDomain, DftType
<1>4. Vec(P, R)
  BY <1>1, PowersType DEF Vec
<1>5. FromRight(q, M, P, R, R)
  BY <1>1 DEF FromRight, lag, Value
<1>6. FromLeft(b, y, M, R, R)
  <2> SUFFICES ASSUME NEW k \in R
               PROVE  b[k] = Total([a \in R |-> Mul(y[a], M[a][k])])
    BY DEF FromLeft
  <2> DEFINE w == Wave(el, n, -k)
             f == [a \in R |-> Mul(y[a], w[a])]
             h == [a \in R |-> Mul(y[a], M[a][k])]
  <2>1. -k \in Int /\ k \in 0 .. n - 1
    BY Sizes
  <2>2. Mul(n_inv, Dot(0 .. n - 1, y, w)) = b[k]
    BY <1>1, <2>1, SteIsField, RootsOfDomain, DftInverse
  <2>3. Vec(w, R) /\ n_inv \in Scalar
    BY <1>1, <2>1, RootsOfDomain, WaveType, RootsType
  <2>4. \A a \in R : M[a][k] = Mul(n_inv, w[a])
    <3> TAKE a \in R
    <3>1. a \in Int /\ k \in Int /\ a * (-k) = -(k * a) /\ a \in 0 .. n - 1
      BY Sizes
    <3>2. M[a][k] = Mul(n_inv, el[-(k * a)])
      BY LagrangeIs
    <3> QED BY <3>1, <3>2 DEF Wave
  <2> HIDE DEF w, M, R
  <2>5. f \in [R -> Scalar] /\ h \in [R -> Scalar] /\ ScaledBy(h, f, n_inv, R)
    <3> SUFFICES ASSUME NEW a \in R
                 PROVE  f[a] \in Scalar /\ h[a] \in Scalar /\ h[a] = Mul(f[a], n_inv)
      BY DEF ScaledBy
    <3>1. y[a] \in Scalar /\ w[a] \in Scalar /\ h[a] = Mul(y[a], Mul(n_inv, w[a]))
      BY <1>3, <2>3, <2>4 DEF Vec
    <3>2. Mul(y[a], Mul(n_inv, w[a])) = Mul(Mul(y[a], w[a]), n_inv)
      <4> DEFINE Y == y[a]
                 W == w[a]
      <4> SUFFICES Mul(Y, Mul(n_inv, W)) = Mul(Mul(Y, W), n_inv)
        OBVIOUS
      <4>1. Y \in Scalar /\ W \in Scalar
        BY <3>1
      <4> HIDE DEF Y, W, f, h
      <4>2. Mul(Y, Mul(n_inv, W)) = Mul(n_inv, Mul(Y, W)) /\ Mul(Y, W) \in Scalar
        BY <2>3, <4>1, MulMiddle, ScalarClosed
      <4> QED BY <2>3, <4>2, ScalarLaws
    <3>3. Mul(y[a], w[a]) \in Scalar /\ Mul(Mul(y[a], w[a]), n_inv) \in Scalar
      BY <2>3, <3>1, ScalarClosed
    <3> QED BY <3>1, <3>2, <3>3
  <2>6. Total(h) = Mul(Total(f), n_inv) /\ Total(f) \in Scalar
    <3> HIDE DEF f, h
    <3> QED BY <1>1, <2>3, <2>5, TotalTimes, TotalType
  <2>7. Total(f) = Dot(0 .. n - 1, y, w)
    BY <1>1 DEF Dot
  <2> QED BY <2>2, <2>3, <2>6, <2>7, ScalarLaws
<1> HIDE DEF R, M, P
<1>7. Dot(R, b, P) = Dot(R, y, q) /\ Vec(q, R)
  <2>1. Vec(b, R)
    BY DEF R
  <2> QED BY <1>1, <1>2, <1>3, <1>4, <1>5, <1>6, <2>1, DotSwap
<1> QED BY <1>1, <1>3, <1>7 DEF Value, R, P

-----------------------------------------------------------------------------
(* The reference string                                                     *)

(* A tau that CRS::new does not panic at.                                   *)
Usable(tau) == tau \in Scalar /\ ~tau_panics(tau)

vanish(x) == Sub(Powers(x)[n], One)

LEMMA UsableTau ==
  ASSUME NEW tau, Usable(tau)
  PROVE  /\ tau \in Scalar /\ tau # Zero
         /\ Mul(tau, tau) \in Scalar /\ inverse(Mul(tau, tau)) \in Scalar
         /\ Mul(Mul(tau, tau), inverse(Mul(tau, tau))) = One
         /\ vanish(tau) \in Scalar /\ vanish(tau) # Zero /\ inverse(vanish(tau)) \in Scalar
         /\ Mul(vanish(tau), inverse(vanish(tau))) = One
         /\ \A i \in positions : Sub(tau, el[i]) \in Scalar /\ Sub(tau, el[i]) # Zero
<1>1. tau \in Scalar /\ tau # Zero /\ power(tau, n) # One /\ n \in Nat
  BY Sizes DEF Usable, tau_panics
<1>2. Powers(tau)[n] # One /\ Powers(tau)[n] \in Scalar
  BY <1>1, PowerIs, PowersType
<1>3. Mul(tau, tau) \in Scalar /\ Mul(tau, tau) # Zero
  BY <1>1, SteIsField, NoZeroDivisors, ScalarClosed
<1>4. vanish(tau) \in Scalar /\ vanish(tau) # Zero
  BY <1>2, SubZero, SubClosed, ScalarClosed DEF vanish
<1>5. \A i \in positions : Sub(tau, el[i]) \in Scalar /\ Sub(tau, el[i]) # Zero
  <2> TAKE i \in positions
  <2>1. i \in Int /\ el[i] \in Scalar
    BY RootsOfDomain, RootsType, Sizes
  <2>2. Powers(el[i])[n] = el[n * i]
    BY <1>1, <2>1, RootsOfDomain, RootPowers
  <2>3. el[n * i] = One
    BY <2>1, RootsOfDomain, RootOfMultiple
  <2> QED BY <1>1, <1>2, <2>1, <2>2, <2>3, SubZero, SubClosed
<1> QED BY <1>1, <1>3, <1>4, <1>5, InverseIs

minus0(i, tau) == Mul(Sub(lag(i, tau), n_inv), tau)
over_x(i, tau) == Mul(minus0(i, tau), inverse(Mul(tau, tau)))
over_z(i, j, tau) ==
  Mul(inverse(vanish(tau)), IF i = j THEN Sub(Mul(lag(i, tau), lag(i, tau)), lag(i, tau))
                                     ELSE Mul(lag(i, tau), lag(j, tau)))
descending(tau) == [k \in positions |-> Powers(tau)[n - 1 - k]]
column(tau) == Top!fft(descending(tau))

(* The part of the reference string for one chunk, and all of it.           *)
ChunkOf(z, tau, a, gamma, c) ==
  /\ z.gen_g[c] = a /\ z.gen_h[c] = a /\ z.gamma_g2[c] = Mul(a, gamma)
  /\ z.powers_of_g[c] = [k \in 0 .. n |-> Mul(Powers(tau)[k], a)]
  /\ z.powers_of_h[c] = [k \in 0 .. n |-> Mul(Powers(tau)[k], a)]
  /\ z.li[c] = [i \in positions |-> Mul(lag(i, tau), a)]
  /\ z.li_minus0[c] = [i \in positions |-> Mul(minus0(i, tau), a)]
  /\ z.li_x[c] = [i \in positions |-> Mul(over_x(i, tau), a)]
  /\ z.li_lj_z[c] = [i \in positions |-> [j \in positions |-> Mul(over_z(i, j, tau), a)]]
  /\ z.y[c] = [k \in 0 .. 2 * n - 1 |-> Mul(column(tau)[k], a)]

CrsOf(z, tau, r, gamma) ==
  /\ z.gen_g = r /\ z.gamma_g2 = [c \in chunks |-> Mul(r[c], gamma)]
  /\ \A c \in chunks : ChunkOf(z, tau, r[c], gamma, c)

LEMMA CrsIs ==
  ASSUME NEW tau, Usable(tau), NEW r \in [chunks -> Scalar], NEW gamma
  PROVE  CrsOf(deterministic_new(tau, r, gamma), tau, r, gamma)
<1> DEFINE z == deterministic_new(tau, r, gamma)
           powers == [k \in 0 .. n |-> power(tau, k)]
           li == [i \in positions |-> evaluate(lagrange_poly(i), tau)]
           lm == [i \in positions |-> Mul(Sub(li[i], lagrange_poly(i)[0]), tau)]
           lx == scale(lm, inverse(Mul(tau, tau)))
           zi == inverse(Sub(power(tau, n), One))
           lz == [i \in positions |-> [j \in positions |->
                    Mul(zi, IF i = j THEN Sub(Mul(li[i], li[i]), li[i]) ELSE Mul(li[i], li[j]))]]
           top == Top!fft([k \in positions |-> powers[n - 1 - k]])
<1>0. tau \in Scalar /\ n \in Nat
  BY UsableTau, Sizes
<1>1. powers = [k \in 0 .. n |-> Powers(tau)[k]]
  BY <1>0, PowerIs
<1>2. li = [i \in positions |-> lag(i, tau)]
  BY <1>0, LagrangeType
<1>3. lm = [i \in positions |-> minus0(i, tau)]
  BY <1>0, <1>2, LagrangeType DEF minus0
<1>4. lx = [i \in positions |-> over_x(i, tau)]
  BY <1>3 DEF scale, over_x
<1>5. lz = [i \in positions |-> [j \in positions |-> over_z(i, j, tau)]]
  <2>1. zi = inverse(vanish(tau))
    BY <1>0, PowerIs DEF vanish
  <2> QED BY <1>2, <2>1 DEF over_z
<1>6. top = column(tau) /\ DOMAIN top = 0 .. 2 * n - 1
  <2>1. \A k \in positions : n - 1 - k \in 0 .. n
    BY Sizes
  <2>2. [k \in positions |-> powers[n - 1 - k]] = descending(tau)
    BY <1>1, <2>1 DEF descending
  <2>3. DOMAIN top = 0 .. 2 * n - 1
    BY DEF Top!fft, Top!Slots
  <2> QED BY <2>2, <2>3 DEF column
<1>7. /\ z.gen_g = r /\ z.gen_h = r /\ z.gamma_g2 = gamma_bases(r, gamma)
      /\ z.powers_of_g = [c \in chunks |-> scale(powers, r[c])]
      /\ z.powers_of_h = [c \in chunks |-> scale(powers, r[c])]
      /\ z.li = [c \in chunks |-> scale(li, r[c])]
      /\ z.li_minus0 = [c \in chunks |-> scale(lm, r[c])]
      /\ z.li_x = [c \in chunks |-> scale(lx, r[c])]
      /\ z.li_lj_z = [c \in chunks |-> [i \in positions |-> scale(lz[i], r[c])]]
      /\ z.y = [c \in chunks |-> scale(top, r[c])]
  BY DEF deterministic_new
<1> HIDE DEF z, powers, li, lm, lx, zi, lz, top
<1>8. z.gamma_g2 = [c \in chunks |-> Mul(r[c], gamma)]
  BY <1>7 DEF gamma_bases, scale
<1>9. ASSUME NEW c \in chunks
      PROVE  /\ z.powers_of_g[c] = [k \in 0 .. n |-> Mul(Powers(tau)[k], r[c])]
             /\ z.powers_of_h[c] = [k \in 0 .. n |-> Mul(Powers(tau)[k], r[c])]
  BY <1>1, <1>7 DEF scale
<1>10. ASSUME NEW c \in chunks
      PROVE  /\ z.li[c] = [i \in positions |-> Mul(lag(i, tau), r[c])]
             /\ z.li_minus0[c] = [i \in positions |-> Mul(minus0(i, tau), r[c])]
             /\ z.li_x[c] = [i \in positions |-> Mul(over_x(i, tau), r[c])]
  BY <1>2, <1>3, <1>4, <1>7 DEF scale
<1>11. ASSUME NEW c \in chunks
      PROVE  z.li_lj_z[c]
               = [i \in positions |-> [j \in positions |-> Mul(over_z(i, j, tau), r[c])]]
  BY <1>5, <1>7 DEF scale
<1>12. ASSUME NEW c \in chunks
      PROVE  z.y[c] = [k \in 0 .. 2 * n - 1 |-> Mul(column(tau)[k], r[c])]
  BY <1>6, <1>7 DEF scale
<1>13. ASSUME NEW c \in chunks
       PROVE  ChunkOf(z, tau, r[c], gamma, c)
  <2>1. z.gen_g[c] = r[c] /\ z.gen_h[c] = r[c] /\ z.gamma_g2[c] = Mul(r[c], gamma)
    BY <1>7, <1>8
  <2> QED BY <2>1, <1>9, <1>10, <1>11, <1>12 DEF ChunkOf
<1> QED BY <1>7, <1>8, <1>13 DEF CrsOf, z

-----------------------------------------------------------------------------
(* The two ways to a party's hints                                          *)

(* A commitment to f is the value of f at tau.                              *)
LEMMA CommitIs ==
  ASSUME NEW tau \in Scalar, NEW a \in Scalar, NEW p, p = [k \in 0 .. n |-> Mul(Powers(tau)[k], a)],
         NEW d \in 0 .. n, NEW f, DOMAIN f = 0 .. d, Vec(f, 0 .. d)
  PROVE  msm(p, f) = Mul(Value(f, d, tau), a)
<1> DEFINE R == 0 .. d
           P == Powers(tau)
<1>1. d \in Nat /\ IsFiniteSet(R) /\ \A k \in R : k \in 0 .. n
  BY Sizes, IntervalFinite
<1>2. Vec(P, R)
  BY <1>1, ValueType
<1>3. ScaledBy(p, P, a, R)
  BY <1>1 DEF ScaledBy
<1>4. msm(p, f) = Dot(R, p, f)
  BY MsmIsDot
<1>5. Value(f, d, tau) = Dot(R, f, P)
  BY DEF Value
<1>6. Vec(f, R)
  OBVIOUS
<1> HIDE DEF R, P
<1>7. Dot(R, p, f) = Mul(Dot(R, P, f), a)
  BY <1>1, <1>2, <1>3, <1>6, DotTimes
<1>8. Dot(R, P, f) = Dot(R, f, P)
  BY <1>2, <1>6, DotComm
<1> QED BY <1>4, <1>5, <1>7, <1>8

(* What is committed to for a party: L_i without its constant coefficient,  *)
(* multiplied and divided by X.                                             *)
LEMMA LagrangeShifts ==
  ASSUME NEW i \in positions, NEW tau, Usable(tau)
  PROVE  /\ DOMAIN l_minus0(i) = 0 .. n /\ Vec(l_minus0(i), 0 .. n)
         /\ Value(l_minus0(i), n, tau) = minus0(i, tau)
         /\ DOMAIN l_x(i) = 0 .. n - 2 /\ Vec(l_x(i), 0 .. n - 2)
         /\ Value(l_x(i), n - 2, tau) = over_x(i, tau)
         /\ Mul(over_x(i, tau), tau) = Sub(lag(i, tau), n_inv)
         /\ minus0(i, tau) \in Scalar /\ over_x(i, tau) \in Scalar
<1> DEFINE f == lagrange_poly(i)
           m == l_minus0(i)
           t == l_x(i)
           s == [k \in 0 .. n - 1 |-> m[k + 1]]
           L == lag(i, tau)
           d == n - 2
           V == Value(t, d, tau)
           D == Sub(L, n_inv)
           w == Mul(tau, tau)
<1>1. /\ d \in Nat /\ d + 1 = n - 1 /\ n - 1 \in Nat /\ (n - 1) + 1 = n /\ positions = 0 .. n - 1
      /\ tau \in Scalar
  BY Sizes, UsableTau
<1>2. L \in Scalar /\ Vec(f, 0 .. n - 1) /\ f[0] = n_inv /\ n_inv \in Scalar
  BY <1>1, LagrangeType, SteAssumption
<1>3. /\ m = [k \in 0 .. n |-> IF k < 2 THEN Zero ELSE f[k - 1]]
      /\ t = [k \in 0 .. n - 2 |-> m[k + 2]]
  BY DEF l_minus0, l_x
<1>4. Vec(m, 0 .. n) /\ DOMAIN m = 0 .. n /\ m[0] = Zero
  <2>1. \A k \in 0 .. n : k >= 2 => k - 1 \in 0 .. n - 1
    BY <1>1
  <2>2. 0 \in 0 .. n
    BY <1>1
  <2> HIDE DEF m, f
  <2> QED BY <1>2, <1>3, <2>1, <2>2, ScalarClosed DEF Vec
<1>5. Shifted(s, m, 0 .. n - 1) /\ s[0] = Zero
  <2>1. 0 \in 0 .. n - 1 /\ 1 \in 0 .. n
    BY <1>1
  <2> HIDE DEF m, f
  <2> QED BY <1>3, <2>1 DEF Shifted
<1>6. /\ \A k \in 0 .. n - 2 : t[k] = f[k + 1] /\ t[k] = s[k + 1]
      /\ DOMAIN t = 0 .. n - 2
  <2>1. \A k \in 0 .. n - 2 : k + 2 \in 0 .. n /\ ~(k + 2 < 2) /\ (k + 2) - 1 = k + 1
                              /\ k + 1 \in 0 .. n - 1 /\ (k + 1) + 1 = k + 2
    BY <1>1
  <2> HIDE DEF m, f, t
  <2> QED BY <1>3, <2>1
<1>7. Shifted(t, f, 0 .. d) /\ Shifted(t, s, 0 .. d)
  BY <1>6 DEF Shifted
<1> HIDE DEF f, m, t, s, L
<1>8. Value(m, n, tau) = Add(m[0], Mul(Value(s, n - 1, tau), tau)) /\ Vec(s, 0 .. n - 1)
  <2> DEFINE e == n - 1
  <2>1. e \in Nat /\ Vec(m, 0 .. e + 1) /\ Shifted(s, m, 0 .. e) /\ e + 1 = n
    BY <1>1, <1>4, <1>5
  <2> HIDE DEF e
  <2>2. Value(m, e + 1, tau) = Add(m[0], Mul(Value(s, e, tau), tau)) /\ Vec(s, 0 .. e)
    BY <1>1, <2>1, ValueLow
  <2> QED BY <2>1, <2>2 DEF e
<1>9. Value(s, n - 1, tau) = Add(s[0], Mul(V, tau)) /\ Vec(t, 0 .. d)
  <2> HIDE DEF d
  <2>1. Vec(s, 0 .. d + 1)
    BY <1>1, <1>8
  <2>2. Value(s, d + 1, tau) = Add(s[0], Mul(Value(t, d, tau), tau)) /\ Vec(t, 0 .. d)
    BY <1>1, <1>7, <2>1, ValueLow
  <2> QED BY <1>1, <2>2
<1>10. L = Add(f[0], Mul(V, tau))
  <2> HIDE DEF d
  <2>1. Vec(f, 0 .. d + 1)
    BY <1>1, <1>2
  <2>2. Value(f, d + 1, tau) = Add(f[0], Mul(Value(t, d, tau), tau)) /\ Vec(t, 0 .. d)
    BY <1>1, <1>7, <2>1, ValueLow
  <2> QED BY <1>1, <2>2 DEF lag, L, f
<1>11. V \in Scalar
  <2> HIDE DEF d
  <2> QED BY <1>1, <1>9, ValueType
<1>12. DOMAIN t = 0 .. d
  BY <1>6
<1> HIDE DEF V, d
<1>13. D = Mul(V, tau) /\ Mul(V, tau) \in Scalar
  BY <1>1, <1>2, <1>10, <1>11, AddSub, ScalarClosed
<1>14. Value(m, n, tau) = minus0(i, tau) /\ minus0(i, tau) = Mul(D, tau)
  <2>1. minus0(i, tau) = Mul(D, tau)
    BY DEF minus0, D, L
  <2>2. Value(s, n - 1, tau) = Mul(V, tau)
    BY <1>5, <1>9, <1>13, AddZero
  <2>3. Mul(Mul(V, tau), tau) \in Scalar
    BY <1>1, <1>13, ScalarClosed
  <2> HIDE DEF D
  <2> QED BY <1>4, <1>8, <1>13, <2>1, <2>2, <2>3, AddZero
<1>15. over_x(i, tau) = V
  <2>1. w \in Scalar /\ inverse(w) \in Scalar /\ Mul(w, inverse(w)) = One
    BY UsableTau
  <2>2. over_x(i, tau) = Mul(Mul(D, tau), inverse(w))
    BY <1>14 DEF over_x
  <2>3. Mul(D, tau) = Mul(V, w)
    BY <1>1, <1>11, <1>13, ScalarLaws
  <2> HIDE DEF w, D
  <2>4. Mul(Mul(V, w), inverse(w)) = Mul(V, Mul(w, inverse(w)))
    BY <1>11, <2>1, ScalarLaws
  <2> QED BY <1>11, <2>1, <2>2, <2>3, <2>4, ScalarLaws
<1>16. minus0(i, tau) \in Scalar
  BY <1>1, <1>13, <1>14, ScalarClosed
<1> QED BY <1>4, <1>9, <1>11, <1>12, <1>13, <1>14, <1>15, <1>16 DEF V, D, L, d, m, t

-----------------------------------------------------------------------------
(* Polynomials that vanish on a set of roots                                *)

(* v is monic, with the roots numbered in T.                                *)
Monic(v, T) ==
  /\ v \in [0 .. Cardinality(T) -> Scalar]
  /\ v[Cardinality(T)] = One
  /\ \A x \in Scalar : Value(v, Cardinality(T), x) = Times([i \in positions |-> Sub(x, el[i])], T)

LEMMA FactorsVec == \A x \in Scalar : Vec([i \in positions |-> Sub(x, el[i])], positions)
<1>1. \A i \in positions : el[i] \in Scalar
  BY RootsOfDomain, RootsType, Sizes
<1> QED BY <1>1, SubClosed DEF Vec

LEMMA MonicEmpty == Monic([k \in {0} |-> One], {})
<1> DEFINE v == [k \in {0} |-> One]
<1>1. Cardinality({}) = 0 /\ 0 .. 0 = {0}
  BY FS_EmptySet
<1>2. v \in [0 .. 0 -> Scalar] /\ v[0] = One
  BY <1>1, ScalarClosed
<1>3. ASSUME NEW x \in Scalar
      PROVE  Value(v, 0, x) = Times([i \in positions |-> Sub(x, el[i])], {})
  <2> DEFINE f == [i \in positions |-> Sub(x, el[i])]
             p == Powers(x)
  <2>1. Vec(f, positions)
    BY FactorsVec
  <2>2. Times(f, {}) = One
    <3> HIDE DEF f
    <3> QED BY <2>1, TimesLaws, Sizes
  <2>3. Vec(v, {0}) /\ Vec(p, {0}) /\ AllZero(v, {0} \ {0}) /\ IsFiniteSet({0})
    BY <1>2, PowersType, FS_Singleton DEF Vec, AllZero
  <2>4. p[0] = One
    BY PowersExist DEF IsPowers
  <2>5. 0 \in {0}
    OBVIOUS
  <2> HIDE DEF v, p
  <2>6. Dot({0}, v, p) = Mul(v[0], p[0])
    BY <2>3, <2>5, DotSingle
  <2>7. Value(v, 0, x) = Dot({0}, v, p)
    BY <1>1 DEF Value, p
  <2> QED BY <1>2, <2>2, <2>4, <2>6, <2>7, MulOne, ScalarClosed
<1> QED BY <1>1, <1>2, <1>3 DEF Monic

LEMMA MonicGrows ==
  ASSUME NEW T \in SUBSET positions, NEW i \in T, NEW f, Monic(f, T \ {i}), NEW d,
         d = Cardinality(T) - 1
  PROVE  Monic(times_monomial(f, d, Domain!element(i)), T) /\ d \in Nat
<1> DEFINE g == times_monomial(f, d, el[i])
           R == T \ {i}
<1>1. /\ IsFiniteSet(T) /\ d \in Nat /\ Cardinality(R) = d /\ Cardinality(T) = d + 1
  <2>1. IsFiniteSet(T)
    BY Sizes, FS_Subset
  <2>2. Cardinality(R) = d /\ IsFiniteSet(R)
    BY <2>1, FS_RemoveElement
  <2>3. Cardinality(R) \in Nat
    BY <2>2, FS_CardinalityType
  <2> QED BY <2>1, <2>2, <2>3, FS_CardinalityType
<1>2. el[i] = Domain!element(i) /\ el[i] \in Scalar
  <2>1. i \in Int
    BY Sizes
  <2> QED BY <2>1, RootsOfDomain, RootsType DEF el
<1>3. /\ f \in [0 .. d -> Scalar] /\ f[d] = One /\ Vec(f, 0 .. d)
      /\ \A x \in Scalar : Value(f, d, x) = Times([j \in positions |-> Sub(x, el[j])], R)
  <2>1. f \in [0 .. d -> Scalar]
    BY <1>1 DEF Monic
  <2> QED BY <1>1, <2>1, VecFcn DEF Monic
<1>4. TimesMonomial(g, f, d, el[i])
  BY DEF TimesMonomial, times_monomial
<1>5. g[d + 1] = One /\ DOMAIN g = 0 .. d + 1 /\ g = [k \in 0 .. d + 1 |-> g[k]]
  <2>1. d + 1 \in 0 .. d + 1 /\ d + 1 # 0 /\ d + 1 > d /\ (d + 1) - 1 = d
    BY <1>1
  <2>2. g[d + 1] = Add(f[d], Zero)
    BY <2>1 DEF times_monomial
  <2> QED BY <1>3, <2>2, AddZero, ScalarClosed DEF times_monomial
<1> HIDE DEF g
<1>6. ASSUME NEW x \in Scalar
      PROVE  /\ Value(g, d + 1, x) = Times([j \in positions |-> Sub(x, el[j])], T)
             /\ Vec(g, 0 .. d + 1)
  <2> DEFINE fs == [j \in positions |-> Sub(x, el[j])]
  <2>1. Value(g, d + 1, x) = Mul(Value(f, d, x), Sub(x, el[i])) /\ Vec(g, 0 .. d + 1)
    BY <1>1, <1>2, <1>3, <1>4, ValueOfMonomial
  <2>2. Vec(fs, positions) /\ fs[i] = Sub(x, el[i])
    BY FactorsVec
  <2>3. Value(f, d, x) = Times(fs, R)
    BY <1>3
  <2> HIDE DEF fs
  <2>4. /\ Times(fs, R) \in Scalar /\ Times(fs, T) = Mul(fs[i], Times(fs, R))
    <3>1. IsFiniteSet(positions) /\ R \in SUBSET positions
      BY Sizes
    <3>2. \A U \in SUBSET positions :
            /\ Times(fs, U) \in Scalar
            /\ \A e \in U : Times(fs, U) = Mul(fs[e], Times(fs, U \ {e}))
      BY <2>2, <3>1, TimesLaws
    <3> QED BY <3>1, <3>2
  <2>5. fs[i] \in Scalar
    BY <2>2 DEF Vec
  <2> QED BY <2>1, <2>2, <2>3, <2>4, <2>5, ScalarLaws DEF fs
<1>7. g \in [0 .. d + 1 -> Scalar]
  <2>1. Vec(g, 0 .. d + 1)
    BY <1>6, ScalarClosed
  <2>2. \A k \in 0 .. d + 1 : g[k] \in Scalar
    BY <2>1 DEF Vec
  <2> QED BY <1>5, <2>2
<1>8. Monic(g, T)
  BY <1>1, <1>5, <1>6, <1>7 DEF Monic
<1> QED BY <1>1, <1>2, <1>8 DEF g

LEMMA VanishingIs ==
  ASSUME NEW P \in SUBSET positions
  PROVE  Monic(vanishing(P), P)
<1> DEFINE c(S) == CHOOSE i \in S : TRUE
           unit == [k \in {0} |-> One]
           next(S, v) == times_monomial(v, Cardinality(S) - 1, Domain!element(c(S)))
           Rec(f) == f = [S \in SUBSET P |-> IF S = {} THEN unit ELSE next(S, f[S \ {c(S)}])]
           f0 == CHOOSE f : Rec(f)
<1>1. vanishing(P) = f0[P]
  BY DEF vanishing
<1>2. IsFiniteSet(P)
  BY Sizes, FS_Subset
<1>3. Monic(unit, {})
  BY MonicEmpty
<1>4. ASSUME NEW S \in SUBSET P, S # {}, NEW v, Monic(v, S \ {c(S)})
      PROVE  Monic(next(S, v), S)
  <2>1. c(S) \in S /\ S \in SUBSET positions
    BY <1>4
  <2> DEFINE i == c(S)
             d == Cardinality(S) - 1
  <2>2. i \in S /\ Monic(v, S \ {i})
    BY <1>4, <2>1
  <2> HIDE DEF i, d
  <2>3. Monic(times_monomial(v, d, Domain!element(i)), S)
    BY <2>1, <2>2, MonicGrows DEF d
  <2> QED BY <2>3 DEF i, d
<1>5. \E f : Rec(f)
  <2> DEFINE X == UNION { { v \in [0 .. Cardinality(S) -> Scalar] : Monic(v, S) } : S \in SUBSET P }
             step == [S \in SUBSET P |-> [v \in X |-> IF S # {} /\ Monic(v, S \ {c(S)})
                                                      THEN next(S, v) ELSE v]]
  <2>1. \A S \in SUBSET P : \A v : Monic(v, S) => v \in X
    BY DEF Monic
  <2>2. unit \in X
    BY <1>3, <2>1
  <2>3. step \in [SUBSET P -> [X -> X]]
    <3> SUFFICES ASSUME NEW S \in SUBSET P, NEW v \in X
                 PROVE  (IF S # {} /\ Monic(v, S \ {c(S)}) THEN next(S, v) ELSE v) \in X
      OBVIOUS
    <3>1. CASE S # {} /\ Monic(v, S \ {c(S)})
      <4>1. Monic(next(S, v), S)
        BY <1>4, <3>1
      <4> HIDE DEF next, X
      <4> QED BY <2>1, <3>1, <4>1
    <3>2. CASE ~(S # {} /\ Monic(v, S \ {c(S)}))
      <4> HIDE DEF next, X
      <4> QED BY <3>2
    <3> QED BY <3>1, <3>2
  <2>4. PICK g \in [SUBSET P -> X] : SetRecursive(g, P, unit, step)
    <3> HIDE DEF X, step, unit
    <3> QED BY <1>2, <2>2, <2>3, SetRecursion
  <2>5. g = [S \in SUBSET P |-> IF S = {} THEN unit ELSE step[S][g[S \ {c(S)}]]]
    BY <2>4 DEF SetRecursive
  <2> DEFINE F == { S \in SUBSET P : Monic(g[S], S) }
  <2> HIDE DEF unit, next, X
  <2>6. {} \in F
    BY <1>3, <2>5
  <2>7. ASSUME NEW A \in SUBSET P, A # {}, \A e \in A : A \ {e} \in F
        PROVE  A \in F /\ g[A] = next(A, g[A \ {c(A)}])
    <3>1. c(A) \in A
      BY <2>7
    <3>2. A \ {c(A)} \in F /\ A \ {c(A)} \in SUBSET P
      BY <2>7, <3>1
    <3>3. Monic(g[A \ {c(A)}], A \ {c(A)}) /\ g[A \ {c(A)}] \in X
      BY <2>4, <3>2
    <3>4. g[A] = step[A][g[A \ {c(A)}]]
      BY <2>5, <2>7
    <3>5. g[A] = next(A, g[A \ {c(A)}])
      BY <2>7, <3>3, <3>4
    <3> QED BY <1>4, <2>7, <3>3, <3>5
  <2>8. ASSUME NEW B \in SUBSET P
        PROVE  B \in F
    <3>1. IsFiniteSet(B)
      BY <1>2, FS_Subset
    <3>2. \A A \in SUBSET B : A # {} /\ (\A e \in A : A \ {e} \in F) => A \in F
      BY <2>7
    <3> HIDE DEF F
    <3> QED BY <2>6, <3>1, <3>2, SetInduction
  <2>9. Rec(g)
    <3>1. \A S \in SUBSET P : g[S] = IF S = {} THEN unit ELSE next(S, g[S \ {c(S)}])
      <4> TAKE S \in SUBSET P
      <4>1. CASE S = {}
        BY <2>5, <4>1
      <4>2. CASE S # {}
        <5>1. \A e \in S : S \ {e} \in F
          <6> TAKE e \in S
          <6>1. S \ {e} \in SUBSET P
            OBVIOUS
          <6> HIDE DEF F
          <6> QED BY <2>8, <6>1
        <5> HIDE DEF F
        <5> QED BY <2>7, <4>2, <5>1
      <4> QED BY <4>1, <4>2
    <3>2. g = [S \in SUBSET P |-> g[S]]
      BY <2>4
    <3> QED BY <3>1, <3>2
  <2> QED BY <2>9
<1>6. Rec(f0)
  <2> HIDE DEF Rec
  <2> QED BY <1>5
<1> DEFINE F == { S \in SUBSET P : Monic(f0[S], S) }
<1> HIDE DEF f0, unit, next
<1>7. {} \in F
  BY <1>3, <1>6
<1>8. ASSUME NEW A \in SUBSET P, A # {}, \A e \in A : A \ {e} \in F
      PROVE  A \in F
  <2>1. c(A) \in A
    BY <1>8
  <2>2. Monic(f0[A \ {c(A)}], A \ {c(A)})
    BY <1>8, <2>1
  <2>3. f0[A] = next(A, f0[A \ {c(A)}])
    BY <1>6, <1>8
  <2> QED BY <1>4, <1>8, <2>2, <2>3
<1>9. P \in F
  <2> HIDE DEF F
  <2> QED BY <1>2, <1>7, <1>8, SetInduction
<1> QED BY <1>1, <1>9

(* The code's product is the product of the factors.                        *)
LEMMA ProductIs ==
  ASSUME NEW P \in SUBSET positions, NEW f, Vec(f, positions), NEW g, g = [i \in P |-> f[i]]
  PROVE  Product(g) = Times(f, P) /\ Times(f, P) \in Scalar
<1>1. g \in [P -> Scalar] /\ IsFiniteSet(P)
  BY Sizes, FS_Subset DEF Vec
<1>2. Product(g) = Fold(times, One, g)
  BY <1>1, ProductIsFold DEF Product
<1>3. Times(f, P) \in Scalar
  BY TimesLaws, Sizes
<1> QED BY <1>2, <1>3 DEF Times, Part

(* The product of the differences of One and the other roots is n, whose    *)
(* inverse get_lag_public_key divides by (setup.rs:225-232).                *)
LEMMA DenomIs == denom = n_inv
<1> DEFINE P == 1 .. n - 1
           R == 0 .. n - 1
           V == vanishing(P)
           F(x) == [i \in positions |-> Sub(x, el[i])]
           y == [j \in R |-> Value(V, n - 1, el[j])]
           w == Wave(el, n, -(n - 1))
           pr == Times(F(One), P)
<1>1. /\ P \in SUBSET positions /\ IsFiniteSet(P) /\ Cardinality(P) = n - 1 /\ R = positions
      /\ IsFiniteSet(R) /\ 0 \in R /\ n - 1 \in R /\ n - 1 \in Nat /\ -(n - 1) \in Int
      /\ R \ {0} = P /\ 0 \notin P
  <2>1. n - 1 \in Nat /\ 1 \in Int /\ ~(1 > n - 1)
    BY Sizes
  <2>2. Cardinality(P) = (n - 1) - 1 + 1 /\ IsFiniteSet(P)
    BY <2>1, FS_Interval
  <2>3. R = positions /\ IsFiniteSet(R)
    BY Sizes
  <2> QED BY <2>1, <2>2, <2>3 DEF positions
<1>2. /\ V \in [0 .. n - 1 -> Scalar] /\ V[n - 1] = One
      /\ \A x \in Scalar : Value(V, n - 1, x) = Times(F(x), P)
  <2> HIDE DEF P, V
  <2>1. Monic(V, P)
    BY <1>1, VanishingIs DEF V
  <2> QED BY <1>1, <2>1 DEF Monic
<1>3. Vec(V, R)
  BY <1>2, VecFcn
<1>4. /\ el[0] = One /\ n_inv \in Scalar /\ \A a \in Int : el[a] \in Scalar
  BY RootsOfDomain, RootsType
<1>5. \A x \in Scalar : Vec(F(x), positions)
  BY FactorsVec
<1>6. pr \in Scalar
  BY <1>1, <1>4, <1>5, ScalarClosed, TimesLaws, Sizes
<1>7. Dft(y, V, el, n)
  <2> SUFFICES ASSUME NEW j \in 0 .. n - 1
               PROVE  y[j] = Dot(0 .. n - 1, V, Wave(el, n, j))
    BY DEF Dft
  <2>1. j \in Int
    BY Sizes
  <2> HIDE DEF V
  <2> QED BY <2>1, RootsOfDomain, ValueAtRoot
<1>8. \A j \in P : y[j] = Zero
  <2> TAKE j \in P
  <2> DEFINE f == F(el[j])
  <2>1. j \in R /\ j \in Int /\ j \in positions /\ el[j] \in Scalar
    BY <1>1, <1>4, Sizes
  <2>2. y[j] = Times(f, P)
    BY <1>2, <2>1
  <2>3. f[j] = Zero
    BY <2>1, SubSelf
  <2>4. Vec(f, positions)
    BY <1>5, <2>1
  <2>5. Vec(f, P)
    BY <1>1, <2>4 DEF Vec
  <2>6. \E e \in P : f[e] = Zero
    BY <2>3
  <2> HIDE DEF f, P
  <2> QED BY <1>1, <2>2, <2>5, <2>6, SteIsField, TimesZero
<1>9. y[0] = pr
  BY <1>1, <1>2, <1>4, ScalarClosed
<1>10. Mul(n_inv, Dot(R, y, w)) = V[n - 1]
  <2> HIDE DEF y, V
  <2>1. n - 1 \in 0 .. n - 1
    BY <1>1
  <2> QED BY <1>3, <1>7, <2>1, SteIsField, RootsOfDomain, DftInverse
<1>11. Vec(w, R) /\ w[0] = One
  <2>1. Vec(w, R)
    BY <1>1, RootsOfDomain, WaveType
  <2>2. 0 * (-(n - 1)) = 0
    BY <1>1
  <2> QED BY <1>1, <1>4, <2>1, <2>2 DEF Wave
<1>12. Vec(y, R) /\ AllZero(y, R \ {0})
  <2>1. Vec(y, R)
    <3> HIDE DEF y, V
    <3> QED BY <1>3, <1>7, RootsOfDomain, DftType
  <2> QED BY <1>1, <1>8, <2>1 DEF AllZero
<1>13. 0 \in R /\ IsFiniteSet(R)
  BY <1>1
<1> HIDE DEF y, w, R, V, F, pr
<1>14. Dot(R, y, w) = Mul(y[0], w[0])
  BY <1>11, <1>12, <1>13, DotSingle
<1>15. Mul(pr, n_inv) = One
  BY <1>2, <1>4, <1>6, <1>9, <1>10, <1>11, <1>14, MulOne, ScalarLaws
<1>16. Product([i \in 1 .. n - 1 |-> Sub(One, Domain!element(i))]) = pr
  <2> DEFINE f == F(One)
             g == [i \in P |-> f[i]]
  <2>1. Vec(f, positions)
    BY <1>5, ScalarClosed
  <2>2. g = [i \in 1 .. n - 1 |-> Sub(One, Domain!element(i))]
    <3>1. \A i \in 1 .. n - 1 : i \in positions /\ i \in Int
      BY <1>1
    <3> QED BY <3>1 DEF F, el
  <2> HIDE DEF f, P
  <2>3. Product(g) = Times(f, P)
    BY <1>1, <2>1, ProductIs
  <2> QED BY <2>2, <2>3 DEF f, pr
<1>17. pr # Zero
  <2>1. One # Zero
    BY SteIsField DEF IsField
  <2> QED BY <1>4, <1>15, <2>1, MulZero
<1>18. inverse(pr) \in Scalar /\ Mul(pr, inverse(pr)) = One
  BY <1>6, <1>17, InverseIs
<1>19. inverse(pr) = n_inv
  BY <1>4, <1>6, <1>15, <1>18, InverseUnique
<1> QED BY <1>16, <1>19 DEF denom

-----------------------------------------------------------------------------
(* All openings at once                                                     *)

LEMMA Wrap ==
  ASSUME NEW N \in Nat \ {0}, NEW x \in Int
  PROVE  /\ x \in 0 .. N - 1 => x % N = x
         /\ x \in (-N) .. -1 => x % N = x + N
<1>1. ASSUME x \in 0 .. N - 1
      PROVE  x % N = x
  <2>1. x = N * 0 + x
    BY <1>1
  <2> QED BY <1>1, <2>1, DivModUnique
<1>2. ASSUME x \in (-N) .. -1
      PROVE  x % N = x + N
  <2> DEFINE z == x + N
  <2>1. z \in 0 .. N - 1 /\ x = N * (-1) + z /\ -1 \in Int
    BY <1>2
  <2> HIDE DEF z
  <2>2. x % N = z
    BY <2>1, DivModUnique
  <2> QED BY <2>2 DEF z
<1> QED BY <1>1, <1>2

(* The column of the Toeplitz matrix, and the vector it is multiplied by.   *)
Falling(u, tau, a) ==
  \A k \in 0 .. 2 * n - 1 : u[k] = IF k < n THEN Mul(Powers(tau)[n - 1 - k], a) ELSE Zero

Behind(v, f) == \A k \in 0 .. 2 * n - 1 : v[k] = IF k <= n THEN Zero ELSE f[k - n]

(* The product of the two computes the quotient by Horner's rule.           *)
LEMMA Toeplitz ==
  ASSUME NEW tau \in Scalar, NEW a \in Scalar, NEW f, Vec(f, positions),
         NEW g, ScaledBy(g, f, a, positions),
         NEW u, Falling(u, tau, a), NEW v, Behind(v, f), NEW w, Convolves(w, u, v, 2 * n)
  PROVE  /\ Vec(u, 0 .. 2 * n - 1) /\ Vec(v, 0 .. 2 * n - 1)
         /\ Quotient(w, g, n - 1, tau)
<1> DEFINE N == 2 * n
           R == 0 .. N - 1
           T == 0 .. n - 1
           P == Powers(tau)
           term(b, k) == Mul(u[k], v[(b - k) % N])
<1>1. /\ n \in Nat /\ n >= 2 /\ N \in Nat \ {0} /\ T = positions /\ T \in SUBSET R /\ IsFiniteSet(R)
      /\ IsFiniteSet(T) /\ N = 2 * n
  BY Sizes, IntervalFinite
<1>2. P[0] = One /\ \A k \in Nat : P[k] \in Scalar /\ P[k + 1] = Mul(P[k], tau)
  BY PowersExist, PowersType DEF IsPowers
<1>3. \A k \in R : u[k] \in Scalar /\ v[k] \in Scalar
  <2> TAKE k \in R
  <2>1. u[k] = (IF k < n THEN Mul(P[n - 1 - k], a) ELSE Zero)
        /\ v[k] = IF k <= n THEN Zero ELSE f[k - n]
    BY DEF Falling, Behind
  <2>2. k < n => n - 1 - k \in Nat
    BY <1>1
  <2>3. ~(k <= n) => k - n \in positions
    BY <1>1
  <2>4. ~(k <= n) => f[k - n] \in Scalar
    BY <2>3 DEF Vec
  <2> QED BY <1>2, <2>1, <2>2, <2>4, ScalarClosed
<1>4. \A b \in R : w[b] = Total([k \in R |-> term(b, k)])
  BY <1>1 DEF Convolves
<1>5. \A b \in Int, k \in R : (b - k) % N \in R /\ term(b, k) \in Scalar
  <2> TAKE b \in Int, k \in R
  <2> DEFINE x == b - k
  <2>1. x \in Int
    BY <1>1
  <2> HIDE DEF x, N
  <2>2. x % N \in 0 .. N - 1
    BY <1>1, <2>1, DivMod
  <2> QED BY <1>3, <2>2, ScalarClosed DEF x
<1>6. \A k \in R \ T : u[k] = Zero
  <2> TAKE k \in R \ T
  <2>1. k \in 0 .. 2 * n - 1 /\ ~(k < n)
    BY <1>1
  <2> QED BY <2>1 DEF Falling
<1>7. \A b \in R : w[b] = Total([k \in T |-> term(b, k)])
  <2> TAKE b \in R
  <2> DEFINE p == [k \in R |-> term(b, k)]
             q == [k \in T |-> term(b, k)]
  <2>0. b \in Int
    BY <1>1
  <2>1. p \in [R -> Scalar] /\ q \in [T -> Scalar] /\ Restricts(q, p, T)
    BY <1>1, <1>5, <2>0 DEF Restricts
  <2>2. AllZero(p, R \ T)
    <3> SUFFICES ASSUME NEW k \in R \ T
                 PROVE  term(b, k) = Zero
      BY DEF AllZero
    <3>1. u[k] = Zero /\ v[(b - k) % N] \in Scalar
      BY <1>3, <1>5, <1>6, <2>0
    <3> QED BY <3>1, MulZero
  <2>3. Total(p) = Total(q)
    <3> HIDE DEF p, q, R, T
    <3> QED BY <1>1, <2>1, <2>2, TotalSubset
  <2> QED BY <1>4, <2>3
<1>8. \A b \in Int, k \in Int : b - k \in 0 .. n => v[(b - k) % N] = Zero
  <2> SUFFICES ASSUME NEW b \in Int, NEW k \in Int, b - k \in 0 .. n
               PROVE  v[(b - k) % N] = Zero
    OBVIOUS
  <2> DEFINE x == b - k
  <2>1. x \in Int /\ x \in 0 .. N - 1 /\ x <= n
    BY <1>1
  <2>2. x % N = x
    <3> HIDE DEF x, N
    <3> QED BY <1>1, <2>1, Wrap
  <2>3. v[x] = Zero
    <3> HIDE DEF x
    <3> QED BY <1>1, <2>1 DEF Behind
  <2> QED BY <2>2, <2>3
<1>9. w[n - 1] = Zero
  <2> DEFINE b == n - 1
             q == [k \in T |-> term(b, k)]
  <2>1. b \in R /\ b \in Int
    BY <1>1
  <2>2. \A k \in T : term(b, k) = Zero
    <3> TAKE k \in T
    <3>1. b - k \in 0 .. n /\ k \in Int /\ k \in R
      BY <1>1
    <3>2. v[(b - k) % N] = Zero
      BY <1>8, <2>1, <3>1
    <3> QED BY <1>3, <3>1, <3>2, MulZero
  <2>3. q \in [T -> Scalar] /\ AllZero(q, T)
    BY <2>2, ScalarClosed DEF AllZero
  <2>4. Total(q) = Zero
    <3> HIDE DEF q, T
    <3> QED BY <1>1, <2>3, TotalZero
  <2> QED BY <1>7, <2>1, <2>4
<1>10. ASSUME NEW b \in 1 .. n - 1
       PROVE  w[b - 1] = Add(g[b], Mul(tau, w[b]))
  <2> DEFINE G == [k \in 0 .. n |-> IF k = 0 THEN Zero ELSE term(b - 1, k - 1)]
             r == [k \in T |-> term(b - 1, k)]
             s == [k \in T |-> G[k]]
             q == [k \in T |-> term(b, k)]
  <2>1. /\ b \in Int /\ b - 1 \in Int /\ b \in R /\ b - 1 \in R /\ b \in positions
        /\ \A k \in T : k \in R /\ k \in Int /\ k + 1 \in 0 .. n /\ k + 1 # 0 /\ (k + 1) - 1 = k
        /\ \A k \in 0 .. n : k # 0 => k - 1 \in T
        /\ 0 \in 0 .. n /\ n \in 0 .. n /\ n # 0
    BY <1>1
  <2>2. G \in [0 .. n -> Scalar] /\ r \in [T -> Scalar] /\ s \in [T -> Scalar] /\ q \in [T -> Scalar]
    <3>1. \A k \in T : term(b - 1, k) \in Scalar /\ term(b, k) \in Scalar
      BY <1>5, <2>1
    <3>2. \A k \in 0 .. n : G[k] \in Scalar
      BY <2>1, <3>1, ScalarClosed
    <3>3. \A k \in T : k \in 0 .. n
      BY <1>1
    <3> QED BY <3>1, <3>2, <3>3
  <2>3. Shifted(r, G, T) /\ Restricts(s, G, T) /\ G[0] = Zero
    BY <2>1 DEF Shifted, Restricts
  <2>4. G[n] = g[b]
    <3> DEFINE x == b - n
    <3>1. G[n] = Mul(u[n - 1], v[((b - 1) - (n - 1)) % N])
      BY <2>1
    <3>2. (b - 1) - (n - 1) = x /\ x \in Int /\ x \in (-N) .. -1 /\ x + N = n + b
      BY <1>1
    <3>3. x % N = x + N
      <4> HIDE DEF x, N
      <4> QED BY <1>1, <3>2, Wrap
    <3>4. n + b \in 0 .. 2 * n - 1 /\ ~(n + b <= n) /\ (n + b) - n = b
      BY <1>1
    <3>5. v[n + b] = f[b]
      BY <3>4 DEF Behind
    <3>6. u[n - 1] = a
      <4>1. n - 1 \in 0 .. 2 * n - 1 /\ n - 1 < n /\ n - 1 - (n - 1) = 0
        BY <1>1
      <4>2. u[n - 1] = Mul(P[0], a)
        BY <4>1 DEF Falling
      <4> QED BY <1>2, <4>2, MulOne
    <3>7. g[b] = Mul(f[b], a) /\ f[b] \in Scalar
      BY <2>1 DEF ScaledBy, Vec
    <3>8. G[n] = Mul(a, f[b])
      <4> HIDE DEF G, x
      <4> QED BY <3>1, <3>2, <3>3, <3>5, <3>6
    <3> QED BY <3>7, <3>8, ScalarLaws
  <2>5. ScaledBy(s, q, tau, T)
    <3> SUFFICES ASSUME NEW k \in T
                 PROVE  G[k] = Mul(term(b, k), tau)
      BY <2>1 DEF ScaledBy
    <3>1. u[k] \in Scalar /\ v[(b - k) % N] \in Scalar
      BY <1>3, <1>5, <2>1
    <3>2. CASE k = 0
      <4>1. b - k \in 0 .. n
        BY <1>1, <3>2
      <4>2. v[(b - k) % N] = Zero
        BY <1>8, <2>1, <4>1
      <4>3. term(b, k) = Zero
        BY <3>1, <4>2, MulZero
      <4> QED BY <2>3, <3>2, <4>3, MulZero
    <3>3. CASE k # 0
      <4>1. k - 1 \in T /\ k \in 0 .. n /\ (b - 1) - (k - 1) = b - k
            /\ n - 1 - (k - 1) = (n - 1 - k) + 1 /\ n - 1 - k \in Nat
            /\ k - 1 \in 0 .. 2 * n - 1 /\ k - 1 < n /\ k \in 0 .. 2 * n - 1 /\ k < n
        BY <1>1, <3>3
      <4>2. G[k] = Mul(u[k - 1], v[(b - k) % N])
        BY <3>3, <4>1
      <4>3. u[k - 1] = Mul(P[n - 1 - (k - 1)], a) /\ u[k] = Mul(P[n - 1 - k], a)
        BY <4>1 DEF Falling
      <4>4. P[n - 1 - (k - 1)] = Mul(P[n - 1 - k], tau) /\ P[n - 1 - k] \in Scalar
        BY <1>2, <4>1
      <4> DEFINE p == P[n - 1 - k]
                 y == v[(b - k) % N]
      <4>5. /\ p \in Scalar /\ y \in Scalar /\ G[k] = Mul(Mul(Mul(p, tau), a), y)
            /\ term(b, k) = Mul(Mul(p, a), y)
        BY <3>1, <4>2, <4>3, <4>4
      <4> HIDE DEF p, y, G, term
      <4>6. Mul(Mul(Mul(p, tau), a), y) = Mul(Mul(Mul(p, a), y), tau)
        <5>1. Mul(Mul(p, tau), a) = Mul(Mul(p, a), tau) /\ Mul(p, a) \in Scalar
          BY <4>5, MulSwap, ScalarClosed
        <5> QED BY <4>5, <5>1, MulSwap
      <4> QED BY <4>5, <4>6
    <3> QED BY <3>2, <3>3
  <2>6. w[b - 1] = Total(r) /\ w[b] = Total(q)
    BY <1>7, <2>1
  <2> HIDE DEF G, r, s, q
  <2>7. Total(G) = Add(G[0], Total(r))
    BY <1>1, <2>2, <2>3, TotalFirst
  <2>8. Total(G) = Add(G[n], Total(s))
    BY <1>1, <2>2, <2>3, TotalLast
  <2>9. Total(s) = Mul(Total(q), tau)
    BY <1>1, <2>2, <2>5, TotalTimes
  <2>10. Total(r) \in Scalar /\ Total(q) \in Scalar
    BY <1>1, <2>2, TotalType
  <2>11. Mul(Total(q), tau) = Mul(tau, Total(q))
    BY <2>10, ScalarLaws
  <2> QED BY <2>3, <2>4, <2>6, <2>7, <2>8, <2>9, <2>10, <2>11, AddZero
<1> QED BY <1>3, <1>9, <1>10 DEF Quotient, Vec

(* open_all_values computes, for every root, the opening of f there: the    *)
(* quotient of f - f(tau) by X - tau.                                       *)
LEMMA OpeningIs ==
  ASSUME NEW tau \in Scalar, NEW a \in Scalar, NEW f, Vec(f, positions),
         NEW y, y = [k \in 0 .. 2 * n - 1 |-> Mul(column(tau)[k], a)], NEW j \in positions
  PROVE  /\ open_all_values(y, f)[j] \in Scalar
         /\ Mul(open_all_values(y, f)[j], Sub(el[j], tau))
              = Mul(Sub(Value(f, n - 1, el[j]), Value(f, n - 1, tau)), a)
<1> DEFINE N == 2 * n
           R == 0 .. N - 1
           d == n - 1
           u0 == [k \in R |-> IF k < n THEN Powers(tau)[n - 1 - k] ELSE Zero]
           u == [k \in R |-> Mul(u0[k], a)]
           v0 == [k \in 0 .. 2 * n - 1 |-> IF k <= n THEN Zero ELSE f[k - n]]
           v == Top!fft(v0)
           pr == [k \in 0 .. 2 * n - 1 |-> Mul(y[k], v[k])]
           h == Top!ifft(pr)
           w == [b \in R |-> Total([k \in R |-> Mul(u[k], v0[(b - k) % N])])]
           hh == [k \in positions |-> h[k]]
           g == [k \in positions |-> Mul(f[k], a)]
           e == el[j]
<1>1. /\ n \in Nat /\ N \in Nat \ {0} /\ d \in Nat /\ 0 .. d = positions /\ R = 0 .. 2 * n - 1
      /\ positions \in SUBSET R /\ IsFiniteSet(R) /\ IsFiniteSet(positions) /\ j \in Int
  BY Sizes, IntervalFinite
<1>2. open_all_values(y, f) = Domain!fft(hh)
  BY DEF open_all_values
<1>3. Vec(u0, R) /\ Padded(u0, descending(tau), N)
  <2>1. \A k \in positions : n - 1 - k \in Nat /\ k < n /\ k \in R
    BY <1>1
  <2>2. \A k \in positions : u0[k] = Powers(tau)[n - 1 - k]
    BY <2>1
  <2>3. \A k \in R : k \notin positions => u0[k] = Zero
    BY <1>1
  <2>4. Vec(u0, R)
    BY <2>1, <2>2, <2>3, PowersType, ScalarClosed DEF Vec
  <2>5. DOMAIN descending(tau) = positions /\ \A k \in positions : descending(tau)[k] = u0[k]
    BY <2>2 DEF descending
  <2> HIDE DEF u0
  <2> QED BY <1>1, <2>3, <2>4, <2>5 DEF Padded, Restricts, AllZero
<1>4. Dft(column(tau), u0, topel, N)
  <2> HIDE DEF u0
  <2> QED BY <1>3, TopFftIs DEF column
<1>5. ScaledBy(u, u0, a, R) /\ Falling(u, tau, a)
  <2>1. ScaledBy(u, u0, a, R)
    BY DEF ScaledBy
  <2>2. \A k \in 0 .. 2 * n - 1 : u[k] = IF k < n THEN Mul(Powers(tau)[n - 1 - k], a) ELSE Zero
    BY <1>1, MulZero
  <2> QED BY <2>1, <2>2 DEF Falling
<1>6. Behind(v0, f)
  BY DEF Behind
<1>7. ScaledBy(g, f, a, positions) /\ Vec(g, positions)
  BY ScalarClosed DEF ScaledBy, Vec
<1>8. Convolves(w, u, v0, N)
  BY <1>1 DEF Convolves
<1>9. DOMAIN v0 = R /\ DOMAIN pr = R /\ DOMAIN hh = positions
  BY <1>1
<1>10. ProductOf(pr, y, v, N)
  BY <1>1 DEF ProductOf
<1>11. \A k \in R : y[k] = Mul(column(tau)[k], a)
  BY <1>1
<1>12. \A k \in positions : hh[k] = h[k]
  OBVIOUS
<1> HIDE DEF w, u, v0, u0, g, pr, hh, v
<1>13. Vec(u, R) /\ Vec(v0, R) /\ Quotient(w, g, d, tau)
  BY <1>5, <1>6, <1>7, <1>8, Toeplitz
<1>14. Dft(y, u, topel, N)
  <2> SUFFICES ASSUME NEW k \in R
               PROVE  y[k] = Dot(R, u, Wave(topel, N, k))
    BY DEF Dft
  <2>1. k \in Int
    BY <1>1
  <2> DEFINE z == Wave(topel, N, k)
  <2>2. Vec(z, R)
    BY <2>1, RootsOfTop, WaveType
  <2>3. column(tau)[k] = Dot(R, u0, z)
    BY <1>4 DEF Dft
  <2> HIDE DEF z, R
  <2>4. Dot(R, u, z) = Mul(Dot(R, u0, z), a)
    BY <1>1, <1>3, <1>5, <2>2, DotTimes
  <2> QED BY <1>11, <2>3, <2>4 DEF z
<1>15. Padded(v0, v0, N)
  BY <1>9, <1>13 DEF Padded, Restricts, AllZero
<1>16. Dft(v, v0, topel, N)
  BY <1>15, TopFftIs DEF v
<1>17. \A k \in R : h[k] = w[k]
  <2> TAKE k \in R
  <2>1. h[k] = Mul(top_inv, Dot(0 .. 2 * n - 1, pr, Wave(topel, 2 * n, -k)))
    BY <1>1, <1>9, TopIfftIs
  <2>2. Mul(top_inv, Dot(0 .. N - 1, pr, Wave(topel, N, -k))) = w[k]
    BY <1>8, <1>10, <1>13, <1>14, <1>16, SteIsField, RootsOfTop, Convolution
  <2> QED BY <2>1, <2>2
<1>18. \A k \in positions : hh[k] = w[k]
  BY <1>1, <1>12, <1>17
<1>19. Vec(w, R)
  <2>1. 0 \in R
    BY <1>1
  <2>2. 0 \in 0 .. N - 1
    BY <1>1
  <2> QED BY <1>8, <1>13, <2>2, RootsOfTop, ConvolutionDft
<1>20. Vec(hh, 0 .. d) /\ Quotient(hh, g, d, tau)
  <2>1. Vec(hh, positions)
    BY <1>1, <1>18, <1>19 DEF Vec
  <2>2. d \in positions /\ \A k \in 1 .. d : k \in positions /\ k - 1 \in positions
    BY <1>1
  <2> QED BY <1>1, <1>13, <1>18, <2>1, <2>2 DEF Quotient
<1>21. Padded(hh, hh, n)
  <2>1. Vec(hh, 0 .. n - 1) /\ DOMAIN hh = 0 .. n - 1
    BY <1>1, <1>9, <1>20
  <2> QED BY <2>1 DEF Padded, Restricts, AllZero
<1>22. Dft(Domain!fft(hh), hh, el, n)
  BY <1>21, FftIs
<1>23. Domain!fft(hh)[j] = Value(hh, n - 1, e)
  <2>1. j \in 0 .. n - 1
    BY <1>1
  <2>2. Domain!fft(hh)[j] = Dot(0 .. n - 1, hh, Wave(el, n, j))
    BY <1>22, <2>1 DEF Dft
  <2> QED BY <1>1, <2>2, RootsOfDomain, ValueAtRoot
<1>24. e \in Scalar
  BY <1>1, RootsOfDomain, RootsType
<1>25. Vec(g, 0 .. d) /\ Vec(f, 0 .. d) /\ ScaledBy(g, f, a, 0 .. d) /\ IsFiniteSet(0 .. d)
  BY <1>1, <1>7
<1>26. Domain!fft(hh)[j] = Value(hh, d, e)
  BY <1>23
<1> HIDE DEF e, d
<1>27. Mul(Value(hh, d, e), Sub(e, tau)) = Sub(Value(g, d, e), Value(g, d, tau))
  BY <1>1, <1>20, <1>24, <1>25, ValueOfQuotient
<1>28. Value(hh, d, e) \in Scalar
  BY <1>1, <1>20, <1>24, ValueType
<1>29. ASSUME NEW x \in Scalar
       PROVE  Value(g, d, x) = Mul(Value(f, d, x), a) /\ Value(f, d, x) \in Scalar
  <2>1. Value(f, d, x) \in Scalar /\ Vec(Powers(x), 0 .. d)
    BY <1>1, <1>25, ValueType
  <2>2. Value(g, d, x) = Mul(Value(f, d, x), a)
    BY <1>25, <2>1, DotTimes DEF Value
  <2> QED BY <2>1, <2>2
<1>30. Sub(Value(g, d, e), Value(g, d, tau)) = Mul(Sub(Value(f, d, e), Value(f, d, tau)), a)
  BY <1>24, <1>29, MulSub
<1> QED BY <1>2, <1>26, <1>27, <1>28, <1>30 DEF d, e

LEMMA ColumnType ==
  ASSUME NEW tau \in Scalar
  PROVE  Vec(column(tau), 0 .. 2 * n - 1)
<1> DEFINE R == 0 .. 2 * n - 1
           u0 == [k \in R |-> IF k < n THEN Powers(tau)[n - 1 - k] ELSE Zero]
<1>1. \A k \in positions : n - 1 - k \in Nat /\ k < n /\ k \in R
  BY Sizes
<1>2. \A k \in positions : u0[k] = Powers(tau)[n - 1 - k]
  BY <1>1
<1>3. \A k \in R : k \notin positions => u0[k] = Zero
  BY Sizes
<1>4. Vec(u0, R)
  BY <1>1, <1>2, <1>3, PowersType, ScalarClosed DEF Vec
<1>5. DOMAIN descending(tau) = positions /\ \A k \in positions : descending(tau)[k] = u0[k]
  BY <1>2 DEF descending
<1> HIDE DEF u0
<1>6. Padded(u0, descending(tau), 2 * n)
  BY <1>1, <1>3, <1>4, <1>5 DEF Padded, Restricts, AllZero
<1>7. Dft(column(tau), u0, topel, 2 * n)
  BY <1>6, TopFftIs DEF column
<1> QED BY <1>4, <1>7, RootsOfTop, DftType

(* Both branches of over_z are one product.                                 *)
LEMMA OverZ ==
  ASSUME NEW i \in positions, NEW j \in positions, NEW tau, Usable(tau)
  PROVE  /\ over_z(i, j, tau)
              = Mul(inverse(vanish(tau)), Mul(Sub(lag(i, tau), lag(i, el[j])), lag(j, tau)))
         /\ over_z(i, j, tau) \in Scalar
         /\ Mul(over_z(i, j, tau), vanish(tau))
              = Mul(Sub(lag(i, tau), lag(i, el[j])), lag(j, tau))
         /\ lag(i, el[j]) \in Scalar /\ Sub(lag(i, tau), lag(i, el[j])) \in Scalar
<1> DEFINE L == lag(i, tau)
           M == lag(j, tau)
           d == lag(i, el[j])
           D == vanish(tau)
           p == IF i = j THEN Sub(Mul(L, L), L) ELSE Mul(L, M)
<1>1. L \in Scalar /\ M \in Scalar /\ D \in Scalar /\ inverse(D) \in Scalar
      /\ Mul(D, inverse(D)) = One
  BY UsableTau, LagrangeType
<1>2. d = IF i = j THEN One ELSE Zero
  BY LagrangeAtRoot
<1>3. p = Mul(Sub(L, d), M)
  <2>1. CASE i = j
    <3>1. p = Sub(Mul(L, L), L) /\ d = One /\ M = L
      BY <1>2, <2>1
    <3>2. Mul(Sub(L, One), L) = Sub(Mul(L, L), Mul(One, L)) /\ Mul(One, L) = L
      BY <1>1, MulSub, MulOne, ScalarClosed
    <3> QED BY <3>1, <3>2
  <2>2. CASE i # j
    <3>1. p = Mul(L, M) /\ d = Zero
      BY <1>2, <2>2
    <3>2. Sub(Add(L, Zero), Zero) = L /\ Add(L, Zero) = L
      BY <1>1, AddSub, AddZero, ScalarClosed
    <3> QED BY <3>1, <3>2
  <2> QED BY <2>1, <2>2
<1>4. d \in Scalar /\ Sub(L, d) \in Scalar
  BY <1>1, <1>2, ScalarClosed, SubClosed
<1>5. over_z(i, j, tau) = Mul(inverse(D), p)
  BY DEF over_z
<1> HIDE DEF p, L, M, d, D
<1>6. p \in Scalar /\ over_z(i, j, tau) \in Scalar
  BY <1>1, <1>3, <1>4, <1>5, ScalarClosed
<1>7. Mul(Mul(inverse(D), p), D) = p
  <2>1. Mul(Mul(inverse(D), p), D) = Mul(Mul(inverse(D), D), p)
    BY <1>1, <1>6, MulSwap
  <2>2. Mul(inverse(D), D) = One
    BY <1>1, ScalarLaws
  <2> QED BY <1>6, <2>1, <2>2, MulOne
<1> QED BY <1>3, <1>4, <1>5, <1>6, <1>7 DEF L, M, d, D

LEMMA OpeningsAgree ==
  ASSUME NEW tau, Usable(tau), NEW a \in Scalar, NEW y,
         y = [k \in 0 .. 2 * n - 1 |-> Mul(column(tau)[k], a)],
         NEW i \in positions, NEW j \in positions
  PROVE  Mul(open_all_values(y, lagrange_poly(i))[j], Mul(Domain!element(j), denom))
           = Mul(over_z(i, j, tau), a)
<1> DEFINE f == lagrange_poly(i)
           pi == open_all_values(y, f)[j]
           L == lag(i, tau)
           M == lag(j, tau)
           e == el[j]
           A == Sub(L, lag(i, e))
           t == Sub(tau, e)
           D == vanish(tau)
           v == inverse(D)
           W == Mul(n_inv, e)
           X == Mul(pi, W)
           Y == Mul(over_z(i, j, tau), a)
<1>1. /\ tau \in Scalar /\ L \in Scalar /\ M \in Scalar /\ e \in Scalar /\ n_inv \in Scalar
      /\ t \in Scalar /\ t # Zero /\ D \in Scalar /\ v \in Scalar /\ Mul(D, v) = One
      /\ e = Domain!element(j)
  <2>1. j \in Int
    BY Sizes
  <2> QED BY <2>1, UsableTau, LagrangeType, RootsOfDomain, RootsType DEF el
<1>2. Vec(f, positions)
  BY <1>1, LagrangeType
<1>3. pi \in Scalar /\ Mul(pi, Sub(e, tau)) = Mul(Sub(lag(i, e), L), a)
  <2> HIDE DEF f
  <2>1. /\ open_all_values(y, f)[j] \in Scalar
        /\ Mul(open_all_values(y, f)[j], Sub(el[j], tau))
              = Mul(Sub(Value(f, n - 1, el[j]), Value(f, n - 1, tau)), a)
    BY <1>1, <1>2, OpeningIs
  <2> QED BY <2>1 DEF lag, f
<1>4. over_z(i, j, tau) = Mul(v, Mul(A, M)) /\ lag(i, e) \in Scalar /\ A \in Scalar
      /\ over_z(i, j, tau) \in Scalar
  BY OverZ
<1>5. Mul(M, t) = Mul(n_inv, Mul(e, D))
  BY <1>1, LagrangeAway DEF vanish
<1>6. Mul(e, denom) = W
  BY <1>1, DenomIs, ScalarLaws
<1>7. Mul(pi, t) = Neg(Mul(pi, Sub(e, tau)))
  <2>1. t = Neg(Sub(e, tau)) /\ Sub(e, tau) \in Scalar
    BY <1>1, NegSub, SubClosed
  <2>2. Mul(t, pi) = Neg(Mul(Sub(e, tau), pi))
    BY <1>3, <2>1, NegMul
  <2> QED BY <1>1, <1>3, <2>1, <2>2, ScalarLaws
<1>8. Mul(pi, t) = Mul(A, a)
  <2>1. A = Neg(Sub(lag(i, e), L)) /\ Sub(lag(i, e), L) \in Scalar
    BY <1>1, <1>4, NegSub, SubClosed
  <2>2. Mul(A, a) = Neg(Mul(Sub(lag(i, e), L), a))
    BY <2>1, NegMul
  <2> QED BY <1>3, <1>7, <2>2
<1>9. pi \in Scalar
  BY <1>3
<1> HIDE DEF f, pi, L, M, e, A, t, D, v, W
<1>10. W \in Scalar /\ Mul(M, t) = Mul(W, D)
  BY <1>1, <1>5, ScalarClosed, ScalarLaws DEF W
<1>11. Mul(X, t) = Mul(Mul(A, a), W)
  BY <1>1, <1>8, <1>9, <1>10, MulSwap
<1>12. Mul(Mul(v, Mul(A, M)), t) = Mul(A, W)
  <2>1. Mul(Mul(v, Mul(A, M)), t) = Mul(v, Mul(Mul(A, M), t)) /\ Mul(A, M) \in Scalar
    BY <1>1, <1>4, ScalarClosed, ScalarLaws
  <2>2. Mul(Mul(A, M), t) = Mul(A, Mul(W, D))
    BY <1>1, <1>4, <1>10, ScalarLaws
  <2>3. Mul(A, Mul(W, D)) = Mul(Mul(A, W), D) /\ Mul(A, W) \in Scalar
    BY <1>1, <1>4, <1>10, ScalarClosed, ScalarLaws
  <2>4. Mul(v, Mul(Mul(A, W), D)) = Mul(Mul(A, W), Mul(v, D))
    BY <1>1, <2>3, MulMiddle
  <2>5. Mul(v, D) = One
    BY <1>1, ScalarLaws
  <2> QED BY <2>1, <2>2, <2>3, <2>4, <2>5, ScalarLaws
<1>13. Mul(Y, t) = Mul(Mul(A, W), a)
  <2>1. Mul(Mul(over_z(i, j, tau), a), t) = Mul(Mul(over_z(i, j, tau), t), a)
    BY <1>1, <1>4, MulSwap
  <2> QED BY <1>4, <1>12, <2>1
<1>14. Mul(Mul(A, a), W) = Mul(Mul(A, W), a)
  BY <1>4, <1>10, MulSwap
<1>15. X \in Scalar /\ Y \in Scalar /\ Mul(X, t) = Mul(Y, t)
  BY <1>4, <1>9, <1>10, <1>11, <1>13, <1>14, ScalarClosed
<1> HIDE DEF X, Y
<1>16. X = Y
  BY <1>1, <1>15, SteIsField, MulCancel
<1> QED BY <1>1, <1>6, <1>16 DEF X, Y, pi, f

(* Hints computed without the secret key are those computed with it.        *)
LEMMA HintsSame ==
  ASSUME NEW tau, Usable(tau), NEW r \in [chunks -> Scalar], NEW gamma,
         NEW z, CrsOf(z, tau, r, gamma), NEW key \in Scalar, NEW i \in positions
  PROVE  get_lag_public_key(get_pk(z, key), i) = get_lagrange_pk(z, key, i)
<1> DEFINE pk == get_pk(z, key)
           f == lagrange_poly(i)
           P == Powers(tau)
<1>1. /\ pk.bls_pk = scale(z.gen_g, key)
      /\ pk.hints = [c \in chunks |-> scale(z.powers_of_g[c], key)]
      /\ pk.y = [c \in chunks |-> scale(z.y[c], key)]
  BY DEF get_pk
<1>2. tau \in Scalar /\ n - 1 \in 0 .. n /\ n - 2 \in 0 .. n /\ n \in 0 .. n
      /\ positions = 0 .. n - 1 /\ n \in Nat
  BY UsableTau, Sizes
<1>a. \A c \in chunks : ChunkOf(z, tau, r[c], gamma, c)
  BY DEF CrsOf
<1>3. ASSUME NEW c \in chunks
      PROVE  /\ pk.hints[c] = [k \in 0 .. n |-> Mul(P[k], Mul(r[c], key))]
             /\ pk.y[c] = [k \in 0 .. 2 * n - 1 |-> Mul(column(tau)[k], Mul(r[c], key))]
             /\ r[c] \in Scalar /\ Mul(r[c], key) \in Scalar
  <2>1. r[c] \in Scalar /\ Mul(r[c], key) \in Scalar
    BY ScalarClosed
  <2>2. /\ z.powers_of_g[c] = [k \in 0 .. n |-> Mul(P[k], r[c])]
        /\ z.y[c] = [k \in 0 .. 2 * n - 1 |-> Mul(column(tau)[k], r[c])]
    <3>1. ChunkOf(z, tau, r[c], gamma, c)
      BY <1>a
    <3> QED BY <3>1 DEF ChunkOf
  <2>3. \A k \in 0 .. n : Mul(Mul(P[k], r[c]), key) = Mul(P[k], Mul(r[c], key))
    <3>1. \A k \in 0 .. n : P[k] \in Scalar
      BY <1>2, PowersType
    <3> QED BY <2>1, <3>1, ScalarLaws
  <2>4. \A k \in 0 .. 2 * n - 1 :
           Mul(Mul(column(tau)[k], r[c]), key) = Mul(column(tau)[k], Mul(r[c], key))
    <3>1. \A k \in 0 .. 2 * n - 1 : column(tau)[k] \in Scalar
      BY <1>2, ColumnType DEF Vec
    <3> QED BY <2>1, <3>1, ScalarLaws
  <2>5. pk.hints[c] = [k \in 0 .. n |-> Mul(Mul(P[k], r[c]), key)]
    <3> DEFINE v == z.powers_of_g[c]
    <3>1. pk.hints[c] = scale(v, key)
      BY <1>1
    <3> HIDE DEF P
    <3>2. scale(v, key) = [k \in 0 .. n |-> Mul(Mul(P[k], r[c]), key)]
      BY <2>2 DEF scale
    <3> QED BY <3>1, <3>2
  <2>6. pk.y[c] = [k \in 0 .. 2 * n - 1 |-> Mul(Mul(column(tau)[k], r[c]), key)]
    <3> DEFINE v == z.y[c]
    <3>1. pk.y[c] = scale(v, key)
      BY <1>1
    <3>2. scale(v, key) = [k \in 0 .. 2 * n - 1 |-> Mul(Mul(column(tau)[k], r[c]), key)]
      BY <2>2 DEF scale
    <3> QED BY <3>1, <3>2
  <2> QED BY <2>1, <2>3, <2>4, <2>5, <2>6
<1> HIDE DEF pk
<1>4. ASSUME NEW c \in chunks
      PROVE  msm(pk.hints[c], f) = Mul(z.li[c][i], key)
  <2> DEFINE a == Mul(r[c], key)
             p == pk.hints[c]
             d == n - 1
  <2>1. p = [k \in 0 .. n |-> Mul(Powers(tau)[k], a)] /\ a \in Scalar /\ r[c] \in Scalar
    BY <1>3
  <2>2. DOMAIN f = 0 .. d /\ Vec(f, 0 .. d) /\ d \in 0 .. n
    BY <1>2, LagrangeIs, LagrangeType
  <2>3. Value(f, d, tau) = lag(i, tau) /\ lag(i, tau) \in Scalar
    BY <1>2, LagrangeType DEF lag
  <2>4. z.li[c][i] = Mul(lag(i, tau), r[c])
    <3>1. ChunkOf(z, tau, r[c], gamma, c)
      BY <1>a
    <3> QED BY <3>1 DEF ChunkOf
  <2> HIDE DEF a, p, d, f
  <2>5. msm(p, f) = Mul(Value(f, d, tau), a)
    BY <1>2, <2>1, <2>2, CommitIs
  <2> QED BY <2>1, <2>3, <2>4, <2>5, ScalarLaws DEF p, a
<1>5. ASSUME NEW c \in chunks
      PROVE  msm(pk.hints[c], l_minus0(i)) = Mul(z.li_minus0[c][i], key)
  <2> DEFINE a == Mul(r[c], key)
             p == pk.hints[c]
             g == l_minus0(i)
             d == n
  <2>1. p = [k \in 0 .. n |-> Mul(Powers(tau)[k], a)] /\ a \in Scalar /\ r[c] \in Scalar
    BY <1>3
  <2>2. DOMAIN g = 0 .. d /\ Vec(g, 0 .. d) /\ d \in 0 .. n
    BY <1>2, LagrangeShifts
  <2>3. Value(g, d, tau) = minus0(i, tau) /\ minus0(i, tau) \in Scalar
    BY LagrangeShifts
  <2>4. z.li_minus0[c][i] = Mul(minus0(i, tau), r[c])
    <3>1. ChunkOf(z, tau, r[c], gamma, c)
      BY <1>a
    <3> QED BY <3>1 DEF ChunkOf
  <2> HIDE DEF a, p, d, g
  <2>5. msm(p, g) = Mul(Value(g, d, tau), a)
    BY <1>2, <2>1, <2>2, CommitIs
  <2> QED BY <2>1, <2>3, <2>4, <2>5, ScalarLaws DEF p, a, g
<1>6. ASSUME NEW c \in chunks
      PROVE  msm(pk.hints[c], l_x(i)) = Mul(z.li_x[c][i], key)
  <2> DEFINE a == Mul(r[c], key)
             p == pk.hints[c]
             g == l_x(i)
             d == n - 2
  <2>1. p = [k \in 0 .. n |-> Mul(Powers(tau)[k], a)] /\ a \in Scalar /\ r[c] \in Scalar
    BY <1>3
  <2>2. DOMAIN g = 0 .. d /\ Vec(g, 0 .. d) /\ d \in 0 .. n
    BY <1>2, LagrangeShifts
  <2>3. Value(g, d, tau) = over_x(i, tau) /\ over_x(i, tau) \in Scalar
    BY LagrangeShifts
  <2>4. z.li_x[c][i] = Mul(over_x(i, tau), r[c])
    <3>1. ChunkOf(z, tau, r[c], gamma, c)
      BY <1>a
    <3> QED BY <3>1 DEF ChunkOf
  <2> HIDE DEF a, p, d, g
  <2>5. msm(p, g) = Mul(Value(g, d, tau), a)
    BY <1>2, <2>1, <2>2, CommitIs
  <2> QED BY <2>1, <2>3, <2>4, <2>5, ScalarLaws DEF p, a, g
<1>7. ASSUME NEW c \in chunks
      PROVE  [j \in positions |-> Mul(open_all_values(pk.y[c], f)[j], Mul(Domain!element(j), denom))]
               = scale(z.li_lj_z[c][i], key)
  <2>1. z.li_lj_z[c][i] = [j \in positions |-> Mul(over_z(i, j, tau), r[c])]
    <3>1. ChunkOf(z, tau, r[c], gamma, c)
      BY <1>a
    <3> QED BY <3>1 DEF ChunkOf
  <2>2. ASSUME NEW j \in positions
        PROVE  Mul(open_all_values(pk.y[c], f)[j], Mul(Domain!element(j), denom))
                 = Mul(Mul(over_z(i, j, tau), r[c]), key)
    <3> DEFINE a == Mul(r[c], key)
               y == pk.y[c]
    <3>1. y = [k \in 0 .. 2 * n - 1 |-> Mul(column(tau)[k], a)] /\ a \in Scalar /\ r[c] \in Scalar
      BY <1>3
    <3>2. over_z(i, j, tau) \in Scalar
      BY OverZ
    <3> HIDE DEF a, y
    <3>3. Mul(open_all_values(y, lagrange_poly(i))[j], Mul(Domain!element(j), denom))
            = Mul(over_z(i, j, tau), a)
      BY <3>1, OpeningsAgree
    <3> QED BY <3>1, <3>2, <3>3, ScalarLaws DEF y, a
  <2>3. scale(z.li_lj_z[c][i], key)
          = [j \in positions |-> Mul(Mul(over_z(i, j, tau), r[c]), key)]
    BY <2>1 DEF scale
  <2> QED BY <2>2, <2>3
<1>8. get_lag_public_key(pk, i)
        = [bls_pk |-> scale(z.gen_g, key),
           sk_li |-> [c \in chunks |-> Mul(z.li[c][i], key)],
           sk_li_minus0 |-> [c \in chunks |-> Mul(z.li_minus0[c][i], key)],
           sk_li_x |-> [c \in chunks |-> Mul(z.li_x[c][i], key)],
           sk_li_lj_z |-> [c \in chunks |-> scale(z.li_lj_z[c][i], key)]]
  BY <1>1, <1>4, <1>5, <1>6, <1>7 DEF get_lag_public_key
<1> QED BY <1>8 DEF get_lagrange_pk, pk

-----------------------------------------------------------------------------
(* The polynomial of agg_dec                                                *)

degree(S) == n - Cardinality(S)
b_at(S, x) == Value(b_poly(S), degree(S), x)

(* b has degree n - |S|, is one at zero, and vanishes at just the roots     *)
(* that are not in S.                                                       *)
LEMMA BPoly ==
  ASSUME NEW S \in SUBSET positions
  PROVE  /\ degree(S) \in Nat /\ degree(S) \in 0 .. n /\ IsFiniteSet(S)
         /\ S # {} => degree(S) <= n - 1
         /\ DOMAIN b_poly(S) = 0 .. degree(S) /\ Vec(b_poly(S), 0 .. degree(S))
         /\ b_poly(S)[0] = One
         /\ \A x \in Scalar : b_at(S, x) \in Scalar
         /\ \A i \in positions : b_at(S, el[i]) = Zero <=> i \notin S
<1> DEFINE P == positions \ S
           d == degree(S)
           V == vanishing(P)
           F(x) == [i \in positions |-> Sub(x, el[i])]
           v == inverse(V[0])
           b == b_poly(S)
<1>1. /\ IsFiniteSet(S) /\ d \in Nat /\ d <= n /\ (S # {} => d <= n - 1)
      /\ Cardinality(P) = d /\ P \in SUBSET positions /\ IsFiniteSet(P)
  <2>1. IsFiniteSet(positions) /\ Cardinality(positions) = n /\ n \in Nat
    <3>1. 0 \in Int /\ n - 1 \in Int /\ ~(0 > n - 1) /\ positions = 0 .. n - 1
      BY Sizes
    <3>2. Cardinality(0 .. n - 1) = (n - 1) - 0 + 1 /\ IsFiniteSet(0 .. n - 1)
      BY <3>1, FS_Interval
    <3> QED BY <3>1, <3>2, Sizes
  <2>2. IsFiniteSet(S) /\ Cardinality(S) <= n
    BY <2>1, FS_Subset
  <2>3. Cardinality(S) \in Nat /\ (Cardinality(S) = 0 <=> S = {})
    BY <2>2, FS_CardinalityType, FS_EmptySet
  <2>4. positions \cap S = S
    OBVIOUS
  <2>5. IsFiniteSet(P) /\ Cardinality(P) = n - Cardinality(S)
    BY <2>1, <2>4, FS_Difference
  <2> QED BY <2>1, <2>2, <2>3, <2>5 DEF degree
<1>2. /\ V \in [0 .. d -> Scalar]
      /\ \A x \in Scalar : Value(V, d, x) = Times(F(x), P)
  <2> HIDE DEF P, V, d
  <2>1. Monic(V, P)
    BY <1>1, VanishingIs DEF V
  <2> QED BY <1>1, <2>1 DEF Monic
<1>3. Vec(V, 0 .. d) /\ 0 \in 0 .. d /\ IsFiniteSet(0 .. d)
  <2>1. 0 \in Int /\ d \in Int /\ 0 \in 0 .. d
    <3> HIDE DEF d
    <3> QED BY <1>1
  <2>2. IsFiniteSet(0 .. d)
    <3> HIDE DEF d
    <3> QED BY <2>1, FS_Interval
  <2>3. Vec(V, 0 .. d)
    <3> DEFINE R == 0 .. d
    <3>1. V \in [R -> Scalar]
      BY <1>2
    <3> HIDE DEF V, R, d
    <3>2. Vec(V, R)
      BY <3>1 DEF Vec
    <3> QED BY <3>2 DEF R
  <2> QED BY <2>1, <2>2, <2>3
<1>4. \A i \in positions : el[i] \in Scalar /\ el[i] # Zero
  <2> TAKE i \in positions
  <2>1. i \in Int /\ -i \in Int
    BY Sizes
  <2>2. el[i] \in Scalar /\ el[-i] \in Scalar
    BY <2>1, RootsOfDomain, RootsType
  <2>3. Mul(el[i], el[-i]) = One
    BY <2>1, RootsOfDomain, RootInverse
  <2>4. One # Zero
    BY SteIsField DEF IsField
  <2> QED BY <2>2, <2>3, <2>4, MulZero
<1>5. \A x \in Scalar : Vec(F(x), positions)
  BY FactorsVec
<1>6. ASSUME NEW x \in Scalar
      PROVE  Value(V, d, x) = Zero <=> \E e \in P : Sub(x, el[e]) = Zero
  <2> DEFINE f == F(x)
  <2>1. Vec(f, P)
    BY <1>1, <1>5 DEF Vec
  <2>2. \A e \in P : f[e] = Sub(x, el[e])
    BY <1>1
  <2>3. Value(V, d, x) = Times(f, P)
    BY <1>2
  <2>4. Times(f, P) = Zero <=> \E e \in P : f[e] = Zero
    <3> HIDE DEF f, P
    <3> QED BY <1>1, <2>1, SteIsField, TimesZero
  <2> QED BY <2>2, <2>3, <2>4
<1>7. V[0] \in Scalar /\ V[0] # Zero
  <2>1. Value(V, d, Zero) = V[0]
    <3> HIDE DEF V, d
    <3> QED BY <1>1, <1>3, ValueAtZero
  <2>2. \A e \in P : Sub(Zero, el[e]) # Zero
    <3> TAKE e \in P
    <3>1. el[e] \in Scalar /\ el[e] # Zero
      BY <1>4
    <3> QED BY <3>1, SubZero, ScalarClosed
  <2> QED BY <1>2, <1>3, <1>6, <2>1, <2>2, ScalarClosed
<1>8. v \in Scalar /\ Mul(V[0], v) = One /\ v # Zero
  <2>1. One # Zero
    BY SteIsField DEF IsField
  <2> QED BY <1>7, <2>1, InverseIs, MulZero
<1>9. b = scale(V, v)
  BY DEF b_poly, interp_mostly_zero
<1>10. DOMAIN b = 0 .. d /\ ScaledBy(b, V, v, 0 .. d) /\ b[0] = One
  <2> HIDE DEF V, v, b, d
  <2> QED BY <1>2, <1>3, <1>8, <1>9 DEF scale, ScaledBy
<1>11. Vec(b, 0 .. d)
  <2> HIDE DEF V, v, b, d
  <2> QED BY <1>3, <1>8, <1>10, ScalarClosed DEF ScaledBy, Vec
<1>12. \A x \in Scalar : b_at(S, x) = Mul(Value(V, d, x), v) /\ Value(V, d, x) \in Scalar
  <2> TAKE x \in Scalar
  <2> HIDE DEF V, v, b, d
  <2>1. Value(V, d, x) \in Scalar /\ Vec(Powers(x), 0 .. d)
    BY <1>1, <1>3, ValueType
  <2>2. Value(b, d, x) = Mul(Value(V, d, x), v)
    BY <1>3, <1>8, <1>10, <2>1, DotTimes DEF Value
  <2> QED BY <2>1, <2>2 DEF b_at, b, d
<1>13. \A x \in Scalar : b_at(S, x) \in Scalar
  <2> TAKE x \in Scalar
  <2> DEFINE w == Value(V, d, x)
  <2>1. w \in Scalar /\ b_at(S, x) = Mul(w, v)
    BY <1>12
  <2> HIDE DEF w, v
  <2> QED BY <1>8, <2>1, ScalarClosed
<1>14. \A i \in positions : b_at(S, el[i]) = Zero <=> i \notin S
  <2> TAKE i \in positions
  <2>1. b_at(S, el[i]) = Zero <=> Value(V, d, el[i]) = Zero
    <3>1. Value(V, d, el[i]) \in Scalar /\ b_at(S, el[i]) = Mul(Value(V, d, el[i]), v)
      BY <1>4, <1>12
    <3> DEFINE w == Value(V, d, el[i])
    <3>2. w \in Scalar /\ b_at(S, el[i]) = Mul(w, v)
      BY <3>1
    <3> HIDE DEF w, v
    <3>3. Mul(w, v) = Zero => w = Zero
      <4> SUFFICES ASSUME Mul(w, v) = Zero, w # Zero
                   PROVE  FALSE
        OBVIOUS
      <4>1. v = Zero
        BY <1>8, <3>2, SteIsField, NoZeroDivisors
      <4> QED BY <1>8, <4>1
    <3>4. Mul(Zero, v) = Zero
      BY <1>8, MulZero
    <3> QED BY <3>2, <3>3, <3>4 DEF w
  <2>2. Value(V, d, el[i]) = Zero <=> \E e \in P : Sub(el[i], el[e]) = Zero
    BY <1>4, <1>6
  <2>3. \A e \in P : Sub(el[i], el[e]) = Zero <=> e = i
    <3> TAKE e \in P
    <3>1. e \in positions
      OBVIOUS
    <3>2. CASE e = i
      BY <1>4, <3>2, SubSelf
    <3>3. CASE e # i
      <4>1. lag(i, el[i]) = One /\ lag(i, el[e]) = Zero /\ One # Zero
        BY <3>1, <3>3, LagrangeAtRoot, SteIsField DEF IsField
      <4>2. el[i] # el[e]
        BY <4>1
      <4> QED BY <1>4, <3>1, <3>3, <4>2, SubZero
    <3> QED BY <3>2, <3>3
  <2> QED BY <2>1, <2>2, <2>3
<1> QED BY <1>1, <1>10, <1>11, <1>13, <1>14

(* What agg_dec weights the selected parties with (decryption.rs:46-50).    *)
evals(S) == Domain!fft([k \in DOMAIN b_poly(S) \cap positions |-> b_poly(S)[k]])

(* These are the values of b at the roots of unity, unless nobody is        *)
(* selected, and interpolate b from those selected alone.                   *)
LEMMA Evals ==
  ASSUME NEW S \in SUBSET positions
  PROVE  /\ Vec(evals(S), positions)
         /\ S # {} => /\ \A i \in positions : evals(S)[i] = Zero <=> i \notin S
                      /\ \A x \in Scalar :
                           b_at(S, x) = Dot(S, evals(S), [i \in positions |-> lag(i, x)])
<1> DEFINE b == b_poly(S)
           d == degree(S)
           a == [k \in DOMAIN b \cap positions |-> b[k]]
           u == [k \in positions |-> IF k \in DOMAIN b THEN b[k] ELSE Zero]
           y == evals(S)
<1>1. /\ d \in Nat /\ d \in 0 .. n /\ (S # {} => d <= n - 1)
      /\ DOMAIN b = 0 .. d /\ Vec(b, 0 .. d)
  BY BPoly
<1>2. positions = 0 .. n - 1 /\ IsFiniteSet(positions) /\ n \in Nat /\ n >= 2 /\ n - 1 \in Nat
  BY Sizes
<1>3. Vec(u, positions)
  <2> HIDE DEF b, d
  <2> QED BY <1>1, ScalarClosed DEF Vec
<1>4. Padded(u, a, n)
  <2>1. DOMAIN a = DOMAIN b \cap positions
    OBVIOUS
  <2>2. Restricts(u, a, DOMAIN a) /\ AllZero(u, positions \ DOMAIN a)
    <3> HIDE DEF b
    <3> QED BY <2>1 DEF Restricts, AllZero
  <2>3. DOMAIN a \in SUBSET positions
    BY <2>1
  <2> HIDE DEF u, a, b
  <2> QED BY <1>2, <1>3, <2>2, <2>3 DEF Padded
<1>5. Dft(y, u, el, n)
  <2> HIDE DEF u
  <2> QED BY <1>4, FftIs DEF evals
<1>6. Vec(y, positions)
  <2> HIDE DEF u, y
  <2> QED BY <1>2, <1>3, <1>5, RootsOfDomain, DftType
<1>7. ASSUME S # {}
      PROVE  /\ \A i \in positions : y[i] = Zero <=> i \notin S
             /\ \A x \in Scalar : b_at(S, x) = Dot(S, y, [i \in positions |-> lag(i, x)])
  <2>1. Restricts(u, b, 0 .. d) /\ AllZero(u, (0 .. n - 1) \ (0 .. d)) /\ d <= n - 1
    <3> HIDE DEF b, d
    <3>1. d <= n - 1 /\ d \in Nat /\ n - 1 \in Nat
      BY <1>1, <1>2, <1>7
    <3>2. 0 .. d \subseteq positions
      BY <1>2, <3>1
    <3> QED BY <1>1, <1>2, <3>1, <3>2 DEF Restricts, AllZero
  <2>2. ASSUME NEW x \in Scalar
        PROVE  Value(u, n - 1, x) = b_at(S, x)
    <3> DEFINE m == n - 1
    <3>1. m \in Nat /\ d <= m /\ Restricts(u, b, 0 .. d) /\ AllZero(u, (0 .. m) \ (0 .. d))
      BY <1>2, <2>1
    <3> HIDE DEF m, u, b, d
    <3>2. Value(u, m, x) = Value(b, d, x)
      BY <1>1, <3>1, ValuePadded
    <3> QED BY <3>2 DEF m, b_at, b, d
  <2>3. ASSUME NEW i \in positions
        PROVE  y[i] = Zero <=> i \notin S
    <3>1. i \in Int /\ i \in 0 .. n - 1
      BY <1>2
    <3>2. el[i] \in Scalar
      BY <3>1, RootsOfDomain, RootsType
    <3> HIDE DEF u, y
    <3>3. y[i] = Dot(0 .. n - 1, u, Wave(el, n, i))
      BY <1>5, <3>1 DEF Dft
    <3>4. Value(u, n - 1, el[i]) = Dot(0 .. n - 1, u, Wave(el, n, i))
      BY <3>1, RootsOfDomain, ValueAtRoot
    <3>5. y[i] = b_at(S, el[i])
      BY <2>2, <3>2, <3>3, <3>4
    <3> QED BY <3>5, BPoly
  <2>4. ASSUME NEW x \in Scalar
        PROVE  b_at(S, x) = Dot(S, y, [i \in positions |-> lag(i, x)])
    <3> DEFINE q == [i \in positions |-> lag(i, x)]
    <3> HIDE DEF u, y, q
    <3>0. q = [i \in positions |-> lag(i, x)]
      BY DEF q
    <3>1. Dot(positions, y, q) = Value(u, n - 1, x) /\ Vec(q, positions)
      BY <1>3, <1>5, <3>0, Interpolation
    <3>2. AllZero(y, positions \ S)
      BY <2>3 DEF AllZero
    <3>3. Dot(positions, y, q) = Dot(S, y, q)
      <4>1. IsFiniteSet(positions) /\ S \in SUBSET positions
        BY <1>2
      <4>2. Vec(y, positions) /\ Vec(q, positions)
        BY <1>6, <3>1
      <4> QED BY <3>2, <4>1, <4>2, DotSubset
    <3> QED BY <2>2, <3>1, <3>3 DEF q
  <2> QED BY <2>3, <2>4
<1> QED BY <1>6, <1>7

-----------------------------------------------------------------------------
(* The pairing equation of agg_dec                                          *)

LEMMA SumOfSix ==
  ASSUME NEW f \in [0 .. 5 -> Scalar]
  PROVE  Total(f) = Add(f[5], Add(f[4], Add(f[3], Add(f[2], Add(f[1], f[0])))))
<1> DEFINE r(m) == [k \in 0 .. m |-> f[k]]
<1>1. ASSUME NEW m \in 1 .. 5
      PROVE  Total(r(m)) = Add(f[m], Total(r(m - 1)))
  <2> DEFINE R == 0 .. m - 1
             g == r(m)
             h == r(m - 1)
  <2>1. m \in Nat /\ R = 0 .. m - 1 /\ g \in [0 .. m -> Scalar] /\ h \in [R -> Scalar]
        /\ g[m] = f[m]
    OBVIOUS
  <2>2. Restricts(h, g, R)
    BY DEF Restricts
  <2> HIDE DEF R, g, h
  <2>3. Total(g) = Add(g[m], Total(h))
    BY <2>1, <2>2, TotalLast
  <2> QED BY <2>1, <2>3 DEF g, h
<1>2. Total(r(0)) = f[0]
  <2> DEFINE T == 0 .. 0
             g == r(0)
  <2>1. g \in [T -> Scalar] /\ 0 \in T /\ g[0] = f[0]
    OBVIOUS
  <2>2. IsFiniteSet(T)
    <3>1. T = {0}
      OBVIOUS
    <3> QED BY <3>1, FS_Singleton
  <2>3. AllZero(g, T \ {0})
    BY DEF AllZero
  <2> HIDE DEF T, g
  <2>4. Total(g) = g[0]
    BY <2>1, <2>2, <2>3, TotalSingle
  <2> QED BY <2>1, <2>4 DEF g
<1>3. r(5) = f
  OBVIOUS
<1>4. Total(r(5)) = Add(f[5], Total(r(4))) /\ Total(r(4)) = Add(f[4], Total(r(3)))
  <2>1. Total(r(5)) = Add(f[5], Total(r(5 - 1))) /\ Total(r(4)) = Add(f[4], Total(r(4 - 1)))
    BY <1>1
  <2> QED BY <2>1
<1>5. Total(r(3)) = Add(f[3], Total(r(2))) /\ Total(r(2)) = Add(f[2], Total(r(1)))
  <2>1. Total(r(3)) = Add(f[3], Total(r(3 - 1))) /\ Total(r(2)) = Add(f[2], Total(r(2 - 1)))
    BY <1>1
  <2> QED BY <2>1
<1>6. Total(r(1)) = Add(f[1], Total(r(0)))
  <2>1. Total(r(1)) = Add(f[1], Total(r(1 - 1)))
    BY <1>1
  <2> QED BY <2>1
<1> HIDE DEF r
<1> QED BY <1>2, <1>3, <1>4, <1>5, <1>6

(* The pairing of x, to the base a, with y and a nonce w, to the base p.    *)
Paired(x, y, w, a, p) == Mul(Mul(Mul(x, y), w), Mul(a, p))

LEMMA PairingFactors ==
  ASSUME NEW x \in Scalar, NEW y \in Scalar, NEW w \in Scalar, NEW a \in Scalar, NEW p \in Scalar
  PROVE  /\ Mul(Mul(x, a), Mul(Mul(y, p), w)) = Paired(x, y, w, a, p)
         /\ Mul(Neg(Mul(x, a)), Mul(Mul(y, p), w)) = Neg(Paired(x, y, w, a, p))
         /\ Paired(x, y, w, a, p) \in Scalar
<1> DEFINE q == Mul(y, p)
           xy == Mul(x, y)
<1>1. q \in Scalar /\ Mul(q, w) \in Scalar /\ xy \in Scalar /\ Mul(xy, w) \in Scalar
      /\ Mul(a, p) \in Scalar /\ Mul(a, q) \in Scalar /\ Mul(y, w) \in Scalar
      /\ Mul(a, Mul(q, w)) \in Scalar
  BY ScalarClosed
<1>2. Mul(Mul(x, a), Mul(q, w)) = Mul(x, Mul(a, Mul(q, w)))
  <2> HIDE DEF q
  <2> QED BY <1>1, ScalarLaws
<1>3. Mul(a, Mul(q, w)) = Mul(Mul(a, q), w)
  <2> HIDE DEF q
  <2> QED BY <1>1, ScalarLaws
<1>4. Mul(a, q) = Mul(y, Mul(a, p))
  BY MulMiddle
<1>5. Mul(Mul(y, Mul(a, p)), w) = Mul(Mul(y, w), Mul(a, p))
  BY <1>1, MulSwap
<1>6. Mul(x, Mul(Mul(y, w), Mul(a, p))) = Mul(Mul(x, Mul(y, w)), Mul(a, p))
  BY <1>1, ScalarLaws
<1>7. Mul(x, Mul(y, w)) = Mul(xy, w)
  BY <1>1, ScalarLaws
<1>8. Mul(Mul(xy, w), Mul(a, p)) \in Scalar
  <2> HIDE DEF xy
  <2> QED BY <1>1, ScalarClosed
<1>9. Mul(Mul(x, a), Mul(q, w)) = Paired(x, y, w, a, p)
  BY <1>2, <1>3, <1>4, <1>5, <1>6, <1>7 DEF Paired
<1>10. Mul(Neg(Mul(x, a)), Mul(q, w)) = Neg(Mul(Mul(x, a), Mul(q, w)))
  <2> DEFINE u == Mul(x, a)
             v == Mul(q, w)
  <2>1. u \in Scalar /\ v \in Scalar
    BY <1>1, ScalarClosed
  <2> HIDE DEF u, v
  <2>2. Mul(Neg(u), v) = Neg(Mul(u, v))
    BY <2>1, NegMul
  <2> QED BY <2>2 DEF u, v
<1> QED BY <1>8, <1>9, <1>10 DEF Paired

LEMMA NegCancel == \A a, b \in Scalar : Add(Neg(a), Add(a, b)) = b
<1> TAKE a, b \in Scalar
<1>1. Neg(a) \in Scalar /\ Add(Neg(a), a) = Zero
  BY ScalarClosed, ScalarLaws
<1>2. Add(Neg(a), Add(a, b)) = Add(Add(Neg(a), a), b)
  BY <1>1, ScalarLaws
<1> QED BY <1>1, <1>2, AddZero

(* Of the eight pairings only the one with the message's mask is left.      *)
Cancels(m, err, six, y, sigma) == Add(six, Add(y, sigma)) = Add(m, err)

LEMMA PairingsCancel ==
  ASSUME NEW a0 \in Scalar, NEW a2 \in Scalar, NEW z0 \in Scalar, NEW f0 \in Scalar,
         NEW h1 \in Scalar, NEW t3 \in Scalar, NEW g4 \in Scalar, NEW m \in Scalar,
         NEW err \in Scalar,
         NEW six, six = Add(Neg(g4), Add(Neg(t3), Add(h1, Add(Neg(Add(f0, h1)),
                          Add(Neg(z0), Neg(Add(a0, a2))))))),
         NEW y, y = Add(Add(z0, Add(f0, a0)), Add(t3, Add(g4, m))),
         NEW sigma, sigma = Add(a2, err)
  PROVE  Cancels(m, err, six, y, sigma)
<1> DEFINE r5 == Add(m, err)
           r4 == Add(g4, r5)
           r3 == Add(t3, r4)
           r2 == Add(f0, r3)
           r1 == Add(z0, r2)
           r0 == Add(Add(a0, a2), r1)
           x0 == Neg(Add(a0, a2))
           x1 == Add(Neg(z0), x0)
           x2 == Add(Neg(Add(f0, h1)), x1)
           x3 == Add(h1, x2)
           x4 == Add(Neg(t3), x3)
<1>1. r5 \in Scalar /\ r4 \in Scalar /\ r3 \in Scalar /\ r2 \in Scalar /\ r1 \in Scalar
      /\ r0 \in Scalar /\ Add(a0, a2) \in Scalar /\ Add(f0, h1) \in Scalar
  BY ScalarClosed
<1>2. x0 \in Scalar /\ x1 \in Scalar /\ x2 \in Scalar /\ x3 \in Scalar /\ x4 \in Scalar
      /\ Neg(z0) \in Scalar /\ Neg(Add(f0, h1)) \in Scalar /\ Neg(t3) \in Scalar
      /\ Neg(g4) \in Scalar /\ Neg(h1) \in Scalar
  BY <1>1, ScalarClosed
<1>3. Add(y, sigma) = r0
  <2> DEFINE u == Add(t3, Add(g4, m))
             v == Add(f0, a0)
             s == Add(u, sigma)
  <2>1. u \in Scalar /\ v \in Scalar /\ sigma \in Scalar /\ s \in Scalar /\ Add(g4, m) \in Scalar
        /\ Add(z0, v) \in Scalar /\ Add(v, s) \in Scalar
    BY ScalarClosed
  <2>2. Add(y, sigma) = Add(z0, Add(v, s))
    <3>1. y = Add(Add(z0, v), u)
      OBVIOUS
    <3> HIDE DEF u, v
    <3>2. Add(y, sigma) = Add(Add(z0, v), s)
      BY <2>1, <3>1, ScalarLaws
    <3> QED BY <2>1, <3>2, ScalarLaws
  <2>3. s = Add(a2, r3)
    <3>1. s = Add(a2, Add(u, err))
      <4> HIDE DEF u
      <4> QED BY <2>1, AddMiddle
    <3>2. Add(u, err) = Add(t3, Add(Add(g4, m), err))
      BY <2>1, ScalarLaws
    <3>3. Add(Add(g4, m), err) = Add(g4, Add(m, err))
      BY ScalarLaws
    <3> QED BY <3>1, <3>2, <3>3
  <2>4. Add(v, s) = Add(Add(a0, a2), r2)
    <3> HIDE DEF r3, r2, s
    <3>1. Add(v, s) = Add(Add(a0, f0), Add(a2, r3))
      BY <2>3, ScalarLaws
    <3>2. Add(Add(a0, f0), Add(a2, r3)) = Add(Add(a0, a2), Add(f0, r3))
      BY <1>1, AddSwap
    <3> QED BY <3>1, <3>2 DEF r2
  <2> HIDE DEF r2, v, s
  <2>5. Add(z0, Add(Add(a0, a2), r2)) = Add(Add(a0, a2), Add(z0, r2))
    BY <1>1, AddMiddle
  <2> QED BY <2>2, <2>4, <2>5
<1>4. six = Add(Neg(g4), x4)
  OBVIOUS
<1> HIDE DEF r0
<1>5. Add(six, r0) = Add(Neg(g4), Add(x4, r0))
  <2> HIDE DEF x4
  <2> QED BY <1>1, <1>2, <1>4, ScalarLaws
<1>6. Add(x4, r0) = Add(Neg(t3), Add(x3, r0))
  <2> HIDE DEF x3
  <2> QED BY <1>1, <1>2, ScalarLaws
<1>7. Add(x3, r0) = Add(h1, Add(x2, r0))
  <2> HIDE DEF x2
  <2> QED BY <1>1, <1>2, ScalarLaws
<1>8. Add(x2, r0) = Add(Neg(Add(f0, h1)), Add(x1, r0))
  <2> HIDE DEF x1
  <2> QED BY <1>1, <1>2, ScalarLaws
<1>9. Add(x1, r0) = Add(Neg(z0), Add(x0, r0))
  <2> HIDE DEF x0
  <2> QED BY <1>1, <1>2, ScalarLaws
<1>10. Add(x0, r0) = r1
  <2> HIDE DEF r1
  <2> QED BY <1>1, NegCancel DEF r0
<1>11. Add(Neg(z0), r1) = r2
  <2> HIDE DEF r2
  <2> QED BY <1>1, NegCancel
<1>12. Add(Neg(Add(f0, h1)), r2) = Add(Neg(h1), r3)
  <2> HIDE DEF r3
  <2>1. Neg(Add(f0, h1)) = Add(Neg(h1), Neg(f0)) /\ Neg(f0) \in Scalar
    BY NegAdd, ScalarLaws, ScalarClosed
  <2>2. Add(Add(Neg(h1), Neg(f0)), Add(f0, r3)) = Add(Neg(h1), Add(Neg(f0), Add(f0, r3)))
    BY <1>1, <1>2, <2>1, ScalarLaws
  <2>3. Add(Neg(f0), Add(f0, r3)) = r3
    BY <1>1, NegCancel
  <2> QED BY <2>1, <2>2, <2>3
<1>13. Add(h1, Add(Neg(h1), r3)) = r3
  <2> HIDE DEF r3
  <2>1. Add(h1, Add(Neg(h1), r3)) = Add(Neg(h1), Add(h1, r3))
    BY <1>1, <1>2, AddMiddle
  <2> QED BY <1>1, <2>1, NegCancel
<1>14. Add(Neg(t3), r3) = r4
  <2> HIDE DEF r4
  <2> QED BY <1>1, NegCancel
<1>15. Add(Neg(g4), r4) = r5
  <2> HIDE DEF r5
  <2> QED BY <1>1, NegCancel
<1> HIDE DEF x0, x1, x2, x3, x4, r1, r2, r3, r4
<1>16. Add(six, Add(y, sigma)) = Add(m, err)
  BY <1>3, <1>5, <1>6, <1>7, <1>8, <1>9, <1>10, <1>11, <1>12, <1>13, <1>14, <1>15
<1> QED BY <1>16 DEF Cancels

(* What agg_dec adds up over the selected parties, but for the base: key is *)
(* the vector of secret keys, at positions below len.                       *)
Weighted(S, u) == Dot(S, u, evals(S))
by_lag(S, key, tau) == [i \in S |-> Mul(lag(i, tau), key[i])]
by_x(S, key, tau) == [i \in S |-> Mul(over_x(i, tau), key[i])]
by_0(S, key, tau) == [i \in S |-> Mul(minus0(i, tau), key[i])]
row_z(i, key, tau, len) == [j \in 0 .. len - 1 |-> Mul(over_z(j, i, tau), key[j])]
by_z(S, key, tau, len) == [i \in S |-> Total(row_z(i, key, tau, len))]

LEMMA WeightedType ==
  ASSUME NEW S \in SUBSET positions, NEW u, Vec(u, S)
  PROVE  Weighted(S, u) \in Scalar /\ Vec(evals(S), S) /\ IsFiniteSet(S)
<1>1. IsFiniteSet(S)
  BY BPoly
<1>2. Vec(evals(S), S)
  BY Evals DEF Vec
<1> QED BY <1>1, <1>2, DotType DEF Weighted

LEMMA WeightsType ==
  ASSUME NEW tau, Usable(tau), NEW len \in 1 .. n, NEW S \in SUBSET (0 .. len - 1),
         NEW key, Vec(key, 0 .. len - 1)
  PROVE  /\ Vec(by_lag(S, key, tau), S) /\ Vec(by_x(S, key, tau), S)
         /\ Vec(by_0(S, key, tau), S) /\ Vec(by_z(S, key, tau, len), S)
         /\ Vec(key, S) /\ S \in SUBSET positions
         /\ \A i \in positions : Vec(row_z(i, key, tau, len), 0 .. len - 1)
<1>1. S \in SUBSET positions /\ 0 .. len - 1 \subseteq positions /\ Vec(key, S)
      /\ IsFiniteSet(0 .. len - 1)
  <2>1. positions = 0 .. n - 1 /\ n \in Nat /\ len \in Nat /\ len <= n /\ len - 1 \in Int /\ 0 \in Int
    BY Sizes
  <2>2. IsFiniteSet(0 .. len - 1)
    <3> DEFINE e == len - 1
    <3>1. 0 \in Int /\ e \in Int
      BY <2>1
    <3> HIDE DEF e
    <3>2. IsFiniteSet(0 .. e)
      BY <3>1, FS_Interval
    <3> QED BY <3>2 DEF e
  <2> QED BY <2>1, <2>2 DEF Vec
<1>2. ASSUME NEW i \in S
      PROVE  /\ by_lag(S, key, tau)[i] \in Scalar /\ by_x(S, key, tau)[i] \in Scalar
             /\ by_0(S, key, tau)[i] \in Scalar
  <2>1. i \in positions /\ tau \in Scalar /\ key[i] \in Scalar
    BY <1>1, UsableTau DEF Vec
  <2>2. lag(i, tau) \in Scalar /\ over_x(i, tau) \in Scalar /\ minus0(i, tau) \in Scalar
    BY <2>1, LagrangeType, LagrangeShifts
  <2> QED BY <2>1, <2>2, ScalarClosed DEF by_lag, by_x, by_0
<1>3. ASSUME NEW i \in positions
      PROVE  Vec(row_z(i, key, tau, len), 0 .. len - 1)
  <2>1. ASSUME NEW j \in 0 .. len - 1
        PROVE  row_z(i, key, tau, len)[j] \in Scalar
    <3>1. j \in positions /\ key[j] \in Scalar
      BY <1>1 DEF Vec
    <3>2. over_z(j, i, tau) \in Scalar
      BY <3>1, OverZ
    <3> QED BY <3>1, <3>2, ScalarClosed DEF row_z
  <2> QED BY <2>1 DEF Vec
<1>4. ASSUME NEW i \in S
      PROVE  by_z(S, key, tau, len)[i] \in Scalar
  <2> DEFINE R == 0 .. len - 1
             f == row_z(i, key, tau, len)
  <2>1. Vec(f, R) /\ IsFiniteSet(R)
    BY <1>1, <1>3
  <2>2. f \in [R -> Scalar]
    <3>1. f = [j \in R |-> f[j]]
      BY DEF row_z
    <3> HIDE DEF f, R
    <3> QED BY <2>1, <3>1 DEF Vec
  <2> HIDE DEF f, R
  <2>3. Total(f) \in Scalar
    BY <2>1, <2>2, TotalType
  <2> QED BY <2>3 DEF by_z, f
<1> QED BY <1>1, <1>2, <1>3, <1>4 DEF Vec

(* L_i - L_i(0) is a multiple of X.                                         *)
LEMMA WeightsX ==
  ASSUME NEW tau, Usable(tau), NEW S \in SUBSET positions, NEW key, Vec(key, positions)
  PROVE  /\ Weighted(S, by_lag(S, key, tau))
              = Add(Mul(Weighted(S, by_x(S, key, tau)), tau), Mul(Weighted(S, key), n_inv))
         /\ Weighted(S, by_0(S, key, tau))
              = Mul(Weighted(S, by_x(S, key, tau)), Mul(tau, tau))
<1> DEFINE ev == evals(S)
           u == by_x(S, key, tau)
           v == [i \in S |-> Mul(u[i], tau)]
           w == [i \in S |-> Mul(key[i], n_inv)]
           p == by_lag(S, key, tau)
           q == by_0(S, key, tau)
           tt == Mul(tau, tau)
<1>1. tau \in Scalar /\ tt \in Scalar /\ n_inv \in Scalar /\ Mul(tt, inverse(tt)) = One
      /\ inverse(tt) \in Scalar
  BY UsableTau, SteAssumption
<1>2. Vec(key, S) /\ Vec(ev, S) /\ IsFiniteSet(S) /\ Vec(u, S) /\ Vec(p, S) /\ Vec(q, S)
  <2>1. n \in 1 .. n /\ positions = 0 .. n - 1
    BY Sizes
  <2>2. Vec(key, 0 .. n - 1) /\ S \in SUBSET (0 .. n - 1)
    BY <2>1
  <2>3. Vec(key, S) /\ Vec(u, S) /\ Vec(p, S) /\ Vec(q, S)
    <3> HIDE DEF u, p, q
    <3> QED BY <2>1, <2>2, WeightsType DEF u, p, q
  <2> QED BY <2>3, WeightedType
<1>3. ASSUME NEW i \in S
      PROVE  /\ p[i] = Add(Mul(u[i], tau), Mul(key[i], n_inv))
             /\ q[i] = Mul(u[i], tt)
             /\ u[i] \in Scalar /\ key[i] \in Scalar
  <2> DEFINE L == lag(i, tau)
             o == over_x(i, tau)
             m == minus0(i, tau)
             k == key[i]
  <2>1. L \in Scalar /\ o \in Scalar /\ m \in Scalar /\ k \in Scalar
        /\ Mul(o, tau) = Sub(L, n_inv) /\ o = Mul(m, inverse(tt))
    BY <1>1, <1>2, LagrangeType, LagrangeShifts DEF Vec, over_x
  <2>2. u[i] = Mul(o, k) /\ p[i] = Mul(L, k) /\ q[i] = Mul(m, k)
    BY DEF by_x, by_lag, by_0
  <2> HIDE DEF L, o, m, k, u, p, q, tt
  <2>3. L = Add(Mul(o, tau), n_inv)
    BY <1>1, <2>1, AddSub
  <2>4. Mul(L, k) = Add(Mul(Mul(o, tau), k), Mul(n_inv, k))
    <3> DEFINE ot == Mul(o, tau)
    <3>1. ot \in Scalar /\ L = Add(ot, n_inv)
      BY <1>1, <2>1, <2>3, ScalarClosed
    <3> HIDE DEF ot
    <3>2. Mul(L, k) = Add(Mul(ot, k), Mul(n_inv, k))
      BY <1>1, <2>1, <3>1, ScalarLaws
    <3> QED BY <3>2 DEF ot
  <2>5. Mul(Mul(o, tau), k) = Mul(Mul(o, k), tau) /\ Mul(n_inv, k) = Mul(k, n_inv)
    BY <1>1, <2>1, MulSwap, ScalarLaws
  <2>6. Mul(o, tt) = m
    <3>1. Mul(o, tt) = Mul(m, Mul(inverse(tt), tt))
      BY <1>1, <2>1, ScalarLaws
    <3>2. Mul(inverse(tt), tt) = One
      BY <1>1, ScalarLaws
    <3> QED BY <2>1, <3>1, <3>2, MulOne
  <2>7. Mul(Mul(o, k), tt) = Mul(m, k)
    BY <1>1, <2>1, <2>6, MulSwap
  <2> QED BY <2>1, <2>2, <2>4, <2>5, <2>7, ScalarClosed DEF k
<1>4. ScaledBy(v, u, tau, S) /\ ScaledBy(w, key, n_inv, S)
  <2> HIDE DEF u
  <2> QED BY DEF ScaledBy
<1>5. ScaledBy(q, u, tt, S)
  <2> HIDE DEF u, q, tt
  <2> QED BY <1>3 DEF ScaledBy
<1>6. AddsUp(p, v, w, S)
  <2>1. \A i \in S : v[i] = Mul(u[i], tau) /\ w[i] = Mul(key[i], n_inv)
    OBVIOUS
  <2> HIDE DEF p, v, w, u
  <2> QED BY <1>3, <2>1 DEF AddsUp
<1> HIDE DEF ev, u, v, w, p, q, tt
<1>7. Dot(S, v, ev) = Mul(Dot(S, u, ev), tau) /\ Vec(v, S)
  BY <1>1, <1>2, <1>4, DotTimes
<1>8. Dot(S, w, ev) = Mul(Dot(S, key, ev), n_inv) /\ Vec(w, S)
  BY <1>1, <1>2, <1>4, DotTimes
<1>9. Dot(S, q, ev) = Mul(Dot(S, u, ev), tt)
  BY <1>1, <1>2, <1>5, DotTimes
<1>10. Dot(S, p, ev) = Add(Dot(S, v, ev), Dot(S, w, ev))
  BY <1>2, <1>6, <1>7, <1>8, DotPlus
<1> QED BY <1>7, <1>8, <1>9, <1>10 DEF Weighted, ev, u, p, q, tt

(* The products of two Lagrange polynomials agree with their values on the  *)
(* domain, up to a multiple of X^n - 1.                                     *)
LEMMA RowSums ==
  ASSUME NEW tau, Usable(tau), NEW key, Vec(key, positions), NEW i \in positions
  PROVE  /\ Mul(Total(by_lag(positions, key, tau)), lag(i, tau))
              = Add(Mul(Total(row_z(i, key, tau, n)), vanish(tau)), Mul(lag(i, tau), key[i]))
         /\ Total(row_z(i, key, tau, n)) \in Scalar
         /\ Total(by_lag(positions, key, tau)) \in Scalar
<1> DEFINE R == positions
           D == vanish(tau)
           L == lag(i, tau)
           f == row_z(i, key, tau, n)
           p == by_lag(R, key, tau)
           h == [j \in R |-> Mul(f[j], D)]
           e == [j \in R |-> IF j = i THEN Mul(L, key[i]) ELSE Zero]
           g == [j \in R |-> Mul(p[j], L)]
<1>1. /\ tau \in Scalar /\ D \in Scalar /\ L \in Scalar /\ key[i] \in Scalar
      /\ IsFiniteSet(R) /\ R = 0 .. n - 1
  BY UsableTau, LagrangeType, Sizes DEF Vec
<1>2. /\ f \in [R -> Scalar] /\ p \in [R -> Scalar]
      /\ \A j \in R : f[j] = Mul(over_z(j, i, tau), key[j]) /\ p[j] = Mul(lag(j, tau), key[j])
  <2>1. n \in 1 .. n /\ R \in SUBSET (0 .. n - 1) /\ Vec(key, 0 .. n - 1)
    BY <1>1, Sizes
  <2>2. Vec(f, 0 .. n - 1) /\ Vec(p, R)
    <3> HIDE DEF f, p
    <3> QED BY <2>1, WeightsType DEF f, p
  <2>3. f = [j \in R |-> Mul(over_z(j, i, tau), key[j])] /\ p = [j \in R |-> Mul(lag(j, tau), key[j])]
    BY <1>1 DEF row_z, by_lag
  <2> HIDE DEF f, p, R
  <2> QED BY <1>1, <2>2, <2>3 DEF Vec
<1>3. ASSUME NEW j \in R
      PROVE  /\ h[j] \in Scalar /\ e[j] \in Scalar /\ g[j] \in Scalar
             /\ g[j] = Add(h[j], e[j])
  <2> DEFINE o == over_z(j, i, tau)
             M == lag(j, tau)
             d == lag(j, el[i])
             s == Sub(M, d)
             k == key[j]
  <2>1. /\ o \in Scalar /\ M \in Scalar /\ s \in Scalar /\ k \in Scalar
        /\ Mul(o, D) = Mul(s, L)
    BY <1>1, LagrangeType, OverZ DEF Vec
  <2>2. d = IF j = i THEN One ELSE Zero
    BY LagrangeAtRoot
  <2>3. h[j] = Mul(Mul(o, k), D) /\ g[j] = Mul(Mul(M, k), L)
    BY <1>2
  <2>4. Mul(Mul(o, k), D) = Mul(Mul(s, L), k)
    <3> HIDE DEF o, D, s, k, L
    <3> QED BY <1>1, <2>1, MulSwap
  <2>5. Mul(Mul(M, k), L) = Mul(Mul(M, L), k)
    <3> HIDE DEF M, k, L
    <3> QED BY <1>1, <2>1, MulSwap
  <2>6. Mul(s, L) \in Scalar /\ Mul(M, L) \in Scalar /\ Mul(L, k) \in Scalar
        /\ Mul(Mul(s, L), k) \in Scalar /\ Mul(Mul(M, L), k) \in Scalar
    <3> HIDE DEF s, M, L, k
    <3> QED BY <1>1, <2>1, ScalarClosed
  <2>7. CASE j = i
    <3>1. Mul(M, L) = Add(Mul(s, L), L)
      <4>1. s = Sub(M, One)
        BY <2>2, <2>7
      <4> HIDE DEF s, M, L
      <4>2. M = Add(s, One)
        BY <2>1, <4>1, AddSub, ScalarClosed
      <4>3. Mul(M, L) = Add(Mul(s, L), Mul(One, L))
        BY <1>1, <2>1, <4>2, ScalarLaws, ScalarClosed
      <4> QED BY <1>1, <4>3, MulOne
    <3>2. e[j] = Mul(L, k)
      BY <2>7
    <3> HIDE DEF s, M, L, k, h, e, g, o, D
    <3>3. Mul(Mul(M, L), k) = Add(Mul(Mul(s, L), k), Mul(L, k))
      BY <1>1, <2>1, <2>6, <3>1, ScalarLaws
    <3> QED BY <2>3, <2>4, <2>5, <2>6, <3>2, <3>3
  <2>8. CASE j # i
    <3>1. s = M
      <4>1. s = Sub(M, Zero)
        BY <2>2, <2>8
      <4>2. Sub(M, Zero) = M
        <5> HIDE DEF M
        <5>1. M \in Scalar /\ Zero \in Scalar /\ Add(M, Zero) = M
          BY <2>1, ScalarClosed, ScalarLaws
        <5>2. Sub(Add(M, Zero), Zero) = M
          BY <5>1, AddSub
        <5> QED BY <5>1, <5>2
      <4> QED BY <4>1, <4>2
    <3>2. e[j] = Zero
      BY <2>8
    <3> HIDE DEF s, M, L, k, h, e, g, o, D
    <3> QED BY <2>3, <2>4, <2>5, <2>6, <3>1, <3>2, AddZero, ScalarClosed
  <2> QED BY <2>7, <2>8
<1>4. h \in [R -> Scalar] /\ e \in [R -> Scalar] /\ g \in [R -> Scalar]
  <2>1. h = [j \in R |-> h[j]] /\ e = [j \in R |-> e[j]] /\ g = [j \in R |-> g[j]]
    OBVIOUS
  <2> HIDE DEF h, e, g, R
  <2> QED BY <1>3, <2>1
<1>5. AddsUp(g, h, e, R)
  <2> HIDE DEF h, e, g, R
  <2> QED BY <1>3 DEF AddsUp
<1>6. ScaledBy(h, f, D, R) /\ ScaledBy(g, p, L, R)
  <2> HIDE DEF f, p, D, L, R
  <2> QED BY DEF ScaledBy
<1>7. AllZero(e, R \ {i}) /\ i \in R /\ e[i] = Mul(L, key[i])
  <2> HIDE DEF L
  <2> QED BY DEF AllZero
<1> HIDE DEF R, D, L, f, p, h, e, g
<1>8. Total(h) = Mul(Total(f), D)
  BY <1>1, <1>2, <1>4, <1>6, TotalTimes
<1>9. Total(g) = Mul(Total(p), L)
  BY <1>1, <1>2, <1>4, <1>6, TotalTimes
<1>10. Total(e) = e[i]
  BY <1>1, <1>4, <1>7, TotalSingle
<1>11. Total(g) = Add(Total(h), Total(e))
  BY <1>1, <1>4, <1>5, TotalPlus
<1>12. Total(f) \in Scalar /\ Total(p) \in Scalar
  BY <1>1, <1>2, TotalType
<1> QED BY <1>7, <1>8, <1>9, <1>10, <1>11, <1>12 DEF R, D, L, f, p

LEMMA WeightsZ ==
  ASSUME NEW tau, Usable(tau), NEW S \in SUBSET positions, S # {}, NEW key, Vec(key, positions)
  PROVE  Mul(b_at(S, tau), Total(by_lag(positions, key, tau)))
           = Add(Mul(Weighted(S, by_z(S, key, tau, n)), vanish(tau)),
                 Weighted(S, by_lag(S, key, tau)))
<1> DEFINE ev == evals(S)
           D == vanish(tau)
           K == Total(by_lag(positions, key, tau))
           u == by_z(S, key, tau, n)
           p == by_lag(S, key, tau)
           q == [i \in positions |-> lag(i, tau)]
           v == [i \in S |-> Mul(u[i], D)]
           w == [i \in S |-> Mul(q[i], K)]
<1>1. D \in Scalar /\ K \in Scalar /\ tau \in Scalar
  <2>1. 0 \in positions
    BY Sizes
  <2> QED BY <2>1, UsableTau, RowSums
<1>2. Vec(ev, S) /\ IsFiniteSet(S) /\ Vec(u, S) /\ Vec(p, S)
  <2>1. n \in 1 .. n /\ positions = 0 .. n - 1
    BY Sizes
  <2>2. Vec(key, 0 .. n - 1) /\ S \in SUBSET (0 .. n - 1)
    BY <2>1
  <2>3. Vec(key, S) /\ Vec(u, S) /\ Vec(p, S)
    <3> HIDE DEF u, p
    <3> QED BY <2>1, <2>2, WeightsType DEF u, p
  <2> QED BY <2>3, WeightedType
<1>3. Vec(q, S) /\ \A i \in S : q[i] = lag(i, tau)
  BY <1>1, LagrangeType DEF Vec
<1>4. b_at(S, tau) = Dot(S, ev, q)
  BY <1>1, Evals
<1>5. ScaledBy(v, u, D, S) /\ ScaledBy(w, q, K, S)
  <2> HIDE DEF u, D, q, K
  <2> QED BY DEF ScaledBy
<1>6. ASSUME NEW i \in S
      PROVE  w[i] = Add(v[i], p[i])
  <2>1. Mul(K, lag(i, tau)) = Add(Mul(Total(row_z(i, key, tau, n)), D), Mul(lag(i, tau), key[i]))
    BY RowSums
  <2>2. u[i] = Total(row_z(i, key, tau, n)) /\ p[i] = Mul(lag(i, tau), key[i])
    BY DEF by_z, by_lag
  <2>3. v[i] = Mul(u[i], D) /\ w[i] = Mul(lag(i, tau), K) /\ lag(i, tau) \in Scalar
    BY <1>1, LagrangeType
  <2> HIDE DEF v, w, u, p, K
  <2> QED BY <1>1, <2>1, <2>2, <2>3, ScalarLaws
<1>7. AddsUp(w, v, p, S)
  <2> HIDE DEF w, v, p
  <2> QED BY <1>6 DEF AddsUp
<1> HIDE DEF ev, D, K, u, p, q, v, w
<1>8. Dot(S, v, ev) = Mul(Dot(S, u, ev), D) /\ Vec(v, S)
  BY <1>1, <1>2, <1>5, DotTimes
<1>9. Dot(S, w, ev) = Mul(Dot(S, q, ev), K)
  BY <1>1, <1>2, <1>3, <1>5, DotTimes
<1>10. Dot(S, w, ev) = Add(Dot(S, v, ev), Dot(S, p, ev))
  BY <1>2, <1>7, <1>8, DotPlus
<1>11. Dot(S, q, ev) = b_at(S, tau)
  BY <1>2, <1>3, <1>4, DotComm
<1> QED BY <1>8, <1>9, <1>10, <1>11 DEF Weighted, ev, D, K, u, p

(* Dividing by X only moves the coefficients.                               *)
LEMMA WitnessIs ==
  ASSUME NEW d \in Nat, NEW f, Vec(f, 0 .. d)
  PROVE  witness_polynomial(f, d, Zero) = [k \in 0 .. d - 1 |-> f[k + 1]]
<1> DEFINE Rec(q) == q = [k \in 0 .. d |-> IF k = d THEN f[d] ELSE Add(f[k], Mul(Zero, q[k + 1]))]
           q0 == CHOOSE q : Rec(q)
           g == [k \in 0 .. d |-> f[k]]
           T == { j \in Nat : j <= d => q0[d - j] = f[d - j] }
<1>1. witness_polynomial(f, d, Zero) = [k \in 0 .. d - 1 |-> q0[k + 1]]
  BY DEF witness_polynomial
<1>2. \A k \in 0 .. d : f[k] \in Scalar
  BY DEF Vec
<1>3. \A k \in 0 .. d : k # d => k + 1 \in 0 .. d
  OBVIOUS
<1>4. Rec(g)
  <2>1. ASSUME NEW k \in 0 .. d
        PROVE  f[k] = IF k = d THEN f[d] ELSE Add(f[k], Mul(Zero, g[k + 1]))
    <3>1. CASE k = d
      BY <3>1
    <3>2. CASE k # d
      <4>1. g[k + 1] \in Scalar /\ f[k] \in Scalar
        BY <1>2, <1>3, <3>2
      <4> HIDE DEF g
      <4>2. Mul(Zero, g[k + 1]) = Zero
        BY <4>1, MulZero
      <4>3. Add(f[k], Zero) = f[k]
        BY <4>1, AddZero
      <4> QED BY <3>2, <4>2, <4>3
    <3> QED BY <3>1, <3>2
  <2> QED BY <2>1
<1>5. Rec(q0)
  <2> HIDE DEF Rec, g
  <2> QED BY <1>4
<1> HIDE DEF q0
<1>6. 0 \in T
  <2>1. d - 0 = d /\ d \in 0 .. d
    OBVIOUS
  <2>2. q0[d] = f[d]
    BY <1>5, <2>1
  <2> QED BY <2>1, <2>2
<1>7. ASSUME NEW j \in Nat, j \in T
      PROVE  j + 1 \in T
  <2> SUFFICES ASSUME j + 1 <= d
               PROVE  q0[d - (j + 1)] = f[d - (j + 1)]
    OBVIOUS
  <2> DEFINE k == d - (j + 1)
  <2>1. k \in 0 .. d /\ k # d /\ k + 1 = d - j /\ k + 1 \in 0 .. d /\ j <= d
    OBVIOUS
  <2>2. q0[k + 1] = f[k + 1]
    BY <1>7, <2>1
  <2> HIDE DEF k
  <2>3. q0[k] = Add(f[k], Mul(Zero, q0[k + 1]))
    BY <1>5, <2>1
  <2>4. f[k] \in Scalar /\ f[k + 1] \in Scalar
    BY <1>2, <2>1
  <2>5. q0[k] = f[k]
    BY <2>2, <2>3, <2>4, MulZero, AddZero
  <2> QED BY <2>5 DEF k
<1>8. \A j \in Nat : j \in T
  <2> HIDE DEF T
  <2> QED BY <1>6, <1>7, Induction
<1>9. \A k \in 0 .. d : q0[k] = f[k]
  <2> TAKE k \in 0 .. d
  <2>1. d - k \in Nat /\ d - k <= d /\ d - (d - k) = k
    OBVIOUS
  <2> QED BY <1>8, <2>1
<1>10. \A k \in 0 .. d - 1 : k + 1 \in 0 .. d
  OBVIOUS
<1> QED BY <1>1, <1>9, <1>10

(* w commits, with base a, to the quotient of B - 1 by X.                   *)
Opening(w, B, tau, a) ==
  \E q \in Scalar : w = Mul(q, a) /\ Mul(q, tau) = Sub(B, One)

(* The opening of b at zero, which is one there.                            *)
LEMMA WitnessValue ==
  ASSUME NEW d \in Nat, d <= n, NEW f, Vec(f, 0 .. d), f[0] = One, NEW tau \in Scalar,
         NEW a \in Scalar, NEW p, p = [k \in 0 .. n |-> Mul(Powers(tau)[k], a)]
  PROVE  Opening(compute_opening_proof(p, f, d, Zero), Value(f, d, tau), tau, a)
<1> DEFINE s == [k \in 0 .. d - 1 |-> f[k + 1]]
<1>1. compute_opening_proof(p, f, d, Zero) = msm(p, s)
  BY WitnessIs DEF compute_opening_proof, commit
<1>2. Value(f, d, tau) \in Scalar
  BY ValueType
<1>3. CASE d = 0
  <2>1. msm(p, s) = Zero
    <3>1. DOMAIN s = {}
      BY <1>3
    <3>2. msm(p, s) = Total([k \in {} |-> Mul(p[k], s[k])])
      <4> HIDE DEF s
      <4> QED BY <3>1, SumIsTotal DEF msm
    <3> DEFINE g == [k \in {} |-> Mul(p[k], s[k])]
    <3>3. g \in [{} -> Scalar]
      OBVIOUS
    <3> HIDE DEF g
    <3>4. Total(g) = Zero
      BY <3>3, TotalEmpty
    <3> QED BY <3>2, <3>4 DEF g
  <2>2. Value(f, d, tau) = One
    <3> DEFINE R == 0 .. d
               P == Powers(tau)
    <3>1. R = {0} /\ IsFiniteSet(R) /\ 0 \in R /\ Vec(P, R) /\ P[0] = One
      <4>1. IsPowers(P, tau) /\ Vec(P, 0 .. d)
        BY PowersExist, ValueType
      <4>2. R = {0}
        BY <1>3
      <4> QED BY <4>1, <4>2, FS_Singleton DEF IsPowers
    <3>2. AllZero(f, R \ {0})
      BY <3>1 DEF AllZero
    <3> HIDE DEF R, P
    <3>3. Dot(R, f, P) = Mul(f[0], P[0])
      <4>1. Vec(f, R)
        BY DEF R
      <4> QED BY <3>1, <3>2, <4>1, DotSingle
    <3>4. Mul(f[0], P[0]) = One
      BY <3>1, MulOne, ScalarClosed
    <3> QED BY <3>3, <3>4 DEF Value, R, P
  <2>3. Mul(Zero, a) = Zero /\ Mul(Zero, tau) = Zero /\ Sub(One, One) = Zero /\ Zero \in Scalar
    BY MulZero, SubSelf, ScalarClosed
  <2> QED BY <1>1, <2>1, <2>2, <2>3 DEF Opening
<1>4. CASE d # 0
  <2> DEFINE e == d - 1
             q == Value(s, e, tau)
             B == Value(f, d, tau)
  <2>1. e \in Nat /\ d = e + 1 /\ e \in 0 .. n
    BY <1>4, Sizes
  <2>2. DOMAIN s = 0 .. e
    OBVIOUS
  <2>3. Shifted(s, f, 0 .. e)
    BY DEF Shifted
  <2> HIDE DEF s, e
  <2>4. Vec(f, 0 .. e + 1)
    BY <2>1
  <2>5. Value(f, e + 1, tau) = Add(f[0], Mul(q, tau)) /\ Vec(s, 0 .. e)
    BY <2>1, <2>3, <2>4, ValueLow
  <2>6. q \in Scalar
    BY <2>1, <2>5, ValueType
  <2>7. msm(p, s) = Mul(q, a)
    BY <2>1, <2>2, <2>5, CommitIs
  <2>8. Mul(q, tau) = Sub(B, One)
    <3>1. B = Add(One, Mul(q, tau))
      BY <2>1, <2>5
    <3> HIDE DEF B, q
    <3> DEFINE qt == Mul(q, tau)
    <3>2. qt \in Scalar /\ One \in Scalar /\ B = Add(One, qt)
      BY <2>6, <3>1, ScalarClosed
    <3> HIDE DEF qt
    <3> QED BY <3>2, AddSub DEF qt
  <2> HIDE DEF q
  <2> QED BY <1>1, <2>6, <2>7, <2>8 DEF Opening, B
<1> QED BY <1>3, <1>4

LEMMA Commitments ==
  ASSUME NEW tau \in Scalar, NEW a \in Scalar,
         NEW p, p = [k \in 0 .. n |-> Mul(Powers(tau)[k], a)], NEW S \in SUBSET positions
  PROVE  /\ commit(p, b_poly(S)) = Mul(b_at(S, tau), a)
         /\ Opening(compute_opening_proof(p, b_poly(S), n - Cardinality(S), Zero),
                    b_at(S, tau), tau, a)
<1> DEFINE b == b_poly(S)
           d == degree(S)
<1>1. /\ d \in Nat /\ d \in 0 .. n /\ d <= n /\ IsFiniteSet(S)
      /\ DOMAIN b = 0 .. d /\ Vec(b, 0 .. d) /\ b[0] = One
  <2>1. d \in 0 .. n
    BY BPoly
  <2>2. d <= n
    <3> HIDE DEF d
    <3> QED BY <2>1
  <2> QED BY <2>1, <2>2, BPoly
<1>2. b_at(S, tau) = Value(b, d, tau)
  BY DEF b_at
<1>3. commit(p, b) = Mul(b_at(S, tau), a)
  <2> HIDE DEF b, d
  <2> QED BY <1>1, <1>2, CommitIs DEF commit
<1>4. Opening(compute_opening_proof(p, b, d, Zero), b_at(S, tau), tau, a)
  <2> HIDE DEF b, d
  <2> QED BY <1>1, <1>2, WitnessValue
<1> QED BY <1>3, <1>4 DEF degree

(* bhat is b with t zeros in front, which fits as long as it is not longer  *)
(* than the powers of tau.                                                  *)
LEMMA RaisedCommitment ==
  ASSUME NEW tau \in Scalar, NEW a \in Scalar,
         NEW p, p = [k \in 0 .. n |-> Mul(Powers(tau)[k], a)], NEW S \in SUBSET positions,
         NEW t \in Nat, t + degree(S) <= n
  PROVE  commit(p, bhat(S, t)) = Mul(Mul(Powers(tau)[t], b_at(S, tau)), a)
<1> DEFINE b == b_poly(S)
           d == degree(S)
           g == Raised(b, d, t)
           m == t + d
<1>1. d \in Nat /\ IsFiniteSet(S) /\ Vec(b, 0 .. d)
  BY BPoly
<1>2. bhat(S, t) = g
  <2>1. n \in Nat /\ Cardinality(S) \in Nat
    BY <1>1, Sizes, FS_CardinalityType
  <2>2. t + n - Cardinality(S) = t + d
    BY <2>1 DEF degree
  <2> HIDE DEF d
  <2> QED BY <2>2 DEF bhat, Raised
<1>3. DOMAIN g = 0 .. m /\ m \in 0 .. n
  <2>1. t + d <= n
    OBVIOUS
  <2> HIDE DEF d
  <2> QED BY <1>1, <2>1, Sizes DEF Raised
<1>4. b_at(S, tau) = Value(b, d, tau)
  BY DEF b_at
<1> HIDE DEF b, d
<1>5. Value(g, m, tau) = Mul(Powers(tau)[t], Value(b, d, tau)) /\ Vec(g, 0 .. m)
  BY <1>1, ValueRaised
<1> HIDE DEF g, m
<1>6. msm(p, g) = Mul(Value(g, m, tau), a)
  BY <1>3, <1>5, CommitIs
<1> QED BY <1>2, <1>4, <1>5, <1>6 DEF commit

(* A reference string with the first len positions taken: a party's key is  *)
(* what its owner computes.                                                 *)
Setting(tau, r, gamma, z, key, len, pks) ==
  /\ Usable(tau) /\ r \in [chunks -> Scalar] /\ gamma \in Scalar
  /\ CrsOf(z, tau, r, gamma)
  /\ len \in 1 .. n /\ Vec(key, 0 .. len - 1)
  /\ \A i \in 0 .. len - 1 : pks[i] = get_lagrange_pk(z, key[i], i)

LEMMA PartyKey ==
  ASSUME NEW tau, NEW r, NEW gamma, NEW z, NEW key, NEW len, NEW pks,
         Setting(tau, r, gamma, z, key, len, pks), NEW c \in chunks, NEW i \in 0 .. len - 1
  PROVE  /\ i \in positions /\ key[i] \in Scalar /\ r[c] \in Scalar
         /\ pks[i].bls_pk[c] = Mul(key[i], r[c])
         /\ pks[i].sk_li[c] = Mul(Mul(lag(i, tau), key[i]), r[c])
         /\ pks[i].sk_li_x[c] = Mul(Mul(over_x(i, tau), key[i]), r[c])
         /\ pks[i].sk_li_minus0[c] = Mul(Mul(minus0(i, tau), key[i]), r[c])
         /\ \A j \in positions :
              pks[i].sk_li_lj_z[c][j] = Mul(Mul(over_z(i, j, tau), key[i]), r[c])
<1> DEFINE a == r[c]
           k == key[i]
<1>1. /\ Usable(tau) /\ tau \in Scalar /\ a \in Scalar /\ k \in Scalar /\ i \in positions
      /\ z.gen_g = r /\ DOMAIN r = chunks /\ ChunkOf(z, tau, a, gamma, c)
      /\ pks[i] = get_lagrange_pk(z, k, i)
  <2>1. Usable(tau) /\ r \in [chunks -> Scalar] /\ CrsOf(z, tau, r, gamma) /\ len \in 1 .. n
        /\ k \in Scalar /\ pks[i] = get_lagrange_pk(z, k, i)
    BY DEF Setting, Vec
  <2>2. i \in positions
    BY <2>1, Sizes
  <2> QED BY <2>1, <2>2, UsableTau DEF CrsOf
<1>2. /\ z.li[c][i] = Mul(lag(i, tau), a) /\ z.li_x[c][i] = Mul(over_x(i, tau), a)
      /\ z.li_minus0[c][i] = Mul(minus0(i, tau), a)
      /\ z.li_lj_z[c][i] = [j \in positions |-> Mul(over_z(i, j, tau), a)]
  BY <1>1 DEF ChunkOf
<1>3. /\ lag(i, tau) \in Scalar /\ over_x(i, tau) \in Scalar /\ minus0(i, tau) \in Scalar
      /\ \A j \in positions : over_z(i, j, tau) \in Scalar
  BY <1>1, LagrangeType, LagrangeShifts, OverZ
<1> HIDE DEF a, k
<1>4. pks[i].bls_pk[c] = Mul(k, a)
  <2>1. pks[i].bls_pk[c] = Mul(r[c], k)
    BY <1>1 DEF get_lagrange_pk, scale
  <2> QED BY <1>1, <2>1, ScalarLaws DEF a
<1>5. pks[i].sk_li[c] = Mul(Mul(lag(i, tau), k), a)
  <2>1. pks[i].sk_li[c] = Mul(Mul(lag(i, tau), a), k)
    BY <1>1, <1>2 DEF get_lagrange_pk
  <2> QED BY <1>1, <1>3, <2>1, MulSwap
<1>6. pks[i].sk_li_x[c] = Mul(Mul(over_x(i, tau), k), a)
  <2>1. pks[i].sk_li_x[c] = Mul(Mul(over_x(i, tau), a), k)
    BY <1>1, <1>2 DEF get_lagrange_pk
  <2> QED BY <1>1, <1>3, <2>1, MulSwap
<1>7. pks[i].sk_li_minus0[c] = Mul(Mul(minus0(i, tau), k), a)
  <2>1. pks[i].sk_li_minus0[c] = Mul(Mul(minus0(i, tau), a), k)
    BY <1>1, <1>2 DEF get_lagrange_pk
  <2> QED BY <1>1, <1>3, <2>1, MulSwap
<1>8. ASSUME NEW j \in positions
      PROVE  pks[i].sk_li_lj_z[c][j] = Mul(Mul(over_z(i, j, tau), k), a)
  <2>1. pks[i].sk_li_lj_z[c] = scale(z.li_lj_z[c][i], k)
    BY <1>1 DEF get_lagrange_pk
  <2>2. pks[i].sk_li_lj_z[c][j] = Mul(Mul(over_z(i, j, tau), a), k)
    BY <1>2, <2>1 DEF scale
  <2> QED BY <1>1, <1>3, <2>2, MulSwap
<1> QED BY <1>1, <1>4, <1>5, <1>6, <1>7, <1>8 DEF a, k

(* What agg_dec adds up, in the exponent of its base.                       *)
LEMMA AddedUp ==
  ASSUME NEW tau, NEW r, NEW gamma, NEW z, NEW key, NEW len, NEW pks,
         Setting(tau, r, gamma, z, key, len, pks), NEW c \in chunks,
         NEW S \in SUBSET (0 .. len - 1)
  PROVE  /\ Weighted(S, [i \in S |-> pks[i].bls_pk[c]]) = Mul(Weighted(S, key), r[c])
         /\ Weighted(S, [i \in S |-> pks[i].sk_li_x[c]])
              = Mul(Weighted(S, by_x(S, key, tau)), r[c])
         /\ Weighted(S, [i \in S |-> pks[i].sk_li_minus0[c]])
              = Mul(Weighted(S, by_0(S, key, tau)), r[c])
         /\ Weighted(S, agg_sk_li_lj_z(pks, len)[c])
              = Mul(Weighted(S, by_z(S, key, tau, len)), r[c])
         /\ Weighted(S, key) \in Scalar /\ Weighted(S, by_x(S, key, tau)) \in Scalar
         /\ Weighted(S, by_0(S, key, tau)) \in Scalar
         /\ Weighted(S, by_z(S, key, tau, len)) \in Scalar /\ r[c] \in Scalar
<1> DEFINE a == r[c]
           ev == evals(S)
           u0 == by_0(S, key, tau)
           ux == by_x(S, key, tau)
           uz == by_z(S, key, tau, len)
           vk == [i \in S |-> pks[i].bls_pk[c]]
           vx == [i \in S |-> pks[i].sk_li_x[c]]
           v0 == [i \in S |-> pks[i].sk_li_minus0[c]]
           vz == agg_sk_li_lj_z(pks, len)[c]
<1>1. /\ Usable(tau) /\ len \in 1 .. n /\ Vec(key, 0 .. len - 1) /\ r \in [chunks -> Scalar]
      /\ a \in Scalar
  BY DEF Setting
<1>2. /\ Vec(u0, S) /\ Vec(ux, S) /\ Vec(uz, S) /\ Vec(key, S) /\ S \in SUBSET positions
      /\ \A i \in positions : Vec(row_z(i, key, tau, len), 0 .. len - 1)
  <2> HIDE DEF u0, ux, uz
  <2> QED BY <1>1, WeightsType DEF u0, ux, uz
<1>3. Vec(ev, S) /\ IsFiniteSet(S) /\ Weighted(S, key) \in Scalar /\ Weighted(S, ux) \in Scalar
      /\ Weighted(S, u0) \in Scalar /\ Weighted(S, uz) \in Scalar
  <2> HIDE DEF u0, ux, uz
  <2> QED BY <1>2, WeightedType
<1>4. ScaledBy(vk, key, a, S) /\ ScaledBy(vx, ux, a, S) /\ ScaledBy(v0, u0, a, S)
  <2>1. ASSUME NEW i \in S
        PROVE  vk[i] = Mul(key[i], a) /\ vx[i] = Mul(ux[i], a) /\ v0[i] = Mul(u0[i], a)
    <3>1. i \in 0 .. len - 1
      OBVIOUS
    <3>2. /\ pks[i].bls_pk[c] = Mul(key[i], a)
          /\ pks[i].sk_li_x[c] = Mul(Mul(over_x(i, tau), key[i]), a)
          /\ pks[i].sk_li_minus0[c] = Mul(Mul(minus0(i, tau), key[i]), a)
      BY <3>1, PartyKey
    <3> QED BY <3>2 DEF by_x, by_0
  <2> HIDE DEF vk, vx, v0, ux, u0, a
  <2> QED BY <2>1 DEF ScaledBy
<1>5. ScaledBy(vz, uz, a, S)
  <2> DEFINE R == 0 .. len - 1
  <2>1. ASSUME NEW i \in S
        PROVE  vz[i] = Mul(uz[i], a)
    <3> DEFINE f == row_z(i, key, tau, len)
               h == [j \in R |-> pks[j].sk_li_lj_z[c][i]]
    <3>1. i \in positions /\ i \in 0 .. len - 1 /\ i < len
      BY <1>1, <1>2
    <3>2. vz[i] = Total(h)
      BY <3>1, SumIsTotal DEF agg_sk_li_lj_z
    <3>3. uz[i] = Total(f)
      BY DEF by_z
    <3>4. ASSUME NEW j \in R
          PROVE  h[j] = Mul(f[j], a) /\ f[j] \in Scalar
      <4>1. pks[j].sk_li_lj_z[c][i] = Mul(Mul(over_z(j, i, tau), key[j]), a)
        BY <3>1, PartyKey
      <4>2. f[j] \in Scalar
        BY <1>2, <3>1 DEF Vec
      <4> QED BY <4>1, <4>2 DEF row_z
    <3>5. f = [j \in R |-> f[j]] /\ h = [j \in R |-> h[j]]
      BY DEF row_z
    <3>6. IsFiniteSet(R)
      <4> DEFINE e == len - 1
      <4>1. 0 \in Int /\ e \in Int
        BY <1>1
      <4> HIDE DEF e
      <4>2. IsFiniteSet(0 .. e)
        BY <4>1, FS_Interval
      <4> QED BY <4>2 DEF e
    <3> HIDE DEF f, h, R, a
    <3>7. f \in [R -> Scalar] /\ h \in [R -> Scalar] /\ ScaledBy(h, f, a, R)
      BY <1>1, <3>4, <3>5, ScalarClosed DEF ScaledBy
    <3>8. Total(h) = Mul(Total(f), a)
      BY <1>1, <3>6, <3>7, TotalTimes
    <3> QED BY <3>2, <3>3, <3>8
  <2> HIDE DEF vz, uz, a
  <2> QED BY <2>1 DEF ScaledBy
<1> HIDE DEF a, ev, u0, ux, uz, vk, vx, v0, vz
<1>6. Dot(S, vk, ev) = Mul(Dot(S, key, ev), a) /\ Dot(S, vx, ev) = Mul(Dot(S, ux, ev), a)
  BY <1>1, <1>2, <1>3, <1>4, DotTimes
<1>7. Dot(S, v0, ev) = Mul(Dot(S, u0, ev), a) /\ Dot(S, vz, ev) = Mul(Dot(S, uz, ev), a)
  BY <1>1, <1>2, <1>3, <1>4, <1>5, DotTimes
<1> QED BY <1>1, <1>3, <1>6, <1>7 DEF Weighted, a, ev, u0, ux, uz, vk, vx, v0, vz

-----------------------------------------------------------------------------
(* Ciphertexts                                                              *)

(* The encryption key, in the exponent.                                     *)
LEMMA EncryptionKey ==
  ASSUME NEW tau, NEW r, NEW gamma, NEW z, NEW key, NEW len, NEW pks,
         Setting(tau, r, gamma, z, key, len, pks), NEW e, e = encryption_key(z, pks, len)
  PROVE  /\ Total(by_lag(0 .. len - 1, key, tau)) \in Scalar
         /\ e.ask = Mul(Total(by_lag(0 .. len - 1, key, tau)), r[0])
         /\ e.z_g2 = Sub(Mul(Powers(tau)[len], r[0]), Mul(Powers(tau)[0], r[0]))
         /\ e.gamma_g2[0] = Mul(r[0], gamma)
         /\ \A c \in chunks : e.e_gh[c] = Mul(r[c], r[0])
<1> DEFINE R == 0 .. len - 1
           p == by_lag(R, key, tau)
           h == [i \in R |-> pks[i].sk_li[0]]
           a == r[0]
<1>1. /\ Usable(tau) /\ len \in 1 .. n /\ Vec(key, R) /\ 0 \in chunks /\ a \in Scalar
      /\ ChunkOf(z, tau, a, gamma, 0) /\ z.gamma_g2 = [c \in chunks |-> Mul(r[c], gamma)]
      /\ \A c \in chunks : ChunkOf(z, tau, r[c], gamma, c)
  BY Sizes DEF Setting, CrsOf
<1>2. IsFiniteSet(R)
  <2> DEFINE d == len - 1
  <2>1. 0 \in Int /\ d \in Int
    BY <1>1
  <2> HIDE DEF d
  <2>2. IsFiniteSet(0 .. d)
    BY <2>1, FS_Interval
  <2> QED BY <2>2 DEF d
<1>3. ASSUME NEW i \in R
      PROVE  h[i] = Mul(p[i], a)
  <2>1. pks[i].sk_li[0] = Mul(Mul(lag(i, tau), key[i]), r[0])
    BY <1>1, PartyKey
  <2> QED BY <2>1 DEF by_lag
<1>4. Vec(p, R)
  <2>1. R \in SUBSET (0 .. len - 1)
    OBVIOUS
  <2> HIDE DEF p
  <2> QED BY <1>1, <2>1, WeightsType DEF p
<1>5. p = [i \in R |-> p[i]] /\ h = [i \in R |-> h[i]]
  BY DEF by_lag
<1>6. e.ask = Total(h)
  BY SumIsTotal DEF encryption_key
<1>7. Total(h) = Mul(Total(p), a) /\ Total(p) \in Scalar
  <2> HIDE DEF p, h, R, a
  <2>1. p \in [R -> Scalar] /\ h \in [R -> Scalar] /\ ScaledBy(h, p, a, R)
    BY <1>1, <1>3, <1>4, <1>5, ScalarClosed DEF Vec, ScaledBy
  <2> QED BY <1>1, <1>2, <2>1, TotalTimes, TotalType
<1>8. e.z_g2 = Sub(Mul(Powers(tau)[len], a), Mul(Powers(tau)[0], a))
  <2>1. z.powers_of_h[0] = [k \in 0 .. n |-> Mul(Powers(tau)[k], a)]
    BY <1>1 DEF ChunkOf
  <2>2. len \in 0 .. n /\ 0 \in 0 .. n
    BY <1>1, Sizes
  <2>3. e.z_g2 = Sub(z.powers_of_h[0][len], z.powers_of_h[0][0])
    BY DEF encryption_key
  <2> HIDE DEF a
  <2> QED BY <2>1, <2>2, <2>3
<1>9. ASSUME NEW c \in chunks
      PROVE  e.e_gh[c] = Mul(r[c], a)
  <2>1. z.gen_g[c] = r[c] /\ z.gen_h[0] = a
    <3>1. ChunkOf(z, tau, r[c], gamma, c)
      BY <1>1
    <3> QED BY <1>1, <3>1 DEF ChunkOf
  <2> QED BY <2>1 DEF encryption_key, Pairing
<1>10. e.gamma_g2[0] = Mul(a, gamma)
  BY <1>1 DEF encryption_key
<1> QED BY <1>6, <1>7, <1>8, <1>9, <1>10

(* What encrypt multiplies with its nonces.                                 *)
Bases(z, e, t) ==
  /\ e.ask \in Scalar /\ e.z_g2 \in Scalar /\ e.gamma_g2[0] \in Scalar
  /\ z.powers_of_g[0][t] \in Scalar /\ z.powers_of_g[0][0] \in Scalar
  /\ z.powers_of_h[0][0] \in Scalar /\ z.powers_of_h[0][1] \in Scalar
  /\ z.powers_of_h[0][2] \in Scalar
  /\ \A c \in chunks : e.e_gh[c] \in Scalar

LEMMA BasesType ==
  ASSUME NEW tau, NEW r, NEW gamma, NEW z, NEW key, NEW len, NEW pks,
         Setting(tau, r, gamma, z, key, len, pks), NEW e, e = encryption_key(z, pks, len),
         NEW t \in 0 .. n
  PROVE  Bases(z, e, t)
<1> DEFINE a == r[0]
           P == Powers(tau)
           K == Total(by_lag(0 .. len - 1, key, tau))
<1>1. /\ tau \in Scalar /\ len \in 1 .. n /\ r \in [chunks -> Scalar] /\ gamma \in Scalar
      /\ a \in Scalar /\ ChunkOf(z, tau, a, gamma, 0) /\ n \in Nat /\ n >= 2
  BY Sizes, UsableTau DEF Setting, CrsOf
<1>2. \A k \in 0 .. n : P[k] \in Scalar /\ Mul(P[k], a) \in Scalar
  <2> TAKE k \in 0 .. n
  <2>1. P[k] \in Scalar
    BY <1>1, PowersType
  <2> HIDE DEF a, P
  <2> QED BY <1>1, <2>1, ScalarClosed
<1>3. z.powers_of_g[0] = [k \in 0 .. n |-> Mul(P[k], a)]
      /\ z.powers_of_h[0] = [k \in 0 .. n |-> Mul(P[k], a)]
  BY <1>1 DEF ChunkOf
<1>4. 0 \in 0 .. n /\ 1 \in 0 .. n /\ 2 \in 0 .. n /\ len \in 0 .. n
  BY <1>1
<1>5. /\ K \in Scalar /\ e.ask = Mul(K, a) /\ e.z_g2 = Sub(Mul(P[len], a), Mul(P[0], a))
      /\ e.gamma_g2[0] = Mul(a, gamma) /\ \A c \in chunks : e.e_gh[c] = Mul(r[c], a)
  BY EncryptionKey
<1> HIDE DEF a, P, K
<1>6. e.ask \in Scalar /\ e.z_g2 \in Scalar /\ e.gamma_g2[0] \in Scalar
  BY <1>1, <1>2, <1>4, <1>5, ScalarClosed, SubClosed
<1>7. \A c \in chunks : e.e_gh[c] \in Scalar
  BY <1>1, <1>5, ScalarClosed
<1> QED BY <1>2, <1>3, <1>4, <1>6, <1>7 DEF Bases

(* The components of a ciphertext.                                          *)
Components(x, z, e, t, s, m) ==
  /\ DOMAIN x.sa1 = 0 .. 1 /\ DOMAIN x.sa2 = 0 .. 5 /\ DOMAIN x.ct = chunks /\ x.t = t
  /\ x.sa1[0] = Add(Mul(e.ask, s[0]), Add(Mul(z.powers_of_g[0][t], s[3]),
                                          Mul(z.powers_of_g[0][0], s[4])))
  /\ x.sa1[1] = Mul(z.powers_of_g[0][0], s[2])
  /\ x.sa2[0] = Add(Mul(z.powers_of_h[0][0], s[0]), Mul(e.gamma_g2[0], s[2]))
  /\ x.sa2[1] = Mul(e.z_g2, s[0])
  /\ x.sa2[2] = Add(Mul(z.powers_of_h[0][1], s[0]), Mul(z.powers_of_h[0][2], s[1]))
  /\ x.sa2[3] = Mul(z.powers_of_h[0][0], s[1])
  /\ x.sa2[4] = Mul(z.powers_of_h[0][0], s[3])
  /\ x.sa2[5] = Mul(z.powers_of_h[0][1], s[4])
  /\ \A c \in chunks : x.ct[c] = Add(Mul(e.e_gh[c], s[4]), m[c])

LEMMA EncryptIs ==
  ASSUME NEW z, NEW e, NEW t, NEW s, NEW m
  PROVE  Components(encrypt(z, e, t, s, m), z, e, t, s, m)
<1> DEFINE x == encrypt(z, e, t, s, m)
<1>1. DOMAIN x.sa1 = 0 .. 1 /\ DOMAIN x.sa2 = 0 .. 5 /\ DOMAIN x.ct = chunks /\ x.t = t
  BY DEF encrypt
<1>2. /\ x.sa1[0] = Add(Mul(e.ask, s[0]), Add(Mul(z.powers_of_g[0][t], s[3]),
                                              Mul(z.powers_of_g[0][0], s[4])))
      /\ x.sa1[1] = Mul(z.powers_of_g[0][0], s[2])
  BY DEF encrypt
<1>3. /\ x.sa2[0] = Add(Mul(z.powers_of_h[0][0], s[0]), Mul(e.gamma_g2[0], s[2]))
      /\ x.sa2[1] = Mul(e.z_g2, s[0])
      /\ x.sa2[2] = Add(Mul(z.powers_of_h[0][1], s[0]), Mul(z.powers_of_h[0][2], s[1]))
  BY DEF encrypt
<1>4. /\ x.sa2[3] = Mul(z.powers_of_h[0][0], s[1])
      /\ x.sa2[4] = Mul(z.powers_of_h[0][0], s[3])
      /\ x.sa2[5] = Mul(z.powers_of_h[0][1], s[4])
  BY DEF encrypt
<1>5. \A c \in chunks : x.ct[c] = Add(Mul(e.e_gh[c], s[4]), m[c])
  BY DEF encrypt
<1> HIDE DEF x
<1> QED BY <1>1, <1>2, <1>3, <1>4, <1>5 DEF Components, x

(* A ciphertext is a record of its components and nothing else.             *)
Shape(x) ==
  x = [sa1 |-> [k \in 0 .. 1 |-> x.sa1[k]], sa2 |-> [k \in 0 .. 5 |-> x.sa2[k]],
       ct |-> [c \in chunks |-> x.ct[c]], t |-> x.t]

LEMMA SameCiphertext ==
  ASSUME NEW x, NEW y, NEW z, NEW e, NEW t, NEW s, NEW m, Shape(x), Shape(y),
         Components(x, z, e, t, s, m), Components(y, z, e, t, s, m)
  PROVE  x = y
<1>1. \A k \in 0 .. 1 : x.sa1[k] = y.sa1[k]
  BY DEF Components
<1>2. \A k \in 0 .. 5 : x.sa2[k] = y.sa2[k]
  <2> TAKE k \in 0 .. 5
  <2>1. k = 0 \/ k = 1 \/ k = 2 \/ k = 3 \/ k = 4 \/ k = 5
    OBVIOUS
  <2> QED BY <2>1 DEF Components
<1>3. \A c \in chunks : x.ct[c] = y.ct[c]
  BY DEF Components
<1>4. x.t = y.t
  BY DEF Components
<1> QED BY <1>1, <1>2, <1>3, <1>4 DEF Shape

LEMMA EncryptShape ==
  ASSUME NEW z, NEW e, NEW t, NEW s, NEW m
  PROVE  Shape(encrypt(z, e, t, s, m))
BY DEF Shape, encrypt

LEMMA EncryptType ==
  ASSUME NEW z, NEW e, NEW t, Bases(z, e, t), NEW s \in [0 .. 4 -> Scalar],
         NEW m \in [chunks -> Scalar], NEW x, x = encrypt(z, e, t, s, m)
  PROVE  x.sa1 \in [0 .. 1 -> Scalar] /\ x.sa2 \in [0 .. 5 -> Scalar]
         /\ x.ct \in [chunks -> Scalar] /\ x.t = t
<1>1. Components(x, z, e, t, s, m) /\ Shape(x)
  BY EncryptIs, EncryptShape
<1>2. s[0] \in Scalar /\ s[1] \in Scalar /\ s[2] \in Scalar /\ s[3] \in Scalar /\ s[4] \in Scalar
  OBVIOUS
<1>3. x.sa1[0] \in Scalar /\ x.sa1[1] \in Scalar
  BY <1>1, <1>2, ScalarClosed DEF Components, Bases
<1>4. x.sa2[0] \in Scalar /\ x.sa2[1] \in Scalar /\ x.sa2[2] \in Scalar
  BY <1>1, <1>2, ScalarClosed DEF Components, Bases
<1>5. x.sa2[3] \in Scalar /\ x.sa2[4] \in Scalar /\ x.sa2[5] \in Scalar
  BY <1>1, <1>2, ScalarClosed DEF Components, Bases
<1>6. \A c \in chunks : x.ct[c] \in Scalar
  BY <1>1, <1>2, ScalarClosed DEF Components, Bases
<1>7. x.t = t
  BY <1>1 DEF Components
<1>8. x.sa1 = [k \in 0 .. 1 |-> x.sa1[k]] /\ x.sa2 = [k \in 0 .. 5 |-> x.sa2[k]]
      /\ x.ct = [c \in chunks |-> x.ct[c]]
  BY DEF encrypt
<1>9. \A k \in 0 .. 1 : x.sa1[k] \in Scalar
  BY <1>3
<1>10. \A k \in 0 .. 5 : x.sa2[k] \in Scalar
  <2> TAKE k \in 0 .. 5
  <2>1. k = 0 \/ k = 1 \/ k = 2 \/ k = 3 \/ k = 4 \/ k = 5
    OBVIOUS
  <2> QED BY <1>4, <1>5, <2>1
<1> QED BY <1>6, <1>7, <1>8, <1>9, <1>10

(* Sums of commitments to the same bases, component by component.           *)
LEMMA AddsOne ==
  \A g, a, b \in Scalar : Add(Mul(g, a), Mul(g, b)) = Mul(g, Add(a, b)) /\ Mul(g, a) \in Scalar
BY MulAdd, ScalarClosed

Two(g, a, h, b) == Add(Mul(g, a), Mul(h, b))

LEMMA AddsTwo ==
  ASSUME NEW g \in Scalar, NEW h \in Scalar, NEW a \in Scalar, NEW b \in Scalar,
         NEW c \in Scalar, NEW d \in Scalar
  PROVE  /\ Add(Two(g, a, h, b), Two(g, c, h, d)) = Two(g, Add(a, c), h, Add(b, d))
         /\ Two(g, a, h, b) \in Scalar
<1> DEFINE p == Mul(g, a)
           q == Mul(h, b)
           u == Mul(g, c)
           v == Mul(h, d)
<1>1. p \in Scalar /\ q \in Scalar /\ u \in Scalar /\ v \in Scalar
  BY ScalarClosed
<1>2. Mul(g, Add(a, c)) = Add(p, u) /\ Mul(h, Add(b, d)) = Add(q, v)
  BY MulAdd
<1> HIDE DEF p, q, u, v
<1>3. Add(Add(p, q), Add(u, v)) = Add(Add(p, u), Add(q, v)) /\ Add(p, q) \in Scalar
  BY <1>1, AddSwap, ScalarClosed
<1> QED BY <1>2, <1>3 DEF Two, p, q, u, v

AddThree(f, g, h, a, b, c, a2, b2, c2) ==
  Add(Add(Mul(f, a), Two(g, b, h, c)), Add(Mul(f, a2), Two(g, b2, h, c2)))
    = Add(Mul(f, Add(a, a2)), Two(g, Add(b, b2), h, Add(c, c2)))

LEMMA AddsThree ==
  ASSUME NEW f \in Scalar, NEW g \in Scalar, NEW h \in Scalar,
         NEW a \in Scalar, NEW b \in Scalar, NEW c \in Scalar,
         NEW a2 \in Scalar, NEW b2 \in Scalar, NEW c2 \in Scalar
  PROVE  AddThree(f, g, h, a, b, c, a2, b2, c2)
<1> DEFINE p == Mul(f, a)
           q == Two(g, b, h, c)
           u == Mul(f, a2)
           v == Two(g, b2, h, c2)
<1>1. p \in Scalar /\ u \in Scalar
  BY ScalarClosed
<1>2. q \in Scalar /\ v \in Scalar
  BY AddsTwo
<1>3. Mul(f, Add(a, a2)) = Add(p, u)
  BY MulAdd
<1>4. Add(q, v) = Two(g, Add(b, b2), h, Add(c, c2))
  BY AddsTwo
<1> HIDE DEF p, q, u, v
<1>5. Add(Add(p, q), Add(u, v)) = Add(Add(p, u), Add(q, v))
  BY <1>1, <1>2, AddSwap
<1> QED BY <1>3, <1>4, <1>5 DEF AddThree, p, q, u, v

(* The sum of two ciphertexts for the same threshold encrypts the sum of    *)
(* the messages with the sum of the nonces, and zero encrypts nothing.      *)
LEMMA EncryptAdds ==
  ASSUME NEW z, NEW e, NEW t, Bases(z, e, t),
         NEW s \in [0 .. 4 -> Scalar], NEW s2 \in [0 .. 4 -> Scalar],
         NEW m \in [chunks -> Scalar], NEW m2 \in [chunks -> Scalar],
         NEW s3, s3 = [k \in 0 .. 4 |-> Add(s[k], s2[k])],
         NEW m3, m3 = [c \in chunks |-> Add(m[c], m2[c])]
  PROVE  /\ add(encrypt(z, e, t, s, m), encrypt(z, e, t, s2, m2)) = encrypt(z, e, t, s3, m3)
         /\ s3 \in [0 .. 4 -> Scalar] /\ m3 \in [chunks -> Scalar]
<1> DEFINE x == encrypt(z, e, t, s, m)
           y == encrypt(z, e, t, s2, m2)
           w == add(x, y)
           g == z.powers_of_g[0]
           h == z.powers_of_h[0]
<1>1. Components(x, z, e, t, s, m) /\ Components(y, z, e, t, s2, m2)
  BY EncryptIs
<1>2. /\ s[0] \in Scalar /\ s[1] \in Scalar /\ s[2] \in Scalar /\ s[3] \in Scalar /\ s[4] \in Scalar
      /\ s2[0] \in Scalar /\ s2[1] \in Scalar /\ s2[2] \in Scalar /\ s2[3] \in Scalar
      /\ s2[4] \in Scalar
  OBVIOUS
<1>3. /\ s3[0] = Add(s[0], s2[0]) /\ s3[1] = Add(s[1], s2[1]) /\ s3[2] = Add(s[2], s2[2])
      /\ s3[3] = Add(s[3], s2[3]) /\ s3[4] = Add(s[4], s2[4])
  OBVIOUS
<1>4. /\ e.ask \in Scalar /\ e.z_g2 \in Scalar /\ e.gamma_g2[0] \in Scalar
      /\ g[t] \in Scalar /\ g[0] \in Scalar /\ h[0] \in Scalar /\ h[1] \in Scalar /\ h[2] \in Scalar
      /\ \A c \in chunks : e.e_gh[c] \in Scalar
  BY DEF Bases
<1>5. /\ DOMAIN x.ct \cap DOMAIN y.ct = chunks /\ x.t = t
  BY <1>1 DEF Components
<1>6. /\ w.sa1 = [k \in 0 .. 1 |-> Add(x.sa1[k], y.sa1[k])]
      /\ w.sa2 = [k \in 0 .. 5 |-> Add(x.sa2[k], y.sa2[k])]
      /\ w.ct = [c \in chunks |-> Add(x.ct[c], y.ct[c])]
      /\ w.t = t
  <2> HIDE DEF x, y
  <2> QED BY <1>5 DEF add
<1>7. Shape(w)
  <2> HIDE DEF x, y
  <2>1. w = [sa1 |-> w.sa1, sa2 |-> w.sa2, ct |-> w.ct, t |-> w.t]
    BY DEF add
  <2> HIDE DEF w
  <2>2. w.sa1 = [k \in 0 .. 1 |-> w.sa1[k]] /\ w.sa2 = [k \in 0 .. 5 |-> w.sa2[k]]
        /\ w.ct = [c \in chunks |-> w.ct[c]]
    BY <1>6
  <2> QED BY <2>1, <2>2 DEF Shape
<1>8. Components(w, z, e, t, s3, m3)
  <2> HIDE DEF x, y, w, g, h
  <2>1. w.sa1[0] = Add(Mul(e.ask, s3[0]), Add(Mul(g[t], s3[3]), Mul(g[0], s3[4])))
    <3>1. w.sa1[0] = Add(x.sa1[0], y.sa1[0])
      BY <1>6
    <3>2. /\ x.sa1[0] = Add(Mul(e.ask, s[0]), Add(Mul(g[t], s[3]), Mul(g[0], s[4])))
          /\ y.sa1[0] = Add(Mul(e.ask, s2[0]), Add(Mul(g[t], s2[3]), Mul(g[0], s2[4])))
      BY <1>1 DEF Components, g
    <3>3. AddThree(e.ask, g[t], g[0], s[0], s[3], s[4], s2[0], s2[3], s2[4])
      BY <1>2, <1>4, AddsThree
    <3> QED BY <1>3, <3>1, <3>2, <3>3 DEF AddThree, Two
  <2>2. w.sa1[1] = Mul(g[0], s3[2])
    <3>1. w.sa1[1] = Add(x.sa1[1], y.sa1[1])
      BY <1>6
    <3>2. x.sa1[1] = Mul(g[0], s[2]) /\ y.sa1[1] = Mul(g[0], s2[2])
      BY <1>1 DEF Components, g
    <3> QED BY <1>2, <1>3, <1>4, <3>1, <3>2, AddsOne
  <2>3. w.sa2[0] = Add(Mul(h[0], s3[0]), Mul(e.gamma_g2[0], s3[2]))
    <3>1. w.sa2[0] = Add(x.sa2[0], y.sa2[0])
      BY <1>6
    <3>2. /\ x.sa2[0] = Add(Mul(h[0], s[0]), Mul(e.gamma_g2[0], s[2]))
          /\ y.sa2[0] = Add(Mul(h[0], s2[0]), Mul(e.gamma_g2[0], s2[2]))
      BY <1>1 DEF Components, h
    <3>3. Add(Two(h[0], s[0], e.gamma_g2[0], s[2]), Two(h[0], s2[0], e.gamma_g2[0], s2[2]))
            = Two(h[0], Add(s[0], s2[0]), e.gamma_g2[0], Add(s[2], s2[2]))
      <4> DEFINE p == h[0]
                 q == e.gamma_g2[0]
                 a == s[0]
                 b == s[2]
                 c == s2[0]
                 d == s2[2]
      <4>1. p \in Scalar /\ q \in Scalar /\ a \in Scalar /\ b \in Scalar /\ c \in Scalar /\ d \in Scalar
        BY <1>2, <1>4
      <4> HIDE DEF p, q, a, b, c, d
      <4>2. Add(Two(p, a, q, b), Two(p, c, q, d)) = Two(p, Add(a, c), q, Add(b, d))
        BY <4>1, AddsTwo
      <4> QED BY <4>2 DEF p, q, a, b, c, d
    <3> QED BY <1>3, <3>1, <3>2, <3>3 DEF Two
  <2>4. w.sa2[1] = Mul(e.z_g2, s3[0])
    <3>1. w.sa2[1] = Add(x.sa2[1], y.sa2[1])
      BY <1>6
    <3>2. x.sa2[1] = Mul(e.z_g2, s[0]) /\ y.sa2[1] = Mul(e.z_g2, s2[0])
      BY <1>1 DEF Components
    <3> QED BY <1>2, <1>3, <1>4, <3>1, <3>2, AddsOne
  <2>5. w.sa2[2] = Add(Mul(h[1], s3[0]), Mul(h[2], s3[1]))
    <3>1. w.sa2[2] = Add(x.sa2[2], y.sa2[2])
      BY <1>6
    <3>2. /\ x.sa2[2] = Add(Mul(h[1], s[0]), Mul(h[2], s[1]))
          /\ y.sa2[2] = Add(Mul(h[1], s2[0]), Mul(h[2], s2[1]))
      BY <1>1 DEF Components, h
    <3>3. Add(Two(h[1], s[0], h[2], s[1]), Two(h[1], s2[0], h[2], s2[1]))
            = Two(h[1], Add(s[0], s2[0]), h[2], Add(s[1], s2[1]))
      <4> DEFINE p == h[1]
                 q == h[2]
                 a == s[0]
                 b == s[1]
                 c == s2[0]
                 d == s2[1]
      <4>1. p \in Scalar /\ q \in Scalar /\ a \in Scalar /\ b \in Scalar /\ c \in Scalar /\ d \in Scalar
        BY <1>2, <1>4
      <4> HIDE DEF p, q, a, b, c, d
      <4>2. Add(Two(p, a, q, b), Two(p, c, q, d)) = Two(p, Add(a, c), q, Add(b, d))
        BY <4>1, AddsTwo
      <4> QED BY <4>2 DEF p, q, a, b, c, d
    <3> QED BY <1>3, <3>1, <3>2, <3>3 DEF Two
  <2>6. w.sa2[3] = Mul(h[0], s3[1])
    <3>1. w.sa2[3] = Add(x.sa2[3], y.sa2[3])
      BY <1>6
    <3>2. x.sa2[3] = Mul(h[0], s[1]) /\ y.sa2[3] = Mul(h[0], s2[1])
      BY <1>1 DEF Components, h
    <3> QED BY <1>2, <1>3, <1>4, <3>1, <3>2, AddsOne
  <2>7. w.sa2[4] = Mul(h[0], s3[3])
    <3>1. w.sa2[4] = Add(x.sa2[4], y.sa2[4])
      BY <1>6
    <3>2. x.sa2[4] = Mul(h[0], s[3]) /\ y.sa2[4] = Mul(h[0], s2[3])
      BY <1>1 DEF Components, h
    <3> QED BY <1>2, <1>3, <1>4, <3>1, <3>2, AddsOne
  <2>8. w.sa2[5] = Mul(h[1], s3[4])
    <3>1. w.sa2[5] = Add(x.sa2[5], y.sa2[5])
      BY <1>6
    <3>2. x.sa2[5] = Mul(h[1], s[4]) /\ y.sa2[5] = Mul(h[1], s2[4])
      BY <1>1 DEF Components, h
    <3> QED BY <1>2, <1>3, <1>4, <3>1, <3>2, AddsOne
  <2>9. ASSUME NEW c \in chunks
        PROVE  w.ct[c] = Add(Mul(e.e_gh[c], s3[4]), m3[c])
    <3> DEFINE b == e.e_gh[c]
               p == Mul(b, s[4])
               q == Mul(b, s2[4])
    <3>1. w.ct[c] = Add(x.ct[c], y.ct[c])
      BY <1>6
    <3>2. x.ct[c] = Add(p, m[c]) /\ y.ct[c] = Add(q, m2[c])
      BY <1>1 DEF Components
    <3>3. b \in Scalar /\ p \in Scalar /\ q \in Scalar /\ m[c] \in Scalar /\ m2[c] \in Scalar
          /\ Mul(b, s3[4]) = Add(p, q)
      <4>1. b \in Scalar
        BY <1>4
      <4> HIDE DEF b
      <4>2. Add(Mul(b, s[4]), Mul(b, s2[4])) = Mul(b, s3[4])
        BY <1>2, <1>3, <4>1, AddsOne
      <4>3. Mul(b, s[4]) \in Scalar /\ Mul(b, s2[4]) \in Scalar
        BY <1>2, <4>1, ScalarClosed
      <4> QED BY <4>1, <4>2, <4>3
    <3>4. m3[c] = Add(m[c], m2[c])
      OBVIOUS
    <3> HIDE DEF p, q
    <3>5. Add(Add(p, m[c]), Add(q, m2[c])) = Add(Add(p, q), Add(m[c], m2[c]))
      BY <3>3, AddSwap
    <3> QED BY <3>1, <3>2, <3>3, <3>4, <3>5
  <2>10. DOMAIN w.sa1 = 0 .. 1 /\ DOMAIN w.sa2 = 0 .. 5 /\ DOMAIN w.ct = chunks /\ w.t = t
    BY <1>6
  <2> QED BY <2>1, <2>2, <2>3, <2>4, <2>5, <2>6, <2>7, <2>8, <2>9, <2>10 DEF Components, g, h
<1>9. w = encrypt(z, e, t, s3, m3)
  <2> HIDE DEF w
  <2> QED BY <1>7, <1>8, EncryptIs, EncryptShape, SameCiphertext
<1>10. s3 \in [0 .. 4 -> Scalar] /\ m3 \in [chunks -> Scalar]
  BY ScalarClosed
<1> QED BY <1>9, <1>10

LEMMA EncryptZero ==
  ASSUME NEW z, NEW e, NEW t, Bases(z, e, t),
         NEW s, s = [k \in 0 .. 4 |-> Zero], NEW m, m = [c \in chunks |-> Zero]
  PROVE  zero(t) = encrypt(z, e, t, s, m) /\ s \in [0 .. 4 -> Scalar] /\ m \in [chunks -> Scalar]
<1> DEFINE x == zero(t)
           g == z.powers_of_g[0]
           h == z.powers_of_h[0]
<1>1. Shape(x)
  BY DEF Shape, zero
<1>2. /\ e.ask \in Scalar /\ e.z_g2 \in Scalar /\ e.gamma_g2[0] \in Scalar
      /\ g[t] \in Scalar /\ g[0] \in Scalar /\ h[0] \in Scalar /\ h[1] \in Scalar /\ h[2] \in Scalar
      /\ \A c \in chunks : e.e_gh[c] \in Scalar
  BY DEF Bases
<1>3. s[0] = Zero /\ s[1] = Zero /\ s[2] = Zero /\ s[3] = Zero /\ s[4] = Zero
  OBVIOUS
<1>4. Add(Zero, Zero) = Zero /\ Zero \in Scalar
  BY AddZero, ScalarClosed
<1>5. /\ x.sa1[0] = Zero /\ x.sa1[1] = Zero /\ x.sa2[0] = Zero /\ x.sa2[1] = Zero /\ x.sa2[2] = Zero
      /\ x.sa2[3] = Zero /\ x.sa2[4] = Zero /\ x.sa2[5] = Zero
      /\ \A c \in chunks : x.ct[c] = Zero
      /\ DOMAIN x.sa1 = 0 .. 1 /\ DOMAIN x.sa2 = 0 .. 5 /\ DOMAIN x.ct = chunks /\ x.t = t
  BY DEF zero
<1>6. \A b \in Scalar : Mul(b, Zero) = Zero
  BY MulZero
<1>7. \A c \in chunks : m[c] = Zero
  OBVIOUS
<1>8. Components(x, z, e, t, s, m)
  <2> HIDE DEF x, g, h
  <2>1. Mul(e.ask, s[0]) = Zero /\ Mul(g[t], s[3]) = Zero /\ Mul(g[0], s[4]) = Zero
        /\ Mul(g[0], s[2]) = Zero /\ Mul(h[0], s[0]) = Zero /\ Mul(e.gamma_g2[0], s[2]) = Zero
        /\ Mul(e.z_g2, s[0]) = Zero /\ Mul(h[1], s[0]) = Zero /\ Mul(h[2], s[1]) = Zero
        /\ Mul(h[0], s[1]) = Zero /\ Mul(h[0], s[3]) = Zero /\ Mul(h[1], s[4]) = Zero
    BY <1>2, <1>3, <1>6
  <2>2. \A c \in chunks : Mul(e.e_gh[c], s[4]) = Zero
    BY <1>2, <1>3, <1>6
  <2> QED BY <1>4, <1>5, <1>7, <2>1, <2>2 DEF Components, g, h
<1>9. x = encrypt(z, e, t, s, m)
  <2> HIDE DEF x
  <2> QED BY <1>1, <1>8, EncryptIs, EncryptShape, SameCiphertext
<1> QED BY <1>9, <1>4

-----------------------------------------------------------------------------
(* agg_dec                                                                  *)

SumOfPairings(w, y) == Sum([k \in 0 .. 5 |-> Pairing(w[k + 1], y[k])])

ArePairings(w, y, w0, w1, w2, w3, w4, w5) ==
  /\ SumOfPairings(w, y)
       = Add(Mul(w5, y[5]), Add(Mul(w4, y[4]), Add(Mul(w3, y[3]),
           Add(Mul(w2, y[2]), Add(Mul(w1, y[1]), Mul(w0, y[0]))))))
  /\ SumOfPairings(w, y) \in Scalar

LEMMA SixPairings ==
  ASSUME NEW w0 \in Scalar, NEW w1 \in Scalar, NEW w2 \in Scalar, NEW w3 \in Scalar,
         NEW w4 \in Scalar, NEW w5 \in Scalar, NEW w, w = <<w0, w1, w2, w3, w4, w5>>,
         NEW y \in [0 .. 5 -> Scalar]
  PROVE  ArePairings(w, y, w0, w1, w2, w3, w4, w5)
<1> DEFINE f == [k \in 0 .. 5 |-> Pairing(w[k + 1], y[k])]
<1>1. /\ f[0] = Mul(w0, y[0]) /\ f[1] = Mul(w1, y[1]) /\ f[2] = Mul(w2, y[2])
      /\ f[3] = Mul(w3, y[3]) /\ f[4] = Mul(w4, y[4]) /\ f[5] = Mul(w5, y[5])
  <2>1. w[1] = w0 /\ w[2] = w1 /\ w[3] = w2 /\ w[4] = w3 /\ w[5] = w4 /\ w[6] = w5
    OBVIOUS
  <2>2. /\ f[0] = Mul(w[0 + 1], y[0]) /\ f[1] = Mul(w[1 + 1], y[1]) /\ f[2] = Mul(w[2 + 1], y[2])
        /\ f[3] = Mul(w[3 + 1], y[3]) /\ f[4] = Mul(w[4 + 1], y[4]) /\ f[5] = Mul(w[5 + 1], y[5])
    BY DEF Pairing
  <2> HIDE DEF f
  <2> QED BY <2>1, <2>2
<1>2. \A k \in 0 .. 5 : f[k] \in Scalar
  <2>1. y[0] \in Scalar /\ y[1] \in Scalar /\ y[2] \in Scalar /\ y[3] \in Scalar
        /\ y[4] \in Scalar /\ y[5] \in Scalar
    OBVIOUS
  <2> HIDE DEF f
  <2>2. f[0] \in Scalar /\ f[1] \in Scalar /\ f[2] \in Scalar /\ f[3] \in Scalar
        /\ f[4] \in Scalar /\ f[5] \in Scalar
    BY <1>1, <2>1, ScalarClosed
  <2> TAKE k \in 0 .. 5
  <2>3. k = 0 \/ k = 1 \/ k = 2 \/ k = 3 \/ k = 4 \/ k = 5
    OBVIOUS
  <2> QED BY <2>2, <2>3
<1>3. f \in [0 .. 5 -> Scalar]
  <2>1. f = [k \in 0 .. 5 |-> f[k]]
    OBVIOUS
  <2> HIDE DEF f
  <2> QED BY <1>2, <2>1
<1>4. SumOfPairings(w, y) = Total(f)
  BY SumIsTotal DEF SumOfPairings
<1> HIDE DEF f
<1>5. Total(f) = Add(f[5], Add(f[4], Add(f[3], Add(f[2], Add(f[1], f[0])))))
  BY <1>3, SumOfSix
<1>6. Total(f) \in Scalar
  <2> DEFINE R == 0 .. 5
  <2>1. f \in [R -> Scalar]
    BY <1>3
  <2>2. IsFiniteSet(R)
    <3>1. 0 \in Int /\ 5 \in Int
      OBVIOUS
    <3> QED BY <3>1, FS_Interval
  <2> HIDE DEF R
  <2> QED BY <2>1, <2>2, TotalType
<1> QED BY <1>1, <1>4, <1>5, <1>6 DEF ArePairings, f

(* The pairings of agg_dec, when qk, qx, q0 and qz are the exponents of the *)
(* four weighted sums, b that of b, q that of its opening, th that of bhat, *)
(* and d is the weighted sum of the answers.                                *)
Pairings(a, gamma, qk, qx, q0, qz, b, q, th, d, x) ==
  Add(Add(Mul(Neg(Mul(q, a)), x.sa2[5]),
        Add(Mul(Neg(Mul(th, a)), x.sa2[4]),
          Add(Mul(Mul(q0, a), x.sa2[3]),
            Add(Mul(Neg(Mul(qx, a)), x.sa2[2]),
              Add(Mul(Neg(Mul(qz, a)), x.sa2[1]),
                  Mul(Neg(Mul(Mul(qk, a), n_inv)), x.sa2[0])))))),
      Add(Mul(x.sa1[0], Mul(b, a)), Mul(Mul(d, n_inv), Mul(a, gamma))))

LEMMA EncKeyIs ==
  ASSUME NEW tau, NEW r, NEW gamma, NEW z, NEW key, NEW len, NEW pks,
         Setting(tau, r, gamma, z, key, len, pks), NEW c \in chunks,
         NEW S \in SUBSET (0 .. len - 1), NEW x,
         x.sa1 \in [0 .. 1 -> Scalar], x.sa2 \in [0 .. 5 -> Scalar],
         x.t \in Nat, x.t + degree(S) <= n, NEW p, Vec(p, S)
  PROVE  /\ \E q \in Scalar :
              /\ Mul(q, tau) = Sub(b_at(S, tau), One)
              /\ enc_key(z, pks, agg_sk_li_lj_z(pks, len), x, p, S, c)
                   = Pairings(r[c], gamma, Weighted(S, key), Weighted(S, by_x(S, key, tau)),
                       Weighted(S, by_0(S, key, tau)), Weighted(S, by_z(S, key, tau, len)),
                       b_at(S, tau), q, Mul(Powers(tau)[x.t], b_at(S, tau)), Weighted(S, p), x)
         /\ enc_key(z, pks, agg_sk_li_lj_z(pks, len), x, p, S, c) \in Scalar
<1> DEFINE a == r[c]
           B == b_at(S, tau)
           qk == Weighted(S, key)
           qx == Weighted(S, by_x(S, key, tau))
           q0 == Weighted(S, by_0(S, key, tau))
           qz == Weighted(S, by_z(S, key, tau, len))
           th == Mul(Powers(tau)[x.t], B)
           d == Weighted(S, p)
           og == compute_opening_proof(z.powers_of_g[c], b_poly(S), n - Cardinality(S), Zero)
           ag == agg_sk_li_lj_z(pks, len)
           w == <<Neg(Mul(Mul(qk, a), n_inv)), Neg(Mul(qz, a)), Neg(Mul(qx, a)), Mul(q0, a),
                  Neg(Mul(th, a)), Neg(og)>>
<1>1. /\ Usable(tau) /\ tau \in Scalar /\ gamma \in Scalar /\ n_inv \in Scalar /\ a \in Scalar
      /\ ChunkOf(z, tau, a, gamma, c) /\ S \in SUBSET positions
  <2>1. Usable(tau) /\ r \in [chunks -> Scalar] /\ gamma \in Scalar /\ CrsOf(z, tau, r, gamma)
        /\ len \in 1 .. n
    BY DEF Setting
  <2> QED BY <2>1, UsableTau, SteAssumption, Sizes DEF CrsOf
<1>2. /\ Weighted(S, [i \in S |-> pks[i].bls_pk[c]]) = Mul(qk, a)
      /\ Weighted(S, [i \in S |-> pks[i].sk_li_x[c]]) = Mul(qx, a)
      /\ Weighted(S, [i \in S |-> pks[i].sk_li_minus0[c]]) = Mul(q0, a)
      /\ Weighted(S, ag[c]) = Mul(qz, a)
      /\ qk \in Scalar /\ qx \in Scalar /\ q0 \in Scalar /\ qz \in Scalar
  BY AddedUp
<1>3. d \in Scalar /\ B \in Scalar /\ Powers(tau)[x.t] \in Scalar
  BY <1>1, WeightedType, BPoly, PowersType
<1>4. /\ z.powers_of_g[c] = [k \in 0 .. n |-> Mul(Powers(tau)[k], a)]
      /\ z.powers_of_h[c] = [k \in 0 .. n |-> Mul(Powers(tau)[k], a)]
      /\ z.gamma_g2[c] = Mul(a, gamma)
  BY <1>1 DEF ChunkOf
<1>5. /\ commit(z.powers_of_h[c], b_poly(S)) = Mul(B, a)
      /\ Opening(og, B, tau, a)
      /\ commit(z.powers_of_g[c], bhat(S, x.t)) = Mul(th, a)
  <2> DEFINE g == z.powers_of_g[c]
             h == z.powers_of_h[c]
  <2>1. g = [k \in 0 .. n |-> Mul(Powers(tau)[k], a)] /\ h = [k \in 0 .. n |-> Mul(Powers(tau)[k], a)]
    BY <1>4
  <2> HIDE DEF g, h, a
  <2>2. commit(h, b_poly(S)) = Mul(B, a)
    BY <1>1, <2>1, Commitments
  <2>3. Opening(compute_opening_proof(g, b_poly(S), n - Cardinality(S), Zero), B, tau, a)
    BY <1>1, <2>1, Commitments
  <2>4. commit(g, bhat(S, x.t)) = Mul(th, a)
    <3> DEFINE t == x.t
    <3>1. t \in Nat /\ t + degree(S) <= n
      OBVIOUS
    <3> HIDE DEF t
    <3>2. commit(g, bhat(S, t)) = Mul(Mul(Powers(tau)[t], b_at(S, tau)), a)
      BY <1>1, <2>1, <3>1, RaisedCommitment
    <3> QED BY <3>2 DEF t
  <2> QED BY <2>2, <2>3, <2>4 DEF g, h
<1>6. enc_key(z, pks, ag, x, p, S, c)
        = Add(SumOfPairings(w, x.sa2),
              Add(Mul(x.sa1[0], Mul(B, a)), Mul(Mul(d, n_inv), Mul(a, gamma))))
  <2> DEFINE wt(v) == Sum([i \in S |-> Mul(v[i], evals(S)[i])])
             vk == [i \in S |-> pks[i].bls_pk[c]]
             vx == [i \in S |-> pks[i].sk_li_x[c]]
             v0 == [i \in S |-> pks[i].sk_li_minus0[c]]
             u == <<Neg(Mul(wt(vk), n_inv)), Neg(wt(ag[c])), Neg(wt(vx)), wt(v0),
                    Neg(commit(z.powers_of_g[c], bhat(S, x.t))), Neg(og)>>
  <2>1. \A v : wt(v) = Weighted(S, v)
    BY SumIsTotal DEF Weighted, Dot
  <2>2. enc_key(z, pks, ag, x, p, S, c)
          = Add(SumOfPairings(u, x.sa2),
                Add(Pairing(x.sa1[0], commit(z.powers_of_h[c], b_poly(S))),
                    Pairing(Mul(wt(p), n_inv), z.gamma_g2[c])))
    BY DEF enc_key, evals, SumOfPairings
  <2>3. u = w
    <3> HIDE DEF og, ag, th, wt, vk, vx, v0, qk, qx, q0, qz, a, B
    <3>1. wt(vk) = Mul(qk, a) /\ wt(ag[c]) = Mul(qz, a) /\ wt(vx) = Mul(qx, a) /\ wt(v0) = Mul(q0, a)
      BY <1>2, <2>1 DEF vk, vx, v0
    <3> QED BY <1>5, <3>1
  <2>4. wt(p) = d
    BY <2>1
  <2> HIDE DEF u, w, wt, og, ag, th, vk, vx, v0, qk, qx, q0, qz, a, B, d
  <2> QED BY <1>4, <1>5, <2>2, <2>3, <2>4 DEF Pairing
<1>7. PICK q \in Scalar : og = Mul(q, a) /\ Mul(q, tau) = Sub(B, One)
  BY <1>5 DEF Opening
<1>8. th \in Scalar
  <2> HIDE DEF B
  <2> QED BY <1>3, ScalarClosed
<1> HIDE DEF a, B, qk, qx, q0, qz, th, d, og, ag
<1>9. /\ Neg(Mul(Mul(qk, a), n_inv)) \in Scalar /\ Neg(Mul(qz, a)) \in Scalar
      /\ Neg(Mul(qx, a)) \in Scalar /\ Mul(q0, a) \in Scalar
      /\ Neg(Mul(th, a)) \in Scalar /\ Neg(og) \in Scalar
  BY <1>1, <1>2, <1>7, <1>8, ScalarClosed
<1>10. /\ SumOfPairings(w, x.sa2)
            = Add(Mul(Neg(og), x.sa2[5]), Add(Mul(Neg(Mul(th, a)), x.sa2[4]),
                Add(Mul(Mul(q0, a), x.sa2[3]), Add(Mul(Neg(Mul(qx, a)), x.sa2[2]),
                  Add(Mul(Neg(Mul(qz, a)), x.sa2[1]),
                      Mul(Neg(Mul(Mul(qk, a), n_inv)), x.sa2[0]))))))
       /\ SumOfPairings(w, x.sa2) \in Scalar
  <2> DEFINE w0 == Neg(Mul(Mul(qk, a), n_inv))
             w1 == Neg(Mul(qz, a))
             w2 == Neg(Mul(qx, a))
             w3 == Mul(q0, a)
             w4 == Neg(Mul(th, a))
             w5 == Neg(og)
             y == x.sa2
  <2>1. /\ w0 \in Scalar /\ w1 \in Scalar /\ w2 \in Scalar /\ w3 \in Scalar /\ w4 \in Scalar
        /\ w5 \in Scalar /\ w = <<w0, w1, w2, w3, w4, w5>> /\ y \in [0 .. 5 -> Scalar]
    BY <1>9
  <2> HIDE DEF w0, w1, w2, w3, w4, w5, w, y
  <2>2. ArePairings(w, y, w0, w1, w2, w3, w4, w5)
    BY <2>1, SixPairings
  <2> QED BY <2>2 DEF ArePairings, w0, w1, w2, w3, w4, w5, y
<1>11. enc_key(z, pks, ag, x, p, S, c) = Pairings(a, gamma, qk, qx, q0, qz, B, q, th, d, x)
  <2> HIDE DEF w
  <2> QED BY <1>6, <1>7, <1>10 DEF Pairings
<1>12. enc_key(z, pks, ag, x, p, S, c) \in Scalar
  <2> DEFINE s6 == SumOfPairings(w, x.sa2)
             y1 == Mul(x.sa1[0], Mul(B, a))
             sg == Mul(Mul(d, n_inv), Mul(a, gamma))
  <2>1. x.sa1[0] \in Scalar
    OBVIOUS
  <2>2. y1 \in Scalar /\ sg \in Scalar
    BY <1>1, <1>3, <2>1, ScalarClosed
  <2>3. s6 \in Scalar
    BY <1>10
  <2>4. enc_key(z, pks, ag, x, p, S, c) = Add(s6, Add(y1, sg))
    BY <1>6
  <2> HIDE DEF s6, y1, sg
  <2> QED BY <2>2, <2>3, <2>4, ScalarClosed
<1> QED BY <1>7, <1>11, <1>12 DEF a, B, qk, qx, q0, qz, th, d, ag

LEMMA PairedOne ==
  ASSUME NEW x \in Scalar, NEW w \in Scalar, NEW a \in Scalar, NEW p \in Scalar
  PROVE  Paired(x, One, w, a, p) = Mul(Mul(x, w), Mul(a, p))
BY MulOne DEF Paired

LEMMA Distributes ==
  ASSUME NEW u \in Scalar, NEW v \in Scalar, NEW w \in Scalar, NEW c \in Scalar
  PROVE  Mul(Mul(Add(u, v), w), c) = Add(Mul(Mul(u, w), c), Mul(Mul(v, w), c))
<1> DEFINE p == Mul(u, w)
           q == Mul(v, w)
<1>1. p \in Scalar /\ q \in Scalar /\ Mul(Add(u, v), w) = Add(p, q)
  BY ScalarLaws, ScalarClosed
<1> HIDE DEF p, q
<1>2. Mul(Add(p, q), c) = Add(Mul(p, c), Mul(q, c))
  BY <1>1, ScalarLaws
<1> QED BY <1>1, <1>2 DEF p, q

(* The part of a ciphertext that is in G1, paired with the commitment to b. *)
BodyIs(B, K, T, qz, D, qx, tau, ap, q, a, p, s0, s3, s4) ==
  Mul(Add(Mul(Mul(K, p), s0), Add(Mul(Mul(T, p), s3), Mul(Mul(One, p), s4))), Mul(B, a))
    = Add(Add(Paired(qz, D, s0, a, p), Add(Paired(qx, tau, s0, a, p), Paired(ap, One, s0, a, p))),
          Add(Paired(Mul(T, B), One, s3, a, p),
              Add(Paired(q, tau, s4, a, p), Mul(s4, Mul(a, p)))))

LEMMA Body ==
  ASSUME NEW B \in Scalar, NEW K \in Scalar, NEW T \in Scalar, NEW qz \in Scalar, NEW D \in Scalar,
         NEW qx \in Scalar, NEW tau \in Scalar, NEW ap \in Scalar, NEW q \in Scalar,
         NEW a \in Scalar, NEW p \in Scalar, NEW s0 \in Scalar, NEW s3 \in Scalar, NEW s4 \in Scalar,
         Mul(B, K) = Add(Mul(qz, D), Add(Mul(qx, tau), ap)), Mul(q, tau) = Sub(B, One)
  PROVE  BodyIs(B, K, T, qz, D, qx, tau, ap, q, a, p, s0, s3, s4)
<1> DEFINE c == Mul(a, p)
           u0 == Mul(Mul(K, p), s0)
           u3 == Mul(Mul(T, p), s3)
           u4 == Mul(Mul(One, p), s4)
           Ba == Mul(B, a)
           z == Mul(qz, D)
           f == Mul(qx, tau)
           g == Mul(q, tau)
<1>1. c \in Scalar /\ Ba \in Scalar /\ One \in Scalar
  BY ScalarClosed
<1>2. u0 \in Scalar /\ u3 \in Scalar /\ u4 \in Scalar
  <2>1. u0 \in Scalar
    BY ScalarClosed
  <2>2. u3 \in Scalar
    BY ScalarClosed
  <2>3. u4 \in Scalar
    BY ScalarClosed
  <2> QED BY <2>1, <2>2, <2>3
<1>3. z \in Scalar /\ f \in Scalar /\ g \in Scalar /\ Mul(B, T) \in Scalar
  BY ScalarClosed
<1>4. Mul(Ba, u0) = Paired(B, K, s0, a, p)
  BY PairingFactors
<1>5. Mul(Ba, u3) = Paired(B, T, s3, a, p)
  BY PairingFactors
<1>6. Mul(Ba, u4) = Paired(B, One, s4, a, p)
  BY <1>1, PairingFactors
<1>7. Mul(Add(u0, Add(u3, u4)), Ba) = Add(Mul(Ba, u0), Add(Mul(Ba, u3), Mul(Ba, u4)))
  <2> DEFINE v == Add(u3, u4)
  <2> HIDE DEF u0, u3, u4, Ba
  <2>1. v \in Scalar /\ Mul(Ba, v) = Add(Mul(Ba, u3), Mul(Ba, u4))
    BY <1>1, <1>2, MulAdd, ScalarClosed
  <2> HIDE DEF v
  <2>2. Add(u0, v) \in Scalar /\ Mul(Ba, Add(u0, v)) = Add(Mul(Ba, u0), Mul(Ba, v))
    BY <1>1, <1>2, <2>1, MulAdd, ScalarClosed
  <2>3. Mul(Add(u0, v), Ba) = Mul(Ba, Add(u0, v))
    BY <1>1, <2>2, ScalarLaws
  <2> QED BY <2>1, <2>2, <2>3 DEF v
<1>8. Paired(B, K, s0, a, p)
        = Add(Paired(qz, D, s0, a, p), Add(Paired(qx, tau, s0, a, p), Paired(ap, One, s0, a, p)))
  <2> HIDE DEF c, z, f
  <2> DEFINE e == Add(f, ap)
  <2>1. e \in Scalar /\ Mul(B, K) = Add(z, e)
    BY <1>3, ScalarClosed DEF z, f
  <2> HIDE DEF e
  <2>2. Mul(Mul(Add(z, e), s0), c) = Add(Mul(Mul(z, s0), c), Mul(Mul(e, s0), c))
    BY <1>1, <1>3, <2>1, Distributes
  <2>3. Mul(Mul(e, s0), c) = Add(Mul(Mul(f, s0), c), Mul(Mul(ap, s0), c))
    BY <1>1, <1>3, Distributes DEF e
  <2>4. Paired(B, K, s0, a, p) = Mul(Mul(Mul(B, K), s0), c)
    BY DEF Paired, c
  <2>5. Paired(qz, D, s0, a, p) = Mul(Mul(z, s0), c)
    BY DEF Paired, c, z
  <2>6. Paired(qx, tau, s0, a, p) = Mul(Mul(f, s0), c)
    BY DEF Paired, c, f
  <2>7. Paired(ap, One, s0, a, p) = Mul(Mul(ap, s0), c)
    BY PairedOne DEF c
  <2> QED BY <2>1, <2>2, <2>3, <2>4, <2>5, <2>6, <2>7
<1>9. Paired(B, T, s3, a, p) = Paired(Mul(T, B), One, s3, a, p)
  <2>1. Mul(B, T) = Mul(T, B) /\ Mul(T, B) \in Scalar
    BY ScalarLaws, ScalarClosed
  <2>2. Paired(Mul(T, B), One, s3, a, p) = Mul(Mul(Mul(T, B), s3), Mul(a, p))
    BY <2>1, PairedOne
  <2> QED BY <2>1, <2>2 DEF Paired
<1>10. Paired(B, One, s4, a, p) = Add(Paired(q, tau, s4, a, p), Mul(s4, Mul(a, p)))
  <2> HIDE DEF c, g
  <2>1. B = Add(g, One)
    BY <1>1, <1>3, AddSub DEF g
  <2>2. Mul(Mul(Add(g, One), s4), c) = Add(Mul(Mul(g, s4), c), Mul(Mul(One, s4), c))
    BY <1>1, <1>3, Distributes
  <2>3. Paired(B, One, s4, a, p) = Mul(Mul(B, s4), c)
    BY PairedOne DEF c
  <2>4. Paired(q, tau, s4, a, p) = Mul(Mul(g, s4), c)
    BY DEF Paired, g, c
  <2>5. Mul(One, s4) = s4
    BY MulOne
  <2> QED BY <2>1, <2>2, <2>3, <2>4, <2>5 DEF c
<1> HIDE DEF u0, u3, u4, Ba
<1> QED BY <1>4, <1>5, <1>6, <1>7, <1>8, <1>9, <1>10 DEF BodyIs, u0, u3, u4, Ba

(* The weighted sum of the answers: that of the shares, and what is wrong   *)
(* with them.                                                               *)
AnswersAre(qk, e, a, gamma, p, s2) ==
  Mul(Mul(Add(Mul(qk, Mul(Mul(One, p), s2)), e), n_inv), Mul(a, gamma))
    = Add(Paired(Mul(qk, n_inv), gamma, s2, a, p), Mul(Mul(e, n_inv), Mul(a, gamma)))

LEMMA Answers ==
  ASSUME NEW qk \in Scalar, NEW e \in Scalar, NEW a \in Scalar, NEW gamma \in Scalar,
         NEW p \in Scalar, NEW s2 \in Scalar
  PROVE  AnswersAre(qk, e, a, gamma, p, s2)
<1> DEFINE ps == Mul(Mul(One, p), s2)
           k == Mul(qk, ps)
           ag == Mul(a, gamma)
           ap == Mul(qk, n_inv)
           ga == Mul(ap, gamma)
<1>1. n_inv \in Scalar /\ One \in Scalar
  BY SteAssumption, ScalarClosed
<1>2. ps \in Scalar /\ ag \in Scalar /\ ap \in Scalar
  BY <1>1, ScalarClosed
<1>3. k \in Scalar /\ ga \in Scalar
  <2> HIDE DEF ps, ap
  <2> QED BY <1>2, ScalarClosed
<1>4. Mul(Mul(Add(k, e), n_inv), ag) = Add(Mul(Mul(k, n_inv), ag), Mul(Mul(e, n_inv), ag))
  <2> HIDE DEF k, ag
  <2> QED BY <1>1, <1>2, <1>3, Distributes
<1>5. Mul(Mul(k, n_inv), ag) = Mul(Mul(ap, ps), ag)
  <2> HIDE DEF ps
  <2>1. Mul(Mul(qk, ps), n_inv) = Mul(Mul(qk, n_inv), ps)
    BY <1>1, <1>2, MulSwap
  <2> QED BY <2>1
<1>6. Mul(Mul(ap, ps), ag) = Mul(Mul(ap, ag), ps)
  <2> HIDE DEF ap, ps, ag
  <2> QED BY <1>2, MulSwap
<1>7. Mul(ap, ag) = Mul(ga, a)
  <2> HIDE DEF ap
  <2>1. Mul(ap, Mul(a, gamma)) = Mul(Mul(ap, a), gamma)
    BY <1>2, ScalarLaws
  <2>2. Mul(Mul(ap, a), gamma) = Mul(Mul(ap, gamma), a)
    BY <1>2, MulSwap
  <2> QED BY <2>1, <2>2
<1>8. Mul(Mul(ga, a), ps) = Paired(ga, One, s2, a, p)
  <2> HIDE DEF ga
  <2> QED BY <1>1, <1>3, PairingFactors
<1>9. Paired(ga, One, s2, a, p) = Paired(ap, gamma, s2, a, p)
  <2>1. Paired(ga, One, s2, a, p) = Mul(Mul(ga, s2), Mul(a, p))
    <3> HIDE DEF ga
    <3> QED BY <1>3, PairedOne
  <2> QED BY <2>1 DEF Paired
<1> HIDE DEF ps, k, ag, ap, ga
<1>10. Mul(Mul(Add(k, e), n_inv), ag) = Add(Paired(ap, gamma, s2, a, p), Mul(Mul(e, n_inv), ag))
  BY <1>4, <1>5, <1>6, <1>7, <1>8, <1>9
<1> QED BY <1>10 DEF AnswersAre, ps, k, ag, ap

(* A ciphertext for a full committee, in the exponent.                      *)
CipherOf(x, tau, gamma, K, T, p, s) ==
  /\ x.sa1[0] = Add(Mul(Mul(K, p), s[0]), Add(Mul(Mul(T, p), s[3]), Mul(Mul(One, p), s[4])))
  /\ x.sa1[1] = Mul(Mul(One, p), s[2])
  /\ x.sa2[0] = Add(Mul(Mul(One, p), s[0]), Mul(Mul(gamma, p), s[2]))
  /\ x.sa2[1] = Mul(Mul(vanish(tau), p), s[0])
  /\ x.sa2[2] = Add(Mul(Mul(tau, p), s[0]), Mul(Mul(Mul(tau, tau), p), s[1]))
  /\ x.sa2[3] = Mul(Mul(One, p), s[1])
  /\ x.sa2[4] = Mul(Mul(One, p), s[3])
  /\ x.sa2[5] = Mul(Mul(tau, p), s[4])

LEMMA CipherIs ==
  ASSUME NEW tau, NEW r, NEW gamma, NEW z, NEW key, NEW pks,
         Setting(tau, r, gamma, z, key, n, pks), NEW e, e = encryption_key(z, pks, n),
         NEW t \in 0 .. n, NEW s, NEW m, NEW x, x = encrypt(z, e, t, s, m)
  PROVE  CipherOf(x, tau, gamma, Total(by_lag(positions, key, tau)), Powers(tau)[t], r[0], s)
<1> DEFINE p == r[0]
           P == Powers(tau)
           K == Total(by_lag(positions, key, tau))
<1>1. /\ tau \in Scalar /\ gamma \in Scalar /\ p \in Scalar /\ ChunkOf(z, tau, p, gamma, 0)
      /\ n \in Nat /\ n >= 2 /\ positions = 0 .. n - 1
  BY Sizes, UsableTau DEF Setting, CrsOf
<1>2. /\ z.powers_of_g[0] = [k \in 0 .. n |-> Mul(P[k], p)]
      /\ z.powers_of_h[0] = [k \in 0 .. n |-> Mul(P[k], p)]
  BY <1>1 DEF ChunkOf
<1>3. P[0] = One /\ P[1] = tau /\ P[2] = Mul(tau, tau) /\ P[n] \in Scalar
  <2>1. IsPowers(P, tau)
    BY <1>1, PowersExist
  <2> HIDE DEF P
  <2>2. P[0] = One /\ P[0 + 1] = Mul(P[0], tau) /\ P[1 + 1] = Mul(P[1], tau) /\ P[n] \in Scalar
    BY <1>1, <2>1 DEF IsPowers
  <2>3. P[1] = tau
    BY <1>1, <2>2, MulOne
  <2> QED BY <2>2, <2>3
<1>4. /\ e.ask = Mul(K, p) /\ e.z_g2 = Sub(Mul(P[n], p), Mul(P[0], p))
      /\ e.gamma_g2[0] = Mul(p, gamma)
  <2>1. /\ e.ask = Mul(Total(by_lag(0 .. n - 1, key, tau)), p)
        /\ e.z_g2 = Sub(Mul(P[n], p), Mul(P[0], p)) /\ e.gamma_g2[0] = Mul(p, gamma)
    BY EncryptionKey
  <2> QED BY <1>1, <2>1
<1>5. e.z_g2 = Mul(vanish(tau), p) /\ e.gamma_g2[0] = Mul(gamma, p)
  <2>1. One \in Scalar
    BY ScalarClosed
  <2> HIDE DEF P, p
  <2>2. Mul(Sub(P[n], One), p) = Sub(Mul(P[n], p), Mul(One, p))
    BY <1>1, <1>3, <2>1, MulSub
  <2>3. Mul(p, gamma) = Mul(gamma, p)
    BY <1>1, ScalarLaws
  <2> QED BY <1>3, <1>4, <2>2, <2>3 DEF vanish, P
<1>6. Components(x, z, e, t, s, m)
  BY EncryptIs
<1>7. /\ z.powers_of_g[0][t] = Mul(P[t], p) /\ z.powers_of_g[0][0] = Mul(One, p)
      /\ z.powers_of_h[0][0] = Mul(One, p) /\ z.powers_of_h[0][1] = Mul(tau, p)
      /\ z.powers_of_h[0][2] = Mul(Mul(tau, tau), p)
  <2>1. 0 \in 0 .. n /\ 1 \in 0 .. n /\ 2 \in 0 .. n
    BY <1>1
  <2> HIDE DEF P, p
  <2> QED BY <1>2, <1>3, <2>1
<1> HIDE DEF p, P, K
<1> QED BY <1>4, <1>5, <1>6, <1>7 DEF Components, CipherOf, p, P, K

Crosses(x, y, w, a, p) ==
  /\ Mul(Mul(x, a), Mul(Mul(y, p), w)) = Paired(x, y, w, a, p)
  /\ Mul(Neg(Mul(x, a)), Mul(Mul(y, p), w)) = Neg(Paired(x, y, w, a, p))
  /\ Paired(x, y, w, a, p) \in Scalar

LEMMA PairingCrosses ==
  ASSUME NEW x \in Scalar, NEW y \in Scalar, NEW w \in Scalar, NEW a \in Scalar, NEW p \in Scalar
  PROVE  Crosses(x, y, w, a, p)
BY PairingFactors DEF Crosses

PairedSum(x, y, w, y2, w2, a, p) ==
  Mul(Neg(Mul(x, a)), Add(Mul(Mul(y, p), w), Mul(Mul(y2, p), w2)))
    = Neg(Add(Paired(x, y, w, a, p), Paired(x, y2, w2, a, p)))

LEMMA PairedSums ==
  ASSUME NEW x \in Scalar, NEW y \in Scalar, NEW w \in Scalar, NEW y2 \in Scalar,
         NEW w2 \in Scalar, NEW a \in Scalar, NEW p \in Scalar
  PROVE  PairedSum(x, y, w, y2, w2, a, p)
<1> DEFINE f == Neg(Mul(x, a))
           u == Mul(Mul(y, p), w)
           v == Mul(Mul(y2, p), w2)
           P == Paired(x, y, w, a, p)
           Q == Paired(x, y2, w2, a, p)
<1>1. f \in Scalar /\ u \in Scalar
  BY ScalarClosed
<1>2. v \in Scalar
  BY ScalarClosed
<1>3. Mul(f, u) = Neg(P) /\ P \in Scalar
  BY PairingFactors
<1>4. Mul(f, v) = Neg(Q) /\ Q \in Scalar
  BY PairingFactors
<1> HIDE DEF f, u, v, P, Q
<1>5. Mul(f, Add(u, v)) = Add(Mul(f, u), Mul(f, v))
  BY <1>1, <1>2, MulAdd
<1>6. Neg(Add(P, Q)) = Add(Neg(P), Neg(Q))
  BY <1>3, <1>4, NegAdd
<1>7. Mul(f, Add(u, v)) = Neg(Add(P, Q))
  BY <1>3, <1>4, <1>5, <1>6
<1> QED BY <1>7 DEF PairedSum, f, u, v, P, Q

(* agg_dec recovers the mask of the message, up to what is wrong with the   *)
(* answers: dev is how they differ from the shares.                         *)
LEMMA EncKeyOpens ==
  ASSUME NEW tau, NEW r, NEW gamma, NEW z, NEW key, NEW pks,
         Setting(tau, r, gamma, z, key, n, pks), NEW e, e = encryption_key(z, pks, n),
         NEW t \in 0 .. n, NEW s \in [0 .. 4 -> Scalar], NEW m \in [chunks -> Scalar],
         NEW x, x = encrypt(z, e, t, s, m),
         NEW c \in chunks, NEW S \in SUBSET positions, S # {}, t + degree(S) <= n,
         NEW dev, Vec(dev, S), NEW h, ScaledBy(h, key, x.sa1[1], S),
         NEW p, AddsUp(p, h, dev, S)
  PROVE  /\ enc_key(z, pks, agg_sk_li_lj_z(pks, n), x, p, S, c)
              = Add(Mul(s[4], Mul(r[c], r[0])),
                    Mul(Mul(Weighted(S, dev), n_inv), Mul(r[c], gamma)))
         /\ Weighted(S, dev) \in Scalar
<1> DEFINE a == r[c]
           b == r[0]
           T == Powers(tau)[t]
           K == Total(by_lag(positions, key, tau))
           B == b_at(S, tau)
           D == vanish(tau)
           tt == Mul(tau, tau)
           qk == Weighted(S, key)
           qx == Weighted(S, by_x(S, key, tau))
           q0 == Weighted(S, by_0(S, key, tau))
           qz == Weighted(S, by_z(S, key, tau, n))
           ql == Weighted(S, by_lag(S, key, tau))
           ap == Mul(qk, n_inv)
           err == Weighted(S, dev)
           th == Mul(T, B)
           s0 == s[0]
           s1 == s[1]
           s2 == s[2]
           s3 == s[3]
           s4 == s[4]
           d == Weighted(S, p)
           ek0 == enc_key(z, pks, agg_sk_li_lj_z(pks, n), x, p, S, c)
<1>1. /\ Usable(tau) /\ tau \in Scalar /\ gamma \in Scalar /\ a \in Scalar /\ b \in Scalar
      /\ n_inv \in Scalar /\ positions = 0 .. n - 1 /\ n \in 1 .. n /\ Vec(key, positions)
      /\ 0 \in positions /\ n \in Nat
  BY Sizes, UsableTau, SteAssumption DEF Setting
<1>2. /\ x.sa1 \in [0 .. 1 -> Scalar] /\ x.sa2 \in [0 .. 5 -> Scalar] /\ x.t = t
  <2>1. Bases(z, e, t)
    BY BasesType
  <2> QED BY <2>1, EncryptType
<1>3. CipherOf(x, tau, gamma, K, T, b, s)
  BY CipherIs
<1>4. /\ qk \in Scalar /\ qx \in Scalar /\ q0 \in Scalar /\ qz \in Scalar
  <2>1. S \in SUBSET (0 .. n - 1)
    BY <1>1
  <2> QED BY <2>1, AddedUp
<1>5. /\ K \in Scalar /\ B \in Scalar /\ D \in Scalar /\ T \in Scalar /\ err \in Scalar
  <2>1. K \in Scalar
    BY <1>1, RowSums
  <2>2. B \in Scalar
    BY <1>1, BPoly
  <2>3. D \in Scalar
    BY <1>1, UsableTau
  <2>4. T \in Scalar
    <3>1. t \in Nat
      BY <1>1
    <3> QED BY <1>1, <3>1, PowersType
  <2>5. err \in Scalar
    BY WeightedType
  <2> QED BY <2>1, <2>2, <2>3, <2>4, <2>5
<1>6. /\ s0 \in Scalar /\ s1 \in Scalar /\ s2 \in Scalar /\ s3 \in Scalar /\ s4 \in Scalar
  OBVIOUS
<1>7. ql = Add(Mul(qx, tau), ap) /\ q0 = Mul(qx, tt)
  BY <1>1, WeightsX
<1>8. Mul(B, K) = Add(Mul(qz, D), ql)
  BY <1>1, WeightsZ
<1>9. d = Add(Mul(qk, Mul(Mul(One, b), s2)), err) /\ Vec(p, S)
  <2> DEFINE f == x.sa1[1]
             ev == evals(S)
  <2>1. f \in Scalar /\ f = Mul(Mul(One, b), s2)
    BY <1>2, <1>3 DEF CipherOf
  <2>2. Vec(key, S) /\ IsFiniteSet(S) /\ Vec(ev, S) /\ ScaledBy(h, key, f, S)
    <3>1. Vec(key, S)
      BY <1>1 DEF Vec
    <3> QED BY <3>1, WeightedType
  <2> HIDE DEF f, ev
  <2>3. Dot(S, h, ev) = Mul(Dot(S, key, ev), f) /\ Vec(h, S)
    BY <2>1, <2>2, DotTimes
  <2>4. Dot(S, p, ev) = Add(Dot(S, h, ev), Dot(S, dev, ev)) /\ Vec(p, S)
    BY <2>2, <2>3, DotPlus
  <2> QED BY <2>1, <2>3, <2>4 DEF Weighted, ev
<1>10. PICK q \in Scalar : Mul(q, tau) = Sub(B, One)
                           /\ ek0 = Pairings(a, gamma, qk, qx, q0, qz, B, q, th, d, x)
  <2>1. S \in SUBSET (0 .. n - 1) /\ x.t \in Nat /\ x.t + degree(S) <= n
    BY <1>1, <1>2
  <2>2. \E q \in Scalar :
              /\ Mul(q, tau) = Sub(b_at(S, tau), One)
              /\ enc_key(z, pks, agg_sk_li_lj_z(pks, n), x, p, S, c)
                   = Pairings(r[c], gamma, Weighted(S, key), Weighted(S, by_x(S, key, tau)),
                       Weighted(S, by_0(S, key, tau)), Weighted(S, by_z(S, key, tau, n)),
                       b_at(S, tau), q, Mul(Powers(tau)[x.t], b_at(S, tau)), Weighted(S, p), x)
    BY <1>2, <1>9, <2>1, EncKeyIs
  <2> QED BY <1>2, <2>2
<1>11. /\ x.sa1[0] = Add(Mul(Mul(K, b), s0), Add(Mul(Mul(T, b), s3), Mul(Mul(One, b), s4)))
       /\ x.sa2[0] = Add(Mul(Mul(One, b), s0), Mul(Mul(gamma, b), s2))
       /\ x.sa2[1] = Mul(Mul(D, b), s0)
       /\ x.sa2[2] = Add(Mul(Mul(tau, b), s0), Mul(Mul(tt, b), s1))
       /\ x.sa2[3] = Mul(Mul(One, b), s1)
       /\ x.sa2[4] = Mul(Mul(One, b), s3)
       /\ x.sa2[5] = Mul(Mul(tau, b), s4)
  BY <1>3 DEF CipherOf
<1> HIDE DEF a, b, T, K, B, D, qk, qx, q0, qz, ql, err, d, ek0, s0, s1, s2, s3, s4
<1>12. ap \in Scalar /\ tt \in Scalar /\ th \in Scalar /\ One \in Scalar
  BY <1>1, <1>4, <1>5, ScalarClosed
<1>13. /\ Mul(Mul(qk, a), n_inv) = Mul(ap, a)
       /\ q0 = Mul(qx, tt)
       /\ Mul(B, K) = Add(Mul(qz, D), Add(Mul(qx, tau), ap))
  BY <1>1, <1>4, <1>7, <1>8, MulSwap
<1> DEFINE sg0 == Mul(Mul(err, n_inv), Mul(a, gamma))
           mk == Mul(s4, Mul(a, b))
           a0 == Paired(ap, One, s0, a, b)
           a2 == Paired(ap, gamma, s2, a, b)
           z0 == Paired(qz, D, s0, a, b)
           f0 == Paired(qx, tau, s0, a, b)
           h1 == Paired(qx, tt, s1, a, b)
           t3 == Paired(th, One, s3, a, b)
           g4 == Paired(q, tau, s4, a, b)
<1>14. Mul(Neg(Mul(Mul(qk, a), n_inv)), x.sa2[0]) = Neg(Add(a0, a2))
  <2> HIDE DEF ap
  <2>1. PairedSum(ap, One, s0, gamma, s2, a, b)
    BY <1>1, <1>6, <1>12, PairedSums
  <2> QED BY <1>11, <1>13, <2>1 DEF PairedSum
<1>15. Mul(Neg(Mul(qz, a)), x.sa2[1]) = Neg(z0) /\ z0 \in Scalar
  <2>1. Crosses(qz, D, s0, a, b)
    BY <1>1, <1>4, <1>5, <1>6, PairingCrosses
  <2> QED BY <1>11, <2>1 DEF Crosses
<1>16. Mul(Neg(Mul(qx, a)), x.sa2[2]) = Neg(Add(f0, h1))
  <2> HIDE DEF tt
  <2>1. PairedSum(qx, tau, s0, tt, s1, a, b)
    BY <1>1, <1>4, <1>6, <1>12, PairedSums
  <2> QED BY <1>11, <2>1 DEF PairedSum
<1>17. Mul(Mul(q0, a), x.sa2[3]) = h1 /\ h1 \in Scalar
  <2> HIDE DEF tt
  <2>1. Mul(Mul(q0, a), Mul(Mul(One, b), s1)) = Paired(q0, One, s1, a, b)
    <3>1. Crosses(q0, One, s1, a, b)
      BY <1>1, <1>4, <1>6, <1>12, PairingCrosses
    <3> QED BY <3>1 DEF Crosses
  <2>2. Paired(q0, One, s1, a, b) = Mul(Mul(q0, s1), Mul(a, b))
    BY <1>1, <1>4, <1>6, PairedOne
  <2>3. h1 \in Scalar
    BY <1>1, <1>4, <1>6, <1>12, PairingFactors
  <2> QED BY <1>11, <1>13, <2>1, <2>2, <2>3 DEF Paired
<1>18. Mul(Neg(Mul(th, a)), x.sa2[4]) = Neg(t3) /\ t3 \in Scalar
  <2> HIDE DEF th
  <2>1. Crosses(th, One, s3, a, b)
    BY <1>1, <1>6, <1>12, PairingCrosses
  <2> QED BY <1>11, <2>1 DEF Crosses
<1>19. Mul(Neg(Mul(q, a)), x.sa2[5]) = Neg(g4) /\ g4 \in Scalar
  BY <1>1, <1>6, <1>11, PairingFactors
<1>20. a0 \in Scalar /\ a2 \in Scalar /\ f0 \in Scalar
  <2> HIDE DEF ap
  <2>1. a0 \in Scalar
    BY <1>1, <1>6, <1>12, PairingFactors
  <2>2. a2 \in Scalar
    BY <1>1, <1>6, <1>12, PairingFactors
  <2>3. f0 \in Scalar
    BY <1>1, <1>4, <1>6, PairingFactors
  <2> QED BY <2>1, <2>2, <2>3
<1>21. mk \in Scalar /\ sg0 \in Scalar
  BY <1>1, <1>5, <1>6, ScalarClosed
<1>22. Mul(x.sa1[0], Mul(B, a)) = Add(Add(z0, Add(f0, a0)), Add(t3, Add(g4, mk)))
  <2> HIDE DEF ap
  <2>1. Mul(B, K) = Add(Mul(qz, D), Add(Mul(qx, tau), ap)) /\ Mul(q, tau) = Sub(B, One)
    BY <1>10, <1>13
  <2>2. BodyIs(B, K, T, qz, D, qx, tau, ap, q, a, b, s0, s3, s4)
    BY <1>1, <1>4, <1>5, <1>6, <1>12, <2>1, Body
  <2> QED BY <1>11, <2>2 DEF BodyIs
<1>23. Mul(Mul(d, n_inv), Mul(a, gamma)) = Add(a2, sg0)
  <2>1. AnswersAre(qk, err, a, gamma, b, s2)
    BY <1>1, <1>4, <1>5, <1>6, Answers
  <2> QED BY <1>9, <2>1 DEF AnswersAre
<1>24. ek0 = Add(mk, sg0)
  <2> DEFINE six == Add(Neg(g4), Add(Neg(t3), Add(h1, Add(Neg(Add(f0, h1)),
                          Add(Neg(z0), Neg(Add(a0, a2)))))))
             y == Add(Add(z0, Add(f0, a0)), Add(t3, Add(g4, mk)))
             sigma == Add(a2, sg0)
  <2>1. ek0 = Add(six, Add(y, sigma))
    <3> HIDE DEF mk, sg0, a0, a2, z0, f0, h1, t3, g4, th
    <3> QED BY <1>10, <1>14, <1>15, <1>16, <1>17, <1>18, <1>19, <1>22, <1>23 DEF Pairings
  <2>2. /\ a0 \in Scalar /\ a2 \in Scalar /\ z0 \in Scalar /\ f0 \in Scalar
        /\ h1 \in Scalar /\ t3 \in Scalar /\ g4 \in Scalar /\ mk \in Scalar /\ sg0 \in Scalar
    BY <1>15, <1>17, <1>18, <1>19, <1>20, <1>21
  <2> HIDE DEF mk, sg0, a0, a2, z0, f0, h1, t3, g4
  <2>3. six = Add(Neg(g4), Add(Neg(t3), Add(h1, Add(Neg(Add(f0, h1)),
                          Add(Neg(z0), Neg(Add(a0, a2)))))))
        /\ y = Add(Add(z0, Add(f0, a0)), Add(t3, Add(g4, mk)))
        /\ sigma = Add(a2, sg0)
    OBVIOUS
  <2> HIDE DEF six, y, sigma
  <2>4. Cancels(mk, sg0, six, y, sigma)
    BY <2>2, <2>3, PairingsCancel
  <2> QED BY <2>1, <2>3, <2>4 DEF Cancels
<1> QED BY <1>5, <1>24 DEF ek0, mk, sg0, err, s4, a, b

(* What agg_dec returns for one chunk: the message, less what the wrong     *)
(* answers weigh.                                                           *)
Recovered(y, m, w, a, gamma) == y = Sub(m, Mul(Mul(w, n_inv), Mul(a, gamma)))

LEMMA DecryptsTo ==
  ASSUME NEW tau, NEW r, NEW gamma, NEW z, NEW key, NEW pks,
         Setting(tau, r, gamma, z, key, n, pks), NEW e, e = encryption_key(z, pks, n),
         NEW t \in 0 .. n, NEW s \in [0 .. 4 -> Scalar], NEW m \in [chunks -> Scalar],
         NEW x, x = encrypt(z, e, t, s, m),
         NEW c \in chunks, NEW S \in SUBSET positions, S # {}, t + degree(S) <= n,
         NEW dev, Vec(dev, S), NEW h, ScaledBy(h, key, x.sa1[1], S),
         NEW p, AddsUp(p, h, dev, S)
  PROVE  /\ Recovered(agg_dec(z, pks, agg_sk_li_lj_z(pks, n), x, p, S)[c], m[c],
                      Weighted(S, dev), r[c], gamma)
         /\ Weighted(S, dev) \in Scalar
<1> DEFINE a == r[c]
           b == r[0]
           ab == Mul(a, b)
           s4 == s[4]
           mk == Mul(s4, ab)
           w == Weighted(S, dev)
           err == Mul(Mul(w, n_inv), Mul(a, gamma))
           key0 == enc_key(z, pks, agg_sk_li_lj_z(pks, n), x, p, S, c)
           mc == m[c]
<1>1. key0 = Add(mk, err) /\ w \in Scalar
  BY EncKeyOpens
<1>2. a \in Scalar /\ b \in Scalar /\ gamma \in Scalar /\ n_inv \in Scalar /\ s4 \in Scalar
      /\ mc \in Scalar
  BY Sizes, SteAssumption DEF Setting
<1>3. e.e_gh[c] = ab
  BY EncryptionKey
<1>4. x.ct[c] = Add(Mul(e.e_gh[c], s[4]), m[c]) /\ DOMAIN x.ct = chunks
  BY EncryptIs DEF Components
<1>5. agg_dec(z, pks, agg_sk_li_lj_z(pks, n), x, p, S)[c] = Sub(x.ct[c], key0)
  BY <1>4 DEF agg_dec
<1> HIDE DEF a, b, w, key0, s4, mc
<1>6. ab \in Scalar /\ err \in Scalar /\ mk \in Scalar
  BY <1>1, <1>2, ScalarClosed
<1>7. Mul(ab, s4) = mk
  <2> HIDE DEF ab
  <2> QED BY <1>2, <1>6, ScalarLaws
<1>8. Sub(Add(mk, mc), Add(mk, err)) = Sub(mc, err)
  <2> HIDE DEF mk, err
  <2>1. Sub(Add(mk, mc), Add(mk, err)) = Add(Sub(mk, mk), Sub(mc, err))
    BY <1>2, <1>6, SubAdd
  <2>2. Sub(mk, mk) = Zero /\ Sub(mc, err) \in Scalar
    BY <1>2, <1>6, SubSelf, SubClosed
  <2> QED BY <2>1, <2>2, AddZero
<1>9. Sub(x.ct[c], key0) = Sub(mc, err)
  <2>1. x.ct[c] = Add(Mul(ab, s4), mc)
    BY <1>3, <1>4 DEF s4, mc
  <2> HIDE DEF ab, mk, err
  <2> QED BY <1>1, <1>7, <1>8, <2>1
<1> QED BY <1>1, <1>5, <1>9 DEF Recovered, a, w, mc, key0

(* The type of what the components compute.                                 *)
LEMMA AggregateType ==
  ASSUME NEW tau, NEW r, NEW gamma, NEW z, NEW key, NEW len, NEW pks,
         Setting(tau, r, gamma, z, key, len, pks)
  PROVE  agg_sk_li_lj_z(pks, len) \in [chunks -> [positions -> Scalar]]
<1> DEFINE R == 0 .. len - 1
           part(c, i) == [j \in R |-> pks[j].sk_li_lj_z[c][i]]
<1>1. Usable(tau) /\ len \in 1 .. n /\ Vec(key, R) /\ n \in Nat
  BY Sizes DEF Setting
<1>2. ASSUME NEW c \in chunks, NEW i \in positions, i < len
      PROVE  Total(part(c, i)) \in Scalar
  <2> DEFINE f == part(c, i)
  <2>1. i \in positions /\ i \in 0 .. len - 1
    BY <1>1, <1>2 DEF positions
  <2>2. ASSUME NEW j \in R
        PROVE  f[j] \in Scalar
    <3>1. f[j] = Mul(Mul(over_z(j, i, tau), key[j]), r[c])
      BY <2>1, PartyKey
    <3>2. Mul(over_z(j, i, tau), key[j]) \in Scalar
      <4> DEFINE g == row_z(i, key, tau, len)
      <4>1. 0 .. len - 1 \in SUBSET (0 .. len - 1)
        OBVIOUS
      <4>2. Vec(g, 0 .. len - 1)
        BY <1>1, <2>1, <4>1, WeightsType
      <4>3. g[j] = Mul(over_z(j, i, tau), key[j])
        BY DEF row_z
      <4> HIDE DEF g
      <4>4. g[j] \in Scalar
        BY <4>2 DEF Vec
      <4> QED BY <4>3, <4>4
    <3>3. r[c] \in Scalar
      BY DEF Setting
    <3> QED BY <3>1, <3>2, <3>3, ScalarClosed
  <2>3. IsFiniteSet(R)
    <3> DEFINE e == len - 1
    <3>1. 0 \in Int /\ e \in Int
      BY <1>1
    <3> HIDE DEF e
    <3>2. IsFiniteSet(0 .. e)
      BY <3>1, FS_Interval
    <3> QED BY <3>2 DEF e
  <2>4. f = [j \in R |-> f[j]]
    OBVIOUS
  <2> HIDE DEF f, R
  <2>5. f \in [R -> Scalar]
    BY <2>2, <2>4
  <2>6. Total(f) \in Scalar
    BY <2>3, <2>5, TotalType
  <2> QED BY <2>6 DEF f
<1>3. \A c \in chunks, i \in positions : (IF i < len THEN Sum(part(c, i)) ELSE Zero) \in Scalar
  <2> HIDE DEF part
  <2> QED BY <1>2, SumIsTotal, ScalarClosed
<1>4. agg_sk_li_lj_z(pks, len)
        = [c \in chunks |-> [i \in positions |-> IF i < len THEN Sum(part(c, i)) ELSE Zero]]
  BY DEF agg_sk_li_lj_z
<1> HIDE DEF part
<1> QED BY <1>3, <1>4

(* The check of the commitment to bhat is the threshold.                    *)
LEMMA CommitmentBound ==
  ASSUME NEW tau, NEW r, NEW gamma, NEW z, CrsOf(z, tau, r, gamma),
         NEW t \in Nat, NEW S \in SUBSET positions
  PROVE  /\ too_many_coefficients(z.powers_of_g[0], bhat(S, t)) <=> Cardinality(S) < t
         /\ Cardinality(S) \in 0 .. n
         /\ t <= Cardinality(S) => t \in 0 .. n /\ t + degree(S) <= n
<1> DEFINE d == t + n - Cardinality(S)
<1>1. n \in Nat /\ degree(S) \in 0 .. n /\ IsFiniteSet(S) /\ 0 \in chunks
  BY Sizes, BPoly
<1>2. Cardinality(S) \in Nat /\ Cardinality(S) \in 0 .. n
  <2>1. Cardinality(S) \in Nat
    BY <1>1, FS_CardinalityType
  <2> QED BY <1>1, <2>1 DEF degree
<1>3. d \in Nat /\ 0 \in Int /\ n \in Int /\ d \in Int
  BY <1>1, <1>2
<1>4. DOMAIN bhat(S, t) = 0 .. d
  BY DEF bhat
<1>5. DOMAIN z.powers_of_g[0] = 0 .. n
  BY <1>1 DEF CrsOf, ChunkOf
<1>6. Cardinality(0 .. n) = n + 1
  BY <1>1, <1>3, FS_Interval
<1>7. Cardinality(0 .. d) = d + 1
  <2> HIDE DEF d
  <2> QED BY <1>3, FS_Interval
<1>8. too_many_coefficients(z.powers_of_g[0], bhat(S, t)) <=> d + 1 > n + 1
  <2> HIDE DEF d
  <2> QED BY <1>4, <1>5, <1>6, <1>7 DEF too_many_coefficients
<1> QED BY <1>1, <1>2, <1>8 DEF degree

-----------------------------------------------------------------------------
(* The inductive invariant                                                  *)

Working == pc \notin {"crs", "panic_inverse"}
Aggregated == pc \in {"open", "done", "panic_index", "panic_commit"}

Types ==
  /\ pc \in {"crs", "keys", "open", "done", "panic_inverse", "panic_index", "panic_commit"}
  /\ joined \in 0 .. n /\ sk \in [0 .. joined - 1 -> SecretKeys]
  /\ DOMAIN lag_pks = 0 .. joined - 1
  /\ count \in 0 .. MaxCts /\ m_sum \in [chunks -> Scalar]
  /\ pd \in [positions -> Scalar] /\ selector \in SUBSET positions

(* The reference string is one that CRS::new draws without a panic.         *)
CrsDrawn ==
  Working => \E tau \in Taus, r \in Generators, gamma \in Gammas :
               ~tau_panics(tau) /\ crs = deterministic_new(tau, r, gamma)

(* Every key is the one its owner computes, however it was published.       *)
KeysPublished ==
  \A i \in 0 .. joined - 1 : lag_pks[i] = get_lagrange_pk(crs, sk[i], i)

(* The sum is an encryption of the sum; nothing was added to one with a     *)
(* threshold above n.                                                       *)
Encrypted(x, e, z, m) ==
  IF x.t <= n THEN \E s \in [0 .. 4 -> Scalar] : x = encrypt(z, e, x.t, s, m)
  ELSE x = zero(x.t)

SumEncrypted ==
  Aggregated =>
    /\ joined > 0 /\ ct.t \in Thresholds
    /\ agg = agg_sk_li_lj_z(lag_pks, joined) /\ ek = encryption_key(crs, lag_pks, joined)
    /\ Encrypted(ct, ek, crs, m_sum)

Decrypted ==
  /\ pc \in {"crs", "keys"} => m_sum = [c \in chunks |-> Zero]
  /\ ~Working => joined = 0
  /\ pc = "panic_commit" => Cardinality(selector) < ct.t
  /\ pc = "done" =>
       /\ selector \in SUBSET (0 .. joined - 1) /\ Cardinality(selector) >= ct.t
       /\ result = agg_dec(crs, lag_pks, agg, ct, pd, selector)

IInv == Types /\ CrsDrawn /\ KeysPublished /\ SumEncrypted /\ Decrypted

(* The parameters behind the state of a committee at work.                  *)
LEMMA Drawn ==
  ASSUME IInv, Working
  PROVE  \E tau \in Taus, r \in Generators, gamma \in Gammas :
           /\ CrsOf(crs, tau, r, gamma) /\ Usable(tau)
           /\ r \in [chunks -> Scalar] /\ gamma \in Scalar /\ gamma # Zero
           /\ \A c \in chunks : r[c] # Zero
           /\ joined > 0 => Setting(tau, r, gamma, crs, sk, joined, lag_pks)
<1>1. PICK tau \in Taus, r \in Generators, gamma \in Gammas :
        ~tau_panics(tau) /\ crs = deterministic_new(tau, r, gamma)
  BY DEF IInv, CrsDrawn
<1>2. /\ Usable(tau) /\ r \in [chunks -> Scalar] /\ gamma \in Scalar /\ gamma # Zero
      /\ \A c \in chunks : r[c] # Zero
  BY <1>1, SpacesAssumption DEF Usable
<1>3. CrsOf(crs, tau, r, gamma)
  BY <1>1, <1>2, CrsIs
<1>4. ASSUME joined > 0
      PROVE  Setting(tau, r, gamma, crs, sk, joined, lag_pks)
  <2>1. joined \in 1 .. n /\ sk \in [0 .. joined - 1 -> Scalar]
    BY <1>4, SpacesAssumption, Sizes DEF IInv, Types
  <2>2. Vec(sk, 0 .. joined - 1)
    BY <2>1, VecFcn
  <2>3. \A i \in 0 .. joined - 1 : lag_pks[i] = get_lagrange_pk(crs, sk[i], i)
    BY DEF IInv, KeysPublished
  <2> QED BY <1>2, <1>3, <2>1, <2>2, <2>3 DEF Setting
<1> QED BY <1>2, <1>3, <1>4

LEMMA InitInv == Init => IInv
<1> SUFFICES ASSUME Init
             PROVE  IInv
  OBVIOUS
<1>1. joined = 0 /\ 0 .. joined - 1 = {} /\ pc = "crs"
  BY DEF Init
<1>2. Types
  <2>1. sk \in [0 .. joined - 1 -> SecretKeys]
    <3>1. sk = [k \in {} |-> Zero]
      BY DEF Init, Unset
    <3>2. [k \in {} |-> Zero] \in [{} -> SecretKeys]
      OBVIOUS
    <3> QED BY <1>1, <3>1, <3>2
  <2>2. count \in 0 .. MaxCts /\ joined \in 0 .. n
    BY SpacesAssumption, Sizes DEF Init
  <2>3. m_sum \in [chunks -> Scalar] /\ pd \in [positions -> Scalar] /\ selector \in SUBSET positions
    BY ScalarClosed DEF Init
  <2>4. DOMAIN lag_pks = 0 .. joined - 1
    BY <1>1 DEF Init, Unset
  <2> QED BY <1>1, <2>1, <2>2, <2>3, <2>4 DEF Types
<1>3. KeysPublished
  BY <1>1 DEF KeysPublished
<1> QED BY <1>1, <1>2, <1>3 DEF IInv, CrsDrawn, SumEncrypted, Decrypted, Init, Working, Aggregated

(* The steps of Next, one by one.                                           *)
LEMMA CrsNewStep ==
  ASSUME IInv, NEW tau \in Taus, NEW r \in Generators, NEW gamma \in Gammas, CrsNew(tau, r, gamma)
  PROVE  IInv'
<1>1. /\ pc = "crs" /\ joined = 0 /\ joined' = joined /\ pc' \in {"panic_inverse", "keys"}
      /\ m_sum = [c \in chunks |-> Zero] /\ m_sum' = m_sum
  BY DEF CrsNew, IInv, Decrypted, Working
<1>2. Types'
  BY <1>1 DEF CrsNew, IInv, Types
<1>3. CrsDrawn'
  BY <1>1 DEF CrsNew, CrsDrawn, Working
<1>4. KeysPublished'
  BY <1>1 DEF KeysPublished
<1> QED BY <1>1, <1>2, <1>3, <1>4 DEF IInv, SumEncrypted, Decrypted, Working, Aggregated

LEMMA PublishStep ==
  ASSUME IInv, NEW key \in SecretKeys, NEW via_hints \in BOOLEAN, Publish(key, via_hints)
  PROVE  IInv'
<1>1. /\ pc = "keys" /\ joined < n /\ joined \in Nat /\ joined' = joined + 1 /\ n \in Nat
      /\ sk' = [i \in 0 .. joined |-> IF i = joined THEN key ELSE sk[i]]
      /\ 0 .. joined' - 1 = 0 .. joined /\ Working
  BY Sizes DEF Publish, IInv, Types, Working
<1>2. sk' \in [0 .. joined' - 1 -> SecretKeys]
  <2>1. \A i \in 0 .. joined : i # joined => i \in 0 .. joined - 1
    BY <1>1
  <2>2. \A i \in 0 .. joined : (IF i = joined THEN key ELSE sk[i]) \in SecretKeys
    BY <2>1 DEF IInv, Types
  <2> QED BY <1>1, <2>2
<1>3. Types'
  <2>1. DOMAIN lag_pks' = 0 .. joined
    BY DEF Publish
  <2>2. joined' \in 0 .. n
    BY <1>1
  <2> QED BY <1>1, <1>2, <2>1, <2>2 DEF Publish, IInv, Types
<1>4. KeysPublished'
  <2>1. ASSUME NEW i \in 0 .. joined
        PROVE  lag_pks'[i] = get_lagrange_pk(crs, sk'[i], i)
    <3>1. CASE i < joined
      <4>1. lag_pks'[i] = lag_pks[i] /\ i \in 0 .. joined - 1 /\ sk'[i] = sk[i]
        BY <1>1, <3>1 DEF Publish
      <4> QED BY <4>1 DEF IInv, KeysPublished
    <3>2. CASE ~(i < joined)
      <4>1. i = joined /\ sk'[i] = key
        BY <1>1, <3>2
      <4>2. lag_pks'[i] = IF via_hints THEN get_lag_public_key(get_pk(crs, key), joined)
                          ELSE get_lagrange_pk(crs, key, joined)
        BY <3>2 DEF Publish
      <4>3. get_lag_public_key(get_pk(crs, key), joined) = get_lagrange_pk(crs, key, joined)
        <5>1. PICK tau, r, gamma : CrsOf(crs, tau, r, gamma) /\ Usable(tau) /\ r \in [chunks -> Scalar]
          BY <1>1, Drawn
        <5>2. key \in Scalar /\ joined \in positions
          BY <1>1, SpacesAssumption DEF positions
        <5> QED BY <5>1, <5>2, HintsSame
      <4> QED BY <4>1, <4>2, <4>3
    <3> QED BY <3>1, <3>2
  <2> QED BY <1>1, <2>1 DEF KeysPublished, Publish
<1>5. CrsDrawn'
  BY <1>1 DEF Publish, IInv, CrsDrawn, Working
<1>6. pc' = "keys" /\ m_sum' = [c \in chunks |-> Zero]
  BY <1>1 DEF Publish, IInv, Decrypted
<1> QED BY <1>3, <1>4, <1>5, <1>6 DEF IInv, SumEncrypted, Decrypted, Working, Aggregated

LEMMA AggregateStep ==
  ASSUME IInv, NEW t \in Thresholds, Aggregate(t)
  PROVE  IInv'
<1>1. /\ pc = "keys" /\ joined > 0 /\ Working /\ pc' = "open" /\ ct' = zero(t)
      /\ UNCHANGED <<crs, sk, joined, lag_pks, count, m_sum, pd, selector, result>>
      /\ agg' = agg_sk_li_lj_z(lag_pks, joined) /\ ek' = encryption_key(crs, lag_pks, joined)
      /\ m_sum = [c \in chunks |-> Zero] /\ n \in Nat /\ t \in Nat /\ t \in Thresholds
  BY Sizes, SpacesAssumption DEF Aggregate, Working, IInv, Decrypted
<1>2. Types' /\ CrsDrawn' /\ KeysPublished' /\ Decrypted'
  <2>1. Types'
    BY <1>1 DEF IInv, Types
  <2>2. CrsDrawn'
    BY <1>1 DEF IInv, CrsDrawn, Working
  <2>3. KeysPublished'
    BY <1>1 DEF IInv, KeysPublished
  <2>4. Decrypted'
    BY <1>1 DEF Decrypted, Working
  <2> QED BY <2>1, <2>2, <2>3, <2>4
<1>3. Encrypted(zero(t), ek', crs, m_sum)
  <2>1. zero(t).t = t
    BY DEF zero
  <2>2. CASE t <= n
    <3> DEFINE s == [k \in 0 .. 4 |-> Zero]
    <3>1. PICK tau, r, gamma : Setting(tau, r, gamma, crs, sk, joined, lag_pks)
      BY <1>1, Drawn
    <3>2. t \in 0 .. n
      BY <1>1, <2>2
    <3>3. Bases(crs, ek', t)
      BY <1>1, <3>1, <3>2, BasesType
    <3>4. zero(t) = encrypt(crs, ek', t, s, m_sum) /\ s \in [0 .. 4 -> Scalar]
      BY <1>1, <3>3, EncryptZero
    <3> HIDE DEF s
    <3> QED BY <2>1, <2>2, <3>4 DEF Encrypted
  <2>3. CASE ~(t <= n)
    BY <2>1, <2>3 DEF Encrypted
  <2> QED BY <2>2, <2>3
<1>4. SumEncrypted'
  <2>1. zero(t).t = t
    BY DEF zero
  <2> QED BY <1>1, <1>3, <2>1 DEF SumEncrypted, Aggregated
<1> QED BY <1>2, <1>4 DEF IInv

LEMMA EncryptAndAddStep ==
  ASSUME IInv, NEW s \in Nonces, NEW m \in Messages, EncryptAndAdd(s, m)
  PROVE  IInv'
<1>1. /\ pc = "open" /\ Working /\ Aggregated /\ joined > 0 /\ n \in Nat
      /\ ct.t \in Thresholds /\ ct.t \in Nat
      /\ UNCHANGED <<crs, sk, joined, lag_pks, agg, ek, pd, selector, result>>
      /\ agg = agg_sk_li_lj_z(lag_pks, joined) /\ ek = encryption_key(crs, lag_pks, joined)
      /\ Encrypted(ct, ek, crs, m_sum) /\ m_sum \in [chunks -> Scalar]
  BY Sizes, SpacesAssumption
     DEF EncryptAndAdd, Working, Aggregated, IInv, SumEncrypted, Types
<1>2. CASE ct.t > n
  <2>1. pc' = "panic_index" /\ UNCHANGED <<count, ct, m_sum>>
    BY <1>2 DEF EncryptAndAdd
  <2>2. Types'
    BY <1>1, <2>1 DEF IInv, Types
  <2>3. CrsDrawn' /\ KeysPublished'
    BY <1>1, <2>1 DEF IInv, CrsDrawn, KeysPublished, Working
  <2>4. SumEncrypted'
    BY <1>1, <2>1 DEF SumEncrypted, Aggregated
  <2>5. Decrypted'
    BY <2>1 DEF Decrypted, Working
  <2> QED BY <2>2, <2>3, <2>4, <2>5 DEF IInv
<1>3. CASE ~(ct.t > n)
  <2>1. /\ ct' = add(ct, encrypt(crs, ek, ct.t, s, m))
        /\ m_sum' = [c \in chunks |-> Add(m_sum[c], m[c])]
        /\ count < MaxCts /\ count' = count + 1 /\ pc' = "open"
    BY <1>1, <1>3 DEF EncryptAndAdd
  <2>2. /\ s \in [0 .. 4 -> Scalar] /\ m \in [chunks -> Scalar] /\ MaxCts \in Nat
        /\ ct.t \in 0 .. n /\ ct.t <= n
    BY <1>1, <1>3, SpacesAssumption
  <2>3. PICK s0 \in [0 .. 4 -> Scalar] : ct = encrypt(crs, ek, ct.t, s0, m_sum)
    BY <1>1, <2>2 DEF Encrypted
  <2> DEFINE t == ct.t
             s3 == [k \in 0 .. 4 |-> Add(s0[k], s[k])]
  <2>4. Bases(crs, ek, t)
    <3>1. PICK tau, r, gamma : Setting(tau, r, gamma, crs, sk, joined, lag_pks)
      BY <1>1, Drawn
    <3> QED BY <1>1, <2>2, <3>1, BasesType
  <2>5. /\ add(encrypt(crs, ek, t, s0, m_sum), encrypt(crs, ek, t, s, m))
             = encrypt(crs, ek, t, s3, m_sum')
        /\ s3 \in [0 .. 4 -> Scalar] /\ m_sum' \in [chunks -> Scalar]
    <3> HIDE DEF t
    <3> QED BY <1>1, <2>1, <2>2, <2>4, EncryptAdds
  <2>6. ct' = encrypt(crs, ek, t, s3, m_sum') /\ ct'.t = t
    <3>1. ct' = encrypt(crs, ek, t, s3, m_sum')
      BY <2>1, <2>3, <2>5
    <3> QED BY <3>1 DEF encrypt
  <2>7. Encrypted(ct', ek, crs, m_sum')
    <3> HIDE DEF s3
    <3> QED BY <2>2, <2>5, <2>6 DEF Encrypted
  <2>8. SumEncrypted'
    BY <1>1, <2>6, <2>7 DEF SumEncrypted
  <2>9. Types'
    <3>1. count' \in 0 .. MaxCts
      BY <2>1, <2>2 DEF IInv, Types
    <3> QED BY <1>1, <2>1, <2>5, <3>1 DEF IInv, Types
  <2>10. CrsDrawn' /\ KeysPublished'
    BY <1>1, <2>1 DEF IInv, CrsDrawn, KeysPublished, Working
  <2>11. Decrypted'
    BY <2>1 DEF Decrypted, Working
  <2> QED BY <2>8, <2>9, <2>10, <2>11 DEF IInv
<1> QED BY <1>2, <1>3

(* A ciphertext has the types of one.                                       *)
LEMMA CiphertextType ==
  ASSUME IInv, Aggregated
  PROVE  /\ ct.sa1 \in [0 .. 1 -> Scalar] /\ ct.sa2 \in [0 .. 5 -> Scalar]
         /\ ct.ct \in [chunks -> Scalar] /\ ct.t \in Thresholds /\ ct.t \in Nat
<1>1. /\ Working /\ joined > 0 /\ n \in Nat /\ ct.t \in Thresholds /\ ct.t \in Nat
      /\ ek = encryption_key(crs, lag_pks, joined)
      /\ Encrypted(ct, ek, crs, m_sum) /\ m_sum \in [chunks -> Scalar]
  BY Sizes, SpacesAssumption DEF Working, Aggregated, IInv, SumEncrypted, Types
<1>2. CASE ct.t <= n
  <2>1. PICK s \in [0 .. 4 -> Scalar] : ct = encrypt(crs, ek, ct.t, s, m_sum)
    BY <1>1, <1>2 DEF Encrypted
  <2>2. PICK tau, r, gamma : Setting(tau, r, gamma, crs, sk, joined, lag_pks)
    BY <1>1, Drawn
  <2> DEFINE t == ct.t
  <2>3. Bases(crs, ek, t)
    BY <1>1, <1>2, <2>2, BasesType
  <2> HIDE DEF t
  <2>4. ct = encrypt(crs, ek, t, s, m_sum)
    BY <2>1 DEF t
  <2>5. ct.sa1 \in [0 .. 1 -> Scalar] /\ ct.sa2 \in [0 .. 5 -> Scalar] /\ ct.ct \in [chunks -> Scalar]
    BY <1>1, <2>3, <2>4, EncryptType
  <2> QED BY <1>1, <2>5
<1>3. CASE ~(ct.t <= n)
  <2>1. ct = zero(ct.t)
    BY <1>1, <1>3 DEF Encrypted
  <2> DEFINE t == ct.t
  <2> HIDE DEF t
  <2>2. ct = zero(t)
    BY <2>1 DEF t
  <2>3. ct.sa1 \in [0 .. 1 -> Scalar] /\ ct.sa2 \in [0 .. 5 -> Scalar] /\ ct.ct \in [chunks -> Scalar]
    BY <2>2, ScalarClosed DEF zero
  <2> QED BY <1>1, <2>3
<1> QED BY <1>2, <1>3

LEMMA AnswerStep ==
  ASSUME IInv, NEW i \in positions, NEW slot \in positions, Answer(i, slot)
  PROVE  IInv'
<1>1. /\ pc = "open" /\ Aggregated /\ i < joined /\ i \in 0 .. joined - 1
      /\ pd' = [pd EXCEPT ![slot] = share(i)]
      /\ UNCHANGED <<pc, crs, sk, joined, lag_pks, agg, ek, count, ct, m_sum, selector, result>>
  BY DEF Answer, Aggregated, IInv, Types, positions
<1>2. share(i) \in Scalar
  <2>1. ct.sa1[1] \in Scalar /\ sk[i] \in Scalar
    BY <1>1, CiphertextType, SpacesAssumption DEF IInv, Types
  <2> QED BY <2>1, ScalarClosed DEF share
<1>3. Types'
  <2>1. pd' \in [positions -> Scalar]
    BY <1>1, <1>2 DEF IInv, Types
  <2> QED BY <1>1, <2>1 DEF IInv, Types
<1>4. CrsDrawn' /\ KeysPublished'
  BY <1>1 DEF IInv, CrsDrawn, KeysPublished, Working
<1>5. SumEncrypted'
  BY <1>1 DEF IInv, SumEncrypted, Aggregated
<1>6. Decrypted'
  BY <1>1 DEF IInv, Decrypted, Working
<1> QED BY <1>3, <1>4, <1>5, <1>6 DEF IInv

LEMMA AggDecStep ==
  ASSUME IInv, NEW S \in SUBSET positions, AggDec(S)
  PROVE  IInv'
<1>1. /\ pc = "open" /\ Working /\ Aggregated /\ selector' = S
      /\ pc' \in {"panic_commit", "panic_index", "done"}
      /\ UNCHANGED <<crs, sk, joined, lag_pks, agg, ek, count, ct, m_sum, pd>>
      /\ ct.t \in Nat /\ joined \in Nat
  BY CiphertextType DEF AggDec, Working, Aggregated, IInv, Types
<1>2. /\ too_many_coefficients(crs.powers_of_g[0], bhat(S, ct.t)) <=> Cardinality(S) < ct.t
      /\ Cardinality(S) \in 0 .. n
  <2>1. PICK tau, r, gamma : CrsOf(crs, tau, r, gamma)
    BY <1>1, Drawn
  <2> DEFINE t == ct.t
  <2>2. t \in Nat
    BY <1>1
  <2> HIDE DEF t
  <2>3. /\ too_many_coefficients(crs.powers_of_g[0], bhat(S, t)) <=> Cardinality(S) < t
        /\ Cardinality(S) \in 0 .. n
    BY <2>1, <2>2, CommitmentBound
  <2> QED BY <2>3 DEF t
<1>3. Types'
  BY <1>1 DEF IInv, Types
<1>4. CrsDrawn' /\ KeysPublished'
  BY <1>1 DEF IInv, CrsDrawn, KeysPublished, Working
<1>5. SumEncrypted'
  BY <1>1 DEF IInv, SumEncrypted, Aggregated
<1>6. Decrypted'
  <2>1. pc' = "panic_commit" => Cardinality(S) < ct.t
    BY <1>2 DEF AggDec
  <2>2. ASSUME pc' = "done"
        PROVE  /\ S \in SUBSET (0 .. joined - 1) /\ Cardinality(S) >= ct.t
               /\ result' = agg_dec(crs, lag_pks, agg, ct, pd, S)
    <3>1. /\ ~too_many_coefficients(crs.powers_of_g[0], bhat(S, ct.t))
          /\ \A i \in S : ~(i >= joined)
          /\ result' = agg_dec(crs, lag_pks, agg, ct, pd, S)
      BY <2>2 DEF AggDec
    <3>2. Cardinality(S) >= ct.t
      BY <1>1, <1>2, <3>1, Sizes
    <3>3. S \in SUBSET (0 .. joined - 1)
      BY <1>1, <3>1 DEF positions
    <3> QED BY <3>1, <3>2, <3>3
  <2> QED BY <1>1, <2>1, <2>2 DEF Decrypted, Working
<1> QED BY <1>3, <1>4, <1>5, <1>6 DEF IInv

LEMMA StutterStep ==
  ASSUME IInv, UNCHANGED vars
  PROVE  IInv'
BY DEF vars, IInv, Types, CrsDrawn, KeysPublished, SumEncrypted, Decrypted, Working, Aggregated

LEMMA NextInv ==
  ASSUME IInv, [Next]_vars
  PROVE  IInv'
<1>1. CASE \E tau \in Taus, r \in Generators, gamma \in Gammas : CrsNew(tau, r, gamma)
  BY <1>1, CrsNewStep
<1>2. CASE \E key \in SecretKeys, via_hints \in BOOLEAN : Publish(key, via_hints)
  BY <1>2, PublishStep
<1>3. CASE \E t \in Thresholds : Aggregate(t)
  BY <1>3, AggregateStep
<1>4. CASE \E s \in Nonces, m \in Messages : EncryptAndAdd(s, m)
  BY <1>4, EncryptAndAddStep
<1>5. CASE \E i \in positions : \E slot \in {i} \cup Misfiled : Answer(i, slot)
  BY <1>5, AnswerStep, SpacesAssumption
<1>6. CASE \E S \in SUBSET positions : AggDec(S)
  BY <1>6, AggDecStep
<1>7. CASE UNCHANGED vars
  BY <1>7, StutterStep
<1> QED BY <1>1, <1>2, <1>3, <1>4, <1>5, <1>6, <1>7 DEF Next

LEMMA Inductive == Spec => []IInv
BY InitInv, NextInv, PTL DEF Spec

-----------------------------------------------------------------------------
(* A call of agg_dec for a full committee: dev is how the answers differ    *)
(* from the shares of the sum.                                              *)
wrong(S) == [i \in S |-> Sub(pd[i], share(i))]

DecryptedTo(S, r, gamma) ==
  \A c \in chunks : Recovered(result[c], m_sum[c], Weighted(S, wrong(S)), r[c], gamma)

LEMMA CallDecrypts ==
  ASSUME IInv, pc = "done", joined = n, selector # {}
  PROVE  /\ \E r, gamma : /\ DecryptedTo(selector, r, gamma)
                          /\ gamma \in Scalar /\ gamma # Zero
                          /\ r \in [chunks -> Scalar] /\ \A c \in chunks : r[c] # Zero
         /\ Vec(wrong(selector), selector) /\ Weighted(selector, wrong(selector)) \in Scalar
         /\ selector \in SUBSET positions
         /\ \A i \in selector : wrong(selector)[i] = Zero <=> fresh(i)
<1> DEFINE S == selector
           t == ct.t
           dev == wrong(S)
           h == [i \in S |-> share(i)]
<1>1. /\ Working /\ Aggregated /\ t \in Nat /\ S \in SUBSET positions /\ S # {}
      /\ Cardinality(S) >= t /\ n \in 1 .. n /\ n \in Nat
      /\ agg = agg_sk_li_lj_z(lag_pks, n) /\ ek = encryption_key(crs, lag_pks, n)
      /\ result = agg_dec(crs, lag_pks, agg, ct, pd, S)
      /\ Encrypted(ct, ek, crs, m_sum) /\ m_sum \in [chunks -> Scalar]
      /\ pd \in [positions -> Scalar] /\ sk \in [positions -> SecretKeys]
      /\ ct.sa1 \in [0 .. 1 -> Scalar] /\ ct.ct \in [chunks -> Scalar] /\ joined > 0
  BY CiphertextType, Sizes
     DEF Working, Aggregated, IInv, Types, Decrypted, SumEncrypted, positions
<1>2. PICK tau \in Taus, r \in Generators, gamma \in Gammas :
        /\ CrsOf(crs, tau, r, gamma) /\ r \in [chunks -> Scalar] /\ gamma \in Scalar
        /\ gamma # Zero /\ \A c \in chunks : r[c] # Zero
        /\ Setting(tau, r, gamma, crs, sk, n, lag_pks)
  BY <1>1, Drawn
<1>3. t \in 0 .. n /\ t + degree(S) <= n
  <2> HIDE DEF t, S
  <2> QED BY <1>1, <1>2, CommitmentBound
<1>4. PICK s \in [0 .. 4 -> Scalar] : ct = encrypt(crs, ek, t, s, m_sum)
  BY <1>1, <1>3 DEF Encrypted
<1>5. \A i \in S : share(i) \in Scalar /\ pd[i] \in Scalar /\ share(i) = Mul(sk[i], ct.sa1[1])
  <2> TAKE i \in S
  <2>1. ct.sa1[1] \in Scalar /\ sk[i] \in Scalar /\ pd[i] \in Scalar
    BY <1>1, SpacesAssumption
  <2> QED BY <2>1, ScalarClosed, ScalarLaws DEF share
<1>6. /\ Vec(dev, S) /\ ScaledBy(h, sk, ct.sa1[1], S) /\ AddsUp(pd, h, dev, S)
  <2>1. \A i \in S : dev[i] = Sub(pd[i], share(i)) /\ h[i] = share(i)
    BY DEF wrong
  <2> HIDE DEF dev, h, S
  <2>2. \A i \in S : dev[i] \in Scalar
    BY <1>5, <2>1, SubClosed
  <2>3. \A i \in S : pd[i] = Add(h[i], dev[i])
    <3> TAKE i \in S
    <3>1. Add(Sub(pd[i], share(i)), share(i)) = pd[i]
      BY <1>5, AddSub
    <3> QED BY <1>5, <2>1, <2>2, <3>1, ScalarLaws
  <2> QED BY <1>5, <2>1, <2>2, <2>3 DEF Vec, ScaledBy, AddsUp
<1>7. \A i \in S : dev[i] = Zero <=> fresh(i)
  <2> TAKE i \in S
  <2>1. dev[i] = Sub(pd[i], share(i))
    BY DEF wrong
  <2> HIDE DEF dev
  <2> QED BY <1>5, <2>1, SubZero, SubSelf DEF fresh
<1>8. ASSUME NEW c \in chunks
      PROVE  /\ Recovered(result[c], m_sum[c], Weighted(S, dev), r[c], gamma)
             /\ Weighted(S, dev) \in Scalar
  <2> HIDE DEF S, dev, h, t
  <2>1. /\ Recovered(agg_dec(crs, lag_pks, agg_sk_li_lj_z(lag_pks, n), ct, pd, S)[c], m_sum[c],
                     Weighted(S, dev), r[c], gamma)
        /\ Weighted(S, dev) \in Scalar
    BY <1>1, <1>2, <1>3, <1>4, <1>6, DecryptsTo
  <2> QED BY <1>1, <2>1
<1>9. DecryptedTo(S, r, gamma) /\ Weighted(S, dev) \in Scalar
  <2> HIDE DEF S
  <2> QED BY <1>8, Sizes DEF DecryptedTo
<1> QED BY <1>1, <1>2, <1>6, <1>7, <1>9

(* The types, also of what agg_dec returns for a smaller committee.         *)
THEOREM TypesOK == Spec => []TypeOK
<1>1. IInv => TypeOK
  <2> SUFFICES ASSUME IInv
               PROVE  TypeOK
    OBVIOUS
  <2>1. ASSUME pc \in {"open", "done"}
        PROVE  /\ agg \in [chunks -> [positions -> Scalar]]
               /\ ct.sa1 \in [0 .. 1 -> Scalar] /\ ct.sa2 \in [0 .. 5 -> Scalar]
               /\ ct.ct \in [chunks -> Scalar] /\ ct.t \in Thresholds
    <3>1. Aggregated /\ Working /\ joined > 0 /\ agg = agg_sk_li_lj_z(lag_pks, joined)
      BY <2>1 DEF Aggregated, Working, IInv, SumEncrypted
    <3>2. PICK tau, r, gamma : Setting(tau, r, gamma, crs, sk, joined, lag_pks)
      BY <3>1, Drawn
    <3> QED BY <3>1, <3>2, AggregateType, CiphertextType
  <2>2. ASSUME pc = "done"
        PROVE  result \in [chunks -> Scalar]
    <3> DEFINE S == selector
               t == ct.t
    <3>1. /\ Aggregated /\ Working /\ joined > 0 /\ agg = agg_sk_li_lj_z(lag_pks, joined)
          /\ S \in SUBSET (0 .. joined - 1) /\ S \in SUBSET positions /\ Cardinality(S) >= t
          /\ result = agg_dec(crs, lag_pks, agg, ct, pd, S) /\ pd \in [positions -> Scalar]
      BY <2>2 DEF Aggregated, Working, IInv, Types, SumEncrypted, Decrypted
    <3>2. PICK tau, r, gamma : Setting(tau, r, gamma, crs, sk, joined, lag_pks)
                               /\ CrsOf(crs, tau, r, gamma)
      BY <3>1, Drawn
    <3>3. /\ ct.sa1 \in [0 .. 1 -> Scalar] /\ ct.sa2 \in [0 .. 5 -> Scalar]
          /\ ct.ct \in [chunks -> Scalar] /\ t \in Nat
      BY <3>1, CiphertextType
    <3>4. t + degree(S) <= n
      <4> HIDE DEF S, t
      <4>1. Cardinality(S) \in 0 .. n
        BY <3>1, <3>2, <3>3, CommitmentBound
      <4> QED BY <3>1, <3>2, <3>3, <4>1, CommitmentBound
    <3>5. Vec(pd, S)
      BY <3>1 DEF Vec
    <3>6. ASSUME NEW c \in chunks
          PROVE  enc_key(crs, lag_pks, agg, ct, pd, S, c) \in Scalar
      <4> HIDE DEF S
      <4> QED BY <3>1, <3>2, <3>3, <3>4, <3>5, EncKeyIs
    <3>7. \A c \in chunks : Sub(ct.ct[c], enc_key(crs, lag_pks, agg, ct, pd, S, c)) \in Scalar
      BY <3>3, <3>6, SubClosed
    <3>8. DOMAIN ct.ct = chunks
      BY <3>3
    <3> QED BY <3>1, <3>7, <3>8 DEF agg_dec
  <2> QED BY <2>1, <2>2 DEF TypeOK, IInv, Types
<1> QED BY <1>1, Inductive, PTL

(* Whichever way the keys were published, they are those of their owners.   *)
THEOREM HintsNeverDiffer == Spec => []HintsAgree
<1>1. IInv => HintsAgree
  BY DEF HintsAgree, IInv, KeysPublished
<1> QED BY <1>1, Inductive, PTL

(* agg_dec returns for just the selections of at least t parties.           *)
THEOREM ThresholdHolds == Spec => []ThresholdEnforced
<1>1. IInv => ThresholdEnforced
  BY DEF ThresholdEnforced, IInv, Decrypted
<1> QED BY <1>1, Inductive, PTL

(* Any t answers or more for the sum recover the sum of the messages.       *)
THEOREM QuorumsOpen == Spec => []QuorumOpens
<1>1. IInv => QuorumOpens
  <2> SUFFICES ASSUME IInv, pc = "done", joined = n, selector # {}, \A i \in selector : fresh(i)
               PROVE  result = m_sum
    BY DEF QuorumOpens
  <2> DEFINE S == selector
             w == Weighted(S, wrong(S))
  <2>1. PICK r, gamma : /\ DecryptedTo(S, r, gamma) /\ gamma \in Scalar
                        /\ r \in [chunks -> Scalar]
    BY CallDecrypts
  <2>2. /\ Vec(wrong(S), S) /\ S \in SUBSET positions /\ AllZero(wrong(S), S)
    BY CallDecrypts DEF AllZero
  <2>3. w = Zero
    <3> DEFINE u == wrong(S)
               ev == evals(S)
               f == [k \in S |-> Mul(u[k], ev[k])]
    <3>1. IsFiniteSet(S) /\ Vec(ev, S) /\ w = Total(f)
      <4>1. w = Total(f)
        BY DEF Weighted, Dot
      <4>2. IsFiniteSet(S) /\ Vec(ev, S)
        <5> HIDE DEF S
        <5> QED BY <2>2, WeightedType
      <4> QED BY <4>1, <4>2
    <3>2. \A k \in S : f[k] = Zero
      <4> HIDE DEF u, ev
      <4>1. \A k \in S : u[k] = Zero
        BY <2>2 DEF AllZero, u
      <4> QED BY <3>1, <4>1, MulZero DEF Vec
    <3>3. f = [k \in S |-> f[k]]
      OBVIOUS
    <3> HIDE DEF f, S
    <3>4. f \in [S -> Scalar] /\ AllZero(f, S)
      BY <3>2, <3>3, ScalarClosed DEF AllZero
    <3> QED BY <3>1, <3>4, TotalZero
  <2>4. ASSUME NEW c \in chunks
        PROVE  result[c] = m_sum[c]
    <3>1. Recovered(result[c], m_sum[c], w, r[c], gamma)
      BY <2>1 DEF DecryptedTo
    <3>2. result[c] = Sub(m_sum[c], Mul(Mul(Zero, n_inv), Mul(r[c], gamma)))
      <4> HIDE DEF w
      <4> QED BY <2>3, <3>1 DEF Recovered
    <3>3. n_inv \in Scalar /\ r[c] \in Scalar /\ gamma \in Scalar /\ m_sum[c] \in Scalar
      BY <2>1, SteAssumption DEF IInv, Types
    <3>4. Mul(Mul(Zero, n_inv), Mul(r[c], gamma)) = Zero
      BY <3>3, MulZero, ScalarClosed
    <3>5. Sub(m_sum[c], Zero) = m_sum[c]
      <4>1. Add(m_sum[c], Zero) = m_sum[c] /\ Zero \in Scalar
        BY <3>3, AddZero, ScalarClosed
      <4> QED BY <3>3, <4>1, AddSub
    <3> QED BY <3>2, <3>4, <3>5
  <2>5. result \in [chunks -> Scalar] /\ m_sum \in [chunks -> Scalar]
    <3>1. DOMAIN ct.ct = chunks /\ result = agg_dec(crs, lag_pks, agg, ct, pd, selector)
      BY CiphertextType DEF Aggregated, IInv, Decrypted
    <3>2. result = [c \in chunks |-> result[c]]
      BY <3>1 DEF agg_dec
    <3>3. m_sum \in [chunks -> Scalar]
      BY DEF IInv, Types
    <3> QED BY <2>4, <3>2, <3>3
  <2> QED BY <2>4, <2>5
<1> QED BY <1>1, Inductive, PTL

(* One wrong answer among the selected spoils every chunk: the weight of a  *)
(* selected party, b at its root of unity, is never zero.                   *)
THEOREM WrongShareSpoils == Spec => []OneWrongShareSpoils
<1>1. IInv => OneWrongShareSpoils
  <2> SUFFICES ASSUME IInv, pc = "done", joined = n,
                      Cardinality({ i \in selector : ~fresh(i) }) = 1, NEW c \in chunks
               PROVE  result[c] # m_sum[c]
    BY DEF OneWrongShareSpoils
  <2> DEFINE S == selector
             u == wrong(S)
             ev == evals(S)
             w == Weighted(S, u)
             W == { i \in S : ~fresh(i) }
  <2>1. S \in SUBSET positions /\ IsFiniteSet(S) /\ Vec(ev, S)
    <3>1. S \in SUBSET positions
      BY DEF IInv, Types
    <3>2. Vec([i \in S |-> Zero], S)
      BY ScalarClosed DEF Vec
    <3> HIDE DEF S
    <3> QED BY <3>1, <3>2, WeightedType
  <2>2. PICK e \in S : ~fresh(e) /\ \A i \in S \ {e} : fresh(i)
    <3>1. IsFiniteSet(W)
      BY <2>1, FS_Subset
    <3>2. PICK e : W = {e}
      <4> HIDE DEF W
      <4> QED BY <3>1, FS_Singleton DEF W
    <3> QED BY <3>2
  <2>3. PICK r, gamma : /\ DecryptedTo(S, r, gamma) /\ gamma \in Scalar /\ gamma # Zero
                        /\ r \in [chunks -> Scalar] /\ r[c] # Zero
    BY <2>2, CallDecrypts
  <2>4. /\ Vec(u, S) /\ w \in Scalar /\ u[e] # Zero /\ AllZero(u, S \ {e})
    BY <2>2, CallDecrypts DEF AllZero
  <2>5. ev[e] # Zero
    <3> HIDE DEF S
    <3> QED BY <2>1, <2>2, Evals
  <2>6. w # Zero
    <3>1. w = Dot(S, u, ev)
      BY DEF Weighted
    <3> HIDE DEF S, u, ev, w
    <3>2. w = Mul(u[e], ev[e])
      BY <2>1, <2>2, <2>4, <3>1, DotSingle
    <3>3. u[e] \in Scalar /\ ev[e] \in Scalar
      BY <2>1, <2>2, <2>4 DEF Vec
    <3> QED BY <2>4, <2>5, <3>2, <3>3, NoZeroDivisors, SteIsField
  <2> HIDE DEF w
  <2>7. n_inv \in Scalar /\ n_inv # Zero /\ One # Zero
    <3>1. Mul(Domain!Sum([k \in 1 .. n |-> One]), n_inv) = One /\ n_inv \in Scalar /\ One # Zero
      BY SteAssumption DEF Domain!IsDomain, IsField
    <3>2. Total([k \in 1 .. n |-> One]) \in Scalar
      <4> DEFINE R == 1 .. n
                 f == [k \in R |-> One]
      <4>1. IsFiniteSet(R)
        <5>1. 1 \in Int /\ n \in Int
          BY Sizes
        <5> QED BY <5>1, FS_Interval
      <4>2. f \in [R -> Scalar]
        BY ScalarClosed
      <4> HIDE DEF f, R
      <4>3. Total(f) \in Scalar
        BY <4>1, <4>2, TotalType
      <4> QED BY <4>3 DEF f, R
    <3> QED BY <3>1, <3>2, SumIsTotal, MulZero
  <2>8. Mul(w, n_inv) \in Scalar /\ Mul(w, n_inv) # Zero
    BY <2>4, <2>6, <2>7, NoZeroDivisors, SteIsField, ScalarClosed
  <2>9. r[c] \in Scalar /\ Mul(r[c], gamma) \in Scalar /\ Mul(r[c], gamma) # Zero
    <3>1. r[c] \in Scalar
      BY <2>3
    <3> QED BY <2>3, <3>1, NoZeroDivisors, SteIsField, ScalarClosed
  <2> DEFINE err == Mul(Mul(w, n_inv), Mul(r[c], gamma))
  <2>10. err \in Scalar /\ err # Zero
    BY <2>8, <2>9, NoZeroDivisors, SteIsField, ScalarClosed
  <2>11. result[c] = Sub(m_sum[c], err) /\ m_sum[c] \in Scalar
    <3>1. Recovered(result[c], m_sum[c], w, r[c], gamma)
      BY <2>3 DEF DecryptedTo, w
    <3> QED BY <3>1 DEF Recovered, IInv, Types
  <2> HIDE DEF err
  <2>12. Add(Sub(m_sum[c], err), err) = m_sum[c]
    BY <2>10, <2>11, AddSub
  <2>13. ASSUME result[c] = m_sum[c]
         PROVE  FALSE
    <3>1. Add(m_sum[c], err) = Add(m_sum[c], Zero)
      BY <2>11, <2>12, <2>13, AddZero
    <3> QED BY <2>10, <2>11, <3>1, AddCancel, ScalarClosed
  <2> QED BY <2>13
<1> QED BY <1>1, Inductive, PTL
=============================================================================
