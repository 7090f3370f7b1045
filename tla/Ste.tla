--------------------------------- MODULE Ste ---------------------------------
(***************************************************************************)
(* The algebra of the silent threshold encryption, exactly, in the         *)
(* exponent: the reference string with its Lagrange hints (ste/crs.rs),    *)
(* the two ways to a party's hints (ste/setup.rs), the aggregate key       *)
(* (ste/aggregate.rs), encryption, and aggregate decryption.               *)
(*                                                                         *)
(* A vector is a function on 0..len-1, and so is a polynomial, from the    *)
(* constant coefficient up.  The G2 hints of the reference string, which   *)
(* only a verification of hints would use, are left out.                   *)
(***************************************************************************)
EXTENDS Integers, ScalarField, Functions, FiniteSets

CONSTANTS
  n,          \* crs.n, a power of two
  l,          \* crs.l
  top_gen,    \* the generator of the domain of size 2n; its square is that of size n
  n_inv,      \* 1 / n
  top_inv     \* 1 / 2n

Domain == INSTANCE Radix2Domain WITH size <- n, group_gen <- Mul(top_gen, top_gen), size_inv <- n_inv

Top == INSTANCE Radix2Domain WITH size <- 2 * n, group_gen <- top_gen, size_inv <- top_inv

(* With n = 1 encrypt and LagPolys::new panic: h^(tau^2) does not exist.    *)
ASSUME SteAssumption ==
  /\ IsField
  /\ n \in Nat /\ n >= 2 /\ l \in Nat \ {0}
  /\ top_gen \in Scalar /\ n_inv \in Scalar /\ top_inv \in Scalar
  /\ Domain!IsDomain /\ Top!IsDomain

chunks == 0 .. l - 1
positions == 0 .. n - 1

Sum(f) == FoldFunction(Add, Zero, f)
Product(f) == FoldFunction(Mul, One, f)
inverse(a) == CHOOSE b \in Scalar : Mul(a, b) = One

scale(v, a) == [k \in DOMAIN v |-> Mul(v[k], a)]
msm(bases, scalars) == Sum([k \in DOMAIN scalars |-> Mul(bases[k], scalars[k])])

power(a, k) == LET f[e \in 0 .. k] == IF e = 0 THEN One ELSE Mul(f[e - 1], a) IN f[k]

evaluate(f, a) == Sum([k \in DOMAIN f |-> Mul(f[k], power(a, k))])

-----------------------------------------------------------------------------
(* Polynomials: ste/utils.rs and LagPolys                                   *)

(* One at the i-th root of unity and zero at the others.                    *)
lagrange_poly(i) == Domain!ifft([j \in positions |-> IF i = j THEN One ELSE Zero])

(* (L_i(X) - L_i(0)) * X                                                    *)
l_minus0(i) == [k \in 0 .. n |-> IF k < 2 THEN Zero ELSE lagrange_poly(i)[k - 1]]

(* (L_i(X) - L_i(0)) / X                                                    *)
l_x(i) == [k \in 0 .. n - 2 |-> l_minus0(i)[k + 2]]

denom == inverse(Product([i \in 1 .. n - 1 |-> Sub(One, Domain!element(i))]))

(* The factor X - point.                                                    *)
times_monomial(f, d, point) ==
  [k \in 0 .. d + 1 |-> Add(IF k = 0 THEN Zero ELSE f[k - 1],
                            IF k > d THEN Zero ELSE Mul(f[k], Neg(point)))]

(* The monic polynomial that vanishes on the roots of unity numbered in P.  *)
vanishing(P) ==
  LET f[S \in SUBSET P] ==
        IF S = {} THEN [k \in {0} |-> One]
        ELSE LET i == CHOOSE i \in S : TRUE
             IN  times_monomial(f[S \ {i}], Cardinality(S) - 1, Domain!element(i))
  IN  f[P]

(* Mutant: the polynomial is left monic.                                    *)
interp_mostly_zero_monic(P) == vanishing(P)

(* Zero on the points numbered in P, and one at zero.                       *)
interp_mostly_zero(P) == scale(vanishing(P), inverse(vanishing(P)[0]))

(* Mutant: one zero too few in front of the coefficients, one behind.       *)
open_all_values_shifted(y, f) ==
  LET v == Top!fft([k \in 0 .. 2 * n - 1 |-> IF k \in n .. 2 * n - 2 THEN f[k - n + 1] ELSE Zero])
      h == Top!ifft([k \in 0 .. 2 * n - 1 |-> Mul(y[k], v[k])])
  IN  Domain!fft([k \in positions |-> h[k]])

(* All openings of the polynomial f at the roots of unity, from the         *)
(* transformed Toeplitz column y: n + 1 zeros, then f without its constant. *)
open_all_values(y, f) ==
  LET v == Top!fft([k \in 0 .. 2 * n - 1 |-> IF k <= n THEN Zero ELSE f[k - n]])
      h == Top!ifft([k \in 0 .. 2 * n - 1 |-> Mul(y[k], v[k])])
  IN  Domain!fft([k \in positions |-> h[k]])

-----------------------------------------------------------------------------
(* CRS::new                                                                 *)

(* Mutant: gamma is still zero when it is put in the different bases.       *)
gamma_bases_zero(r, gamma) == scale(r, Zero)

gamma_bases(r, gamma) == scale(r, gamma)

(* Inverting tau^2 and tau^n - 1 is unwrapped.                              *)
tau_panics(tau) == tau = Zero \/ power(tau, n) = One

deterministic_new(tau, r, gamma) ==
  LET powers_of_tau == [k \in 0 .. n |-> power(tau, k)]
      li == [i \in positions |-> evaluate(lagrange_poly(i), tau)]
      li_minus0 == [i \in positions |-> Mul(Sub(li[i], lagrange_poly(i)[0]), tau)]
      li_x == scale(li_minus0, inverse(Mul(tau, tau)))
      z_eval_inv == inverse(Sub(power(tau, n), One))
      li_lj_z == [i \in positions |-> [j \in positions |->
                    Mul(z_eval_inv, IF i = j THEN Sub(Mul(li[i], li[i]), li[i])
                                             ELSE Mul(li[i], li[j]))]]
      top_tau == Top!fft([k \in positions |-> powers_of_tau[n - 1 - k]])
  IN  [gen_g |-> r, gen_h |-> r,
       powers_of_g |-> [c \in chunks |-> scale(powers_of_tau, r[c])],
       powers_of_h |-> [c \in chunks |-> scale(powers_of_tau, r[c])],
       li |-> [c \in chunks |-> scale(li, r[c])],
       li_minus0 |-> [c \in chunks |-> scale(li_minus0, r[c])],
       li_x |-> [c \in chunks |-> scale(li_x, r[c])],
       li_lj_z |-> [c \in chunks |-> [i \in positions |-> scale(li_lj_z[i], r[c])]],
       gamma_g2 |-> gamma_bases(r, gamma),
       y |-> [c \in chunks |-> scale(top_tau, r[c])]]

(* commit_g1 and commit_g2: more coefficients than powers fail an assertion.*)
commit(powers, coeffs) == msm(powers, coeffs)

too_many_coefficients(powers, coeffs) == Cardinality(DOMAIN coeffs) > Cardinality(DOMAIN powers)

(* The quotient of f - f(point) by X - point, for f of d + 1 coefficients.  *)
witness_polynomial(f, d, point) ==
  LET q[k \in 0 .. d] == IF k = d THEN f[d] ELSE Add(f[k], Mul(point, q[k + 1]))
  IN  [k \in 0 .. d - 1 |-> q[k + 1]]

compute_opening_proof(powers, f, d, point) == commit(powers, witness_polynomial(f, d, point))

-----------------------------------------------------------------------------
(* Keys: ste/setup.rs and AggregateKey::new                                 *)

get_pk(crs, sk) ==
  [bls_pk |-> scale(crs.gen_g, sk),
   hints |-> [c \in chunks |-> scale(crs.powers_of_g[c], sk)],
   y |-> [c \in chunks |-> scale(crs.y[c], sk)]]

(* What the holder of the secret key computes.                              *)
get_lagrange_pk(crs, sk, position) ==
  [bls_pk |-> scale(crs.gen_g, sk),
   sk_li |-> [c \in chunks |-> Mul(crs.li[c][position], sk)],
   sk_li_minus0 |-> [c \in chunks |-> Mul(crs.li_minus0[c][position], sk)],
   sk_li_x |-> [c \in chunks |-> Mul(crs.li_x[c][position], sk)],
   sk_li_lj_z |-> [c \in chunks |-> scale(crs.li_lj_z[c][position], sk)]]

(* What anyone computes from a position-oblivious public key.               *)
get_lag_public_key(pk, position) ==
  [bls_pk |-> pk.bls_pk,
   sk_li |-> [c \in chunks |-> msm(pk.hints[c], lagrange_poly(position))],
   sk_li_minus0 |-> [c \in chunks |-> msm(pk.hints[c], l_minus0(position))],
   sk_li_x |-> [c \in chunks |-> msm(pk.hints[c], l_x(position))],
   sk_li_lj_z |-> [c \in chunks |->
     LET pi == open_all_values(pk.y[c], lagrange_poly(position))
     IN  [j \in positions |-> Mul(pi[j], Mul(Domain!element(j), denom))]]]

(* AggregateKey::new on the first len positions: its n is lag_pks.len().    *)
agg_sk_li_lj_z(lag_pks, len) ==
  [c \in chunks |-> [i \in positions |->
     IF i < len THEN Sum([j \in 0 .. len - 1 |-> lag_pks[j].sk_li_lj_z[c][i]]) ELSE Zero]]

encryption_key(crs, lag_pks, len) ==
  [ask |-> Sum([i \in 0 .. len - 1 |-> lag_pks[i].sk_li[0]]),
   z_g2 |-> Sub(crs.powers_of_h[0][len], crs.powers_of_h[0][0]),
   e_gh |-> [c \in chunks |-> Pairing(crs.gen_g[c], crs.gen_h[0])],
   gamma_g2 |-> crs.gamma_g2]

-----------------------------------------------------------------------------
(* Ciphertexts: ste/encryption.rs                                           *)

(* Mutant: one slot is missing.                                             *)
zero_short(t) ==
  [sa1 |-> [k \in 0 .. 1 |-> Zero], sa2 |-> [k \in 0 .. 5 |-> Zero],
   ct |-> [c \in 0 .. l - 2 |-> Zero], t |-> t]

zero(t) ==
  [sa1 |-> [k \in 0 .. 1 |-> Zero], sa2 |-> [k \in 0 .. 5 |-> Zero],
   ct |-> [c \in chunks |-> Zero], t |-> t]

(* The zip of slots ends with the shorter vector.                           *)
add(a, b) ==
  [sa1 |-> [k \in 0 .. 1 |-> Add(a.sa1[k], b.sa1[k])],
   sa2 |-> [k \in 0 .. 5 |-> Add(a.sa2[k], b.sa2[k])],
   ct |-> [c \in DOMAIN a.ct \cap DOMAIN b.ct |-> Add(a.ct[c], b.ct[c])],
   t |-> a.t]

(* s holds the five nonces and m the message of each chunk, in GT.          *)
encrypt(crs, ek, t, s, m) ==
  LET g == crs.powers_of_g[0]
      h == crs.powers_of_h[0]
  IN  [sa1 |-> [k \in 0 .. 1 |->
         IF k = 0 THEN Add(Mul(ek.ask, s[0]), Add(Mul(g[t], s[3]), Mul(g[0], s[4])))
                  ELSE Mul(g[0], s[2])],
       sa2 |-> [k \in 0 .. 5 |->
         CASE k = 0 -> Add(Mul(h[0], s[0]), Mul(ek.gamma_g2[0], s[2]))
           [] k = 1 -> Mul(ek.z_g2, s[0])
           [] k = 2 -> Add(Mul(h[1], s[0]), Mul(h[2], s[1]))
           [] k = 3 -> Mul(h[0], s[1])
           [] k = 4 -> Mul(h[0], s[3])
           [] k = 5 -> Mul(h[1], s[4])],
       ct |-> [c \in chunks |-> Add(Mul(ek.e_gh[c], s[4]), m[c])],
       t |-> t]

-----------------------------------------------------------------------------
(* agg_dec: ste/decryption.rs.  S is the set of selected positions.         *)

b_poly(S) == interp_mostly_zero(positions \ S)

(* Mutant: one zero too few.                                                *)
bhat_short(S, t) == [k \in 0 .. t + n - Cardinality(S) - 1 |-> IF k < t - 1 THEN Zero ELSE b_poly(S)[k - t + 1]]

(* x^t * b: t zeros in front of the coefficients.                           *)
bhat(S, t) == [k \in 0 .. t + n - Cardinality(S) |-> IF k < t THEN Zero ELSE b_poly(S)[k - t]]

enc_key(crs, lag_pks, agg, ct, pd, S, c) ==
  LET b_coeffs == b_poly(S)
      b_evals == Domain!fft([k \in DOMAIN b_coeffs \cap positions |-> b_coeffs[k]])
      weighted(v) == Sum([i \in S |-> Mul(v[i], b_evals[i])])
      apk == Mul(weighted([i \in S |-> lag_pks[i].bls_pk[c]]), n_inv)
      sigma_t == Pairing(Mul(weighted(pd), n_inv), crs.gamma_g2[c])
      qx == weighted([i \in S |-> lag_pks[i].sk_li_x[c]])
      qhatx == weighted([i \in S |-> lag_pks[i].sk_li_minus0[c]])
      qz == weighted(agg[c])
      b_g2 == commit(crs.powers_of_h[c], b_coeffs)
      q0_g1 == compute_opening_proof(crs.powers_of_g[c], b_coeffs, n - Cardinality(S), Zero)
      bhat_g1 == commit(crs.powers_of_g[c], bhat(S, ct.t))
      w1 == <<Neg(apk), Neg(qz), Neg(qx), qhatx, Neg(bhat_g1), Neg(q0_g1)>>
  IN  Add(Sum([k \in 0 .. 5 |-> Pairing(w1[k + 1], ct.sa2[k])]),
          Add(Pairing(ct.sa1[0], b_g2), sigma_t))

agg_dec(crs, lag_pks, agg, ct, pd, S) ==
  [c \in DOMAIN ct.ct |-> Sub(ct.ct[c], enc_key(crs, lag_pks, agg, ct, pd, S, c))]
=============================================================================
