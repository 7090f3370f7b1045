------------------------------- MODULE BteCrs --------------------------------
(***************************************************************************)
(* The common reference string of the batched scheme: CRS::new of          *)
(* src/src/bte/crs.rs.  A secret x is sampled, its powers are pushed one   *)
(* by one, the power batch_size+1 is overwritten with zero, and the arrays *)
(* in G1 and G2 and the precomputed GT elements are derived from them.     *)
(* The arrays stay empty until they are built, and then never change.      *)
(***************************************************************************)
EXTENDS Integers, ScalarField

CONSTANT batch_size

(* CRS::new(0) indexes powers_of_h[1] in an array of length one and panics. *)
ASSUME BatchSizeAssumption == batch_size \in Nat \ {0}

VARIABLES
  crs_pc,        \* "powers": the loop; "arrays": the code behind it; "ready"
  x,             \* the secret of the setup
  cur,           \* the power to be pushed next
  len,           \* powers_of_x.len()
  powers_of_x,   \* a function on 0..len-1
  powers_of_g,   \* published, a function on 0..2*batch_size when ready
  powers_of_h,
  gt_powers      \* a function on 0..batch_size-1 when ready

crsVars == <<crs_pc, x, cur, len, powers_of_x, powers_of_g, powers_of_h, gt_powers>>

Empty == [k \in {} |-> Zero]

CrsInit ==
  /\ crs_pc = "powers"
  /\ x \in Scalar
  /\ cur = x
  /\ len = 1
  /\ powers_of_x = [k \in {0} |-> One]
  /\ powers_of_g = Empty
  /\ powers_of_h = Empty
  /\ gt_powers = Empty

(* One of the 2*batch_size+1 iterations of `for _ in 0..=2 * batch_size`.   *)
PushPower ==
  /\ crs_pc = "powers"
  /\ len <= 2 * batch_size + 1
  /\ powers_of_x' = [k \in 0 .. len |-> IF k = len THEN cur ELSE powers_of_x[k]]
  /\ cur' = Mul(cur, x)
  /\ len' = len + 1
  /\ UNCHANGED <<crs_pc, x, powers_of_g, powers_of_h, gt_powers>>

(* Mutant: the power batch_size + 1 is published.                           *)
BuildArrays_unpunctured ==
  /\ crs_pc = "powers"
  /\ len = 2 * batch_size + 2
  /\ powers_of_g' = [k \in 0 .. 2 * batch_size |-> powers_of_x[k]]
  /\ powers_of_h' = [k \in 0 .. 2 * batch_size |-> powers_of_x[k]]
  /\ crs_pc' = "arrays"
  /\ UNCHANGED <<x, cur, len, powers_of_x, gt_powers>>

(* powers_of_x[batch_size + 1] = 0, and the powers in both source groups.   *)
BuildArrays ==
  /\ crs_pc = "powers"
  /\ len = 2 * batch_size + 2
  /\ powers_of_x' = [powers_of_x EXCEPT ![batch_size + 1] = Zero]
  /\ powers_of_g' = [k \in 0 .. 2 * batch_size |-> powers_of_x'[k]]
  /\ powers_of_h' = [k \in 0 .. 2 * batch_size |-> powers_of_x'[k]]
  /\ crs_pc' = "arrays"
  /\ UNCHANGED <<x, cur, len, gt_powers>>

(* Mutant: gt_powers[0] is read off the arrays like the others.             *)
BuildGtPowers_uniform ==
  /\ crs_pc = "arrays"
  /\ gt_powers' =
       [k \in 0 .. batch_size - 1 |-> Pairing(powers_of_g[batch_size + 1 + k], powers_of_h[0])]
  /\ crs_pc' = "ready"
  /\ UNCHANGED <<x, cur, len, powers_of_x, powers_of_g, powers_of_h>>

(* gt_powers[0] cannot be read off the punctured slot; the others can.      *)
BuildGtPowers ==
  /\ crs_pc = "arrays"
  /\ gt_powers' =
       [k \in 0 .. batch_size - 1 |->
          IF k = 0 THEN Pairing(powers_of_g[batch_size], powers_of_h[1])
                   ELSE Pairing(powers_of_g[batch_size + 1 + k], powers_of_h[0])]
  /\ crs_pc' = "ready"
  /\ UNCHANGED <<x, cur, len, powers_of_x, powers_of_g, powers_of_h>>

CrsNext == PushPower \/ BuildArrays \/ BuildGtPowers

CrsSpec == CrsInit /\ [][CrsNext]_crsVars

-----------------------------------------------------------------------------

CrsTypeOK ==
  /\ crs_pc \in {"powers", "arrays", "ready"}
  /\ x \in Scalar /\ cur \in Scalar
  /\ len \in 1 .. 2 * batch_size + 2
  /\ powers_of_x \in [0 .. len - 1 -> Scalar]
  /\ crs_pc # "powers" => /\ powers_of_g \in [0 .. 2 * batch_size -> Scalar]
                          /\ powers_of_h \in [0 .. 2 * batch_size -> Scalar]
  /\ crs_pc = "ready" => gt_powers \in [0 .. batch_size - 1 -> Scalar]

(* What every decryption relies on: evaluating a key punctured at point on  *)
(* another input gives the value of the unpunctured key (bte/mod.rs:28-43,  *)
(* 59-62), although the two are computed from different powers of x and one *)
(* of those powers is missing from the arrays.                              *)
PuncturedEvalAgrees ==
  crs_pc = "ready" =>
    \A point, input \in 0 .. batch_size - 1 :
      point # input =>
        Pairing(powers_of_g[point], powers_of_h[batch_size + 1 + input - point])
          = gt_powers[input]

(* And on its own point the punctured key evaluates to zero, because the    *)
(* overwritten power is exactly the one that evaluation would need          *)
(* (crs.rs:45-46 and 28).                                                   *)
PuncturedSlotIsZero ==
  crs_pc = "ready" =>
    \A point \in 0 .. batch_size - 1 :
      Pairing(powers_of_g[point], powers_of_h[batch_size + 1 + point - point]) = Zero
=============================================================================
