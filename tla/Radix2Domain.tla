---------------------------- MODULE Radix2Domain -----------------------------
(***************************************************************************)
(* arkworks' Radix2EvaluationDomain, which is external: the powers of a    *)
(* root of unity group_gen of order size, and the discrete Fourier         *)
(* transform over them by its definition.  It acts on field elements and   *)
(* on group elements alike, and a shorter vector is padded with zeros.     *)
(***************************************************************************)
EXTENDS Integers, ScalarField, Functions

CONSTANTS
  size,
  group_gen,
  size_inv    \* 1 / size in the field

Sum(f) == FoldFunction(Add, Zero, f)

Pow[k \in Nat] == IF k = 0 THEN One ELSE Mul(Pow[k - 1], group_gen)

element(k) == Pow[k % size]

Slots == 0 .. size - 1

fft(a) == [k \in Slots |-> Sum([m \in DOMAIN a |-> Mul(a[m], element(m * k))])]

ifft(a) ==
  [k \in Slots |-> Mul(size_inv, Sum([m \in DOMAIN a |-> Mul(a[m], element(-(m * k)))]))]

(* group_gen has order size, and size_inv is what it should be.             *)
IsDomain ==
  /\ Pow[size] = One
  /\ \A k \in 1 .. size - 1 : Pow[k] # One
  /\ Mul(Sum([k \in 1 .. size |-> One]), size_inv) = One
=============================================================================
