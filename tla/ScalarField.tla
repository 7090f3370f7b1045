----------------------------- MODULE ScalarField -----------------------------
(***************************************************************************)
(* The scalar field E::ScalarField and, in the exponent, the three groups  *)
(* of a pairing.  arkworks provides them; the code uses only the laws      *)
(* below.  An element of G1, G2 or GT is represented by its discrete       *)
(* logarithm to the base of the group's generator, so that                 *)
(*   - adding group elements is Add, and g * s (g^s) is Mul(g, s);         *)
(*   - E::pairing(a, b) is Mul(a, b).                                      *)
(* Most of the code needs no division: any commutative ring with a unit    *)
(* satisfies the assumption, the prime field of BLS12-381 and the small    *)
(* prime fields of the model-checking runs among them. Modules that        *)
(* divide, or transform over roots of unity, assume IsField on top.        *)
(***************************************************************************)
CONSTANTS
  Scalar,      \* the elements of the field
  Zero,
  One,
  Add(_, _),
  Neg(_),
  Mul(_, _)

ASSUME ScalarClosed ==
  /\ Zero \in Scalar
  /\ One \in Scalar
  /\ \A a \in Scalar : Neg(a) \in Scalar
  /\ \A a, b \in Scalar : Add(a, b) \in Scalar /\ Mul(a, b) \in Scalar

ASSUME ScalarLaws ==
  /\ \A a \in Scalar : Add(a, Zero) = a /\ Mul(a, One) = a /\ Add(a, Neg(a)) = Zero
  /\ \A a, b \in Scalar : Add(a, b) = Add(b, a) /\ Mul(a, b) = Mul(b, a)
  /\ \A a, b, c \in Scalar :
       /\ Add(Add(a, b), c) = Add(a, Add(b, c))
       /\ Mul(Mul(a, b), c) = Mul(a, Mul(b, c))
       /\ Mul(Add(a, b), c) = Add(Mul(a, c), Mul(b, c))

Sub(a, b) == Add(a, Neg(b))

Pairing(p, q) == Mul(p, q)

IsField ==
  /\ One # Zero
  /\ \A a \in Scalar \ {Zero} : \E b \in Scalar : Mul(a, b) = One
=============================================================================
