------------------------------- MODULE MCBteFft ------------------------------
(* BteFft over the prime field of Q elements. *)
EXTENDS BteFft

CONSTANT Q

MCScalar == 0 .. Q - 1
MCAdd(a, b) == (a + b) % Q
MCNeg(a) == (Q - a) % Q
MCMul(a, b) == (a * b) % Q
=============================================================================
