-------------------------- MODULE MCSilentThreshold --------------------------
(* SilentThreshold over the prime field of Q elements. *)
EXTENDS SilentThreshold

CONSTANT Q

MCScalar == 0 .. Q - 1
MCAdd(a, b) == (a + b) % Q
MCNeg(a) == (Q - a) % Q
MCMul(a, b) == (a * b) % Q

MCGenerators == { [c \in chunks |-> 3 + 2 * c] }

MCNonces == { [k \in 0 .. 4 |-> (5 * k + 1) % Q], [k \in 0 .. 4 |-> (3 * k * k + 7) % Q] }

MCMessages == { [c \in chunks |-> c + 1] }
=============================================================================
