----------------------------- MODULE BatchRelease ----------------------------
(***************************************************************************)
(* What the batched threshold scheme promises, without ciphertexts, keys   *)
(* or messages: a batch is opened only when at least Threshold parties of  *)
(* the committee have approved this very batch.  Batches are named by      *)
(* numbers; batch 0 is the empty one, which holds nothing to protect.      *)
(***************************************************************************)
EXTENDS Naturals, FiniteSets

CONSTANTS
  Party,
  Threshold,
  Batch      \* the names of batches, natural numbers

VARIABLES
  approvals,  \* <<p, m>>: party p has approved batch m
  released    \* the batches opened

Approvers(m) == { p \in Party : <<p, m>> \in approvals }

Init == approvals = {} /\ released = {}

Approve(p, m) ==
  /\ approvals' = approvals \cup {<<p, m>>}
  /\ UNCHANGED released

Release(m) ==
  /\ m = 0 \/ Cardinality(Approvers(m)) >= Threshold
  /\ released' = released \cup {m}
  /\ UNCHANGED approvals

Next ==
  \/ \E p \in Party, m \in Batch : Approve(p, m)
  \/ \E m \in Batch : Release(m)

Spec == Init /\ [][Next]_<<approvals, released>>
=============================================================================
