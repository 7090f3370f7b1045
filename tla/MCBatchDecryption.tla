------------------------- MODULE MCBatchDecryption ---------------------------
(* Instances of BatchDecryption for TLC. *)
EXTENDS BatchDecryption, TLC

MCWeight == [k \in 0 .. NumChunks |-> ChunkRadix ^ k]

MCSymmetry == Permutations(Party)
=============================================================================
