---------------------------- MODULE MCMarkersFile ----------------------------
(* Instances of MarkersFile for TLC. *)
EXTENDS MarkersFile

MCBatchSizes == <<1, 3>>
=============================================================================
