---------------------------- MODULE MCSilverJob ----------------------------
(* Instances of SilverJob for TLC. *)
EXTENDS SilverJob, TLC

(* Event ids are interchangeable: they are only compared for equality. *)
Symmetry == Permutations(Ids)
=============================================================================
