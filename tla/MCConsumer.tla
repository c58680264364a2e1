----------------------------- MODULE MCConsumer -----------------------------
(* Instances of Consumer for TLC. *)
EXTENDS Consumer, TLC

(* Tasks are interchangeable, and so are partitions: none is ever chosen   *)
(* (CHOOSE) or compared, and Init treats them alike.                       *)
Symmetry == Permutations(Tasks) \cup Permutations(Partitions)
=============================================================================
