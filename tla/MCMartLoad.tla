----------------------------- MODULE MCMartLoad -----------------------------
(* Instances of MartLoad for TLC. *)
EXTENDS MartLoad, TLC

(* Two of the five metrics: the loop has a first and a last. *)
MCMetrics == <<"dau", "conversion">>

(* Containers of the job are interchangeable. *)
Symmetry == Permutations(Loaders)
=============================================================================
