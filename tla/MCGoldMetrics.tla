--------------------------- MODULE MCGoldMetrics ---------------------------
(* Instances of GoldMetrics for TLC. *)
EXTENDS GoldMetrics, TLC

(* Users and sessions are only compared for equality. *)
Symmetry == Permutations(Users) \cup Permutations(Sessions)
=============================================================================
