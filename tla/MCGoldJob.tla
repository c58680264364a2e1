----------------------------- MODULE MCGoldJob -----------------------------
(* Instances of GoldJob for TLC. *)
EXTENDS GoldJob

(* The first and the last of the five statements stand for all of them. *)
MCMetrics == <<"conversion", "top_pages">>
=============================================================================
