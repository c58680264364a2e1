---------------------------- MODULE MCLocalStack ----------------------------
(* Instances of LocalStack for TLC. *)
EXTENDS LocalStack

(* One of the five metrics: silver and it are the first and the last output. *)
MCMetrics == <<"dau">>
=============================================================================
