---------------------------- MODULE MCIngestion ----------------------------
(* Instances of Ingestion for TLC. *)
EXTENDS Ingestion

(* One task posts what the schema rejects. *)
MCInvalid == {2}
=============================================================================
