------------------------------ MODULE MCAdHoc ------------------------------
(* Instances of AdHoc for TLC. *)
EXTENDS AdHoc
=============================================================================
