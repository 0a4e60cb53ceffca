----------------------------- MODULE MCJobControl -----------------------------
(* Two jobs, one of them a cat. *)
EXTENDS JobControl
=============================================================================
