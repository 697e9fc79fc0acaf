----------------------------- MODULE MCInactive -----------------------------
(* Both providers, or one of them: see the configurations. *)
EXTENDS Inactive
=============================================================================
