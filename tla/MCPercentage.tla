---------------------------- MODULE MCPercentage ----------------------------
(* A small window with every content and every wrap, and a cosmos chain's. *)
EXTENDS Percentage
=============================================================================
