---------------------------- MODULE MCNodeHealth ----------------------------
(* Two nodes, one of them without alert_if_down. *)
EXTENDS NodeHealth
=============================================================================
