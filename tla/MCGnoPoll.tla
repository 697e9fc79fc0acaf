----------------------------- MODULE MCGnoPoll -----------------------------
(* One chain with a node that may do anything and, after it in the order,  *)
(* a sound one.                                                            *)
EXTENDS GnoPoll
=============================================================================
