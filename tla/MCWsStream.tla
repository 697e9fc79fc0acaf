----------------------------- MODULE MCWsStream -----------------------------
(* The subscription with a counter that saturates after a few misses.      *)
EXTENDS WsStream
=============================================================================
