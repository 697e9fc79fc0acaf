----------------------------- MODULE MCDashboard -----------------------------
(* One chain of each network; updates with and without an alert. *)
EXTENDS Dashboard

CONSTANTS a, b, quiet, missing, jailed

MCNetwork == [c \in Chains |-> IF c = a THEN "mainnet" ELSE "testnet"]

MCTitle == [n \in 1..MaxUpdates |->
              CASE n = 1 -> quiet [] n = 2 -> missing [] OTHER -> jailed]
==============================================================================
