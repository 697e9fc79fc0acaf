-------------------------- MODULE MCAlarmDelivery --------------------------
(***************************************************************************)
(* Instances of AlarmDelivery.  hang: chain "a" notifies Discord, whose    *)
(* requests may hang, of node lag; chain "b" notifies Pushover of a node.  *)
(* delivery: one chain with PagerDuty and Pushover, an alarm that is gated *)
(* by the cache and one that has a local flag.                             *)
(***************************************************************************)
EXTENDS AlarmDelivery

CONSTANTS a, b, stall, node, lag

MCKind == [m \in Messages |->
             CASE m = stall -> "gated"
               [] m = node -> "node"
               [] m = lag -> "lag"]

MCCritical == Messages \ {lag}

RaisesApart == [c \in Chains |-> IF c = a THEN {lag} ELSE {node}]

RaisesAll == [c \in Chains |-> Messages]

HangingAndTimed == [c \in Chains |-> IF c = a THEN {"di"} ELSE {"po"}]

PagerAndPushover == [c \in Chains |-> {"pd", "po"}]
=============================================================================
