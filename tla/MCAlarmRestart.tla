--------------------------- MODULE MCAlarmRestart ---------------------------
(* One chain with a gated alarm that notifies PagerDuty and Slack. *)
EXTENDS AlarmRestart

CONSTANTS a, stall

MCRaises == [c \in Chains |-> Messages]
MCKind == [m \in Messages |-> "gated"]
MCEnabled == [c \in Chains |-> {"pd", "slk"}]
=============================================================================
