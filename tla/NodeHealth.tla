----------------------------- MODULE NodeHealth -----------------------------
(***************************************************************************)
(* The RPC nodes of one chain, and the alarms about them.  Four goroutines *)
(* share the nodes' flags without a lock: the runner, which looks for a    *)
(* usable node (newRpc, gnoNewRpc) and stays with it until its stream      *)
(* ends; the health check of every minute (monitorHealth, with a goroutine *)
(* per node, and gnoMonitorHealth); and watch(), which raises and resolves *)
(* the node-down alarms and the alarm that no endpoint works.              *)
(*                                                                         *)
(* A provider is "cosmos" (td2/rpc.go) or "gno" (td2/gno_provider.go); both*)
(* share watch() (td2/alert.go).                                           *)
(*                                                                         *)
(* A behaviour begins with a start of the process: the nodes that          *)
(* saveOnExit found down come back down (loadConfig in td2/types.go), and  *)
(* the services may have alarms open from the process before.              *)
(***************************************************************************)
EXTENDS Naturals

CONSTANTS
  NumNodes,      \* nodes, tried in the order 1, 2, ...
  AlertIfDown,   \* the nodes configured with alert_if_down
  Providers,     \* the providers to consider
  Answers,       \* what a node may answer to /status
  MaxFlips       \* bound: how often the nodes change what they answer

Nodes == 1..NumNodes

ASSUME HealthAssumption ==
  /\ NumNodes \in Nat \ {0} /\ MaxFlips \in Nat
  /\ AlertIfDown \subseteq Nodes
  /\ Providers \subseteq {"cosmos", "gno"}
  /\ "ok" \in Answers /\ Answers \subseteq {"ok", "err", "wrong", "syncing"}

VARIABLES
  provider,       \* of this chain
  serves, flips,  \* what the nodes answer, and how often that changed (external)
  down, wasDown,  \* flags of NodeConfig
  since,          \* its downSince: "zero" if never set, "epoch" if reset to
                  \*   1970, or "fresh" or "old" by whether NodeDownMin
                  \*   minutes have passed
  noNodes,        \* no endpoint is usable
  run, at,        \* the runner: where it is, and the node it is at
  any, spent,     \* newRpc's anyWorking while it tries; its ten seconds are over
  check,          \* node -> where its health check is
  seen,           \* node -> what watch() has read of it, to act upon
  nodeAlarms,     \* watch()'s nodeAlarms
  latch,          \* watch()'s local noNodes: the no-endpoint alarm is raised
  open,           \* history: nodes whose down alarm is announced, not resolved
  orphan,         \* history: those of an earlier process, not restored
  crossed,        \* history: nodes that went down after a check had read down
                  \*   and before it reset it
  overtaken       \* history: nodes that were down when downSince was reset

\* wasDown and downSince are read only of nodes with alert_if_down; of the
\* others they are left at FALSE and "zero".
nodeVars == <<down, wasDown, since, crossed, overtaken>>
runVars == <<run, at, any, spent>>
watchVars == <<seen, nodeAlarms, latch, open, orphan>>
envVars == <<provider, serves, flips>>
vars == <<envVars, nodeVars, noNodes, runVars, check, watchVars>>

\* loadConfig: a node of the state file is down, and its recovery is one to be
\* told of.  downSince is the file's, which was saved at any moment and may be
\* the 1970 of the recovery before; zero times are not restored.
Restore(nodes) ==
  /\ down = [n \in Nodes |-> n \in nodes]
  /\ wasDown = [n \in Nodes |-> n \in nodes \cap AlertIfDown]
  /\ since \in [Nodes -> {"zero", "fresh", "old", "epoch"}]
  /\ \A n \in Nodes : since[n] = "zero" <=> ~wasDown[n]
  /\ overtaken = {n \in nodes : since[n] = "epoch"}
  /\ noNodes = (nodes = Nodes)

\* The file and the alarms left open are whatever the last process made of
\* them: it may have been killed, and not have saved at all.
Init ==
  /\ provider \in Providers
  /\ serves \in [Nodes -> Answers] /\ flips = 0
  /\ \E nodes \in SUBSET Nodes :
       /\ Restore(nodes)
       /\ open \in SUBSET AlertIfDown /\ orphan = open \ nodes
  /\ crossed = {}
  /\ run = "rest" /\ at = 1 /\ any = FALSE /\ spent = FALSE
  /\ check = [n \in Nodes |-> "idle"]
  /\ seen = [n \in Nodes |-> "nothing"]
  /\ nodeAlarms = {} /\ latch = FALSE

-----------------------------------------------------------------------------
(* The environment: nodes change, time passes *)

Flip(n) ==
  /\ flips < MaxFlips /\ flips' = flips + 1
  /\ \E a \in Answers \ {serves[n]} : serves' = [serves EXCEPT ![n] = a]
  /\ UNCHANGED <<provider, nodeVars, noNodes, runVars, check, watchVars>>

Age(n) ==
  /\ since[n] = "fresh"
  /\ since' = [since EXCEPT ![n] = "old"]
  /\ UNCHANGED <<envVars, down, wasDown, crossed, overtaken, noNodes, runVars,
                 check, watchVars>>

-----------------------------------------------------------------------------
(* What is written to a node's flags, one after the other *)

\* A node that fails is set down and then, if it was not, its downSince.
SetDown(n) ==
  /\ down' = [down EXCEPT ![n] = TRUE]
  /\ crossed' = crossed \cup {m \in {n} \cap AlertIfDown : ~down[m] /\ check[m] = "found"}
  /\ UNCHANGED <<wasDown, since, overtaken>>

TimeAlways(n) == n \in AlertIfDown         \* a bug: every failure is a new outage

ToBeTimed(n) == n \in AlertIfDown /\ ~down[n]

SetSinceOnce(n) ==               \* a bug: only the first outage is timed
  /\ since' = [since EXCEPT ![n] = IF @ = "zero" THEN "fresh" ELSE @]
  /\ overtaken' = overtaken \ {n}

SetSince(n) ==
  /\ since' = [since EXCEPT ![n] = "fresh"]
  /\ overtaken' = overtaken \ {n}

\* A node that is back is set up and then downSince to 1970, even if it has
\* been set down in between.
SetUp(n) ==
  /\ down' = [down EXCEPT ![n] = FALSE]
  /\ overtaken' = overtaken \ {n}

ResetSince(n) ==
  /\ since' = [since EXCEPT ![n] = IF n \in AlertIfDown THEN "epoch" ELSE @]
  /\ overtaken' = overtaken \cup {m \in {n} \cap AlertIfDown : down[m]}

-----------------------------------------------------------------------------
(* The runner *)

\* newRpc skips the nodes that are down if any is not; gnoNewRpc asks all.
Begin ==
  /\ run = "rest"
  /\ run' = "try" /\ at' = 1 /\ spent' = FALSE
  /\ any' = (provider = "cosmos" /\ \E n \in Nodes : ~down[n])
  /\ UNCHANGED <<envVars, nodeVars, noNodes, check, watchVars>>

Trying == run = "try" /\ at \in Nodes

SkipNode ==
  /\ Trying /\ any /\ down[at]
  /\ at' = at + 1
  /\ UNCHANGED <<nodeVars, noNodes, run, any, spent>>

\* All requests of one newRpc share ten seconds: a node that takes its time to
\* fail may leave none for those after it.
RejectNode ==
  /\ Trying /\ ~(any /\ down[at]) /\ (serves[at] # "ok" \/ spent)
  /\ SetDown(at)
  /\ IF ToBeTimed(at) THEN run' = "mark" /\ at' = at
     ELSE run' = "try" /\ at' = at + 1
  /\ spent' \in (IF provider = "cosmos" THEN {spent, TRUE} ELSE {FALSE})
  /\ UNCHANGED <<noNodes, any>>

\* The runner moves on to the stream: WsRun or PollRun.  Only gnoNewRpc resets
\* the flags of the node, and it leaves wasDown alone.
TakeNode ==
  /\ Trying /\ ~(any /\ down[at]) /\ serves[at] = "ok" /\ ~spent
  /\ any' = FALSE
  /\ \/ /\ provider = "cosmos"
        /\ run' = "stream" /\ noNodes' = FALSE
        /\ UNCHANGED nodeVars
     \/ /\ provider = "gno"
        /\ run' = "taken"
        /\ SetUp(at)
        /\ UNCHANGED <<wasDown, since, crossed, noNodes>>
  /\ UNCHANGED <<at, spent>>

TryNode ==
  /\ SkipNode \/ RejectNode \/ TakeNode
  /\ UNCHANGED <<envVars, check, watchVars>>

\* The rest of the failure of a node.
EndReject ==
  /\ run = "mark"
  /\ SetSince(at)
  /\ run' = "try" /\ at' = at + 1
  /\ UNCHANGED <<envVars, down, wasDown, crossed, noNodes, any, spent, check, watchVars>>

\* The rest of gnoNewRpc, after down has been reset.
EndTake ==
  /\ run = "taken"
  /\ ResetSince(at)
  /\ noNodes' = FALSE
  /\ run' = "stream"
  /\ UNCHANGED <<envVars, down, wasDown, crossed, at, any, spent, check, watchVars>>

\* No node is left (and no public fallback); newRpc is called again after
\* five seconds.
GiveUp ==
  /\ run = "try" /\ at > NumNodes
  /\ noNodes' = TRUE
  /\ run' = "rest" /\ at' = 1 /\ any' = FALSE /\ spent' = FALSE
  /\ UNCHANGED <<envVars, nodeVars, check, watchVars>>

StreamEnds ==
  /\ run = "stream"
  /\ run' = "rest" /\ at' = 1
  /\ UNCHANGED <<envVars, nodeVars, noNodes, any, spent, check, watchVars>>

-----------------------------------------------------------------------------
(* The health check of a node *)

HealthyAnywhere(n) == serves[n] \in {"ok", "wrong"}    \* a bug

\* Only monitorHealth compares the chain id.
Healthy(n) ==
  serves[n] = "ok" \/ (provider = "gno" /\ serves[n] = "wrong")

Goes(n, where) == check' = [check EXCEPT ![n] = where]

HealthOKForgetful(n) ==          \* a bug: the outage leaves no trace
  /\ Healthy(n)
  /\ crossed' = IF down[n] THEN crossed \ {n} ELSE crossed
  /\ Goes(n, "found")
  /\ UNCHANGED <<down, wasDown, since, overtaken>>

\* The check first notes the recovery of a node that is down.
HealthOK(n) ==
  /\ Healthy(n)
  /\ wasDown' = [wasDown EXCEPT ![n] = @ \/ (n \in AlertIfDown /\ down[n])]
  /\ crossed' = IF down[n] THEN crossed \ {n} ELSE crossed
  /\ Goes(n, "found")
  /\ UNCHANGED <<down, since, overtaken>>

\* Without alert_if_down only the flag is set; gnoMonitorHealth passes over a
\* node that is catching up.
HealthBad(n) ==
  /\ ~Healthy(n)
  /\ provider = "gno" => serves[n] # "syncing"
  /\ SetDown(n)
  /\ IF ToBeTimed(n) THEN Goes(n, "mark") ELSE UNCHANGED check

Check(n) ==
  /\ check[n] = "idle"
  /\ HealthOK(n) \/ HealthBad(n)
  /\ UNCHANGED <<envVars, noNodes, runVars, watchVars>>

EndFailure(n) ==
  /\ check[n] = "mark"
  /\ SetSince(n)
  /\ Goes(n, "idle")
  /\ UNCHANGED <<envVars, down, wasDown, crossed, noNodes, runVars, watchVars>>

\* Between the note and the reset a statistic goes through a channel.
Recover(n) ==
  /\ check[n] = "found"
  /\ SetUp(n)
  /\ Goes(n, "reset")
  /\ UNCHANGED <<envVars, wasDown, since, crossed, noNodes, runVars, watchVars>>

EndCheck(n) ==
  /\ check[n] = "reset"
  /\ ResetSince(n)
  /\ noNodes' = FALSE
  /\ Goes(n, "idle")
  /\ UNCHANGED <<envVars, down, wasDown, crossed, runVars, watchVars>>

-----------------------------------------------------------------------------
(* watch() *)

LookAny(n) ==                    \* a bug: alert_if_down is ignored
  /\ seen[n] = "nothing"
  /\ down[n] /\ ~wasDown[n] /\ n \notin nodeAlarms
  /\ seen' = [seen EXCEPT ![n] = "down"]
  /\ UNCHANGED <<envVars, nodeVars, noNodes, runVars, check, nodeAlarms, latch,
                 open, orphan>>

\* A round reads a node's flags before it reads downSince or writes anything.
Look(n) ==
  /\ n \in AlertIfDown /\ seen[n] = "nothing"
  /\ \/ down[n] /\ ~wasDown[n] /\ n \notin nodeAlarms
        /\ seen' = [seen EXCEPT ![n] = "down"]
     \/ ~down[n] /\ wasDown[n]
        /\ seen' = [seen EXCEPT ![n] = "back"]
  /\ UNCHANGED <<envVars, nodeVars, noNodes, runVars, check, nodeAlarms, latch,
                 open, orphan>>

FireNode(n) ==
  /\ seen[n] = "down"
  /\ IF since[n] \in {"old", "epoch"}
     THEN /\ nodeAlarms' = nodeAlarms \cup {n}
          /\ open' = open \cup {n} /\ orphan' = orphan \ {n}
     ELSE UNCHANGED <<nodeAlarms, open, orphan>>
  /\ UNCHANGED <<wasDown, crossed>>

\* A recovery that is noted while the node is being resolved is lost.
ResolveNode(n) ==
  /\ seen[n] = "back"
  /\ nodeAlarms' = nodeAlarms \ {n}
  /\ wasDown' = [wasDown EXCEPT ![n] = FALSE]
  /\ open' = open \ {n} /\ orphan' = orphan \ {n}
  /\ crossed' = crossed \cup {m \in {n} : check[m] = "found"}

WatchNode(n) ==
  /\ FireNode(n) \/ ResolveNode(n)
  /\ seen' = [seen EXCEPT ![n] = "nothing"]
  /\ UNCHANGED <<envVars, down, since, overtaken, noNodes, runVars, check, latch>>

\* The alarm is deferred while noNodes is new; how long is left open.
WatchNoNodesOnce ==              \* a bug: never resolved
  /\ noNodes /\ ~latch
  /\ latch' = TRUE
  /\ UNCHANGED <<envVars, nodeVars, noNodes, runVars, check, seen, nodeAlarms, open, orphan>>

WatchNoNodes ==
  /\ latch # noNodes
  /\ latch' = noNodes
  /\ UNCHANGED <<envVars, nodeVars, noNodes, runVars, check, seen, nodeAlarms, open, orphan>>

CheckSteps(n) == Check(n) \/ EndFailure(n) \/ Recover(n) \/ EndCheck(n)

WatchSteps(n) == Look(n) \/ WatchNode(n)

RunSteps == Begin \/ TryNode \/ EndReject \/ EndTake \/ GiveUp

Next ==
  \/ \E n \in Nodes : Flip(n) \/ Age(n) \/ CheckSteps(n) \/ WatchSteps(n)
  \/ RunSteps \/ StreamEnds
  \/ WatchNoNodes

Spec == Init /\ [][Next]_vars

\* The stream of a node that has gone ends: the websocket or the poller is
\* idle (one and two minutes).  Another may end or go on.
StreamDies ==
  /\ StreamEnds
  /\ IF provider = "cosmos" THEN serves[at] = "err"
     ELSE \A n \in Nodes : serves[n] = "err"

\* Each goroutine is an endless loop around a ticker or a sleep; requests have
\* a timeout of ten seconds, and the channel of the statistics is emptied.
Fairness ==
  /\ \A n \in Nodes : WF_vars(CheckSteps(n))
  /\ \A n \in AlertIfDown : WF_vars(Age(n)) /\ WF_vars(WatchSteps(n))
  /\ WF_vars(RunSteps) /\ WF_vars(StreamDies)
  /\ WF_vars(WatchNoNodes)

FairSpec == Spec /\ Fairness

-----------------------------------------------------------------------------
(* Properties *)

TypeOK ==
  /\ provider \in Providers
  /\ serves \in [Nodes -> Answers] /\ flips \in 0..MaxFlips
  /\ down \in [Nodes -> BOOLEAN] /\ wasDown \in [Nodes -> BOOLEAN]
  /\ since \in [Nodes -> {"zero", "fresh", "old", "epoch"}]
  /\ noNodes \in BOOLEAN
  /\ run \in {"rest", "try", "mark", "taken", "stream"} /\ at \in 1..(NumNodes + 1)
  /\ run # "try" => at \in Nodes
  /\ any \in BOOLEAN /\ spent \in BOOLEAN
  /\ check \in [Nodes -> {"idle", "mark", "found", "reset"}]
  /\ seen \in [Nodes -> {"nothing", "down", "back"}]
  /\ \A n \in Nodes : seen[n] # "nothing" => n \in AlertIfDown
  /\ nodeAlarms \cup open \subseteq AlertIfDown /\ latch \in BOOLEAN
  /\ orphan \subseteq open \ nodeAlarms
  /\ crossed \cup overtaken \subseteq Nodes

\* Somebody has set the node down, and not yet its downSince.
BeingMarked(n) == check[n] = "mark" \/ (run = "mark" /\ at = n)

\* An outage is timed from its beginning, whatever the outages before it and
\* whatever the state file says: once whoever found a node down has set both
\* flags, downSince is the time of this outage, which is what the alarm's "has
\* been down for > %d minutes" (alert.go:714) is measured by.  The flags are
\* written one after the other and without a lock: watch() is too early if it
\* reads them in between, or reads them around a recovery, and a node that is
\* set down between the two writes of its recovery keeps 1970 (overtaken).
OutageIsTimed ==
  \A n \in AlertIfDown \ overtaken :
    (down[n] /\ ~BeingMarked(n)) => since[n] \in {"fresh", "old"}

\* As long as a node's down alarm is open, something remembers that it has to
\* be resolved: the node is still down, or its recovery is noted for watch()
\* (rpc.go:200).  That is what the file keeps the nodes for: "we need to know
\* if the node was already down to clear alarms" (types.go:651).  It fails in
\* three ways.  An alarm whose node is not in the file has nobody to resolve
\* it until its node goes down again (orphan).  The recovery of a node that
\* goes down while the check that resets down has already read it as up is not
\* noted (crossed).  And gnoNewRpc never notes one.
RecoveryRemembered ==
  provider = "cosmos" => \A n \in open \ (orphan \cup crossed) : down[n] \/ wasDown[n]

\* A node that is up for good has no open alarm for good, but for those above:
\* watch()'s "clear the alert" (alert.go:722) does not miss a recovery that the
\* health check and the runner see at about the same time.  That is so if the
\* ten seconds of newRpc suffice: where another node uses them up, the runner
\* sets the healthy one down again and again, and watch() may find it so.
AlarmOfHealthyNodeEnds(n) ==
  <>[](provider = "cosmos" /\ serves[n] = "ok" /\ ~spent)
    => <>[](n \notin open \ (orphan \cup crossed))

NodeAlarmsEnd == \A n \in AlertIfDown : AlarmOfHealthyNodeEnds(n)

\* A node that is gone for good is reported, and stays so, unless it went down
\* again before watch() had dealt with its last recovery, or the process was
\* started during the outage, which looks the same: gnoMonitorHealth
\* "marks a gno node down so the shared watch() loop fires the node-down
\* alert" (gno_provider.go:457).
DeadNodeReported ==
  \A n \in AlertIfDown :
    <>[](serves[n] = "err") => <>[](n \in open \/ wasDown[n])

\* The alarm that no RPC endpoint works ends up saying whether one does,
\* although runner and health check write noNodes without knowing of each
\* other.
NoServersSettles ==
  /\ <>[](\A n \in Nodes : serves[n] = "err") => <>[]latch
  /\ <>[](\A n \in Nodes : serves[n] = "ok") => <>[]~latch

\* A node that serves another chain for good ends up marked down, so that
\* nobody takes a block from it: "ChainId is used to ensure any endpoints
\* contacted claim to be on the correct chain" (types.go:124).  gno.land's
\* health check does not compare it.
ForeignNodeShunned(n) ==
  <>[](provider = "cosmos" /\ serves[n] = "wrong") => <>[](down[n])

ForeignNodesShunned == \A n \in Nodes : ForeignNodeShunned(n)
=============================================================================
