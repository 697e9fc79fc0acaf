------------------------------ MODULE GnoPoll ------------------------------
(***************************************************************************)
(* The monitoring of one gno.land chain in time: the chain's runner in     *)
(* td2/run.go (gnoNewRpc, GnoGetValInfo, PollRun, and again when PollRun   *)
(* gives up), the minute health check that races it, and the part of       *)
(* watch() that turns what they record into the stalled-chain and the      *)
(* consecutive-misses alarm.                                               *)
(*                                                                         *)
(* Time is counted in minutes.  In a minute the health check runs once, and *)
(* the runner and watch() at least once and any number of times, in any    *)
(* order; the clock moves when they all have (`due').  The environment is  *)
(* `rough' (nodes, realm and chain do anything, and nodes of other chains  *)
(* serve blocks too), `steady' (one node, Sound, answers with the head, no *)
(* node serves a block above it, RealmNodes answer the realm's query, a    *)
(* block is made every minute) or `halted' (the same, after a steady time, *)
(* without new blocks).  The other nodes lag or fail at any time.          *)
(*                                                                         *)
(* How an alarm reaches people is in AlarmDelivery; here td.alert() is its *)
(* effect on AllAlarms.                                                    *)
(***************************************************************************)
EXTENDS Integers, FiniteSets

CONSTANTS
  NumNodes,          \* nodes of the chain, tried in the order 1, 2, ...
  Sound,             \* the one that answers when the weather is not rough
  RealmNodes,        \* those that then answer the query of the realm
  StalledMin,        \* alerts.stalled_minutes
  ConsecutiveMissed, \* alerts.consecutive_missed
  IdleLimit,         \* PollRun gives up after this long without a block (2 min)
  Settle,            \* steady minutes after which the monitor must be right
  MissedHeights,     \* the blocks without the validator's precommit
  MaxStep,           \* bound: blocks the chain makes in a minute
  MaxHeight,         \* bound: blocks the chain makes at all
  MaxLag,            \* bound: how far behind the head a node's answer can be
  ForeignHeights,    \* bound: what a node of another chain can serve ...
  MaxForeign,        \*   ... at most
  MaxAge,            \* bound: ages and spans saturate
  MaxStreak          \* bound: the miss counter saturates

Nodes == 1..NumNodes

ASSUME PollAssumption ==
  /\ {NumNodes, MaxStep, MaxHeight, MaxStreak} \subseteq Nat \ {0}
  /\ RealmNodes \subseteq Nodes /\ Sound \in RealmNodes
  /\ MissedHeights \subseteq Nat /\ MaxLag \in Nat
  /\ MaxForeign \in Nat /\ ForeignHeights \subseteq 1..MaxForeign
  /\ {StalledMin, ConsecutiveMissed, IdleLimit, Settle} \subseteq Nat
  /\ MaxAge \in Nat /\ MaxAge > StalledMin + 1 /\ MaxAge > IdleLimit /\ MaxAge >= Settle
  /\ MaxStreak >= ConsecutiveMissed

VARIABLES
  weather, span,     \* the environment, and for how many minutes (external)
  head,              \* the chain's height (external)
  due,               \* who has not run in this minute yet
  down,              \* node -> its down flag
  resolved, bonded,  \* valInfo: Valcons is known, Bonded
  unbonding,         \* the health check has yet to write Bonded = false
  run,               \* the runner: "connect", "info", "start" or "poll"
  lastHeight, idle,  \* PollRun's lastHeight and minutes since noBlockSince
  age,               \* minutes since lastBlockTime, or Never
  alarm,             \* the stalled message is in AllAlarms
  streak, latch,     \* statConsecutiveMiss, and watch()'s missedAlarm
  announced,         \* history: the alarm was raised since the last new block
  counted, resumed   \* history: heights in the streak; PollRun began anew since

envVars == <<weather, span, head>>
infoVars == <<resolved, bonded, unbonding>>
pollVars == <<run, lastHeight, idle>>
statVars == <<streak, counted, resumed>>
vars == <<envVars, due, down, infoVars, pollVars, age, alarm, statVars, latch, announced>>

Never == -1

Tasks == {"run", "health", "watch"}

Saturated(n, bound) == IF n < bound THEN n ELSE bound

Init ==
  /\ weather = "rough" /\ span = 0
  /\ head \in 0..1
  /\ due = Tasks
  /\ down = [n \in Nodes |-> FALSE]
  /\ resolved = FALSE /\ bonded = FALSE
  /\ unbonding = FALSE
  /\ run = "connect" /\ lastHeight = 0 /\ idle = 0
  /\ age = Never
  /\ alarm = FALSE
  /\ streak = 0 /\ latch = FALSE
  /\ announced = FALSE
  /\ counted = {} /\ resumed = FALSE

Ran(task) == due' = due \ {task}

-----------------------------------------------------------------------------
(* The clock, the chain and its nodes *)

Older(a) == IF a = Never THEN Never ELSE Saturated(a + 1, MaxAge)

NextSpan(w) == IF w = weather THEN Saturated(span + 1, MaxAge) ELSE 1

\* The chain makes n blocks.
Produce(n) ==
  /\ head' = head + n
  /\ head' <= MaxHeight
  /\ announced' = FALSE

Quiet == UNCHANGED <<head, announced>>

Weather(w) ==
  CASE w = "rough" -> Quiet \/ \E n \in 1..MaxStep : Produce(n)
    [] w = "steady" -> \E n \in 1..MaxStep : Produce(n)
    [] w = "halted" -> Quiet /\ (weather = "halted" \/ (weather = "steady" /\ span >= Settle))

Tick ==
  /\ due = {} /\ ~unbonding
  /\ due' = Tasks
  /\ \E w \in {"rough", "steady", "halted"} :
       Weather(w) /\ weather' = w /\ span' = NextSpan(w)
  /\ age' = Older(age)
  /\ idle' = Saturated(idle + 1, MaxAge)
  /\ UNCHANGED <<down, infoVars, run, lastHeight, alarm, statVars, latch>>

Rough == weather = "rough"

\* The nodes whose /status is answered, by a node in sync on this chain.
Answering == {S \in SUBSET Nodes : Rough \/ Sound \in S}

\* What the nodes answer to /block, of whatever chain; 0 stands for an error or
\* no height.
Replies ==
  {r \in [Nodes -> {0} \cup {h \in 1..head : h + MaxLag >= head}
                        \cup (IF Rough THEN ForeignHeights ELSE {})] :
     Rough \/ r[Sound] = head}

-----------------------------------------------------------------------------
(* GnoGetValInfo: Valcons from the realm, Bonded from the nodes.  Of an     *)
(* unresolved validator it is not bonded; if no node answers, Bonded stays *)

\* The realm is asked through one node: the first that is not marked down, by
\* the flags d, or the first of all.
RealmNode(d) ==
  LET up == {n \in Nodes : ~d[n]}
  IN  IF up = {} THEN 1 ELSE CHOOSE n \in up : \A k \in up : n <= k

\* Whether it names the validator.
Resolves(d) ==
  IF ~Rough /\ RealmNode(d) \in RealmNodes THEN {TRUE} ELSE BOOLEAN

GetValInfo(d) ==
  /\ resolved' \in Resolves(d)
  /\ bonded' \in (IF resolved' THEN BOOLEAN ELSE {FALSE})

-----------------------------------------------------------------------------
(* The runner *)

\* gnoNewRpc: the nodes before the first usable one are marked down, that one
\* is marked up, those after it are not asked.  Without one, every alarm of
\* the chain is forgotten and the runner tries again in five seconds.
Connect ==
  /\ run = "connect"
  /\ \E up \in Answering :
       IF up = {}
       THEN /\ down' = [n \in Nodes |-> TRUE]
            /\ alarm' = FALSE
            /\ Ran("run")
            /\ UNCHANGED run
       ELSE LET first == CHOOSE n \in up : \A k \in up : n <= k
            IN  /\ down' = [n \in Nodes |-> IF n < first THEN TRUE
                                            ELSE down[n] /\ n # first]
                /\ run' = "info"
                /\ UNCHANGED <<alarm, due>>
  /\ UNCHANGED <<envVars, infoVars, lastHeight, idle, age, statVars, latch, announced>>

RunnerInfo ==
  /\ run = "info"
  /\ GetValInfo(down)
  /\ run' = "start"
  /\ UNCHANGED <<envVars, due, down, unbonding, lastHeight, idle, age, alarm,
                 statVars, latch, announced>>

NewSessionUnset ==               \* a bug: the height starts below every height
  /\ lastHeight' = -1 /\ idle' = 0
  /\ resumed' = (resumed \/ counted # {})

NewSession ==
  /\ lastHeight' = 0 /\ idle' = 0
  /\ resumed' = (resumed \/ counted # {})

\* PollRun up to its loop: without a signing address it returns at once.  Its
\* wait for an endpoint never waits here: Connect has found one.
StartPoll ==
  /\ run = "start"
  /\ IF resolved
     THEN run' = "poll" /\ NewSession /\ UNCHANGED due
     ELSE run' = "connect" /\ Ran("run") /\ UNCHANGED <<lastHeight, idle, resumed>>
  /\ UNCHANGED <<envVars, down, infoVars, age, alarm, streak, counted, latch, announced>>

BestPinned(r) ==                 \* a bug: only the first node that is up
  LET up == {n \in Nodes : ~down[n]}
  IN  IF up = {} THEN 0 ELSE r[CHOOSE n \in up : \A k \in up : n <= k]

\* The highest block that a node not marked down serves.  The block's chain id
\* is not compared.
Best(r) ==
  LET served == {0} \cup {r[n] : n \in {k \in Nodes : ~down[k]}}
  IN  CHOOSE h \in served : \A k \in served : h >= k

AdvancesOrRepeats(h) == h > 0 /\ h >= lastHeight    \* a bug

Advances(h) == h > lastHeight

\* Only a validator believed to be bonded is held to a block.  While Valcons
\* is unknown no precommit matches it, nor does one of another chain's block.
CountBlock(h) ==
  IF ~bonded THEN UNCHANGED statVars
  ELSE IF h \in MissedHeights \/ ~resolved \/ h > head
       THEN /\ streak' = Saturated(streak + 1, MaxStreak)
            /\ counted' = counted \cup {h}
            /\ UNCHANGED resumed
       ELSE streak' = 0 /\ counted' = {} /\ resumed' = FALSE

\* One tick of PollRun.
Poll ==
  /\ run = "poll"
  /\ \E r \in Replies :
       LET h == Best(r)
       IN  IF Advances(h)
           THEN /\ lastHeight' = h
                /\ idle' = 0 /\ age' = 0
                /\ CountBlock(h)
                /\ UNCHANGED run
           ELSE /\ run' = IF idle > IdleLimit THEN "connect" ELSE "poll"
                /\ UNCHANGED <<lastHeight, idle, age, statVars>>
  /\ IF run' = "poll" THEN Ran("run") ELSE UNCHANGED due
  /\ UNCHANGED <<envVars, down, infoVars, alarm, latch, announced>>

-----------------------------------------------------------------------------
(* The health check: the nodes' flags, then valInfo *)

\* A node in error is marked down, one that is in sync up; one that is
\* catching up keeps its flag.  When the realm does not answer, Valcons is
\* overwritten a moment before Bonded.
Health ==
  /\ "health" \in due
  /\ \E up \in Answering : \E syncing \in SUBSET (Nodes \ up) :
       down' = [n \in Nodes |-> IF n \in syncing THEN down[n] ELSE n \notin up]
  /\ \/ GetValInfo(down') /\ UNCHANGED unbonding
     \/ /\ FALSE \in Resolves(down')
        /\ resolved' = FALSE /\ unbonding' = TRUE /\ UNCHANGED bonded
  /\ Ran("health")
  /\ UNCHANGED <<envVars, pollVars, age, alarm, statVars, latch, announced>>

EndHealth ==
  /\ unbonding
  /\ bonded' = FALSE /\ unbonding' = FALSE
  /\ UNCHANGED <<envVars, due, down, resolved, pollVars, age, alarm, statVars,
                 latch, announced>>

-----------------------------------------------------------------------------
(* watch() *)

IsStalledLate == age > StalledMin + 1    \* a bug

IsStalled == age > StalledMin

\* A round of watch().  stalledTransition is driven by the cached alarm; a
\* chain of which no block was ever seen is not stalled.  The consecutive
\* alarm follows the counter.
Watch ==
  /\ alarm' = (age # Never /\ IsStalled)
  /\ announced' = (announced \/ alarm')
  /\ latch' = (streak >= ConsecutiveMissed)
  /\ Ran("watch")
  /\ UNCHANGED <<envVars, down, infoVars, pollVars, age, statVars>>

Next ==
  \/ Tick
  \/ Connect \/ RunnerInfo \/ StartPoll \/ Poll
  \/ Health \/ EndHealth
  \/ Watch

Spec == Init /\ [][Next]_vars

-----------------------------------------------------------------------------
(* Properties *)

TypeOK ==
  /\ weather \in {"rough", "steady", "halted"} /\ span \in 0..MaxAge
  /\ head \in 0..MaxHeight
  /\ due \subseteq Tasks
  /\ down \in [Nodes -> BOOLEAN]
  /\ resolved \in BOOLEAN /\ bonded \in BOOLEAN /\ unbonding \in BOOLEAN
  /\ run \in {"connect", "info", "start", "poll"}
  /\ lastHeight \in (0..head) \cup ForeignHeights /\ idle \in 0..MaxAge
  /\ age \in {Never} \cup 0..MaxAge
  /\ alarm \in BOOLEAN /\ announced \in BOOLEAN
  /\ streak \in 0..MaxStreak /\ latch \in BOOLEAN
  /\ counted \subseteq (1..head) \cup ForeignHeights /\ resumed \in BOOLEAN

\* A chain that makes blocks is not reported as stalled as soon as the weather
\* has been steady for longer than PollRun's idle exit, however its other nodes
\* lag, fail or say they are in sync: PollRun's "a single stale/lagging endpoint
\* can no longer freeze monitoring" (gno_poll.go:82).  Whatever happened before
\* is got over: the alarm of an earlier stall is gone, and so is the height of
\* another chain, which PollRun takes for its own.  While a node serves one, and
\* while the node asked for the realm does not answer, it may be reported.
HealthyNotStalled ==
  (weather = "steady" /\ span > Settle /\ "watch" \notin due) => ~alarm

\* The stall of a chain that was seen settled has been announced by the end of
\* the first minute past the configured time, "minutes without a block before
\* alerting" (example-config.yml:96); PollRun's comment (gno_poll.go:116)
\* relies on it.  It holds only of times shorter than IdleLimit: a new PollRun
\* takes the halted chain's last block for a new one.
HaltAnnounced ==
  (weather = "halted" /\ span > StalledMin /\ due = {}) => announced

\* Between two starts of PollRun no block is counted twice against the
\* validator: "alert on N consecutive missed blocks" (example-config.yml:98).
\* A new PollRun counts the last missed block of a halted chain once more.
ConsecutiveInSession ==
  ~resumed => streak = Saturated(Cardinality(counted), MaxStreak)
=============================================================================
