--------------------------- MODULE AlarmDelivery ---------------------------
(***************************************************************************)
(* How an alarm travels from the goroutine that notices a condition to the *)
(* services that page people: td2/alert.go and the dispatcher in           *)
(* td2/run.go.                                                             *)
(*                                                                         *)
(* A chain's watch() loop, and the health check that measures node lag,    *)
(* call alert().  alert() first hands the message to the dispatcher, which *)
(* starts a delivery goroutine for it, and only then records the alarm in  *)
(* AllAlarms.  The delivery goroutine visits PagerDuty, Discord, Telegram, *)
(* Slack and Pushover in that order.  At each, shouldNotify decides under  *)
(* the cache's lock, against that service's Sent map, whether to notify;   *)
(* the request is sent after the lock is released.  Meanwhile newRpc wipes *)
(* a chain's AllAlarms whenever it finds no usable endpoint.               *)
(*                                                                         *)
(* want, drift and lost are history variables: no action reads them.       *)
(***************************************************************************)
EXTENDS Naturals, Sequences

CONSTANTS
  Chains,      \* the configured chains, by name
  Messages,    \* alarm texts; two configs of one chain id share some of them
  Raises,      \* chain -> the messages that can be raised for it
  Kind,        \* message -> how its caller decides to raise it, see Kinds
  Stalled,     \* the messages that start with "stalled: have not seen ..."
  Critical,    \* the messages raised with severity "critical"
  Enabled,     \* chain -> the services enabled for it
  MaxTasks,    \* bound: delivery goroutines alive at one time
  NoMsg        \* the message of a caller or a task that is idle

Sinks == {"pd", "di", "tg", "slk", "po"}

\* The order in which a delivery goroutine visits the services, and the stage
\* of one that has visited them all.
Order == <<"pd", "di", "tg", "slk", "po">>
Pos == [pd |-> 1, di |-> 2, tg |-> 3, slk |-> 4, po |-> 5]
Done == 6

\* gated:   fired and resolved by looking the message up in AllAlarms
\*          (stalled chain, inactive validator)
\* latched: by a local flag of watch() (no RPC endpoint, consecutive misses)
\* node:    fired by a local flag, resolved without one (node down)
\* percent: by a local flag, but the recovery is sent as another alert
\* lag:     raised again at every health check, never resolved (node lag)
Kinds == {"gated", "latched", "node", "percent", "lag"}

ASSUME DeliveryAssumption ==
  /\ MaxTasks \in Nat \ {0}
  /\ NoMsg \notin Messages
  /\ Raises \in [Chains -> SUBSET Messages]
  /\ Kind \in [Messages -> Kinds]
  /\ Stalled \subseteq Messages
  /\ Critical \subseteq Messages
  /\ Enabled \in [Chains -> SUBSET Sinks]
  /\ Chains # {}

Slots == 1..MaxTasks

\* The goroutines of a chain that call alert().
Callers == Chains \X {"watch", "lag"}

VARIABLES
  active,    \* chain -> messages in AllAlarms
  sent,      \* service -> messages in its Sent...Alarms map, of all chains
  flap,      \* <<chain, message>> stamped in flappingAlarms under 5 min ago
  latch,     \* chain -> messages whose local flag in watch() is set
  caller,    \* caller -> its progress through alert()
  task,      \* slot -> a delivery goroutine
  shown,     \* service -> messages that the service shows as open (external)
  want,      \* history: messages whose latest alert was not a resolve
  drift,     \* history: service or "cache" -> messages that may disagree
  lost       \* history: service -> messages whose last request may not count

cacheVars == <<active, sent, flap>>
historyVars == <<want, drift, lost>>
vars == <<cacheVars, latch, caller, task, shown, historyVars>>

IdleCaller == [pc |-> "idle", msg |-> NoMsg, resolved |-> FALSE]

IdleTask == [at |-> Done, posting |-> FALSE, chain |-> CHOOSE c \in Chains : TRUE,
             msg |-> NoMsg, resolved |-> FALSE, renamed |-> FALSE]

Init ==
  /\ active = [c \in Chains |-> {}]
  /\ sent = [s \in Sinks |-> {}]
  /\ flap = {}
  /\ latch = [c \in Chains |-> {}]
  /\ caller = [g \in Callers |-> IdleCaller]
  /\ task = [i \in Slots |-> IdleTask]
  /\ shown = [s \in Sinks |-> {}]
  /\ want = {}
  /\ drift = [s \in Sinks \cup {"cache"} |-> {}]
  /\ lost = [s \in Sinks |-> {}]

-----------------------------------------------------------------------------
(* The callers: when an alert is raised or resolved *)

Live(i) == task[i].at < Done

Idle(g) == caller[g].pc = "idle"

Call(g, m, resolved) ==
  /\ caller' = [caller EXCEPT ![g] =
                  [pc |-> "send", msg |-> m, resolved |-> resolved]]
  /\ UNCHANGED <<cacheVars, task, shown, historyVars>>

HasMessage(c, m) == m \in active[c]

WatchGatedBlind(c, m, bad) ==     \* a bug: fires without looking at the cache
  /\ Idle(<<c, "watch">>)
  /\ bad \/ HasMessage(c, m)
  /\ Call(<<c, "watch">>, m, ~bad)
  /\ UNCHANGED latch

\* stalledTransition and inactiveTransition: fire when the condition holds
\* and the message is not cached, resolve when it is gone and the message is.
WatchGated(c, m, bad) ==
  /\ Idle(<<c, "watch">>)
  /\ bad # HasMessage(c, m)
  /\ Call(<<c, "watch">>, m, ~bad)
  /\ UNCHANGED latch

\* The rules with a local flag: fire unless it is set and set it; when the
\* condition is over, reset it and resolve.  A node's recovery is resolved
\* even if the outage was too short to have fired; the end of a percentage
\* alarm is sent with resolved = false, as the alarm was.
WatchFlagged(c, m, over) ==
  /\ Idle(<<c, "watch">>)
  /\ IF over THEN m \in latch[c] \/ Kind[m] = "node" ELSE m \notin latch[c]
  /\ Call(<<c, "watch">>, m, over /\ Kind[m] # "percent")
  /\ latch' = [latch EXCEPT ![c] = IF over THEN @ \ {m} ELSE @ \cup {m}]

\* nodeLagCheck, in the health check.
LagAlert(c, m) ==
  /\ Idle(<<c, "lag">>)
  /\ Call(<<c, "lag">>, m, FALSE)
  /\ UNCHANGED latch

Raise(c) ==
  \E m \in Raises[c] :
    \/ Kind[m] = "gated" /\ \E bad \in BOOLEAN : WatchGated(c, m, bad)
    \/ Kind[m] \in {"latched", "node", "percent"}
         /\ \E over \in BOOLEAN : WatchFlagged(c, m, over)
    \/ Kind[m] = "lag" /\ LagAlert(c, m)

-----------------------------------------------------------------------------
(* alert(): hand the message over, then record the alarm *)

NextStageEnabledOrNot(c, k) == IF k < 5 THEN k + 1 ELSE Done   \* a bug

\* The first enabled service of c after stage k.
NextStage(c, k) ==
  LET later == {j \in (k + 1)..5 : Order[j] \in Enabled[c]}
  IN  IF later = {} THEN Done
      ELSE CHOOSE j \in later : \A l \in later : j <= l

\* m is still being delivered or recorded for an earlier alert.
InFlight(g, m) ==
  \/ \E i \in Slots : Live(i) /\ task[i].msg = m
  \/ \E h \in Callers \ {g} : caller[h].pc = "record" /\ caller[h].msg = m

\* The channel is unbuffered and the dispatcher only starts a goroutine per
\* message, so the send and the start of the delivery are one step.
AlertSend(g) ==
  LET m == caller[g].msg
      c == g[1]
      free == {i \in Slots : ~Live(i)}
  IN
  /\ caller[g].pc = "send"
  /\ free # {}
  /\ LET i == CHOOSE j \in free : TRUE
     IN  task' = [task EXCEPT ![i] =
                    IF NextStage(c, 0) = Done THEN IdleTask
                    ELSE [at |-> NextStage(c, 0), posting |-> FALSE, chain |-> c,
                          msg |-> m, resolved |-> caller[g].resolved,
                          renamed |-> FALSE]]
  /\ caller' = [caller EXCEPT ![g].pc = "record"]
  /\ want' = IF caller[g].resolved THEN want \ {m} ELSE want \cup {m}
  /\ drift' = [s \in Sinks \cup {"cache"} |->
                 IF InFlight(g, m) THEN drift[s] \cup {m} ELSE drift[s] \ {m}]
  /\ UNCHANGED <<cacheVars, latch, shown, lost>>

\* The end of alert(), under the cache's lock.
AlertRecord(g) ==
  LET m == caller[g].msg
      c == g[1]
  IN
  /\ caller[g].pc = "record"
  /\ active' = [active EXCEPT ![c] =
                  IF caller[g].resolved THEN @ \ {m} ELSE @ \cup {m}]
  /\ caller' = [caller EXCEPT ![g] =
                  IF caller[g].resolved /\ m \in Stalled
                  THEN [@ EXCEPT !.pc = "clear"] ELSE IdleCaller]
  /\ UNCHANGED <<sent, flap, latch, task, shown, historyVars>>

\* After it resolved the stalled alarm, watch() drops every stalled message of
\* the chain, those of an earlier configuration included.
ClearNoBlocks(g) ==
  /\ caller[g].pc = "clear"
  /\ active' = [active EXCEPT ![g[1]] = @ \ Stalled]
  /\ caller' = [caller EXCEPT ![g] = IdleCaller]
  /\ drift' = [drift EXCEPT !["cache"] = @ \cup (active[g[1]] \cap Stalled)]
  /\ UNCHANGED <<sent, flap, latch, task, shown, want, lost>>

\* newRpc and gnoNewRpc found no usable endpoint: clearAll.  The Sent maps
\* keep what the services were told.
ClearAll(c) ==
  /\ active[c] # {}
  /\ active' = [active EXCEPT ![c] = {}]
  /\ drift' = [drift EXCEPT !["cache"] = @ \cup active[c]]
  /\ UNCHANGED <<sent, flap, latch, caller, task, shown, want, lost>>

\* Five minutes have passed since an entry of flappingAlarms was stamped.
FlapExpire ==
  \E entry \in flap :
    /\ flap' = flap \ {entry}
    /\ UNCHANGED <<active, sent, latch, caller, task, shown, historyVars>>

-----------------------------------------------------------------------------
(* The delivery goroutine *)

At(i, s) == task[i].at = Pos[s]

\* On to the next service; after the last one the goroutine ends.
Advanced(t) ==
  LET next == NextStage(t.chain, t.at)
  IN  IF next = Done THEN IdleTask ELSE [t EXCEPT !.at = next, !.posting = FALSE]

Skip(i) ==
  /\ task' = [task EXCEPT ![i] = Advanced(@)]
  /\ UNCHANGED <<sent, flap, drift, lost>>

\* Another goroutine has a request for m under way at s.
Posting(s, m) == \E i \in Slots : At(i, s) /\ task[i].posting /\ task[i].msg = m

StartPost(i, s) ==
  /\ task' = [task EXCEPT ![i].posting = TRUE]
  /\ lost' = [lost EXCEPT ![s] =
                IF Posting(s, task[i].msg) THEN @ \cup {task[i].msg}
                ELSE @ \ {task[i].msg}]

\* shouldNotify drops a repeated alert and a resolve without an alert.
Drop(i, s) ==
  /\ (task[i].msg \in sent[s]) # task[i].resolved
  /\ Skip(i)

ClearSentUnannounced(i, s) ==    \* a bug: forgotten, but never resolved
  /\ task[i].resolved /\ task[i].msg \in sent[s]
  /\ sent' = [sent EXCEPT ![s] = @ \ {task[i].msg}]
  /\ task' = [task EXCEPT ![i] = Advanced(@)]
  /\ UNCHANGED <<flap, drift, lost>>

ClearSent(i, s) ==
  /\ task[i].resolved /\ task[i].msg \in sent[s]
  /\ sent' = [sent EXCEPT ![s] = @ \ {task[i].msg}]
  /\ StartPost(i, s)
  /\ UNCHANGED <<flap, drift>>

FlapKey(i) == <<task[i].chain, task[i].msg>>

\* PagerDuty only: the same alert was sent in the last five minutes.  The
\* entry of the Sent map is not written.
SuppressFlap(i, s) ==
  /\ s = "pd" /\ FlapKey(i) \in flap
  /\ ~task[i].resolved /\ task[i].msg \notin sent[s]
  /\ task' = [task EXCEPT ![i] = Advanced(@)]
  /\ drift' = [drift EXCEPT !["pd"] = @ \cup {task[i].msg}]
  /\ UNCHANGED <<sent, flap, lost>>

MarkSent(i, s) ==
  /\ ~task[i].resolved /\ task[i].msg \notin sent[s]
  /\ s = "pd" => FlapKey(i) \notin flap
  /\ flap' = IF s = "pd" THEN flap \cup {FlapKey(i)} ELSE flap
  /\ sent' = [sent EXCEPT ![s] = @ \cup {task[i].msg}]
  /\ StartPost(i, s)
  /\ UNCHANGED drift

ShouldNotify(i, s) ==
  Drop(i, s) \/ ClearSent(i, s) \/ SuppressFlap(i, s) \/ MarkSent(i, s)

\* notifyPagerduty, notifyDiscord, notifyTg.
NotifyDeduped(i) ==
  \E s \in {"pd", "di", "tg"} :
    /\ At(i, s) /\ ~task[i].posting
    /\ ShouldNotify(i, s)

\* notifySlack asks nobody; buildSlackMessage puts "OK: " in front of the
\* message of a resolve, in the record that the next service reads.
NotifySlack(i) ==
  /\ At(i, "slk") /\ ~task[i].posting
  /\ task' = [task EXCEPT ![i].posting = TRUE, ![i].renamed = task[i].resolved]
  /\ lost' = [lost EXCEPT !["slk"] =
                IF Posting("slk", task[i].msg) THEN @ \cup {task[i].msg}
                ELSE @ \ {task[i].msg}]
  /\ UNCHANGED <<sent, flap, drift>>

ForgetNothing(i) ==              \* a bug: the resolve returns at once
  task[i].resolved /\ Skip(i)

\* notifyPushover: a resolve only deletes the Sent entry of the message as it
\* now reads (no entry reads "OK: ..."), a non-critical alert is ignored.
ForgetPushover(i) ==
  /\ task[i].resolved
  /\ sent' = [sent EXCEPT !["po"] =
                IF task[i].renamed THEN @ ELSE @ \ {task[i].msg}]
  /\ task' = [task EXCEPT ![i] = Advanced(@)]
  /\ UNCHANGED <<flap, drift, lost>>

NotifyPushover(i) ==
  /\ At(i, "po") /\ ~task[i].posting
  /\ \/ ForgetPushover(i)
     \/ ~task[i].resolved /\ task[i].msg \notin Critical /\ Skip(i)
     \/ ~task[i].resolved /\ task[i].msg \in Critical /\ ShouldNotify(i, "po")

NotifyInTurn(i) ==               \* a bug: the dispatcher delivers inline
  /\ Live(i) /\ \A j \in Slots : Live(j) => i <= j
  /\ NotifyDeduped(i) \/ NotifySlack(i) \/ NotifyPushover(i)
  /\ UNCHANGED <<active, latch, caller, shown, want>>

Notify(i) ==
  /\ Live(i)
  /\ NotifyDeduped(i) \/ NotifySlack(i) \/ NotifyPushover(i)
  /\ UNCHANGED <<active, latch, caller, shown, want>>

\* The request returns.  Delivered, it changes what the service shows; a
\* failure (also PagerDuty's example key, for which none is sent) is only
\* logged, and the goroutine goes on to the next service.
Post(i) ==
  /\ Live(i) /\ task[i].posting
  /\ LET s == Order[task[i].at]
         m == task[i].msg
     IN  \/ /\ shown' = [shown EXCEPT ![s] = IF task[i].resolved THEN @ \ {m}
                                             ELSE @ \cup {m}]
            /\ UNCHANGED lost
         \/ /\ lost' = [lost EXCEPT ![s] = @ \cup {m}]
            /\ UNCHANGED shown
  /\ task' = [task EXCEPT ![i] = Advanced(@)]
  /\ UNCHANGED <<cacheVars, latch, caller, want, drift>>

-----------------------------------------------------------------------------
Next ==
  \/ \E c \in Chains : Raise(c) \/ ClearAll(c)
  \/ \E g \in Callers : AlertSend(g) \/ AlertRecord(g) \/ ClearNoBlocks(g)
  \/ \E i \in Slots : Notify(i) \/ Post(i)
  \/ FlapExpire

\* Only these two clients have a timeout (30 s and 10 s): a request to
\* Discord, Telegram or Slack may hang for ever.
Timed == {"pd", "po"}

PostTimed(i) == Post(i) /\ Order[task[i].at] \in Timed

\* The Go scheduler runs every runnable goroutine.
Fairness == \A i \in Slots : WF_vars(Notify(i)) /\ WF_vars(PostTimed(i))

Spec == Init /\ [][Next]_vars

FairSpec == Spec /\ Fairness

-----------------------------------------------------------------------------
(* Properties *)

CallStates == [pc : {"idle", "send", "record", "clear"},
               msg : Messages \cup {NoMsg}, resolved : BOOLEAN]

TaskStates == [at : 1..Done, posting : BOOLEAN, chain : Chains,
               msg : Messages \cup {NoMsg}, resolved : BOOLEAN,
               renamed : BOOLEAN]

TypeOK ==
  /\ active \in [Chains -> SUBSET Messages]
  /\ sent \in [Sinks -> SUBSET Messages]
  /\ flap \subseteq Chains \X Messages
  /\ latch \in [Chains -> SUBSET Messages]
  /\ caller \in [Callers -> CallStates]
  /\ \A g \in Callers :
       caller[g].pc # "idle" => caller[g].msg \in Raises[g[1]]
  /\ task \in [Slots -> TaskStates]
  /\ \A i \in Slots :
       IF Live(i) THEN /\ task[i].msg \in Raises[task[i].chain]
                       /\ Order[task[i].at] \in Enabled[task[i].chain]
       ELSE task[i] = IdleTask
  /\ shown \in [Sinks -> SUBSET Messages]
  /\ want \subseteq Messages
  /\ drift \in [Sinks \cup {"cache"} -> SUBSET Messages]
  /\ lost \in [Sinks -> SUBSET Messages]

\* The services that every chain raising m has enabled.
Reaches(s, m) == \A c \in Chains : m \in Raises[c] => s \in Enabled[c]

\* A delivery of m has not been decided at s yet.
Undecided(i, s, m) ==
  /\ Live(i) /\ task[i].msg = m
  /\ task[i].at < Pos[s] \/ (At(i, s) /\ ~task[i].posting)

Settled(s, m) == \A i \in Slots : ~Undecided(i, s, m)

\* Once the deliveries of an alarm have been decided at a service, its Sent
\* map says what the last alert about the alarm said, even when the map had
\* been wrong: alert.go's "alarms is used to prevent double notifications"
\* would otherwise suppress a new alarm, or send one twice.  The exceptions
\* are the alarms in drift: two deliveries of one message were in flight
\* together, or flap detection kept it from PagerDuty.
FollowsLastAlert(s, m) ==
  (Reaches(s, m) /\ m \notin drift[s] /\ Settled(s, m))
    => (m \in sent[s] <=> m \in want)

SinkFollowsAlerts ==
  \A s \in {"pd", "di", "tg"}, m \in Messages : FollowsLastAlert(s, m)

\* The same for Pushover, which keeps a Sent entry for critical alarms only:
\* "so a later genuine re-fire of the same critical alarm is delivered rather
\* than suppressed" (alert.go:346).  On chains that also notify Slack it does
\* not hold: the entry survives the resolve that Slack has renamed.
PushoverFollowsAlerts ==
  \A m \in Critical :
    (\A c \in Chains : m \in Raises[c] => "slk" \notin Enabled[c])
      => FollowsLastAlert("po", m)

\* No request about m is under way at s.
Answered(s, m) == ~Posting(s, m)

\* What a service shows its users is what the last alert said, once nothing
\* about the alarm is under way: no request was sent before an older one had
\* returned, none was dropped that should have been sent.  The exceptions
\* are those in drift and the alarms whose last request failed or raced
\* with an earlier one.
RemoteFollowsAlerts ==
  \A s \in {"pd", "di", "tg", "slk"}, m \in Messages :
    (/\ Reaches(s, m) /\ m \notin drift[s] /\ m \notin lost[s]
     /\ Settled(s, m) /\ Answered(s, m))
      => (m \in shown[s] <=> m \in want)

\* m is raised for this chain only.
Unshared(c, m) == m \in Raises[c] /\ \A d \in Chains \ {c} : m \notin Raises[d]

NotRecording(m) ==
  \A g \in Callers : ~(caller[g].pc = "record" /\ caller[g].msg = m)

\* AllAlarms, which the dashboard counts and which gates the stalled and the
\* inactive alarm, agrees with the last alert unless clearAll has wiped it.
CacheFollowsAlerts ==
  \A c \in Chains, m \in Messages :
    (Unshared(c, m) /\ m \notin drift["cache"] /\ NotRecording(m))
      => (m \in active[c] <=> m \in want)

\* The gate of the stalled and inactive alarms, read before alert() takes any
\* lock, is not stale when it is used: watch() never announces one of them
\* again while it stands announced, unless clearAll made it forget.
GatedAnnouncedOnce ==
  [][\A c \in Chains :
       LET g == <<c, "watch">>
           m == caller[g].msg
       IN  (/\ caller[g].pc = "send" /\ caller'[g].pc = "record"
            /\ ~caller[g].resolved
            /\ Kind[m] = "gated" /\ Unshared(c, m))
             => (m \notin want \/ m \in drift["cache"])]_vars

\* A Discord, Telegram or Slack request that never returns holds up nobody but
\* the alert it belongs to: the deliveries of a chain that only notifies
\* services with a timeout all end.
TimedChainsDrain ==
  \A i \in Slots, c \in Chains :
    Enabled[c] \subseteq Timed =>
      ((Live(i) /\ task[i].chain = c) ~> ~(Live(i) /\ task[i].chain = c))
=============================================================================
