# Enchanted Tenderduty in TLA+

Tenderduty watches validators of Cosmos chains and of gno.land and pages people
when something is wrong. This directory models its concurrent core (the Go
package `src/td2`) and its dashboard (`src/td2/static`), model-checks it with TLC and proves the results that matter
most with TLAPS.

The program is one process full of goroutines that share `ChainConfig`,
`NodeConfig` and `ValInfo` structures without locks, and one alarm cache with a
mutex. What can be wrong in it is mostly an order of steps: a recovery noticed by
one goroutine and not by another, an alarm resolved before it was raised, a
counter reset by a reconnection. That is what the models keep; texts, logging,
JSON and HTTP are left out.

## Parts of the system

| Part | State | Operations | Modelled in |
|---|---|---|---|
| Alarm delivery (`alert.go`, dispatcher in `run.go`) | `AllAlarms`, a `Sent...` map per service, `flappingAlarms` | `alert`, `shouldNotify`, `notify*`, `clearAll`, `clearNoBlocks` | `AlarmDelivery` |
| Alarm rules, `watch()` (`alert.go`) | local flags `missedAlarm`, `pctAlarm`, `noNodes`, `nodeAlarms` | a round every 2 s | how rules fire: `AlarmDelivery`; stalled, consecutive: `GnoPoll`; node down, no endpoint: `NodeHealth`; inactive: `Inactive`; percentage: `Percentage` |
| Runner (`run.go`, `newRpc`, `gnoNewRpc`) | `client`, `gnoRpcEndpoint`, `noNodes`, node flags | connect, refresh `valInfo`, stream, again | `NodeHealth`, `GnoPoll` |
| Health check (`monitorHealth`, `gnoMonitorHealth`) | node flags `down`, `wasDown`, `downSince`; `lastValInfo` | a check per node per minute, `GetValInfo` | `NodeHealth`, `GnoPoll` |
| Websocket stream (`ws.go`) | `signState`, counters, `blocksResults` | reader, vote and block handlers, processor | `WsStream` |
| Block poller (`gno_poll.go`) | `lastHeight`, `noBlockSince`, `lastBlockTime`, counters | poll every 5 s, idle exit | `GnoPoll` |
| Signing-health window (`gno_window.go`) | ring buffer | `Push`, `Missed`, `Window` | `GnoWindow` implements `SlidingWindow`; its publication: `Percentage` |
| Validator information (`validator.go`, `gno_provider.go`) | `valInfo`, `lastValInfo` | `GetValInfo`, by the runner and by the health check | `Inactive`; as its readers see it: `GnoPoll`, `WsStream`, `Percentage` |
| Saved state (`saveOnExit`, `loadConfig`) | a JSON file | save at exit, restore at start | alarm cache: `AlarmRestart`, over `AlarmDelivery`; node flags: `NodeHealth` |
| Dashboard server (`dashboard/server.go`) | `statusCache`, `update` | a status arrives, broadcast every second, `/ws`, `/state` | `Dashboard` |
| Dashboard page (`status.js`, `grid.js`, `sw.js`) | `allStatus`, `currentTab`, the table, the canvas; the service worker's cache | load, broadcast, switch of tabs, resize | `Dashboard` |
| Configuration, encryption, Prometheus, registry, logging, vendored UIkit | | | not modelled, see the end |

**How they interact.** For each chain `Run` starts `watch()`, the health check and
the runner. Runner and health check write the node flags, `noNodes` and
`valInfo`; the stream writes `lastBlockTime` and the counters; `watch()` reads all
of it and calls `alert()`, which sends to the dispatcher over an unbuffered
channel and then writes `AllAlarms`. The dispatcher starts a goroutine per
message, which visits PagerDuty, Discord, Telegram, Slack and Pushover.
`newRpc`, when it finds no endpoint, wipes the chain's `AllAlarms`. On a signal,
`saveOnExit` writes the alarm cache to a file while all of this goes on, and
`loadConfig` reads it. The runner, the streams and the refreshes send statuses to
the dashboard's goroutine, which broadcasts the statuses of all chains to the pages; a
page also asks for them once, through a service worker.

**What is hard.** Deliveries of one alarm overtake each other; a cache entry is
read before it is used; three goroutines reset the same flag, each with other
side effects; a stream that restarts forgets what it had seen; votes and blocks
come through different channels; a request hangs; a refresh blanks what it is
about to write; the process ends in the middle of a save; a page misses broadcasts
and gets answers late. `PROJECT.json` lists these hazards with their lines and the
property that covers each.

**What makes each part correct.**

- Delivery: what a service was told is what the alarm's last alert said; nobody is
  told twice; a service that hangs holds up nobody else.
- Rules: an alarm is raised when its condition persists and resolved when it ends.
- Runner and health check: a node that is gone is reported, one that is back is not,
  one that serves another chain is never used.
- Stream and poller: a block counts once, for what the chain says of it; a halted
  chain is noticed; a chain that makes blocks is not called stalled.
- Window: the pair it publishes is about the last N blocks, exactly, and the
  percentage alarm follows it.
- Inactive rule: no failed refresh raises the alarm, and the alarm stands as long as
  the validator is out.
- Saved state: over a restart, nothing is announced twice and nothing is forgotten
  that the file could have kept.
- Dashboard: the table and the canvas show the statuses of the tab, and a page that
  has missed something catches up.

## The modules

### `SlidingWindow`, `GnoWindow`, `Percentage`

`SlidingWindow` says what the window promises: the sequence of the last N
outcomes. `GnoWindow` is `gno_window.go`: `buf`, `head`, `size`, `missed`, and the
actions `Push` and `NewWindow`. `Recent` reads the ring oldest first and is the refinement mapping
(`Ideal`); `IsSlidingWindow` is the abstract specification.

`Percentage` puts the ring where it is used. `info` is `valInfo.Missed` and
`valInfo.Window`, which two goroutines share without a lock: `PollRun` counts a block
(`CountBlock`) and writes one number (`PublishMissed`) and then the other
(`PublishWindow`); for a cosmos chain `GetValInfo` writes `Missed` at each refresh
(`AnswerMissed`) and `Window` until it has an answer (`AnswerWindow`). `watch()` reads
one number (`Look`) and then the other (`Compare`), in either order, and anything may
be written in between. `Exceeds` and `FallsBelow` are its floating-point comparisons
with their division by zero. `span` is history: the pairs that there were, or should
have been, while `watch()` looked.

### `AlarmDelivery`

A *caller* is a goroutine that raises alarms for a chain: `watch()`, or the health
check for node lag. It goes through `alert()` in two steps, `AlertSend` (the
dispatcher starts a delivery) and `AlertRecord` (`AllAlarms`, under the lock), and
after a stalled alarm was resolved a third, `ClearNoBlocks`. A *task* is a delivery
goroutine. It visits the services its chain has enabled, in the order of `run.go`;
at each, `Notify` is the decision under the lock (`shouldNotify`, or what
`notifySlack` and `notifyPushover` do instead) and `Post` the return of the
request, which may succeed or fail.

How an alarm is decided depends on its `Kind`: *gated* by the cache (stalled,
inactive), *latched* by a local flag (no endpoint, consecutive misses), *node*
(fired once by a flag, resolved without looking at it), *percent* and *lag*. The
conditions themselves are inputs: any order in which they could come and go is
explored.

The history variables say what ought to be so: `want`, the alarms whose last alert
was not a resolve; `drift`, the alarms about which services may disagree because two
deliveries were in flight at once, or flap detection kept one from PagerDuty;
`lost`, those whose last request failed or raced with an older one. No action
reads them. The properties are stated of the other alarms.

### `AlarmRestart`

`AlarmDelivery` with the state file. `saving` is how far `saveOnExit` is: the file
is truncated (`BeginSave`), the maps are marshalled one by one into `image`
(`MarshalPart`) while every action of `AlarmDelivery` may happen in between, and the
file is written (`WriteFile`). `Restart` may happen at any moment: before a save,
inside one, or long after. It reads what the file has (`Kept`), four Sent maps of
five (`Restored`), drops any set of stale entries, and begins with idle callers, no
deliveries and no local flags. The messages of which the file could not tell the
truth (`Outdated`, `OutdatedCache`), those cut short (`Cut`, `CutRecording`) and the
Pushover entries that are not restored (`Forgotten`) join `drift` and `lost`; all
the properties of `AlarmDelivery` then hold of the others, over any number of
restarts.

### `Inactive`

`valInfo` (`info`) and the copy that the health check keeps of it (`last`), the two
goroutines that refresh it field by field (`Query`, `ActiveSet`, `WriteBonded`,
`Signing`; `refresh` is where each of them is), the validator on the chain (`val`)
and the rule of `watch()` (`Fires`, `Resolves`) with its entries in `AllAlarms`.
`provider` selects `validator.go` or `gno_provider.go`. A Moniker is the
validator's or a placeholder; `Nil` is a `valInfo` that still says "not connected",
during which `watch()` waits. `Tick` and `Reconnect` need that `watch()` has looked
since the last write, since it looks thirty times a minute and the runner
waits five seconds between connections; inside a refresh it may look at any moment or
not at all. The other history variables only serve the properties: `left`, `failed`
and `rounds` say what has happened since the copy was made, `excused` that the rule
has had no chance since.

### `Dashboard`

The server's goroutine (`Update`, `Tick`), the page and its service worker. A status
is the number of the update that brought it, and `Title` says which alert an update
reports. `wire` holds broadcasts the page has still to handle; `Tick` may fail to
reach the page, and a hidden page drops what it gets. `request` are the requests for
the state under way, each with whether the page waits for it and whether the worker
stores its answer: a page that is loaded again leaves requests behind. `rows`, `note`
and `grid` are the table, what else is in it, and the canvas; `RefreshView`
is both functions that draw, with their early returns. `told` is history: the page
has, or is about to get, the last broadcast.

### `GnoPoll`

A gno.land chain in time, counted in minutes: the runner (`Connect`, `RunnerInfo`,
`StartPoll`, `Poll`), the health check (`Health`, with `EndHealth` for the moment
between the writes of `Valcons` and `Bonded`), `watch()` (`Watch`), and the
environment, which is *rough* (nodes, realm and chain do anything, and nodes of other
chains serve blocks, whose chain id `PollRun` does not compare), *steady* or
*halted*. A minute ends when each of the three has run in it (`due`); they run in
any order, the runner and `watch()` as often as they like. `age` is the time since
`lastBlockTime`, `idle` the time since `noBlockSince`.

The realm is asked for the signing address through one node, the first that is not
marked down (`RealmNode`). When the weather is not rough the nodes in `RealmNodes`
answer it; of the others the query may fail for ever, and then `PollRun` returns each
time it is started (`StartPoll`).

### `NodeHealth`

The nodes of one chain and the goroutines that share their flags without a lock.
`Begin`, `TryNode`, `EndReject`, `EndTake`, `GiveUp`, `StreamEnds` are the runner;
`Check`, `EndFailure`, `Recover` and `EndCheck` a node's health check; `Look`,
`WatchNode` and `WatchNoNodes` are `watch()`. Every write that another goroutine may
come between is a step of its own: `down` and then `downSince` when a node fails
(`SetDown`, `SetSince`); the reading of `down` with `wasDown`, `down`, `downSince` when a
check finds it back (`HealthOK`, `SetUp`, `ResetSince`); the reading of `down` and
`wasDown` and what follows from it in `watch()` (`seen`). `check` and `run` say how far
each goroutine is. `spent` says that the ten seconds which all endpoints of one
`newRpc` share are over: a node that fails may have used them up, and then the healthy
ones behind it are rejected too.

Two of the history variables name the nodes about which these interleavings leave
something wrong: `overtaken`, those that were marked down between the two writes of a
recovery, and `crossed`, those that went down, or whose recovery was noted, between the
reading of a check and its reset.
`provider` selects `rpc.go` or `gno_provider.go`. `since` abstracts `downSince` to never
set, recent, older than `node_down_alert_minutes`, or 1970; it is not followed for nodes
without `alert_if_down`, whose `downSince` nobody reads. `open` is history: the nodes whose down alarm is announced and not resolved. A
behaviour begins with a start of the process and any state file: `Restore` brings
the nodes of the file back down, and the alarms that the process before left open
are any; those whose node is not in the file are in `orphan`, until an outage makes
them the business of `watch()` again.

### `WsStream`

One websocket subscription after another. `reader`, `votes` and `blocks` are what
the reader and the two handlers hold (`Gone` once they have ended): since the
channels are unbuffered, a goroutine that has nowhere to send holds its message,
for ever if the receiver has gone. `ProcessVote` and `ProcessBlock` are the
processor. `misses` is history, the streak of missed blocks among those that reached
the processor, by what the blocks contain; a block that was made between two
subscriptions, or that a goroutine still held when one ended, is in neither count.
`unsure` marks when the counter may differ from it: the subscription was made with a
blank address (see `Dial`), the validator left the bonded set between its vote and the
block, or a vote message called itself a proposal, which `handleVotes` turns into the
status of a block that the validator proposed. `Again` is the next `WsRun`; it is not
fair, since the runner calls it only once `newRpc` has found an endpoint.

## The runs

| Run | Checks | Shows |
|---|---|---|
| `percentage` | `PercentTypeOK`, `MissedIsCount`, `PublishedPair`, `IsSlidingWindow`, `PercentSound`, `PercentComplete` | the ring is the last outcomes, the pair it publishes is exact between blocks, the percentage alarm follows it |
| `restart` | `RestartTypeOK`, `SinkFollowsAlerts`, `RemoteFollowsAlerts`, `CacheFollowsAlerts`, `GatedAnnouncedOnce` | maps, people and cache follow the last alert, over saves and restarts |
| `delivery` | `PushoverFollowsAlerts` | Pushover's entry of a critical alarm follows its last alert |
| `hang` | `TimedChainsDrain` | a hanging request holds up its own delivery only |
| `gnopoll` | `TypeOK`, `HealthyNotStalled`, `HaltAnnounced`, `ConsecutiveInSession` | no false stall in steady times, a halt is announced, no double count |
| `nodehealth` | `TypeOK`, `RecoveryRemembered`, `OutageIsTimed`, `NodeAlarmsEnd`, `DeadNodeReported`, `NoServersSettles`, `ForeignNodesShunned` | node and endpoint alarms come and go as they should, and an outage is timed from its beginning |
| `wsstream` | `TypeOK`, `StreakIsTrue`, `SilentStreamLeft`, `BrokenStreamLeft` | the miss counter is right about the blocks processed, the `WsRun` of a bad stream ends |
| `inactive` | `TypeOK`, `InactiveExact`, `NoFalseInactive` | no failure raises the alarm, and it stands while the validator is out |
| `dashboard` | `TypeOK`, `TableShowsData`, `GridShowsData`, `PageShowsLatest` | the page shows its data and catches up with the server |

Three runs end in a counterexample: the code does something else than its own
documentation says.

| Run | Property | What the code does |
|---|---|---|
| `gnopoll_halt` | `HaltAnnounced` | with `stalled_minutes` above `PollRun`'s idle exit, each restart takes the halted chain's last block for a new one, and the alarm never comes |
| `inactive_gno` | `FailuresRaiseNothing` | a valoper lookup that failed leaves `Bonded` false, the other refresh restores the Moniker first, and `watch()` in between reports a bonded validator |
| `dashboard_state` | `StateNetworkFirst` | the service worker answers `/state` from its cache: a page that is loaded begins with the state of the load before |

Other disagreements met on the way are listed under `findings` in `PROJECT.json`.
They are behaviours of the models, each of which a property excepts by name: Slack
renames the message of a resolve, so that Pushover's entry for it is never deleted and
later critical alarms are dropped (`renamed`, `PushoverFollowsAlerts`); a node
that `gnoNewRpc` marks up without noting the recovery keeps its alarm, and the
gno.land health check accepts a node of another chain (`provider = "cosmos"` in the
properties of `NodeHealth`); a node marked down between the two writes of its recovery
keeps 1970 as the beginning of its outage and is announced at once (`overtaken`), and so
may one that `watch()` looks at between the two writes of its failure (`BeingMarked`); a
failure that falls between the reading and the reset of a health check leaves an alarm
that nothing resolves (`crossed`); a healthy endpoint behind a hanging one is marked
down by `newRpc`, whose ten seconds are for all (`spent`); one node that fails the
realm's query alone, or serves a chain that is ahead, stops the monitoring of a healthy
gno.land chain (`RealmNodes`, `ForeignHeights`); a vote that calls itself a proposal
counts as a signature (`unsure`); the inactive rule loses a change that is taken back
before it is copied (`excused`); Pushover's map is saved and not restored
(`Forgotten`); the percentage alarm compares numbers of two moments while
the window grows, and divides by a `Window` that is not known yet, so that one missed
block exceeds any threshold (`SteadyWindow` in `PercentSound`); a row's alert title and an empty tab's canvas are stale. The end of
a percentage alarm is sent as another alert; no property says that it ends.

Slack is never asked whether it was told already (`notifySlack` does not call
`shouldNotify`); no property is stated of that, since it repeats itself in every
behaviour with a repeated alert.

### Bounds

- `percentage`: a ring of three slots and a cosmos window of four, a threshold of
  50, so that a percentage can be below, at and above it; any number of sessions and
  of blocks during a look. A behaviour of the ring depends on the capacity only
  through the wrap; the theorems hold for every capacity, window and threshold.
- `restart`: two deliveries in flight (`MaxTasks`), the number it takes for one to
  overtake another; one gated message, a service with a Sent map and one without; any
  number of saves and restarts. The theorems hold for any chains, messages, services
  and number of deliveries.
- `delivery`: one delivery in flight, since what overlapping ones do is `restart`'s
  subject; a gated message and one with a local flag, PagerDuty and Pushover.
- `hang`: one chain with each sort of service, a node alarm and a lag alarm.
- `gnopoll`: two nodes, of which the second is sound, both with an answer of the realm
  in fair weather; four blocks of which two are missed; answers at most one block behind
  (`MaxLag`), and one height of another chain, beyond the head (`ForeignHeights`), in
  rough times; ages up to four minutes, beyond which nothing changes (`MaxAge` >
  `StalledMin` + 1, `IdleLimit`, and at least `Settle`). The configuration scales
  `stalled_minutes` to 1, below the idle exit of 2; `gnopoll_halt` has it at 3, above.
  `Settle` is 3, the first minute after the idle exit: with 2, or with the sound node
  alone in `RealmNodes`, `HealthyNotStalled` is violated.
- `nodehealth`: two nodes, one with `alert_if_down`; each behaviour begins with
  any answers and any state file, and changes one answer once (`MaxFlips`). That is
  enough for repeated outages, since the other node's failing may also use up the ten
  seconds of `newRpc`, each time the runner comes by, and a node of the file begins with
  an outage. Answers are ok, error and wrong chain. The theorems about safety hold for
  any number of changes.
- `wsstream`: the counter saturates at three (`MaxStreak`).
- `inactive`: no bound; the state space of one chain is finite (`rounds` counts to
  two, since the properties ask only whether there was more than one refresh).
- `dashboard`: a chain of each network, three updates of which two report alerts, one
  broadcast under way (`MaxWire`), two requests (`MaxRequests`): the page's and one that
  the worker makes behind it. The theorems hold for any of these.

### Fairness

The Go scheduler runs every runnable goroutine, a ticker goes on ticking and a
request with a timeout ends; so the actions that stand for these are weakly fair.
Not fair are the actions of the environment, and: `Post` at Discord, Telegram and
Slack (their clients have no timeout), `StreamEnds` in general (only a stream whose
node has gone must end, `StreamDies`), the reading of events, the failing of
connections and the next `WsRun` (`Again`: `newRpc` may find no endpoint for ever) in
`WsStream`, and every step of `GnoPoll`, which is checked for safety
only because time itself (`due`) forces its actors. `AlarmRestart`, `Inactive` and
`Dashboard` state safety and no fairness.

## What is proved

| Theorem | Property | For |
|---|---|---|
| `PercentTypeCorrect`, `MissedIsCountAlways`, `PublishedAlwaysPair` | `PercentTypeOK`, `MissedIsCount`, `PublishedPair` | every capacity and slashing window |
| `ImplementsSlidingWindow` | `IsSlidingWindow` | the same |
| `PercentAlwaysSound`, `PercentAlwaysComplete` | `PercentSound`, `PercentComplete` | the same, and every threshold |
| `PollTypeCorrect`, `ConsecutiveAlwaysInSession` | `TypeOK`, `ConsecutiveInSession` | any nodes, missed blocks, limits and bounds |
| `HealthyNeverStalled` | `HealthyNotStalled` | the same, if `RealmBefore`, `Settle` >= 2, `Settle` > `IdleLimit` and `StalledMin` >= 1 |
| `HaltAlwaysAnnounced` | `HaltAnnounced` | the same, if `RealmBefore`, `Settle` > `IdleLimit` and `StalledMin` < `IdleLimit` |
| `TypeCorrect`, `SinksFollowAlerts`, `PushoverFollows` | `TypeOK`, `SinkFollowsAlerts`, `PushoverFollowsAlerts` | any chains, messages, services, deliveries in flight; the runs check this `TypeOK` as part of `RestartTypeOK` |
| `CacheFollowsAlways`, `GatedAnnouncedOnceAlways` | `CacheFollowsAlerts`, `GatedAnnouncedOnce` | the same |
| `RemotesFollowAlerts` | `RemoteFollowsAlerts` | the same |
| `RestartTypeCorrect`, `SinksFollowOverRestarts`, `PushoverFollowsOverRestarts`, `RemotesFollowOverRestarts`, `CacheFollowsOverRestarts`, `GatedOnceOverRestarts` | `RestartTypeOK` and the five properties above | the same, over any number of saves and restarts |
| `HealthTypeCorrect`, `RecoveryAlwaysRemembered`, `OutageAlwaysTimed` | `TypeOK`, `RecoveryRemembered`, `OutageIsTimed` | any nodes and answers |
| `StreamTypeCorrect`, `StreakAlwaysTrue` | `TypeOK`, `StreakIsTrue` | any bound of the counter |
| `InactiveTypeCorrect`, `NeverFalselyInactive`, `InactiveAlwaysExact` | `TypeOK`, `NoFalseInactive`, `InactiveExact` | either provider or both |
| `DashboardTypeCorrect`, `TableAlwaysShowsData`, `GridAlwaysShowsData`, `PageAlwaysShowsLatest` | `TypeOK`, `TableShowsData`, `GridShowsData`, `PageShowsLatest` | any chains, networks, titles and bounds |

The assumptions are the ones that the modules name (`CapArgAssumption`,
`DeliveryAssumption`, `HealthAssumption`, `StreamAssumption`, `InactiveAssumption`,
`DashboardAssumption`, `PollAssumption`, `PercentAssumption`): types of the constants, and nothing that the program does not ensure; TLC evaluates them.
`RealmBefore` says that the nodes configured before the sound one answer the realm's
query as the sound one does; the program does not ensure that, and without it the two
theorems about stalls are false, as the runs show.

Every safety property that a passing run checks is stated by a theorem.

**Window.** `WindowInv` says that `missed` is the number of TRUE slots of `buf`,
that slots which were never written are FALSE, and that until the ring is full
`head` equals `size`. Without these the count over slots would not be the count over
the remembered outcomes. `PushRefinesObserve` treats the filling and the
full ring apart; `SlotOfValue` computes the wrapped index.

**Percentage.** `RingStep` shows that the ring does nothing in `Percentage` that it does
not do alone, so the invariant above carries over. `PublishInv` says how far the poller
is with what it has counted, and gives `PublishedPair`. `SpanInv` says that both
numbers of the pair, and the one that `watch()` has read already, are of some pair in
`span`, and that what the poller is about to write is there, too. If all pairs in
`span` have the same window, the two numbers compared are then one of these pairs
(`SeenInSpan`): this is why no lock is missed once the window is full, and why one is
missed before.

**Poller.** `SessionInv` relates the counter to the heights it stands for, and needs
that these lie at or below `lastHeight`, so that a height that advances is a new one.
The two properties about stalls follow the settling of the monitor minute by
minute: in the first minute that is not rough the health check finds the sound
node and the realm (`SoundSeen`; `RealmAnswers` is where `RealmBefore` is needed), and
from the second on the runner polls it. If `lastHeight` is below the head it sees the
head; if it is not, it is of another chain, seen before the weather changed, and
`PollRun` has been idle since, so that it ends and begins anew once the steady time is
longer than `IdleLimit` (`HeadSeen`). From then on it is at the head in every minute
(`HeadSeenAtLast`), and a minute later `watch()` finds a last block younger than
`StalledMin` (`YoungBlock`), or, when the chain halts, counts its age with nothing that
starts it anew (`HaltSeen`). This is where `Settle` > `IdleLimit` comes from; and where
`StalledMin` < `IdleLimit` does: past the idle exit a new `PollRun` takes the last
block for a new one, as `gnopoll_halt` shows. `BestIsHighest`, that a poll gets the
highest answer of the nodes that are not down, rests on a least element
(`LeastExists`), which is the library's `WFMin`.

**Delivery.** `SinkFollowsAlerts` is not inductive. A delivery that is still to be
decided carries a direction, and the map will follow it; so `DeliveryInv` adds
`DirectionInv`: every undecided delivery of an alarm not in drift carries the
direction of the last alert (there is at most one such direction, which is what
`InFlight` in `AlertSend` records). `RenamedBySlack` says which tasks have a changed
text, and gives Pushover's theorem its condition. `NotifyDecides` shows that each
branch of `shouldNotify` makes the map agree with the delivery.

**Cache.** `CacheInv` adds `RecordDirection`, the same for callers between the two
halves of `alert()`; `LagCallers`, which leaves `watch()` as the only goroutine that
raises a gated message; and `GateHolds`, what `watch()` knew when it looked still
holds when it sends. `GatedAnnouncedOnce` is then an action property of that
invariant.

**What people see.** `RemoteInv` relates what a service shows to what its Sent map
says (`ShowsSent`), or at Slack, which has no such map, to the last alert
(`SlackShows`): a request under way says what will be shown, so the two agree once it is
answered. `OnePost` is why there is no second request that could overtake it: one that
starts while another is under way puts the message into `lost`. `DecisionOutcome`
reduces every branch of the five notify functions to two outcomes.

**Restarts.** `RestartInv` is the conjunction of `DeliveryInv`, `CacheInv` and
`RemoteInv` with the types of the file. A new process has nothing under way
(`FreshProcess`), so the invariants about deliveries hold trivially, and an alarm not
in `drift` had the same entry in the file as in memory. The actions of
`AlarmDelivery` and the steps of a save do not disturb each other.

**Inactive.** `NoFalseInv` follows a minute from copy to copy. While the validator is
in the set, an answer still to be written says so (`StillBonded`); while no refresh
has failed, `valInfo` says so (`NoFailure`); and when a single refresh fails, it
hides the name first (`OneRefresh`, where `OwnRefresh` says that a single refresh is
the health check's). `ExactInv` says that with both copies named (`BothNamed`) the
alarm is up to date whenever the rule sees no difference (`UpToDate`), and that the
alarm to be resolved is the one that was raised (`AlarmNames`, `Tombstoned`,
`NoReturn`).

**Dashboard.** The table and the canvas are each inductive with the types: every
action that changes `data` or `tab` draws both, from whatever was there. `Told` says
that the last broadcast is either what the page has or the last on the wire, unless
something newer waits for the ticker.

**Node flags.** `RecoveryRemembered` is not inductive, because the writes of a recovery
are apart. `RecoveryInv` adds what each goroutine is about to do: a check that has read
`down` and is about to reset it has noted the recovery, or the failure came after its
reading (`crossed`), and an alarm that `watch()` is about to announce is of a node that
is remembered. `SetDownRemembers` is the step that a failure takes, wherever it comes
from. `TakeNode` breaks the invariant for gno.land, which is why it is stated of cosmos
(`ProviderKept`). It holds from the start (`RecoveryInit`), because the nodes of the
file come back down. `OutageIsTimed` is inductive with `TypeOK`, for both providers:
`SetDownTimes` says that who sets a node down that was up is about to time it,
`SetSinceTimes` that this ends the node's being marked with a time, `ResetSinceTimes`
that a reset of `downSince` that finds the node down puts it into `overtaken`, and
`SetUpUntimed` that a node that is set up need not be timed.

**Stream.** `StreakIsTrue` is inductive with `TypeOK`, whose conjunct on `signState` is
what `BondedBlockCounted` needs: a prevote or a precommit ranks above a missed block and
below a signed one, so it decides neither way, and a proposal is left to `unsure`.

**Only model-checked.** The liveness properties (`TimedChainsDrain`,
`NodeAlarmsEnd`, `DeadNodeReported`, `NoServersSettles`, `ForeignNodesShunned`,
`SilentStreamLeft`, `BrokenStreamLeft`), since liveness under fairness is out of
this prover's reach.

## Plan

Done: the window and the percentage rule, alarm delivery with saved state, node health, the poller in time,
the websocket stream, the inactive rule, the dashboard; their runs; the theorems
above. Left:

1. An abstract specification of one alarm (raised, standing, ended), implemented by
   the rules of `watch()`.

## Not modelled

- Vendored browser code: `static/js/uikit.js`, `static/js/uikit-icons.js` and lodash.
  They are by far the largest part of the JavaScript in the repository, third-party, and
  UIkit is not even loaded: `index.html` includes lodash, `grid.js` and `status.js`, and
  nothing calls UIkit. The program's own JavaScript (`status.js`, `grid.js`, `sw.js`)
  is modelled by `Dashboard`.
- The looks of the dashboard: the heights, badges, bars and dots of a row and the
  colours of the canvas are functions of the status that `Dashboard` says is shown.
- The log lines and static files that the dashboard server also serves.
- Prometheus, logging: write-only.
- The gno.land counters and block results in the state file.
- A refresh of `valInfo` that finds no client and returns without a write.
- Configuration loading and validation: sequential input checking.
- Configuration encryption: a conversion of bytes without state.
- Cryptographic primitives, bech32 and amino decoding, URL guessing, the chain
  registry: data conversions without interaction. Public fallback endpoints are
  taken to be off.
- The second caller of `newRpc`: the health check calls it when there is no client at
  all (`rpc.go:144`, `rpc.go:211`), that is when none of the URLs could be parsed.
- PagerDuty's dedup key, which the stalled and the no-endpoint alarm of a chain
  share (`alert.go:551`, `alert.go:619`), so that PagerDuty merges them.
