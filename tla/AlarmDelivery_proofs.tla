------------------------ MODULE AlarmDelivery_proofs ------------------------
(***************************************************************************)
(* Proofs about alarm delivery, for any number of chains, messages and     *)
(* concurrent delivery goroutines and any choice of enabled services: the  *)
(* Sent maps, what people see, and the cache AllAlarms.                    *)
(***************************************************************************)
EXTENDS AlarmDelivery, TLAPS

-----------------------------------------------------------------------------
(* The route of a delivery goroutine *)

LEMMA StageOfSink ==
  /\ \A s \in Sinks : Pos[s] \in 1..5 /\ Order[Pos[s]] = s
  /\ \A k \in 1..5 : Order[k] \in Sinks /\ Pos[Order[k]] = k
  BY DEF Sinks, Pos, Order

\* Some stage is the first of a non-empty set of them.
LEMMA FirstStage ==
  ASSUME NEW S \in SUBSET (1..5), S # {}
  PROVE  \E j \in S : \A l \in S : j <= l
<1>1. CASE 1 \in S
  BY <1>1
<1>2. CASE 1 \notin S /\ 2 \in S
  BY <1>2
<1>3. CASE 1 \notin S /\ 2 \notin S /\ 3 \in S
  BY <1>3
<1>4. CASE 1 \notin S /\ 2 \notin S /\ 3 \notin S /\ 4 \in S
  BY <1>4
<1>5. CASE 1 \notin S /\ 2 \notin S /\ 3 \notin S /\ 4 \notin S
  <2>1. \A l \in S : l = 5
    BY <1>5
  <2>2. PICK j \in S : TRUE
    OBVIOUS
  <2>3. \A l \in S : j <= l
    BY <2>1, <2>2
  <2> QED
    BY <2>3
<1> QED
  BY <1>1, <1>2, <1>3, <1>4, <1>5

\* The next stage lies ahead, is enabled, and jumps over no enabled service:
\* what makes every delivery reach every service enabled for its chain.
LEMMA NextStageProperties ==
  ASSUME NEW c \in Chains, NEW k \in 0..5
  PROVE  /\ NextStage(c, k) \in (k + 1)..Done
         /\ NextStage(c, k) # Done => Order[NextStage(c, k)] \in Enabled[c]
         /\ \A s \in Enabled[c] :
              s \in Sinks /\ Pos[s] > k => NextStage(c, k) <= Pos[s]
<1> DEFINE later == {j \in (k + 1)..5 : Order[j] \in Enabled[c]}
<1>1. later \in SUBSET (1..5)
  OBVIOUS
<1>2. \A s \in Enabled[c] : s \in Sinks /\ Pos[s] > k => Pos[s] \in later
  BY StageOfSink
<1>3. CASE later = {}
  <2>1. NextStage(c, k) = Done
    BY <1>3 DEF NextStage
  <2> QED
    BY <1>2, <1>3, <2>1 DEF Done
<1>4. CASE later # {}
  <2>1. NextStage(c, k) = CHOOSE j \in later : \A l \in later : j <= l
    BY <1>4 DEF NextStage
  <2>2. \E j \in later : \A l \in later : j <= l
    BY <1>1, <1>4, FirstStage
  <2> HIDE DEF later
  <2>3. /\ NextStage(c, k) \in later
        /\ \A l \in later : NextStage(c, k) <= l
    BY <2>1, <2>2
  <2>4. NextStage(c, k) \in (k + 1)..5 /\ Order[NextStage(c, k)] \in Enabled[c]
    BY <2>3 DEF later
  <2> QED
    BY <1>2, <2>3, <2>4 DEF Done
<1> QED
  BY <1>3, <1>4

-----------------------------------------------------------------------------
(* Type correctness *)

LEMMA IdleTyped ==
  IdleTask \in TaskStates /\ IdleCaller \in CallStates /\ IdleTask.at = Done
  BY DeliveryAssumption DEF IdleTask, TaskStates, IdleCaller, CallStates, Done

\* What TypeOK says of one delivery goroutine.
TaskOK(t) ==
  /\ t \in TaskStates
  /\ IF t.at < Done THEN /\ t.msg \in Raises[t.chain]
                         /\ Order[t.at] \in Enabled[t.chain]
     ELSE t = IdleTask

LEMMA AdvancedOK ==
  ASSUME NEW t, TaskOK(t), t.at < Done
  PROVE  TaskOK(Advanced(t))
<1> DEFINE next == NextStage(t.chain, t.at)
<1>1. t \in TaskStates /\ t.at \in 1..5 /\ t.chain \in Chains
  BY DEF TaskOK, TaskStates, Done
<1>2. next \in 1..Done /\ (next # Done => Order[next] \in Enabled[t.chain])
  BY <1>1, NextStageProperties DEF Done
<1>3. CASE next = Done
  <2>1. Advanced(t) = IdleTask
    BY <1>3 DEF Advanced
  <2> QED
    BY <2>1, IdleTyped DEF TaskOK, Done
<1>4. CASE next # Done
  <2>1. Advanced(t) = [t EXCEPT !.at = next, !.posting = FALSE]
    BY <1>4 DEF Advanced
  <2> HIDE DEF next
  <2>2. /\ Advanced(t) \in TaskStates
        /\ Advanced(t).at = next
        /\ Advanced(t).msg = t.msg
        /\ Advanced(t).chain = t.chain
    BY <1>1, <1>2, <2>1 DEF TaskStates
  <2> QED
    BY <1>2, <1>4, <2>2 DEF TaskOK, Done
<1> QED
  BY <1>3, <1>4

LEMMA TypeInit == Init => TypeOK
<1> SUFFICES ASSUME Init PROVE TypeOK
  OBVIOUS
<1>1. /\ active \in [Chains -> SUBSET Messages]
      /\ sent \in [Sinks -> SUBSET Messages]
      /\ flap \subseteq Chains \X Messages
      /\ latch \in [Chains -> SUBSET Messages]
  BY DEF Init
<1>2. /\ shown \in [Sinks -> SUBSET Messages]
      /\ want \subseteq Messages
      /\ drift \in [Sinks \cup {"cache"} -> SUBSET Messages]
      /\ lost \in [Sinks -> SUBSET Messages]
  BY DEF Init
<1>3. /\ caller \in [Callers -> CallStates]
      /\ \A g \in Callers : caller[g].pc = "idle"
  BY IdleTyped DEF Init, IdleCaller
<1>4. /\ task \in [Slots -> TaskStates]
      /\ \A i \in Slots : task[i] = IdleTask /\ ~Live(i)
  BY IdleTyped DEF Init, Live, Done
<1> QED
  BY <1>1, <1>2, <1>3, <1>4 DEF TypeOK

\* The parts of the state that belong together in the steps below.
CacheTyped ==
  /\ active \in [Chains -> SUBSET Messages]
  /\ sent \in [Sinks -> SUBSET Messages]
  /\ flap \subseteq Chains \X Messages
  /\ latch \in [Chains -> SUBSET Messages]

HistoryTyped ==
  /\ shown \in [Sinks -> SUBSET Messages]
  /\ want \subseteq Messages
  /\ drift \in [Sinks \cup {"cache"} -> SUBSET Messages]
  /\ lost \in [Sinks -> SUBSET Messages]

CallersTyped ==
  /\ caller \in [Callers -> CallStates]
  /\ \A g \in Callers : caller[g].pc # "idle" => caller[g].msg \in Raises[g[1]]

TasksTyped ==
  /\ task \in [Slots -> TaskStates]
  /\ \A i \in Slots : TaskOK(task[i])

LEMMA TypeOKParts ==
  TypeOK <=> CacheTyped /\ HistoryTyped /\ CallersTyped /\ TasksTyped
<1>1. TasksTyped <=> /\ task \in [Slots -> TaskStates]
                     /\ \A i \in Slots :
                          IF Live(i)
                          THEN /\ task[i].msg \in Raises[task[i].chain]
                               /\ Order[task[i].at] \in Enabled[task[i].chain]
                          ELSE task[i] = IdleTask
  BY DEF TasksTyped, TaskOK, Live
<1> QED
  BY <1>1 DEF TypeOK, CacheTyped, HistoryTyped, CallersTyped

\* One goroutine moves on.
LEMMA TaskUpdate ==
  ASSUME TasksTyped, NEW i \in Slots, NEW t, TaskOK(t),
         task' = [task EXCEPT ![i] = t]
  PROVE  TasksTyped'
<1>1. t \in TaskStates
  BY DEF TaskOK
<1>2. task' \in [Slots -> TaskStates]
  BY <1>1 DEF TasksTyped
<1>3. \A j \in Slots : task'[j] = IF j = i THEN t ELSE task[j]
  BY DEF TasksTyped
<1>4. \A j \in Slots : TaskOK(task'[j])
  BY <1>3 DEF TasksTyped
<1> QED
  BY <1>2, <1>4 DEF TasksTyped, TaskOK

LEMMA RaiseTyped ==
  ASSUME TypeOK, NEW c \in Chains, Raise(c)
  PROVE  TypeOK'
<1>1. PICK m \in Raises[c], g \in Callers, r \in BOOLEAN :
        g[1] = c /\ Call(g, m, r) /\ latch' \in [Chains -> SUBSET Messages]
  <2>1. PICK m \in Raises[c] :
          \/ \E bad \in BOOLEAN : WatchGated(c, m, bad)
          \/ \E over \in BOOLEAN : WatchFlagged(c, m, over)
          \/ LagAlert(c, m)
    BY DEF Raise
  <2>2. /\ m \in Messages /\ latch \in [Chains -> SUBSET Messages]
        /\ <<c, "watch">> \in Callers /\ <<c, "lag">> \in Callers
        /\ <<c, "watch">>[1] = c /\ <<c, "lag">>[1] = c
    BY DeliveryAssumption DEF TypeOK, Callers
  <2>3. CASE \E bad \in BOOLEAN : WatchGated(c, m, bad)
    BY <2>2, <2>3 DEF WatchGated
  <2>4. CASE \E over \in BOOLEAN : WatchFlagged(c, m, over)
    <3>1. PICK over \in BOOLEAN : WatchFlagged(c, m, over)
      BY <2>4
    <3>2. (over /\ Kind[m] # "percent") \in BOOLEAN
      OBVIOUS
    <3> QED
      BY <2>2, <3>1, <3>2 DEF WatchFlagged
  <2>5. CASE LagAlert(c, m)
    BY <2>2, <2>5 DEF LagAlert
  <2> QED
    BY <2>1, <2>3, <2>4, <2>5
<1>2. m \in Messages
  BY DeliveryAssumption
<1>3. CallersTyped'
  BY <1>1, <1>2, TypeOKParts DEF CallersTyped, CallStates, Call
<1>4. CacheTyped' /\ HistoryTyped' /\ TasksTyped'
  BY <1>1, TypeOKParts
     DEF Call, CacheTyped, HistoryTyped, TasksTyped, cacheVars, historyVars
<1> QED
  BY <1>3, <1>4, TypeOKParts, PTL

LEMMA AlertSendTyped ==
  ASSUME TypeOK, NEW g \in Callers, AlertSend(g)
  PROVE  TypeOK'
<1> DEFINE c == g[1]
           m == caller[g].msg
<1>1. /\ c \in Chains /\ m \in Raises[c] /\ m \in Messages
      /\ caller[g].resolved \in BOOLEAN
  BY DeliveryAssumption, TypeOKParts
     DEF AlertSend, CallersTyped, CallStates, Callers
<1>2. CallersTyped'
  BY <1>1, TypeOKParts DEF AlertSend, CallersTyped, CallStates
<1>3. TasksTyped'
  <2> DEFINE t == IF NextStage(c, 0) = Done THEN IdleTask
                  ELSE [at |-> NextStage(c, 0), posting |-> FALSE, chain |-> c,
                        msg |-> m, resolved |-> caller[g].resolved,
                        renamed |-> FALSE]
             free == {i \in Slots : ~Live(i)}
             i == CHOOSE j \in free : TRUE
  <2>1. free # {} /\ task' = [task EXCEPT ![i] = t]
    BY DEF AlertSend
  <2>2. i \in Slots
    BY <2>1
  <2>3. TaskOK(t)
    BY <1>1, IdleTyped, NextStageProperties DEF TaskOK, TaskStates, Done
  <2> HIDE DEF t, i
  <2> QED
    BY <2>1, <2>2, <2>3, TaskUpdate, TypeOKParts
<1>4. CacheTyped' /\ HistoryTyped'
  BY <1>1, TypeOKParts
     DEF AlertSend, CacheTyped, HistoryTyped, cacheVars
<1> QED
  BY <1>2, <1>3, <1>4, TypeOKParts, PTL

LEMMA RecordTyped ==
  ASSUME TypeOK, NEW g \in Callers, AlertRecord(g) \/ ClearNoBlocks(g)
  PROVE  TypeOK'
<1>1. /\ g[1] \in Chains /\ caller[g] \in CallStates
      /\ caller[g].msg \in Raises[g[1]] /\ caller[g].msg \in Messages
  BY DeliveryAssumption, TypeOKParts
     DEF AlertRecord, ClearNoBlocks, CallersTyped, Callers
<1>2. CallersTyped'
  <2>1. PICK x \in {IdleCaller, [caller[g] EXCEPT !.pc = "clear"]} :
          caller' = [caller EXCEPT ![g] = x]
    BY DEF AlertRecord, ClearNoBlocks
  <2>2. x \in CallStates /\ (x.pc # "idle" => x.msg \in Raises[g[1]])
    BY <1>1, <2>1, IdleTyped DEF CallStates, IdleCaller
  <2>3. \A h \in Callers : caller'[h] = IF h = g THEN x ELSE caller[h]
    BY <2>1, TypeOKParts DEF CallersTyped
  <2> QED
    BY <2>1, <2>2, <2>3, TypeOKParts DEF CallersTyped
<1>3. CacheTyped'
  BY <1>1, TypeOKParts DEF AlertRecord, ClearNoBlocks, CacheTyped
<1>4. HistoryTyped'
  BY <1>1, DeliveryAssumption, TypeOKParts
     DEF AlertRecord, ClearNoBlocks, HistoryTyped, CacheTyped, historyVars
<1>5. TasksTyped'
  BY TypeOKParts DEF AlertRecord, ClearNoBlocks, TasksTyped
<1> QED
  BY <1>2, <1>3, <1>4, <1>5, TypeOKParts, PTL

LEMMA WipeTyped ==
  ASSUME TypeOK, FlapExpire \/ \E c \in Chains : ClearAll(c)
  PROVE  TypeOK'
<1>1. CacheTyped'
  BY TypeOKParts DEF FlapExpire, ClearAll, CacheTyped
<1>2. HistoryTyped'
  BY TypeOKParts DEF FlapExpire, ClearAll, HistoryTyped, CacheTyped, historyVars
<1>3. CallersTyped' /\ TasksTyped'
  BY TypeOKParts DEF FlapExpire, ClearAll, CallersTyped, TasksTyped
<1> QED
  BY <1>1, <1>2, <1>3, TypeOKParts, PTL

\* What a delivery goroutine leaves of its own record: the next service, or
\* the request it has started.
LEMMA NotifyTask ==
  ASSUME TasksTyped, NEW i \in Slots, Notify(i)
  PROVE  \/ task' = [task EXCEPT ![i] = Advanced(task[i])]
         \/ task' = [task EXCEPT ![i] = [task[i] EXCEPT !.posting = TRUE]]
         \/ /\ At(i, "slk")
            /\ task' = [task EXCEPT ![i] = [task[i] EXCEPT !.posting = TRUE,
                                             !.renamed = task[i].resolved]]
<1>1. task \in [Slots -> TaskStates]
  BY DEF TasksTyped
<1>2. ASSUME NEW s \in Sinks, ShouldNotify(i, s)
      PROVE  \/ task' = [task EXCEPT ![i] = Advanced(task[i])]
             \/ task' = [task EXCEPT ![i] = [task[i] EXCEPT !.posting = TRUE]]
  BY <1>1, <1>2 DEF ShouldNotify, Drop, Skip, ClearSent, SuppressFlap, MarkSent,
                    StartPost
<1>3. CASE NotifyDeduped(i)
  BY <1>2, <1>3 DEF NotifyDeduped, Sinks
<1>4. CASE NotifySlack(i)
  BY <1>1, <1>4 DEF NotifySlack
<1>5. CASE NotifyPushover(i)
  BY <1>1, <1>2, <1>5 DEF NotifyPushover, ForgetPushover, Skip, Sinks
<1> QED
  BY <1>3, <1>4, <1>5 DEF Notify

LEMMA NotifyTyped ==
  ASSUME TypeOK, NEW i \in Slots, Notify(i)
  PROVE  TypeOK'
<1>1. /\ TaskOK(task[i]) /\ task[i].at < Done /\ task[i] \in TaskStates
      /\ task[i].chain \in Chains
      /\ task[i].msg \in Messages /\ task[i].resolved \in BOOLEAN
  BY DeliveryAssumption, TypeOKParts DEF Notify, Live, TasksTyped, TaskOK, TaskStates
<1>2. TasksTyped'
  <2>1. TaskOK(Advanced(task[i]))
    BY <1>1, AdvancedOK
  <2>2. TaskOK([task[i] EXCEPT !.posting = TRUE])
    BY <1>1 DEF TaskOK, TaskStates
  <2>3. TaskOK([task[i] EXCEPT !.posting = TRUE, !.renamed = task[i].resolved])
    BY <1>1 DEF TaskOK, TaskStates
  <2> QED
    BY <2>1, <2>2, <2>3, NotifyTask, TaskUpdate, TypeOKParts
<1>3. CallersTyped'
  BY TypeOKParts DEF Notify, CallersTyped
<1>4. /\ sent' \in [Sinks -> SUBSET Messages]
      /\ flap' \subseteq Chains \X Messages
      /\ drift' \in [Sinks \cup {"cache"} -> SUBSET Messages]
      /\ lost' \in [Sinks -> SUBSET Messages]
  <2> DEFINE Typed == /\ sent' \in [Sinks -> SUBSET Messages]
                      /\ flap' \subseteq Chains \X Messages
                      /\ drift' \in [Sinks \cup {"cache"} -> SUBSET Messages]
                      /\ lost' \in [Sinks -> SUBSET Messages]
  <2>1. /\ sent \in [Sinks -> SUBSET Messages]
        /\ flap \subseteq Chains \X Messages
        /\ drift \in [Sinks \cup {"cache"} -> SUBSET Messages]
        /\ lost \in [Sinks -> SUBSET Messages]
    BY TypeOKParts DEF CacheTyped, HistoryTyped
  <2>2. ASSUME NEW s \in Sinks, ShouldNotify(i, s) PROVE Typed
    <3>1. CASE Drop(i, s)
      BY <2>1, <3>1 DEF Drop, Skip
    <3>2. CASE ClearSent(i, s)
      BY <1>1, <2>1, <3>2 DEF ClearSent, StartPost
    <3>3. CASE SuppressFlap(i, s)
      BY <1>1, <2>1, <3>3 DEF SuppressFlap
    <3>4. CASE MarkSent(i, s)
      BY <1>1, <2>1, <3>4 DEF MarkSent, StartPost, FlapKey
    <3> QED
      BY <2>2, <3>1, <3>2, <3>3, <3>4 DEF ShouldNotify
  <2>3. CASE NotifyDeduped(i)
    BY <2>2, <2>3 DEF NotifyDeduped, Sinks
  <2>4. CASE NotifySlack(i)
    BY <1>1, <2>1, <2>4 DEF NotifySlack
  <2>5. CASE NotifyPushover(i)
    <3>1. CASE ForgetPushover(i)
      BY <1>1, <2>1, <3>1 DEF ForgetPushover
    <3>2. CASE Skip(i)
      BY <2>1, <3>2 DEF Skip
    <3>3. CASE ShouldNotify(i, "po")
      BY <2>2, <3>3 DEF Sinks
    <3> QED
      BY <2>5, <3>1, <3>2, <3>3 DEF NotifyPushover
  <2> QED
    BY <2>3, <2>4, <2>5 DEF Notify
<1>5. CacheTyped' /\ HistoryTyped'
  BY <1>4, TypeOKParts DEF Notify, CacheTyped, HistoryTyped
<1> QED
  BY <1>2, <1>3, <1>5, TypeOKParts, PTL

LEMMA PostTyped ==
  ASSUME TypeOK, NEW i \in Slots, Post(i)
  PROVE  TypeOK'
<1>1. /\ TaskOK(task[i]) /\ task[i].at < Done /\ task[i].at \in 1..5
      /\ task[i].msg \in Messages
  BY DeliveryAssumption, TypeOKParts
     DEF Post, Live, TasksTyped, TaskOK, TaskStates, Done
<1>2. TasksTyped'
  <2>1. TaskOK(Advanced(task[i]))
    BY <1>1, AdvancedOK
  <2>2. task' = [task EXCEPT ![i] = Advanced(task[i])]
    BY TypeOKParts DEF Post, TasksTyped
  <2> QED
    BY <2>1, <2>2, TaskUpdate, TypeOKParts
<1>3. Order[task[i].at] \in Sinks
  BY <1>1, StageOfSink
<1>4. CacheTyped' /\ HistoryTyped' /\ CallersTyped'
  BY <1>1, <1>3, TypeOKParts
     DEF Post, CacheTyped, HistoryTyped, CallersTyped, cacheVars
<1> QED
  BY <1>2, <1>4, TypeOKParts, PTL

LEMMA TypeStep == TypeOK /\ [Next]_vars => TypeOK'
<1> SUFFICES ASSUME TypeOK, [Next]_vars PROVE TypeOK'
  OBVIOUS
<1>1. ASSUME NEW c \in Chains, Raise(c) PROVE TypeOK'
  BY <1>1, RaiseTyped
<1>2. ASSUME NEW g \in Callers, AlertSend(g) PROVE TypeOK'
  BY <1>2, AlertSendTyped
<1>3. ASSUME NEW g \in Callers, AlertRecord(g) \/ ClearNoBlocks(g) PROVE TypeOK'
  BY <1>3, RecordTyped
<1>4. ASSUME FlapExpire \/ \E c \in Chains : ClearAll(c) PROVE TypeOK'
  BY <1>4, WipeTyped
<1>5. ASSUME NEW i \in Slots, Notify(i) PROVE TypeOK'
  BY <1>5, NotifyTyped
<1>6. ASSUME NEW i \in Slots, Post(i) PROVE TypeOK'
  BY <1>6, PostTyped
<1>7. CASE UNCHANGED vars
  BY <1>7 DEF vars, cacheVars, historyVars, TypeOK, Live
<1> QED
  BY <1>1, <1>2, <1>3, <1>4, <1>5, <1>6, <1>7 DEF Next

\* Type correctness of alarm delivery: every live delivery stands at a service
\* its chain has enabled, with a message that its chain raises.
THEOREM TypeCorrect == Spec => []TypeOK
  BY TypeInit, TypeStep, PTL DEF Spec

-----------------------------------------------------------------------------
(* The Sent maps follow the alerts.  The properties speak of a service and *)
(* a message once nothing is left to decide; what the steps preserve also  *)
(* says which way the deliveries that are still on their way will decide.  *)

\* Deliveries of m that have not been decided at s all carry the last alert.
Direction(s, m) ==
  m \notin drift[s] =>
    \A i \in Slots : Undecided(i, s, m) => (task[i].resolved <=> m \notin want)

\* The pairs that the two properties are about.
Applies(s, m) ==
  \/ s \in {"pd", "di", "tg"} /\ m \in Messages
  \/ /\ s = "po" /\ m \in Critical
     /\ \A c \in Chains : m \in Raises[c] => "slk" \notin Enabled[c]

\* Only Slack's delivery renames a message.
RenamedBySlack ==
  \A i \in Slots : Live(i) /\ task[i].renamed => "slk" \in Enabled[task[i].chain]

DirectionInv == \A s \in Sinks, m \in Messages : Direction(s, m)

FollowsInv ==
  \A s \in Sinks, m \in Messages : Applies(s, m) => FollowsLastAlert(s, m)

DeliveryInv == TypeOK /\ RenamedBySlack /\ DirectionInv /\ FollowsInv

LEMMA DeliveryInitially == Init => DeliveryInv
<1> SUFFICES ASSUME Init PROVE DeliveryInv
  OBVIOUS
<1>1. \A i \in Slots : ~Live(i)
  BY IdleTyped DEF Init, Live, Done
<1>2. RenamedBySlack /\ DirectionInv
  BY <1>1 DEF RenamedBySlack, DirectionInv, Direction, Undecided
<1>3. FollowsInv
  BY DEF Init, FollowsInv, FollowsLastAlert
<1> QED
  BY <1>2, <1>3, TypeInit DEF DeliveryInv

\* A step that touches no delivery, no Sent map and no last alert.
LEMMA KeepsDelivery ==
  ASSUME DeliveryInv, TypeOK', task' = task, sent' = sent, want' = want,
         \A s \in Sinks : drift'[s] = drift[s]
  PROVE  DeliveryInv'
<1>1. RenamedBySlack'
  BY DEF DeliveryInv, RenamedBySlack, Live
<1>2. DirectionInv'
  BY DEF DeliveryInv, DirectionInv, Direction, Undecided, Live, At
<1>3. FollowsInv'
  BY DEF DeliveryInv, FollowsInv, FollowsLastAlert, Settled, Undecided, Live, At,
         Applies, Reaches
<1> QED
  BY <1>1, <1>2, <1>3 DEF DeliveryInv

\* How one goroutine's move changes what is left to decide.
LEMMA MoveUndecided ==
  ASSUME TypeOK, NEW i \in Slots, Live(i), NEW s \in Sinks, NEW m \in Messages,
         \/ task' = [task EXCEPT ![i] = Advanced(task[i])]
         \/ task' = [task EXCEPT ![i] = [task[i] EXCEPT !.posting = TRUE]]
         \/ task' = [task EXCEPT ![i] = [task[i] EXCEPT !.posting = TRUE,
                                             !.renamed = task[i].resolved]]
  PROVE  /\ \A j \in Slots : Undecided(j, s, m)' =>
              Undecided(j, s, m) /\ task'[j].resolved = task[j].resolved
         /\ (/\ Reaches(s, m)
             /\ ~At(i, s) \/ task[i].posting \/ task[i].msg # m)
              => (Settled(s, m)' => Settled(s, m))
<1>1. /\ task \in [Slots -> TaskStates] /\ TaskOK(task[i])
      /\ task[i] \in TaskStates /\ task[i].at \in 1..5
      /\ task[i].chain \in Chains /\ task[i].msg \in Raises[task[i].chain]
  BY TypeOKParts DEF TasksTyped, TaskOK, TaskStates, Live, Done
<1>2. \A j \in Slots \ {i} : task'[j] = task[j]
  BY <1>1
<1>3. \A j \in Slots \ {i} : Undecided(j, s, m)' <=> Undecided(j, s, m)
  BY <1>2 DEF Undecided, Live, At
<1>4. CASE task' = [task EXCEPT ![i] = Advanced(task[i])]
  <2> DEFINE next == NextStage(task[i].chain, task[i].at)
  <2>1. next \in (task[i].at + 1)..Done
    BY <1>1, NextStageProperties
  <2>2. Reaches(s, m) /\ task[i].msg = m /\ task[i].at < Pos[s] => next <= Pos[s]
    BY <1>1, NextStageProperties, StageOfSink DEF Reaches
  <2>3. task'[i] = IF next = Done THEN IdleTask
                   ELSE [task[i] EXCEPT !.at = next, !.posting = FALSE]
    BY <1>1, <1>4 DEF Advanced
  <2> HIDE DEF next
  <2>4. CASE next = Done
    <3>1. task'[i] = IdleTask /\ ~Live(i)'
      BY <2>3, <2>4, IdleTyped DEF Live, Done
    <3>2. Pos[s] < Done /\ Pos[s] \in 1..5
      BY StageOfSink DEF Done
    <3>3. ~Undecided(i, s, m)'
      BY <3>1 DEF Undecided
    <3>4. (/\ Reaches(s, m)
           /\ ~At(i, s) \/ task[i].posting \/ task[i].msg # m)
            => ~Undecided(i, s, m)
      BY <1>1, <2>2, <2>4, <3>2 DEF Undecided, At, Done
    <3> QED
      BY <1>2, <1>3, <3>3, <3>4 DEF Settled
  <2>5. CASE next # Done
    <3>1. /\ task'[i].at = next /\ ~task'[i].posting /\ task'[i].msg = task[i].msg
          /\ task'[i].resolved = task[i].resolved /\ Live(i)'
      BY <1>1, <2>1, <2>3, <2>5 DEF TaskStates, Live, Done
    <3>2. Pos[s] \in 1..5
      BY StageOfSink
    <3>3. Undecided(i, s, m)' => Undecided(i, s, m)
      BY <1>1, <2>1, <3>1, <3>2 DEF Undecided, At, Live
    <3>4. (/\ Reaches(s, m)
           /\ ~At(i, s) \/ task[i].posting \/ task[i].msg # m)
            => (Undecided(i, s, m) => Undecided(i, s, m)')
      BY <1>1, <2>1, <2>2, <3>1, <3>2 DEF Undecided, At
    <3> QED
      BY <1>2, <1>3, <3>1, <3>3, <3>4 DEF Settled
  <2> QED
    BY <2>4, <2>5
<1>5. CASE \/ task' = [task EXCEPT ![i] = [task[i] EXCEPT !.posting = TRUE]]
           \/ task' = [task EXCEPT ![i] = [task[i] EXCEPT !.posting = TRUE,
                                               !.renamed = task[i].resolved]]
  <2>1. /\ task'[i].at = task[i].at /\ task'[i].posting
        /\ task'[i].msg = task[i].msg /\ task'[i].resolved = task[i].resolved
        /\ Live(i)'
    BY <1>1, <1>5 DEF TaskStates, Live, Done
  <2>2. Undecided(i, s, m)' => Undecided(i, s, m)
    BY <2>1 DEF Undecided, At
  <2>3. (~At(i, s) \/ task[i].posting \/ task[i].msg # m)
          => (Undecided(i, s, m) => Undecided(i, s, m)')
    BY <2>1 DEF Undecided, At
  <2> QED
    BY <1>2, <1>3, <2>1, <2>2, <2>3 DEF Settled
<1> QED
  BY <1>4, <1>5

\* A goroutine keeps its message as it was raised until it reaches Slack.
LEMMA MoveKeepsRenamed ==
  ASSUME TypeOK, RenamedBySlack, NEW i \in Slots, Live(i),
         \/ task' = [task EXCEPT ![i] = Advanced(task[i])]
         \/ task' = [task EXCEPT ![i] = [task[i] EXCEPT !.posting = TRUE]]
         \/ /\ At(i, "slk")
            /\ task' = [task EXCEPT ![i] = [task[i] EXCEPT !.posting = TRUE,
                                             !.renamed = task[i].resolved]]
  PROVE  RenamedBySlack'
<1>1. /\ task \in [Slots -> TaskStates] /\ task[i] \in TaskStates
      /\ Order[task[i].at] \in Enabled[task[i].chain]
  BY TypeOKParts DEF TasksTyped, TaskOK, Live
<1>2. \A j \in Slots \ {i} : task'[j] = task[j]
  BY <1>1
<1>3. Live(i)' /\ task'[i].renamed => "slk" \in Enabled[task'[i].chain]
  <2>1. CASE task' = [task EXCEPT ![i] = Advanced(task[i])]
    <3>1. task'[i] = Advanced(task[i])
      BY <1>1, <2>1
    <3>2. CASE NextStage(task[i].chain, task[i].at) = Done
      BY <3>1, <3>2 DEF Advanced, IdleTask
    <3>3. CASE NextStage(task[i].chain, task[i].at) # Done
      <4>1. /\ task'[i].renamed = task[i].renamed
            /\ task'[i].chain = task[i].chain
        BY <1>1, <3>1, <3>3 DEF Advanced, TaskStates
      <4> QED
        BY <4>1 DEF RenamedBySlack
    <3> QED
      BY <3>2, <3>3
  <2>2. CASE task' = [task EXCEPT ![i] = [task[i] EXCEPT !.posting = TRUE]]
    <3>1. task'[i].renamed = task[i].renamed /\ task'[i].chain = task[i].chain
      BY <1>1, <2>2 DEF TaskStates
    <3> QED
      BY <3>1 DEF RenamedBySlack
  <2>3. CASE /\ At(i, "slk")
             /\ task' = [task EXCEPT ![i] = [task[i] EXCEPT !.posting = TRUE,
                                              !.renamed = task[i].resolved]]
    <3>1. task'[i].chain = task[i].chain
      BY <1>1, <2>3 DEF TaskStates
    <3>2. "slk" \in Enabled[task[i].chain]
      BY <1>1, <2>3, StageOfSink DEF At, Sinks
    <3> QED
      BY <3>1, <3>2
  <2> QED
    BY <2>1, <2>2, <2>3
<1> QED
  BY <1>2, <1>3 DEF RenamedBySlack, Live

\* A decision at s about m changes the Sent map of s for m, and nothing about
\* any other service or message.
LEMMA NotifyLocal ==
  ASSUME TypeOK, NEW i \in Slots, Notify(i), NEW s \in Sinks, NEW m \in Messages
  PROVE  /\ m \in drift[s] => m \in drift'[s]
         /\ (~At(i, s) \/ task[i].msg # m) =>
              /\ m \in sent'[s] <=> m \in sent[s]
              /\ m \in drift'[s] <=> m \in drift[s]
<1> DEFINE Local == /\ m \in drift[s] => m \in drift'[s]
                    /\ (~At(i, s) \/ task[i].msg # m) =>
                         /\ m \in sent'[s] <=> m \in sent[s]
                         /\ m \in drift'[s] <=> m \in drift[s]
<1>1. /\ sent \in [Sinks -> SUBSET Messages]
      /\ drift \in [Sinks \cup {"cache"} -> SUBSET Messages]
  BY TypeOKParts DEF CacheTyped, HistoryTyped
<1>2. ASSUME NEW r \in Sinks, At(i, r), ShouldNotify(i, r) PROVE Local
  <2>1. CASE Drop(i, r)
    BY <2>1 DEF Drop, Skip
  <2>2. CASE ClearSent(i, r)
    <3>1. drift' = drift /\ sent' = [sent EXCEPT ![r] = @ \ {task[i].msg}]
      BY <2>2 DEF ClearSent
    <3> QED
      BY <1>1, <1>2, <3>1
  <2>3. CASE SuppressFlap(i, r)
    <3>1. /\ sent' = sent /\ r = "pd"
          /\ drift' = [drift EXCEPT !["pd"] = @ \cup {task[i].msg}]
      BY <2>3 DEF SuppressFlap
    <3> QED
      BY <1>1, <1>2, <3>1
  <2>4. CASE MarkSent(i, r)
    <3>1. drift' = drift /\ sent' = [sent EXCEPT ![r] = @ \cup {task[i].msg}]
      BY <2>4 DEF MarkSent
    <3> QED
      BY <1>1, <1>2, <3>1
  <2> QED
    BY <1>2, <2>1, <2>2, <2>3, <2>4 DEF ShouldNotify
<1>3. CASE NotifyDeduped(i)
  BY <1>2, <1>3 DEF NotifyDeduped, Sinks
<1>4. CASE NotifySlack(i)
  BY <1>4 DEF NotifySlack
<1>5. CASE NotifyPushover(i)
  <2>1. CASE ForgetPushover(i)
    BY <1>1, <1>5, <2>1 DEF ForgetPushover, NotifyPushover
  <2>2. CASE Skip(i)
    BY <2>2 DEF Skip
  <2>3. CASE ShouldNotify(i, "po")
    BY <1>2, <1>5, <2>3 DEF NotifyPushover, Sinks
  <2> QED
    BY <1>5, <2>1, <2>2, <2>3 DEF NotifyPushover
<1> QED
  BY <1>3, <1>4, <1>5 DEF Notify

\* The decision itself: afterwards the Sent map says what this alert said.
LEMMA NotifyDecides ==
  ASSUME TypeOK, RenamedBySlack, NEW i \in Slots, Notify(i), NEW s \in Sinks,
         At(i, s), Applies(s, task[i].msg), task[i].msg \notin drift'[s]
  PROVE  /\ ~task[i].posting
         /\ task[i].msg \in sent'[s] <=> ~task[i].resolved
<1> DEFINE m == task[i].msg
           Decides == m \in sent'[s] <=> ~task[i].resolved
<1>1. /\ sent \in [Sinks -> SUBSET Messages]
      /\ drift \in [Sinks \cup {"cache"} -> SUBSET Messages]
      /\ Live(i) /\ m \in Raises[task[i].chain] /\ task[i].chain \in Chains
      /\ task[i].resolved \in BOOLEAN
  BY TypeOKParts
     DEF CacheTyped, HistoryTyped, TasksTyped, TaskOK, TaskStates, Notify, Live
<1>2. ASSUME ShouldNotify(i, s) PROVE Decides
  <2>1. CASE Drop(i, s)
    BY <1>1, <2>1 DEF Drop, Skip
  <2>2. CASE ClearSent(i, s)
    BY <1>1, <2>2 DEF ClearSent
  <2>3. CASE SuppressFlap(i, s)
    BY <1>1, <2>3 DEF SuppressFlap
  <2>4. CASE MarkSent(i, s)
    BY <1>1, <2>4 DEF MarkSent
  <2> QED
    BY <1>2, <2>1, <2>2, <2>3, <2>4 DEF ShouldNotify
<1>3. \A r \in Sinks : At(i, r) => r = s
  BY StageOfSink DEF At
<1>4. CASE NotifyDeduped(i)
  BY <1>2, <1>3, <1>4 DEF NotifyDeduped, Sinks
<1>5. CASE NotifySlack(i)
  BY <1>3, <1>5 DEF NotifySlack, Sinks, Applies
<1>6. CASE NotifyPushover(i)
  <2>1. s = "po" /\ ~task[i].posting
    BY <1>3, <1>6 DEF NotifyPushover, Sinks
  <2>2. m \in Critical /\ ~task[i].renamed
    BY <1>1, <2>1 DEF Applies, RenamedBySlack
  <2>3. CASE ForgetPushover(i)
    BY <1>1, <2>1, <2>2, <2>3 DEF ForgetPushover
  <2>4. CASE ShouldNotify(i, "po")
    BY <1>2, <2>1, <2>4
  <2> QED
    BY <1>6, <2>1, <2>2, <2>3, <2>4 DEF NotifyPushover
<1> QED
  BY <1>4, <1>5, <1>6 DEF Notify

LEMMA NotifyPreserves ==
  ASSUME DeliveryInv, NEW i \in Slots, Notify(i)
  PROVE  DeliveryInv'
<1>1. TypeOK /\ TypeOK' /\ RenamedBySlack /\ Live(i) /\ want' = want
  BY NotifyTyped DEF DeliveryInv, Notify
<1>2. \/ task' = [task EXCEPT ![i] = Advanced(task[i])]
      \/ task' = [task EXCEPT ![i] = [task[i] EXCEPT !.posting = TRUE]]
      \/ /\ At(i, "slk")
         /\ task' = [task EXCEPT ![i] = [task[i] EXCEPT !.posting = TRUE,
                                          !.renamed = task[i].resolved]]
  BY <1>1, NotifyTask, TypeOKParts
<1>3. RenamedBySlack'
  BY <1>1, <1>2, MoveKeepsRenamed
<1>4. ASSUME NEW s \in Sinks, NEW m \in Messages
      PROVE  /\ Direction(s, m)'
             /\ Applies(s, m) => FollowsLastAlert(s, m)'
  <2>1. /\ \A j \in Slots : Undecided(j, s, m)' =>
             Undecided(j, s, m) /\ task'[j].resolved = task[j].resolved
        /\ (/\ Reaches(s, m)
            /\ ~At(i, s) \/ task[i].posting \/ task[i].msg # m)
             => (Settled(s, m)' => Settled(s, m))
    BY <1>1, <1>2, MoveUndecided
  <2>2. /\ m \in drift[s] => m \in drift'[s]
        /\ (~At(i, s) \/ task[i].msg # m) => (m \in sent'[s] <=> m \in sent[s])
    BY <1>1, NotifyLocal
  <2>3. Direction(s, m) /\ (Applies(s, m) => FollowsLastAlert(s, m))
    BY DEF DeliveryInv, DirectionInv, FollowsInv
  <2>4. Direction(s, m)'
    BY <1>1, <2>1, <2>2, <2>3 DEF Direction
  <2>5. ASSUME Applies(s, m), Reaches(s, m), m \notin drift'[s], Settled(s, m)'
        PROVE  m \in sent'[s] <=> m \in want'
    <3>1. CASE At(i, s) /\ task[i].msg = m
      <4>1. ~task[i].posting /\ (m \in sent'[s] <=> ~task[i].resolved)
        BY <1>1, <2>5, <3>1, NotifyDecides
      <4>2. Undecided(i, s, m)
        BY <1>1, <3>1, <4>1 DEF Undecided
      <4> QED
        BY <1>1, <2>2, <2>3, <2>5, <4>1, <4>2 DEF Direction
    <3>2. CASE ~At(i, s) \/ task[i].msg # m
      BY <1>1, <2>1, <2>2, <2>3, <2>5, <3>2 DEF FollowsLastAlert
    <3> QED
      BY <3>1, <3>2
  <2> QED
    BY <2>4, <2>5 DEF FollowsLastAlert, Reaches
<1>5. DirectionInv' /\ FollowsInv'
  BY <1>4 DEF DirectionInv, FollowsInv, Applies
<1> QED
  BY <1>1, <1>3, <1>5 DEF DeliveryInv

LEMMA PostPreserves ==
  ASSUME DeliveryInv, NEW i \in Slots, Post(i)
  PROVE  DeliveryInv'
<1>1. /\ TypeOK /\ TypeOK' /\ RenamedBySlack /\ Live(i) /\ task[i].posting
      /\ want' = want /\ sent' = sent /\ drift' = drift
  BY PostTyped DEF DeliveryInv, Post, cacheVars
<1>2. task' = [task EXCEPT ![i] = Advanced(task[i])]
  BY TypeOKParts, <1>1 DEF Post, TasksTyped
<1>3. RenamedBySlack'
  BY <1>1, <1>2, MoveKeepsRenamed
<1>4. ASSUME NEW s \in Sinks, NEW m \in Messages
      PROVE  /\ Direction(s, m)'
             /\ Applies(s, m) => FollowsLastAlert(s, m)'
  <2>1. /\ \A j \in Slots : Undecided(j, s, m)' =>
             Undecided(j, s, m) /\ task'[j].resolved = task[j].resolved
        /\ Reaches(s, m) => (Settled(s, m)' => Settled(s, m))
    BY <1>1, <1>2, MoveUndecided
  <2>2. Direction(s, m) /\ (Applies(s, m) => FollowsLastAlert(s, m))
    BY DEF DeliveryInv, DirectionInv, FollowsInv
  <2> QED
    BY <1>1, <2>1, <2>2 DEF Direction, FollowsLastAlert, Reaches
<1>5. DirectionInv' /\ FollowsInv'
  BY <1>4 DEF DirectionInv, FollowsInv, Applies
<1> QED
  BY <1>1, <1>3, <1>5 DEF DeliveryInv

\* A new delivery: unless an earlier one of its message is in flight, it is
\* the only one, and it still has every service ahead of it.
LEMMA AlertSendPreserves ==
  ASSUME DeliveryInv, NEW g \in Callers, AlertSend(g)
  PROVE  DeliveryInv'
<1> DEFINE c == g[1]
           a == caller[g].msg
           new == IF NextStage(c, 0) = Done THEN IdleTask
                  ELSE [at |-> NextStage(c, 0), posting |-> FALSE, chain |-> c,
                        msg |-> a, resolved |-> caller[g].resolved,
                        renamed |-> FALSE]
<1>1. /\ TypeOK /\ TypeOK' /\ RenamedBySlack
      /\ c \in Chains /\ a \in Raises[c] /\ a \in Messages
      /\ caller[g].resolved \in BOOLEAN
      /\ task \in [Slots -> TaskStates]
      /\ drift \in [Sinks \cup {"cache"} -> SUBSET Messages]
  BY AlertSendTyped, DeliveryAssumption, TypeOKParts
     DEF DeliveryInv, AlertSend, CallersTyped, CallStates, Callers, TasksTyped,
         HistoryTyped
<1>2. PICK k \in Slots : ~Live(k) /\ task' = [task EXCEPT ![k] = new]
  <2> DEFINE free == {i \in Slots : ~Live(i)}
             first == CHOOSE i \in free : TRUE
  <2>1. free # {} /\ task' = [task EXCEPT ![first] = new]
    BY DEF AlertSend
  <2>2. first \in free
    BY <2>1
  <2> HIDE DEF first
  <2> QED
    BY <2>1, <2>2
<1>3. /\ sent' = sent
      /\ want' = IF caller[g].resolved THEN want \ {a} ELSE want \cup {a}
      /\ \A s \in Sinks : drift'[s] = IF InFlight(g, a) THEN drift[s] \cup {a}
                                     ELSE drift[s] \ {a}
  BY DEF AlertSend, cacheVars
<1>4. /\ task'[k] = new
      /\ \A j \in Slots \ {k} : task'[j] = task[j]
  BY <1>1, <1>2
<1>5. /\ Live(k)' <=> NextStage(c, 0) # Done
      /\ Live(k)' => /\ task'[k].at = NextStage(c, 0) /\ ~task'[k].posting
                     /\ task'[k].msg = a /\ task'[k].chain = c
                     /\ task'[k].resolved = caller[g].resolved
                     /\ ~task'[k].renamed
  <2>1. NextStage(c, 0) \in 1..Done
    BY <1>1, NextStageProperties DEF Done
  <2> QED
    BY <1>4, <2>1, IdleTyped DEF Live, Done
<1> HIDE DEF new
<1>6. RenamedBySlack'
  BY <1>1, <1>4, <1>5 DEF RenamedBySlack, Live
<1>7. ASSUME NEW s \in Sinks, NEW m \in Messages
      PROVE  /\ Direction(s, m)'
             /\ Applies(s, m) => FollowsLastAlert(s, m)'
  <2>1. Direction(s, m) /\ (Applies(s, m) => FollowsLastAlert(s, m))
    BY DEF DeliveryInv, DirectionInv, FollowsInv
  <2>2. \A j \in Slots \ {k} : Undecided(j, s, m)' <=> Undecided(j, s, m)
    BY <1>4 DEF Undecided, Live, At
  <2>3. ~Undecided(k, s, m)
    BY <1>2 DEF Undecided
  <2>4. CASE m # a
    <3>1. ~Undecided(k, s, m)'
      BY <1>5, <2>4 DEF Undecided
    <3>2. /\ m \in want' <=> m \in want
          /\ m \in drift'[s] <=> m \in drift[s]
      BY <1>3, <2>4
    <3>3. \A j \in Slots : Undecided(j, s, m)' =>
            Undecided(j, s, m) /\ task'[j].resolved = task[j].resolved
      BY <1>4, <2>2, <3>1
    <3>4. Settled(s, m)' => Settled(s, m)
      BY <2>2, <2>3 DEF Settled
    <3> QED
      BY <1>3, <2>1, <3>2, <3>3, <3>4 DEF Direction, FollowsLastAlert, Reaches
  <2>5. CASE m = a /\ InFlight(g, a)
    <3>1. m \in drift'[s]
      BY <1>3, <2>5
    <3> QED
      BY <3>1 DEF Direction, FollowsLastAlert
  <2>6. CASE m = a /\ ~InFlight(g, a)
    <3>1. \A j \in Slots \ {k} : ~Undecided(j, s, m)'
      BY <2>2, <2>6 DEF InFlight, Undecided
    <3>2. Undecided(k, s, m)' =>
            (task'[k].resolved <=> m \notin want')
      BY <1>3, <1>5, <2>6 DEF Undecided
    <3>3. Direction(s, m)'
      BY <3>1, <3>2 DEF Direction
    <3>4. Reaches(s, m) => Undecided(k, s, m)'
      <4>1. SUFFICES ASSUME Reaches(s, m) PROVE Undecided(k, s, m)'
        OBVIOUS
      <4>2. s \in Enabled[c] /\ Pos[s] \in 1..5
        BY <1>1, <2>6, <4>1, StageOfSink DEF Reaches
      <4>3. NextStage(c, 0) \in 1..Done /\ NextStage(c, 0) <= Pos[s]
        BY <1>1, <4>2, NextStageProperties DEF Done
      <4>4. NextStage(c, 0) # Done
        BY <4>2, <4>3 DEF Done
      <4> QED
        BY <1>5, <2>6, <4>2, <4>3, <4>4 DEF Undecided, At
    <3> QED
      BY <1>4, <3>3, <3>4 DEF FollowsLastAlert, Settled, Reaches
  <2> QED
    BY <2>4, <2>5, <2>6
<1>8. DirectionInv' /\ FollowsInv'
  BY <1>7 DEF DirectionInv, FollowsInv, Applies
<1> QED
  BY <1>1, <1>6, <1>8 DEF DeliveryInv

LEMMA DeliveryStep == DeliveryInv /\ [Next]_vars => DeliveryInv'
<1> SUFFICES ASSUME DeliveryInv, [Next]_vars PROVE DeliveryInv'
  OBVIOUS
<1>1. TypeOK' /\ drift \in [Sinks \cup {"cache"} -> SUBSET Messages]
  BY TypeStep, TypeOKParts DEF DeliveryInv, HistoryTyped
<1>2. ASSUME NEW c \in Chains, Raise(c) PROVE DeliveryInv'
  <2>1. UNCHANGED <<cacheVars, task, shown, historyVars>>
    BY <1>2 DEF Raise, WatchGated, WatchFlagged, LagAlert, Call
  <2> QED
    BY <1>1, <2>1, KeepsDelivery DEF cacheVars, historyVars
<1>3. ASSUME NEW c \in Chains, ClearAll(c) PROVE DeliveryInv'
  <2>1. \A s \in Sinks : drift'[s] = drift[s]
    BY <1>1, <1>3 DEF ClearAll, Sinks
  <2> QED
    BY <1>1, <1>3, <2>1, KeepsDelivery DEF ClearAll
<1>4. ASSUME NEW g \in Callers, AlertSend(g) PROVE DeliveryInv'
  BY <1>4, AlertSendPreserves
<1>5. ASSUME NEW g \in Callers, AlertRecord(g) PROVE DeliveryInv'
  BY <1>1, <1>5, KeepsDelivery DEF AlertRecord, historyVars
<1>6. ASSUME NEW g \in Callers, ClearNoBlocks(g) PROVE DeliveryInv'
  <2>1. \A s \in Sinks : drift'[s] = drift[s]
    BY <1>1, <1>6 DEF ClearNoBlocks, Sinks
  <2> QED
    BY <1>1, <1>6, <2>1, KeepsDelivery DEF ClearNoBlocks
<1>7. ASSUME NEW i \in Slots, Notify(i) PROVE DeliveryInv'
  BY <1>7, NotifyPreserves
<1>8. ASSUME NEW i \in Slots, Post(i) PROVE DeliveryInv'
  BY <1>8, PostPreserves
<1>9. CASE FlapExpire
  BY <1>1, <1>9, KeepsDelivery DEF FlapExpire, historyVars
<1>10. CASE UNCHANGED vars
  BY <1>1, <1>10, KeepsDelivery DEF vars, cacheVars, historyVars
<1> QED
  BY <1>2, <1>3, <1>4, <1>5, <1>6, <1>7, <1>8, <1>9, <1>10 DEF Next

LEMMA DeliveryAlways == Spec => []DeliveryInv
  BY DeliveryInitially, DeliveryStep, PTL DEF Spec

\* At PagerDuty, Discord and Telegram the Sent map agrees with the last alert
\* about every message, whatever it said before (shouldNotify in alert.go).
THEOREM SinksFollowAlerts == Spec => []SinkFollowsAlerts
<1>1. DeliveryInv => SinkFollowsAlerts
  BY DEF DeliveryInv, FollowsInv, Applies, SinkFollowsAlerts, Sinks
<1> QED
  BY <1>1, DeliveryAlways, PTL

\* A resolve clears Pushover's entry for a critical alarm on every chain that
\* does not also notify Slack (notifyPushover in alert.go).
THEOREM PushoverFollows == Spec => []PushoverFollowsAlerts
<1>1. DeliveryInv => PushoverFollowsAlerts
  BY DeliveryAssumption
     DEF DeliveryInv, FollowsInv, Applies, PushoverFollowsAlerts, Sinks
<1> QED
  BY <1>1, DeliveryAlways, PTL

-----------------------------------------------------------------------------
(* What the services show.  Between a decision and the return of its       *)
(* request the two differ, and the request that is under way says how:     *)
(* there is one at most, unless the alarm is in lost.                      *)

\* i has a request about m under way at s.
Posts(i, s, m) == At(i, s) /\ task[i].posting /\ task[i].msg = m

OnePost(s, m) ==
  m \notin lost[s] =>
    \A i, j \in Slots : Posts(i, s, m) /\ Posts(j, s, m) => i = j

\* The services that ask shouldNotify show, or are about to show, what their
\* Sent map says.
ShowsSent(s, m) ==
  m \notin lost[s] =>
    /\ \A i \in Slots : Posts(i, s, m) => (m \in sent[s] <=> ~task[i].resolved)
    /\ Answered(s, m) => (m \in shown[s] <=> m \in sent[s])

\* Slack has no such map; it shows, or is about to, what the last alert says.
SlackShows(m) ==
  (m \notin lost["slk"] /\ m \notin drift["slk"] /\ Reaches("slk", m)
    /\ Settled("slk", m)) =>
    /\ \A i \in Slots : Posts(i, "slk", m) => (m \in want <=> ~task[i].resolved)
    /\ Answered("slk", m) => (m \in shown["slk"] <=> m \in want)

Deduped == {"pd", "di", "tg"}

RemoteInv ==
  /\ \A s \in Deduped \cup {"slk"}, m \in Messages : OnePost(s, m)
  /\ \A s \in Deduped, m \in Messages : ShowsSent(s, m)
  /\ \A m \in Messages : SlackShows(m)

LEMMA RemoteInitially == Init => RemoteInv
<1> SUFFICES ASSUME Init PROVE RemoteInv
  OBVIOUS
<1>1. \A i \in Slots, s \in Sinks, m \in Messages : ~Posts(i, s, m)
  BY IdleTyped, StageOfSink DEF Init, Posts, At, Done
<1>2. \A s \in Sinks, m \in Messages : m \notin shown[s] /\ m \notin sent[s] /\ m \notin want
  BY DEF Init
<1> QED
  BY <1>1, <1>2
     DEF RemoteInv, OnePost, ShowsSent, SlackShows, Deduped, Sinks

\* What a step leaves as it was about m at s.
SameAt(s, m) ==
  /\ \A j \in Slots : Posts(j, s, m)' <=> Posts(j, s, m)
  /\ \A j \in Slots : Posts(j, s, m) => task'[j].resolved = task[j].resolved
  /\ m \in sent'[s] <=> m \in sent[s]
  /\ m \in shown'[s] <=> m \in shown[s]
  /\ m \in lost[s] => m \in lost'[s]

LEMMA SameKeeps ==
  ASSUME RemoteInv, NEW s \in Deduped \cup {"slk"}, NEW m \in Messages, SameAt(s, m)
  PROVE  /\ OnePost(s, m)'
         /\ s \in Deduped => ShowsSent(s, m)'
<1>1. OnePost(s, m) /\ (s \in Deduped => ShowsSent(s, m))
  BY DEF RemoteInv
<1>2. Answered(s, m)' <=> Answered(s, m)
  BY DEF SameAt, Answered, Posting, Posts
<1> QED
  BY <1>1, <1>2 DEF SameAt, OnePost, ShowsSent

LEMMA SameKeepsSlack ==
  ASSUME RemoteInv, NEW m \in Messages, SameAt("slk", m),
         m \notin drift'["slk"] => m \notin drift["slk"],
         m \in want' <=> m \in want,
         Reaches("slk", m) => (Settled("slk", m)' => Settled("slk", m))
  PROVE  SlackShows(m)'
<1>1. SlackShows(m)
  BY DEF RemoteInv
<1>2. Answered("slk", m)' <=> Answered("slk", m)
  BY DEF SameAt, Answered, Posting, Posts
<1>3. Reaches("slk", m)' <=> Reaches("slk", m)
  BY DEF Reaches
<1> QED
  BY <1>1, <1>2, <1>3 DEF SameAt, SlackShows

\* A step that touches no delivery, no Sent map, no last alert and no service.
LEMMA KeepsRemote ==
  ASSUME RemoteInv, task' = task, sent' = sent, want' = want, shown' = shown,
         lost' = lost, drift'["slk"] = drift["slk"]
  PROVE  RemoteInv'
<1>1. \A s \in Deduped \cup {"slk"}, m \in Messages : SameAt(s, m)
  BY DEF SameAt, Posts, At
<1>2. \A m \in Messages : Settled("slk", m)' <=> Settled("slk", m)
  BY DEF Settled, Undecided, Live, At
<1>3. \A m \in Messages : SlackShows(m)'
  BY <1>1, <1>2, SameKeepsSlack
<1> QED
  BY <1>1, <1>3, SameKeeps DEF RemoteInv

-----------------------------------------------------------------------------
(* A decision *)

\* i ends no request about m at s, and begins none.
LEMMA MoveKeepsPosts ==
  ASSUME TypeOK, NEW i \in Slots, Live(i), NEW s \in Sinks, NEW m \in Messages,
         \/ /\ task' = [task EXCEPT ![i] = Advanced(task[i])]
            /\ ~Posts(i, s, m)
         \/ /\ \/ task' = [task EXCEPT ![i] = [task[i] EXCEPT !.posting = TRUE]]
               \/ task' = [task EXCEPT ![i] = [task[i] EXCEPT !.posting = TRUE,
                                                  !.renamed = task[i].resolved]]
            /\ ~At(i, s) \/ task[i].msg # m
  PROVE  /\ \A j \in Slots : Posts(j, s, m)' <=> Posts(j, s, m)
         /\ \A j \in Slots : Posts(j, s, m) => task'[j].resolved = task[j].resolved
<1>1. /\ task \in [Slots -> TaskStates] /\ TaskOK(task[i])
      /\ task[i] \in TaskStates /\ task[i].at \in 1..5
      /\ task[i].chain \in Chains
  BY TypeOKParts DEF TasksTyped, TaskOK, TaskStates, Live, Done
<1>2. \A j \in Slots \ {i} : task'[j] = task[j]
  BY <1>1
<1>3. \A j \in Slots \ {i} : Posts(j, s, m)' <=> Posts(j, s, m)
  BY <1>2 DEF Posts, At
<1>4. ~Posts(i, s, m)
  BY DEF Posts
<1>5. ~Posts(i, s, m)'
  <2>1. CASE task' = [task EXCEPT ![i] = Advanced(task[i])]
    <3>1. task'[i] = Advanced(task[i])
      BY <1>1, <2>1
    <3>2. ~task'[i].posting
      <4>1. CASE NextStage(task[i].chain, task[i].at) = Done
        BY <3>1, <4>1 DEF Advanced, IdleTask
      <4>2. CASE NextStage(task[i].chain, task[i].at) # Done
        BY <1>1, <3>1, <4>2 DEF Advanced, TaskStates
      <4> QED
        BY <4>1, <4>2
    <3> QED
      BY <3>2 DEF Posts
  <2>2. CASE /\ \/ task' = [task EXCEPT ![i] = [task[i] EXCEPT !.posting = TRUE]]
                \/ task' = [task EXCEPT ![i] = [task[i] EXCEPT !.posting = TRUE,
                                                  !.renamed = task[i].resolved]]
             /\ ~At(i, s) \/ task[i].msg # m
    <3>1. task'[i].at = task[i].at /\ task'[i].msg = task[i].msg
      BY <1>1, <2>2 DEF TaskStates
    <3> QED
      BY <2>2, <3>1 DEF Posts, At
  <2> QED
    BY <2>1, <2>2
<1> QED
  BY <1>2, <1>3, <1>4, <1>5

\* The outcomes of a decision at a service that asks shouldNotify, and at
\* Slack: nothing is sent and the record stays, or a request is begun that
\* says what the record says from now on.
Begins(i, s) ==
  /\ task'[i].at = task[i].at /\ task'[i].posting /\ task'[i].msg = task[i].msg
  /\ task'[i].resolved = task[i].resolved
  /\ lost' = [lost EXCEPT ![s] = IF Posting(s, task[i].msg) THEN @ \cup {task[i].msg}
                                 ELSE @ \ {task[i].msg}]

LEMMA DecisionOutcome ==
  ASSUME TypeOK, NEW i \in Slots, Notify(i), NEW s \in Deduped \cup {"slk"}, At(i, s)
  PROVE  /\ ~task[i].posting
         /\ \/ /\ task' = [task EXCEPT ![i] = Advanced(task[i])]
               /\ sent' = sent /\ lost' = lost /\ s \in Deduped
            \/ /\ Begins(i, s)
               /\ s \in Deduped => (task[i].msg \in sent'[s] <=> ~task[i].resolved)
<1> DEFINE Outcome ==
             \/ /\ task' = [task EXCEPT ![i] = Advanced(task[i])]
                /\ sent' = sent /\ lost' = lost /\ s \in Deduped
             \/ /\ Begins(i, s)
                /\ s \in Deduped => (task[i].msg \in sent'[s] <=> ~task[i].resolved)
<1>1. /\ task \in [Slots -> TaskStates] /\ task[i] \in TaskStates
      /\ task[i].resolved \in BOOLEAN
      /\ sent \in [Sinks -> SUBSET Messages]
  BY TypeOKParts DEF TasksTyped, TaskStates, CacheTyped
<1>2. s \in Sinks /\ \A r \in Sinks : At(i, r) => r = s
  BY StageOfSink DEF At, Deduped, Sinks
<1>3. CASE NotifyDeduped(i)
  <2>1. s \in {"pd", "di", "tg"} /\ ~task[i].posting /\ ShouldNotify(i, s)
    BY <1>2, <1>3 DEF NotifyDeduped, Sinks
  <2>2. CASE Drop(i, s)
    BY <1>1, <2>1, <2>2 DEF Drop, Skip, Deduped
  <2>3. CASE SuppressFlap(i, s)
    BY <1>1, <2>1, <2>3 DEF SuppressFlap, Deduped
  <2>4. CASE ClearSent(i, s)
    <3>1. Begins(i, s)
      BY <1>1, <2>4 DEF ClearSent, StartPost, Begins, TaskStates
    <3>2. task[i].msg \notin sent'[s] /\ task[i].resolved
      BY <1>1, <1>2, <2>4 DEF ClearSent
    <3> QED
      BY <2>1, <3>1, <3>2
  <2>5. CASE MarkSent(i, s)
    <3>1. Begins(i, s)
      BY <1>1, <2>5 DEF MarkSent, StartPost, Begins, TaskStates
    <3>2. task[i].msg \in sent'[s] /\ ~task[i].resolved
      BY <1>1, <1>2, <2>5 DEF MarkSent
    <3> QED
      BY <2>1, <3>1, <3>2
  <2> QED
    BY <2>1, <2>2, <2>3, <2>4, <2>5 DEF ShouldNotify
<1>4. CASE NotifySlack(i)
  <2>1. s = "slk" /\ ~task[i].posting
    BY <1>2, <1>4 DEF NotifySlack, Sinks
  <2>2. Begins(i, s)
    BY <1>1, <1>4, <2>1 DEF NotifySlack, Begins, TaskStates
  <2> QED
    BY <2>1, <2>2 DEF Deduped
<1>5. CASE NotifyPushover(i)
  BY <1>2, <1>5 DEF NotifyPushover, Sinks, Deduped
<1> QED
  BY <1>3, <1>4, <1>5 DEF Notify

LEMMA NotifyKeepsLost ==
  ASSUME TypeOK, NEW i \in Slots, Notify(i), NEW s \in Sinks, NEW m \in Messages,
         ~At(i, s) \/ task[i].msg # m
  PROVE  m \in lost'[s] <=> m \in lost[s]
<1>1. lost \in [Sinks -> SUBSET Messages]
  BY TypeOKParts DEF HistoryTyped
<1>2. ASSUME NEW r \in Sinks, At(i, r), ShouldNotify(i, r)
      PROVE  m \in lost'[s] <=> m \in lost[s]
  <2>1. CASE lost' = lost
    BY <2>1
  <2>2. CASE StartPost(i, r)
    BY <1>1, <1>2, <2>2 DEF StartPost
  <2> QED
    BY <1>2, <2>1, <2>2 DEF ShouldNotify, Drop, Skip, ClearSent, SuppressFlap, MarkSent
<1>3. CASE NotifyDeduped(i)
  BY <1>2, <1>3 DEF NotifyDeduped, Sinks
<1>4. CASE NotifySlack(i)
  BY <1>1, <1>4 DEF NotifySlack, Sinks
<1>5. CASE NotifyPushover(i)
  <2>1. CASE ShouldNotify(i, "po")
    BY <1>2, <1>5, <2>1 DEF NotifyPushover, Sinks
  <2> QED
    BY <1>5, <2>1 DEF NotifyPushover, ForgetPushover, Skip
<1> QED
  BY <1>3, <1>4, <1>5 DEF Notify

LEMMA NotifyKeepsRemote ==
  ASSUME DeliveryInv, RemoteInv, NEW i \in Slots, Notify(i)
  PROVE  RemoteInv'
<1>1. /\ TypeOK /\ TypeOK' /\ Live(i) /\ want' = want /\ shown' = shown
      /\ task \in [Slots -> TaskStates] /\ task[i] \in TaskStates
      /\ lost \in [Sinks -> SUBSET Messages]
  BY NotifyTyped, TypeOKParts DEF DeliveryInv, Notify, TasksTyped, HistoryTyped
<1>2. \/ task' = [task EXCEPT ![i] = Advanced(task[i])]
      \/ task' = [task EXCEPT ![i] = [task[i] EXCEPT !.posting = TRUE]]
      \/ task' = [task EXCEPT ![i] = [task[i] EXCEPT !.posting = TRUE,
                                       !.renamed = task[i].resolved]]
  BY <1>1, NotifyTask, TypeOKParts
<1>3. \A j \in Slots \ {i} : task'[j] = task[j]
  BY <1>1, <1>2
<1>4. ASSUME NEW s \in Deduped \cup {"slk"}, NEW m \in Messages
      PROVE  /\ OnePost(s, m)'
             /\ s \in Deduped => ShowsSent(s, m)'
             /\ s = "slk" => SlackShows(m)'
  <2>0. s \in Sinks
    BY DEF Deduped, Sinks
  <2>1. /\ m \in drift[s] => m \in drift'[s]
        /\ (~At(i, s) \/ task[i].msg # m) => (m \in sent'[s] <=> m \in sent[s])
    BY <1>1, <2>0, NotifyLocal
  <2>2. (/\ Reaches(s, m)
         /\ ~At(i, s) \/ task[i].posting \/ task[i].msg # m)
          => (Settled(s, m)' => Settled(s, m))
    BY <1>1, <1>2, <2>0, MoveUndecided
  <2>3. CASE ~At(i, s) \/ task[i].msg # m
    <3>1. ~Posts(i, s, m)
      BY <2>3 DEF Posts
    <3>2. SameAt(s, m)
      BY <1>1, <1>2, <2>0, <2>1, <2>3, <3>1, MoveKeepsPosts, NotifyKeepsLost DEF SameAt
    <3>3. s = "slk" => SlackShows(m)'
      BY <1>1, <2>1, <2>2, <2>3, <3>2, SameKeepsSlack
    <3> QED
      BY <3>2, <3>3, SameKeeps
  <2>4. CASE At(i, s) /\ task[i].msg = m
    <3>0. ~task[i].posting
      BY <1>1, <2>4, DecisionOutcome
    <3>1. CASE /\ task' = [task EXCEPT ![i] = Advanced(task[i])]
               /\ sent' = sent /\ lost' = lost /\ s \in Deduped
      <4>1. ~Posts(i, s, m)
        BY <3>0 DEF Posts
      <4>2. SameAt(s, m)
        BY <1>1, <2>0, <3>1, <4>1, MoveKeepsPosts DEF SameAt
      <4>3. s # "slk"
        BY <3>1 DEF Deduped
      <4> QED
        BY <4>2, <4>3, SameKeeps
    <3>2. CASE /\ Begins(i, s)
               /\ s \in Deduped => (task[i].msg \in sent'[s] <=> ~task[i].resolved)
      <4>1. Posts(i, s, m)'
        BY <2>4, <3>2 DEF Begins, Posts, At
      <4>2. CASE Posting(s, m)
        <5>1. m \in lost'[s]
          BY <1>1, <2>0, <2>4, <3>2, <4>2 DEF Begins
        <5> QED
          BY <5>1 DEF OnePost, ShowsSent, SlackShows
      <4>3. CASE ~Posting(s, m)
        <5>1. \A j \in Slots : Posts(j, s, m)' <=> j = i
          BY <1>3, <4>1, <4>3 DEF Posts, Posting, At
        <5>2. ~Answered(s, m)'
          BY <4>1 DEF Answered, Posting, Posts
        <5>3. OnePost(s, m)'
          BY <5>1 DEF OnePost
        <5>4. s \in Deduped => ShowsSent(s, m)'
          BY <2>4, <3>2, <5>1, <5>2 DEF ShowsSent, Begins
        <5>5. ASSUME s = "slk" PROVE SlackShows(m)'
          <6>1. SUFFICES ASSUME m \notin drift'["slk"]
                         PROVE  m \in want' <=> ~task'[i].resolved
            BY <5>1, <5>2, <5>5 DEF SlackShows
          <6>2. Undecided(i, s, m)
            BY <1>1, <2>4, <3>0 DEF Undecided
          <6>3. m \notin drift[s]
            BY <2>1, <5>5, <6>1
          <6>4. task[i].resolved <=> m \notin want
            BY <2>0, <6>2, <6>3 DEF DeliveryInv, DirectionInv, Direction
          <6> QED
            BY <1>1, <3>2, <6>4 DEF Begins
        <5> QED
          BY <5>3, <5>4, <5>5
      <4> QED
        BY <4>2, <4>3
    <3> QED
      BY <1>1, <2>4, <3>1, <3>2, DecisionOutcome
  <2> QED
    BY <2>3, <2>4
<1> QED
  BY <1>4 DEF RemoteInv

-----------------------------------------------------------------------------
(* The other steps *)

LEMMA PostKeepsRemote ==
  ASSUME DeliveryInv, RemoteInv, NEW i \in Slots, Post(i)
  PROVE  RemoteInv'
<1> DEFINE r == Order[task[i].at]
           a == task[i].msg
<1>1. /\ TypeOK /\ Live(i) /\ task[i].posting /\ a \in Messages
      /\ want' = want /\ sent' = sent /\ drift' = drift
      /\ task \in [Slots -> TaskStates] /\ task[i].at \in 1..5
      /\ task' = [task EXCEPT ![i] = Advanced(task[i])]
      /\ lost \in [Sinks -> SUBSET Messages]
      /\ shown \in [Sinks -> SUBSET Messages]
      /\ task[i].resolved \in BOOLEAN
  BY DeliveryAssumption, TypeOKParts
     DEF DeliveryInv, Post, cacheVars, TasksTyped, TaskOK, TaskStates, HistoryTyped,
         Live, Done
<1>2. r \in Sinks /\ Pos[r] = task[i].at
  BY <1>1, StageOfSink
<1>3. \/ /\ shown' = [shown EXCEPT ![r] = IF task[i].resolved THEN @ \ {a} ELSE @ \cup {a}]
         /\ lost' = lost
      \/ lost' = [lost EXCEPT ![r] = @ \cup {a}] /\ shown' = shown
  BY DEF Post
<1> HIDE DEF r, a
<1>4. ASSUME NEW s \in Deduped \cup {"slk"}, NEW m \in Messages
      PROVE  /\ OnePost(s, m)'
             /\ s \in Deduped => ShowsSent(s, m)'
             /\ s = "slk" => SlackShows(m)'
  <2>0. s \in Sinks
    BY DEF Deduped, Sinks
  <2>1. Reaches(s, m) => (Settled(s, m)' => Settled(s, m))
    BY <1>1, <2>0, MoveUndecided
  <2>2. CASE ~(r = s /\ a = m)
    <3>1. ~Posts(i, s, m)
      BY <1>1, <1>2, <2>0, <2>2, StageOfSink DEF Posts, At, r, a
    <3>2. m \in shown'[s] <=> m \in shown[s]
      BY <1>1, <1>2, <1>3, <2>0, <2>2
    <3>3. m \in lost[s] => m \in lost'[s]
      BY <1>1, <1>2, <1>3, <2>0
    <3>4. SameAt(s, m)
      BY <1>1, <2>0, <3>1, <3>2, <3>3, MoveKeepsPosts DEF SameAt
    <3>5. s = "slk" => SlackShows(m)'
      BY <1>1, <2>1, <3>4, SameKeepsSlack
    <3> QED
      BY <3>4, <3>5, SameKeeps
  <2>3. CASE r = s /\ a = m /\ m \in lost'[s]
    BY <2>3 DEF OnePost, ShowsSent, SlackShows
  <2>4. CASE r = s /\ a = m /\ m \notin lost'[s]
    <3>1. /\ lost' = lost /\ m \notin lost[s]
          /\ m \in shown'[s] <=> ~task[i].resolved
      BY <1>1, <1>2, <1>3, <2>0, <2>4
    <3>2. Posts(i, s, m)
      BY <1>1, <1>2, <2>4 DEF Posts, At, a
    <3>3. OnePost(s, m) /\ (s \in Deduped => ShowsSent(s, m))
          /\ (s = "slk" => SlackShows(m))
      BY DEF RemoteInv
    <3>4. \A j \in Slots : ~Posts(j, s, m)'
      <4>1. \A j \in Slots \ {i} : ~Posts(j, s, m)
        BY <3>1, <3>2, <3>3 DEF OnePost
      <4>2. \A j \in Slots \ {i} : task'[j] = task[j]
        BY <1>1
      <4>3. ~task'[i].posting
        <5>1. task'[i] = Advanced(task[i]) /\ task[i] \in TaskStates
          BY <1>1
        <5>2. CASE NextStage(task[i].chain, task[i].at) = Done
          BY <5>1, <5>2 DEF Advanced, IdleTask
        <5>3. CASE NextStage(task[i].chain, task[i].at) # Done
          BY <5>1, <5>3 DEF Advanced, TaskStates
        <5> QED
          BY <5>2, <5>3
      <4> QED
        BY <4>1, <4>2, <4>3 DEF Posts, At
    <3>5. OnePost(s, m)'
      BY <3>4 DEF OnePost
    <3>6. s \in Deduped => ShowsSent(s, m)'
      BY <1>1, <3>1, <3>2, <3>3, <3>4 DEF ShowsSent
    <3>7. s = "slk" => SlackShows(m)'
      <4>1. Reaches(s, m)' <=> Reaches(s, m)
        BY DEF Reaches
      <4> QED
        BY <1>1, <2>1, <3>1, <3>2, <3>3, <3>4, <4>1 DEF SlackShows
    <3> QED
      BY <3>5, <3>6, <3>7
  <2> QED
    BY <2>2, <2>3, <2>4
<1> QED
  BY <1>4 DEF RemoteInv

\* A new delivery has nothing under way, and Slack, if it is on its route,
\* still ahead of it.
LEMMA AlertSendKeepsRemote ==
  ASSUME DeliveryInv, RemoteInv, NEW g \in Callers, AlertSend(g)
  PROVE  RemoteInv'
<1> DEFINE c == g[1]
           a == caller[g].msg
           new == IF NextStage(c, 0) = Done THEN IdleTask
                  ELSE [at |-> NextStage(c, 0), posting |-> FALSE, chain |-> c,
                        msg |-> a, resolved |-> caller[g].resolved,
                        renamed |-> FALSE]
<1>1. /\ TypeOK /\ c \in Chains /\ a \in Raises[c] /\ a \in Messages
      /\ task \in [Slots -> TaskStates] /\ (\A j \in Slots : TaskOK(task[j]))
      /\ drift \in [Sinks \cup {"cache"} -> SUBSET Messages]
  BY DeliveryAssumption, TypeOKParts
     DEF DeliveryInv, AlertSend, CallersTyped, CallStates, Callers, TasksTyped,
         HistoryTyped
<1>2. PICK k \in Slots : ~Live(k) /\ task' = [task EXCEPT ![k] = new]
  <2> DEFINE free == {i \in Slots : ~Live(i)}
             first == CHOOSE i \in free : TRUE
  <2>1. free # {} /\ task' = [task EXCEPT ![first] = new]
    BY DEF AlertSend
  <2>2. first \in free
    BY <2>1
  <2> HIDE DEF first
  <2> QED
    BY <2>1, <2>2
<1>3. /\ sent' = sent /\ shown' = shown /\ lost' = lost
      /\ want' = IF caller[g].resolved THEN want \ {a} ELSE want \cup {a}
      /\ drift'["slk"] = IF InFlight(g, a) THEN drift["slk"] \cup {a}
                         ELSE drift["slk"] \ {a}
  BY DEF AlertSend, cacheVars, Sinks
<1>4. /\ task'[k] = new
      /\ \A j \in Slots \ {k} : task'[j] = task[j]
  BY <1>1, <1>2
<1>5. ~task[k].posting /\ ~task'[k].posting
  BY <1>1, <1>2, <1>4 DEF TaskOK, Live, IdleTask
<1>6. \A s \in Deduped \cup {"slk"}, m \in Messages : SameAt(s, m)
  BY <1>3, <1>4, <1>5 DEF SameAt, Posts, At
<1>7. ASSUME NEW m \in Messages PROVE SlackShows(m)'
  <2>1. CASE m # a
    <3>1. /\ m \in want' <=> m \in want
          /\ m \in drift'["slk"] <=> m \in drift["slk"]
      BY <1>3, <2>1
    <3>2. \A j \in Slots \ {k} : Undecided(j, "slk", m)' <=> Undecided(j, "slk", m)
      BY <1>4 DEF Undecided, Live, At
    <3>3. ~Undecided(k, "slk", m)
      BY <1>2 DEF Undecided
    <3>4. Settled("slk", m)' => Settled("slk", m)
      BY <3>2, <3>3 DEF Settled
    <3> QED
      BY <1>6, <3>1, <3>4, SameKeepsSlack
  <2>2. CASE m = a
    <3>1. SUFFICES ASSUME Reaches("slk", m) PROVE ~Settled("slk", m)'
      BY DEF SlackShows, Reaches
    <3>2. "slk" \in Enabled[c] /\ "slk" \in Sinks /\ Pos["slk"] = 4
      BY <1>1, <2>2, <3>1 DEF Reaches, Sinks, Pos
    <3>3. NextStage(c, 0) \in 1..Done /\ NextStage(c, 0) <= 4
      BY <1>1, <3>2, NextStageProperties DEF Done
    <3>4. /\ task'[k].at = NextStage(c, 0) /\ task'[k].msg = m /\ Live(k)'
      BY <1>4, <2>2, <3>3 DEF Live, Done
    <3>5. Undecided(k, "slk", m)'
      BY <1>5, <3>2, <3>3, <3>4 DEF Undecided, At
    <3> QED
      BY <3>5 DEF Settled
  <2> QED
    BY <2>1, <2>2
<1> QED
  BY <1>6, <1>7, SameKeeps DEF RemoteInv

LEMMA RemoteStep == DeliveryInv /\ RemoteInv /\ [Next]_vars => RemoteInv'
<1> SUFFICES ASSUME DeliveryInv, RemoteInv, [Next]_vars PROVE RemoteInv'
  OBVIOUS
<1>1. drift \in [Sinks \cup {"cache"} -> SUBSET Messages]
  BY TypeOKParts DEF DeliveryInv, HistoryTyped
<1>2. ASSUME NEW c \in Chains, Raise(c) PROVE RemoteInv'
  <2>1. UNCHANGED <<cacheVars, task, shown, historyVars>>
    BY <1>2 DEF Raise, WatchGated, WatchFlagged, LagAlert, Call
  <2> QED
    BY <2>1, KeepsRemote DEF cacheVars, historyVars
<1>3. ASSUME NEW c \in Chains, ClearAll(c) PROVE RemoteInv'
  <2>1. drift'["slk"] = drift["slk"]
    BY <1>1, <1>3 DEF ClearAll, Sinks
  <2> QED
    BY <1>3, <2>1, KeepsRemote DEF ClearAll
<1>4. ASSUME NEW g \in Callers, AlertSend(g) PROVE RemoteInv'
  BY <1>4, AlertSendKeepsRemote
<1>5. ASSUME NEW g \in Callers, AlertRecord(g) PROVE RemoteInv'
  BY <1>5, KeepsRemote DEF AlertRecord, historyVars
<1>6. ASSUME NEW g \in Callers, ClearNoBlocks(g) PROVE RemoteInv'
  <2>1. drift'["slk"] = drift["slk"]
    BY <1>1, <1>6 DEF ClearNoBlocks, Sinks
  <2> QED
    BY <1>6, <2>1, KeepsRemote DEF ClearNoBlocks
<1>7. ASSUME NEW i \in Slots, Notify(i) PROVE RemoteInv'
  BY <1>7, NotifyKeepsRemote
<1>8. ASSUME NEW i \in Slots, Post(i) PROVE RemoteInv'
  BY <1>8, PostKeepsRemote
<1>9. CASE FlapExpire
  BY <1>9, KeepsRemote DEF FlapExpire, historyVars
<1>10. CASE UNCHANGED vars
  BY <1>10, KeepsRemote DEF vars, cacheVars, historyVars
<1> QED
  BY <1>2, <1>3, <1>4, <1>5, <1>6, <1>7, <1>8, <1>9, <1>10 DEF Next

LEMMA RemoteImplied == DeliveryInv /\ RemoteInv => RemoteFollowsAlerts
<1> SUFFICES ASSUME DeliveryInv, RemoteInv,
                    NEW s \in {"pd", "di", "tg", "slk"}, NEW m \in Messages,
                    Reaches(s, m), m \notin drift[s], m \notin lost[s],
                    Settled(s, m), Answered(s, m)
             PROVE  m \in shown[s] <=> m \in want
  BY DEF RemoteFollowsAlerts
<1>1. CASE s = "slk"
  BY <1>1 DEF RemoteInv, SlackShows
<1>2. CASE s \in Deduped
  <2>1. m \in sent[s] <=> m \in want
    BY <1>2 DEF DeliveryInv, FollowsInv, FollowsLastAlert, Applies, Deduped, Sinks
  <2>2. m \in shown[s] <=> m \in sent[s]
    BY <1>2 DEF RemoteInv, ShowsSent
  <2> QED
    BY <2>1, <2>2
<1> QED
  BY <1>1, <1>2 DEF Deduped

\* What PagerDuty, Discord, Telegram and Slack show is what the last alert
\* said, once nothing about the alarm is under way: the four notify functions
\* in alert.go neither drop nor reorder what they should send.
THEOREM RemotesFollowAlerts == Spec => []RemoteFollowsAlerts
  BY DeliveryInitially, DeliveryStep, RemoteInitially, RemoteStep, RemoteImplied, PTL
     DEF Spec

-----------------------------------------------------------------------------
(* AllAlarms, the cache that the dashboard counts and that gates the stalled *)
(* and the inactive alarm *)

\* A recording of m that is still to come carries the last alert about m.
RecordDirection(m) ==
  m \notin drift["cache"] =>
    \A g \in Callers : (caller[g].pc = "record" /\ caller[g].msg = m)
                         => (caller[g].resolved <=> m \notin want)

CacheFollows(c, m) ==
  (Unshared(c, m) /\ m \notin drift["cache"] /\ NotRecording(m))
    => (m \in active[c] <=> m \in want)

\* The health check raises lag alerts and nothing else, so a chain's gated
\* message has one goroutine that raises it.
LagCallers ==
  \A g \in Callers : (caller[g].pc # "idle" /\ g[2] = "lag")
                       => Kind[caller[g].msg] = "lag"

\* A gated alarm that is about to be announced is not standing announced.
GateHolds ==
  \A c \in Chains :
    LET g == <<c, "watch">>
        m == caller[g].msg
    IN  (/\ caller[g].pc = "send" /\ ~caller[g].resolved
         /\ Kind[m] = "gated" /\ Unshared(c, m))
          => (m \notin want \/ m \in drift["cache"])

CacheInv ==
  /\ TypeOK
  /\ LagCallers
  /\ \A m \in Messages : RecordDirection(m)
  /\ \A c \in Chains, m \in Messages : CacheFollows(c, m)
  /\ GateHolds

LEMMA CacheInitially == Init => CacheInv
<1> SUFFICES ASSUME Init PROVE CacheInv
  OBVIOUS
<1>1. \A g \in Callers : caller[g].pc = "idle"
  BY DEF Init, IdleCaller
<1>2. LagCallers /\ GateHolds
  BY <1>1 DEF LagCallers, GateHolds, Callers
<1>3. \A m \in Messages : RecordDirection(m)
  BY <1>1 DEF RecordDirection
<1>4. \A c \in Chains, m \in Messages : CacheFollows(c, m)
  BY DEF Init, CacheFollows
<1> QED
  BY <1>2, <1>3, <1>4, TypeInit DEF CacheInv

\* A step that changes neither the cache, nor a caller, nor what is wanted:
\* the deliveries' steps are of this kind.
LEMMA CacheKept ==
  ASSUME CacheInv, TypeOK', active' = active, caller' = caller, want' = want,
         drift'["cache"] = drift["cache"]
  PROVE  CacheInv'
<1>1. LagCallers' /\ GateHolds'
  BY DEF CacheInv, LagCallers, GateHolds, Unshared
<1>2. \A m \in Messages : RecordDirection(m)'
  BY DEF CacheInv, RecordDirection
<1>3. \A c \in Chains, m \in Messages : CacheFollows(c, m)'
  BY DEF CacheInv, CacheFollows, Unshared, NotRecording
<1> QED
  BY <1>1, <1>2, <1>3 DEF CacheInv

LEMMA CallerFacts ==
  ASSUME TypeOK
  PROVE  /\ caller \in [Callers -> CallStates]
         /\ active \in [Chains -> SUBSET Messages]
         /\ drift \in [Sinks \cup {"cache"} -> SUBSET Messages]
         /\ want \subseteq Messages
         /\ \A g \in Callers : /\ g[1] \in Chains /\ g[2] \in {"watch", "lag"}
                               /\ g = <<g[1], g[2]>>
                               /\ caller[g].resolved \in BOOLEAN
                               /\ caller[g].pc # "idle" =>
                                    /\ caller[g].msg \in Raises[g[1]]
                                    /\ caller[g].msg \in Messages
<1>1. \A g \in Callers : /\ g[1] \in Chains /\ g[2] \in {"watch", "lag"}
                         /\ g = <<g[1], g[2]>>
  BY DEF Callers
<1> QED
  BY <1>1, DeliveryAssumption, TypeOKParts
     DEF CacheTyped, HistoryTyped, CallersTyped, CallStates

\* A goroutine other than watch() of chain c never raises a gated message of c.
LEMMA GatedHasOneCaller ==
  ASSUME CacheInv, NEW c \in Chains, NEW m \in Messages, Unshared(c, m),
         Kind[m] = "gated", NEW h \in Callers, h # <<c, "watch">>,
         caller[h].pc # "idle"
  PROVE  caller[h].msg # m
<1>1. TypeOK
  BY DEF CacheInv
<1>2. /\ h[1] \in Chains /\ h[2] \in {"watch", "lag"} /\ h = <<h[1], h[2]>>
      /\ caller[h].msg \in Raises[h[1]]
  BY <1>1, CallerFacts
<1>3. CASE h[1] # c
  BY <1>2, <1>3 DEF Unshared
<1>4. CASE h[1] = c
  <2>1. h[2] = "lag"
    BY <1>2, <1>4
  <2> QED
    BY <2>1 DEF CacheInv, LagCallers
<1> QED
  BY <1>3, <1>4

-----------------------------------------------------------------------------
(* The steps that matter to the cache *)

\* What a call to alert() from goroutine g looks like, whatever raised it.
LEMMA RaiseIsCall ==
  ASSUME CacheInv, NEW c \in Chains, Raise(c)
  PROVE  \E g \in Callers, m \in Raises[c], r \in BOOLEAN :
           /\ g[1] = c /\ Idle(g) /\ Call(g, m, r)
           /\ g[2] = "lag" => Kind[m] = "lag"
           /\ Kind[m] = "gated" /\ ~r => g = <<c, "watch">> /\ m \notin active[c]
<1>1. /\ <<c, "watch">> \in Callers /\ <<c, "lag">> \in Callers
      /\ <<c, "watch">>[1] = c /\ <<c, "lag">>[1] = c
      /\ <<c, "watch">>[2] = "watch" /\ <<c, "lag">>[2] = "lag"
      /\ latch \in [Chains -> SUBSET Messages]
  BY TypeOKParts DEF Callers, CacheInv, CacheTyped
<1>2. PICK m \in Raises[c] :
        \/ Kind[m] = "gated" /\ \E bad \in BOOLEAN : WatchGated(c, m, bad)
        \/ Kind[m] \in {"latched", "node", "percent"}
             /\ \E over \in BOOLEAN : WatchFlagged(c, m, over)
        \/ Kind[m] = "lag" /\ LagAlert(c, m)
  BY DEF Raise
<1>3. CASE Kind[m] = "gated" /\ \E bad \in BOOLEAN : WatchGated(c, m, bad)
  <2>1. PICK bad \in BOOLEAN : WatchGated(c, m, bad)
    BY <1>3
  <2>2. (~bad) \in BOOLEAN
    OBVIOUS
  <2> QED
    BY <1>1, <1>3, <2>1, <2>2 DEF WatchGated, HasMessage
<1>4. CASE /\ Kind[m] \in {"latched", "node", "percent"}
           /\ \E over \in BOOLEAN : WatchFlagged(c, m, over)
  <2>1. PICK over \in BOOLEAN : WatchFlagged(c, m, over)
    BY <1>4
  <2>2. (over /\ Kind[m] # "percent") \in BOOLEAN
    OBVIOUS
  <2> QED
    BY <1>1, <1>4, <2>1, <2>2 DEF WatchFlagged
<1>5. CASE Kind[m] = "lag" /\ LagAlert(c, m)
  BY <1>1, <1>5 DEF LagAlert
<1> QED
  BY <1>2, <1>3, <1>4, <1>5

LEMMA RaiseCache ==
  ASSUME CacheInv, NEW c \in Chains, Raise(c)
  PROVE  CacheInv'
<1>1. TypeOK /\ TypeOK'
  BY RaiseTyped DEF CacheInv
<1>2. PICK g \in Callers, m \in Raises[c], r \in BOOLEAN :
        /\ g[1] = c /\ Idle(g) /\ Call(g, m, r)
        /\ g[2] = "lag" => Kind[m] = "lag"
        /\ Kind[m] = "gated" /\ ~r => g = <<c, "watch">> /\ m \notin active[c]
  BY RaiseIsCall
<1>3. /\ active' = active /\ want' = want /\ drift' = drift
      /\ caller'[g] = [pc |-> "send", msg |-> m, resolved |-> r]
      /\ \A h \in Callers \ {g} : caller'[h] = caller[h]
      /\ caller[g].pc = "idle"
  BY <1>1, <1>2, CallerFacts DEF Call, cacheVars, historyVars, Idle
<1>4. LagCallers'
  BY <1>2, <1>3 DEF CacheInv, LagCallers
<1>5. \A n \in Messages : RecordDirection(n)'
  BY <1>3 DEF CacheInv, RecordDirection
<1>6. \A n \in Messages : NotRecording(n)' => NotRecording(n)
  BY <1>3 DEF NotRecording
<1>7. \A d \in Chains, n \in Messages : CacheFollows(d, n)'
  BY <1>3, <1>6 DEF CacheInv, CacheFollows, Unshared
<1>8. ASSUME NEW d \in Chains, caller'[<<d, "watch">>].pc = "send",
             ~caller'[<<d, "watch">>].resolved,
             Kind[caller'[<<d, "watch">>].msg] = "gated",
             Unshared(d, caller'[<<d, "watch">>].msg)
      PROVE  \/ caller'[<<d, "watch">>].msg \notin want'
             \/ caller'[<<d, "watch">>].msg \in drift'["cache"]
  <2>1. <<d, "watch">> \in Callers
    BY DEF Callers
  <2>2. CASE <<d, "watch">> # g
    <3>1. caller'[<<d, "watch">>] = caller[<<d, "watch">>]
      BY <1>3, <2>1, <2>2
    <3> QED
      BY <1>3, <1>8, <3>1 DEF CacheInv, GateHolds
  <2>3. CASE <<d, "watch">> = g
    <3>1. d = c /\ caller'[<<d, "watch">>].msg = m /\ ~r /\ Kind[m] = "gated"
      BY <1>2, <1>3, <1>8, <2>3
    <3>2. m \notin active[c] /\ m \in Messages /\ Unshared(c, m)
      BY <1>2, <1>8, <3>1, DeliveryAssumption
    <3>3. NotRecording(m)
      <4>1. \A h \in Callers \ {g} : caller[h].pc # "idle" => caller[h].msg # m
        BY <1>2, <2>3, <3>1, <3>2, GatedHasOneCaller
      <4> QED
        BY <1>3, <4>1 DEF NotRecording
    <3>4. m \notin drift["cache"] => m \notin want
      BY <3>2, <3>3 DEF CacheInv, CacheFollows
    <3> QED
      BY <1>3, <3>1, <3>4
  <2> QED
    BY <2>2, <2>3
<1>9. GateHolds'
  BY <1>8 DEF GateHolds, Unshared
<1> QED
  BY <1>1, <1>4, <1>5, <1>7, <1>9 DEF CacheInv

LEMMA SendCache ==
  ASSUME CacheInv, NEW g \in Callers, AlertSend(g)
  PROVE  CacheInv'
<1> DEFINE a == caller[g].msg
<1>1. /\ TypeOK /\ TypeOK' /\ a \in Messages /\ a \in Raises[g[1]]
      /\ g[1] \in Chains /\ caller[g].resolved \in BOOLEAN
  BY AlertSendTyped, CallerFacts DEF CacheInv, AlertSend
<1>2. /\ active' = active
      /\ caller[g].pc = "send"
      /\ caller'[g].pc = "record" /\ caller'[g].msg = a
      /\ caller'[g].resolved = caller[g].resolved
      /\ \A h \in Callers \ {g} : caller'[h] = caller[h]
  BY <1>1, CallerFacts DEF AlertSend, cacheVars, CallStates
<1>3. /\ want' = IF caller[g].resolved THEN want \ {a} ELSE want \cup {a}
      /\ drift'["cache"] = IF InFlight(g, a) THEN drift["cache"] \cup {a}
                           ELSE drift["cache"] \ {a}
  BY DEF AlertSend
<1>4. LagCallers'
  BY <1>2 DEF CacheInv, LagCallers
<1>5. ASSUME NEW m \in Messages PROVE RecordDirection(m)'
  <2>1. CASE m # a
    BY <1>2, <1>3, <2>1 DEF CacheInv, RecordDirection
  <2>2. CASE m = a /\ InFlight(g, a)
    BY <1>3, <2>2 DEF RecordDirection
  <2>3. CASE m = a /\ ~InFlight(g, a)
    <3>1. \A h \in Callers \ {g} : ~(caller'[h].pc = "record" /\ caller'[h].msg = m)
      BY <1>2, <2>3 DEF InFlight
    <3>2. caller'[g].resolved <=> m \notin want'
      BY <1>1, <1>2, <1>3, <2>3
    <3> QED
      BY <3>1, <3>2 DEF RecordDirection
  <2> QED
    BY <2>1, <2>2, <2>3
<1>6. ASSUME NEW c \in Chains, NEW m \in Messages PROVE CacheFollows(c, m)'
  <2>1. CASE m # a
    <3>1. NotRecording(m)' => NotRecording(m)
      BY <1>2, <2>1 DEF NotRecording
    <3> QED
      BY <1>2, <1>3, <2>1, <3>1 DEF CacheInv, CacheFollows, Unshared
  <2>2. CASE m = a
    <3>1. ~NotRecording(m)'
      BY <1>2, <2>2 DEF NotRecording
    <3> QED
      BY <3>1 DEF CacheFollows
  <2> QED
    BY <2>1, <2>2
<1>7. ASSUME NEW d \in Chains, caller'[<<d, "watch">>].pc = "send",
             ~caller'[<<d, "watch">>].resolved,
             Kind[caller'[<<d, "watch">>].msg] = "gated",
             Unshared(d, caller'[<<d, "watch">>].msg)
      PROVE  \/ caller'[<<d, "watch">>].msg \notin want'
             \/ caller'[<<d, "watch">>].msg \in drift'["cache"]
  <2>1. <<d, "watch">> \in Callers /\ <<d, "watch">> # g
    BY <1>2, <1>7 DEF Callers
  <2>2. caller'[<<d, "watch">>] = caller[<<d, "watch">>]
    BY <1>2, <2>1
  <2>3. caller[<<d, "watch">>].msg \in Messages
    BY <1>1, <1>7, <2>1, <2>2, CallerFacts
  <2>4. a # caller[<<d, "watch">>].msg
    BY <1>2, <1>7, <2>1, <2>2, <2>3, GatedHasOneCaller
  <2> QED
    BY <1>3, <1>7, <2>2, <2>4 DEF CacheInv, GateHolds
<1>8. GateHolds'
  BY <1>7 DEF GateHolds, Unshared
<1> QED
  BY <1>1, <1>4, <1>5, <1>6, <1>8 DEF CacheInv

\* A caller that finishes its alert() only leaves states behind.
LEMMA CallerFinishes ==
  ASSUME CacheInv, TypeOK', NEW g \in Callers,
         caller[g].pc \in {"record", "clear"},
         \/ caller' = [caller EXCEPT ![g] = IdleCaller]
         \/ caller' = [caller EXCEPT ![g] = [caller[g] EXCEPT !.pc = "clear"]],
         want' = want, \A m \in Messages : m \in drift["cache"] => m \in drift'["cache"]
  PROVE  /\ LagCallers' /\ GateHolds'
         /\ \A m \in Messages : RecordDirection(m)'
         /\ \A h \in Callers : caller'[h].pc = "record" => h # g /\ caller'[h] = caller[h]
<1>1. /\ caller \in [Callers -> CallStates] /\ caller[g] \in CallStates
  BY CallerFacts DEF CacheInv
<1>2. /\ \A h \in Callers \ {g} : caller'[h] = caller[h]
      /\ caller'[g].pc \in {"idle", "clear"}
      /\ caller'[g].pc # "idle" => caller'[g].msg = caller[g].msg
  BY <1>1 DEF CallStates, IdleCaller
<1>3. LagCallers'
  BY <1>2 DEF CacheInv, LagCallers
<1>4. \A m \in Messages : RecordDirection(m)'
  BY <1>2 DEF CacheInv, RecordDirection
<1>5. \A c \in Chains : <<c, "watch">> \in Callers
  BY DEF Callers
<1>6. ASSUME NEW c \in Chains, caller'[<<c, "watch">>].pc = "send",
             ~caller'[<<c, "watch">>].resolved,
             Kind[caller'[<<c, "watch">>].msg] = "gated",
             Unshared(c, caller'[<<c, "watch">>].msg)
      PROVE  \/ caller'[<<c, "watch">>].msg \notin want'
             \/ caller'[<<c, "watch">>].msg \in drift'["cache"]
  <2>1. caller'[<<c, "watch">>] = caller[<<c, "watch">>]
    BY <1>2, <1>5, <1>6
  <2>2. caller[<<c, "watch">>].msg \in Messages
    BY <1>5, <1>6, <2>1, CallerFacts DEF CacheInv
  <2> QED
    BY <1>6, <2>1, <2>2 DEF CacheInv, GateHolds
<1>7. GateHolds'
  BY <1>6 DEF GateHolds, Unshared
<1> QED
  BY <1>2, <1>3, <1>4, <1>7

LEMMA RecordCache ==
  ASSUME CacheInv, NEW g \in Callers, AlertRecord(g)
  PROVE  CacheInv'
<1> DEFINE a == caller[g].msg
<1>1. /\ TypeOK /\ TypeOK' /\ a \in Messages /\ a \in Raises[g[1]]
      /\ g[1] \in Chains /\ caller[g].pc = "record"
      /\ active \in [Chains -> SUBSET Messages]
  BY RecordTyped, CallerFacts DEF CacheInv, AlertRecord
<1>2. /\ active' = [active EXCEPT ![g[1]] =
                     IF caller[g].resolved THEN @ \ {a} ELSE @ \cup {a}]
      /\ want' = want /\ drift' = drift
      /\ \/ caller' = [caller EXCEPT ![g] = IdleCaller]
         \/ caller' = [caller EXCEPT ![g] = [caller[g] EXCEPT !.pc = "clear"]]
  <2>1. caller \in [Callers -> CallStates]
    BY <1>1, CallerFacts
  <2> QED
    BY <2>1 DEF AlertRecord, historyVars
<1>3. /\ LagCallers' /\ GateHolds'
      /\ \A m \in Messages : RecordDirection(m)'
      /\ \A h \in Callers : caller'[h].pc = "record" => h # g /\ caller'[h] = caller[h]
  BY <1>1, <1>2, CallerFinishes
<1>4. ASSUME NEW c \in Chains, NEW m \in Messages PROVE CacheFollows(c, m)'
  <2>1. ASSUME Unshared(c, m), m \notin drift["cache"], m = a
        PROVE  m \in active'[c] <=> m \in want
    <3>1. c = g[1]
      BY <1>1, <2>1 DEF Unshared
    <3>2. caller[g].resolved <=> m \notin want
      BY <1>1, <2>1 DEF CacheInv, RecordDirection
    <3> QED
      BY <1>1, <1>2, <2>1, <3>1, <3>2
  <2>2. ASSUME Unshared(c, m), m \notin drift["cache"], NotRecording(m)', m # a
        PROVE  m \in active'[c] <=> m \in want
    <3>1. m \in active'[c] <=> m \in active[c]
      BY <1>1, <1>2, <2>2
    <3>2. NotRecording(m)
      <4>1. \A h \in Callers \ {g} : caller'[h] = caller[h]
        BY <1>1, <1>2, CallerFacts
      <4> QED
        BY <2>2, <4>1 DEF NotRecording
    <3> QED
      BY <2>2, <3>1, <3>2 DEF CacheInv, CacheFollows
  <2> QED
    BY <1>2, <2>1, <2>2 DEF CacheFollows, Unshared
<1> QED
  BY <1>1, <1>3, <1>4 DEF CacheInv

\* Whatever clearNoBlocks and clearAll wipe counts as in drift.
LEMMA WipeCache ==
  ASSUME CacheInv, NEW c \in Chains, NEW W \in SUBSET Messages,
         TypeOK', want' = want,
         active' = [active EXCEPT ![c] = @ \ W],
         drift' = [drift EXCEPT !["cache"] = @ \cup (active[c] \cap W)],
         LagCallers', GateHolds', \A m \in Messages : RecordDirection(m)',
         \A m \in Messages : NotRecording(m)' => NotRecording(m)
  PROVE  CacheInv'
<1>1. /\ active \in [Chains -> SUBSET Messages]
      /\ drift \in [Sinks \cup {"cache"} -> SUBSET Messages]
  BY CallerFacts DEF CacheInv
<1>2. drift'["cache"] = drift["cache"] \cup (active[c] \cap W)
  BY <1>1
<1>3. ASSUME NEW d \in Chains, NEW m \in Messages PROVE CacheFollows(d, m)'
  <2>1. m \notin drift'["cache"] =>
          m \notin drift["cache"] /\ (m \in active'[d] <=> m \in active[d])
    BY <1>1, <1>2
  <2> QED
    BY <2>1 DEF CacheInv, CacheFollows, Unshared
<1> QED
  BY <1>3 DEF CacheInv

LEMMA ClearNoBlocksCache ==
  ASSUME CacheInv, NEW g \in Callers, ClearNoBlocks(g)
  PROVE  CacheInv'
<1>1. TypeOK /\ TypeOK' /\ g[1] \in Chains /\ Stalled \in SUBSET Messages
  BY RecordTyped, CallerFacts, DeliveryAssumption DEF CacheInv
<1>2. /\ caller[g].pc = "clear" /\ want' = want
      /\ caller' = [caller EXCEPT ![g] = IdleCaller]
      /\ active' = [active EXCEPT ![g[1]] = @ \ Stalled]
      /\ drift' = [drift EXCEPT !["cache"] = @ \cup (active[g[1]] \cap Stalled)]
  BY DEF ClearNoBlocks
<1>3. \A m \in Messages : m \in drift["cache"] => m \in drift'["cache"]
  BY <1>1, <1>2, CallerFacts
<1>4. /\ LagCallers' /\ GateHolds' /\ \A m \in Messages : RecordDirection(m)'
  BY <1>1, <1>2, <1>3, CallerFinishes
<1>5. \A m \in Messages : NotRecording(m)' => NotRecording(m)
  <2>1. \A h \in Callers \ {g} : caller'[h] = caller[h]
    BY <1>1, <1>2, CallerFacts
  <2> QED
    BY <1>2, <2>1 DEF NotRecording
<1> QED
  BY <1>1, <1>2, <1>4, <1>5, WipeCache

LEMMA ClearAllCache ==
  ASSUME CacheInv, NEW c \in Chains, ClearAll(c)
  PROVE  CacheInv'
<1>1. /\ TypeOK /\ TypeOK' /\ active \in [Chains -> SUBSET Messages]
      /\ drift \in [Sinks \cup {"cache"} -> SUBSET Messages]
  BY WipeTyped, CallerFacts DEF CacheInv
<1>2. /\ want' = want /\ caller' = caller
      /\ active' = [active EXCEPT ![c] = @ \ Messages]
      /\ drift' = [drift EXCEPT !["cache"] = @ \cup (active[c] \cap Messages)]
  <2>1. active[c] \ Messages = {} /\ active[c] \cap Messages = active[c]
    BY <1>1
  <2> QED
    BY <2>1 DEF ClearAll
<1>3. \A m \in Messages : m \in drift["cache"] => m \in drift'["cache"]
  BY <1>1, <1>2
<1>4. LagCallers' /\ \A m \in Messages : RecordDirection(m)'
  BY <1>2, <1>3 DEF CacheInv, LagCallers, RecordDirection
<1>5. GateHolds'
  <2>1. SUFFICES ASSUME NEW d \in Chains, caller[<<d, "watch">>].pc = "send",
                        ~caller[<<d, "watch">>].resolved,
                        Kind[caller[<<d, "watch">>].msg] = "gated",
                        Unshared(d, caller[<<d, "watch">>].msg)
                 PROVE  \/ caller[<<d, "watch">>].msg \notin want
                        \/ caller[<<d, "watch">>].msg \in drift'["cache"]
    BY <1>2 DEF GateHolds, Unshared
  <2>2. <<d, "watch">> \in Callers
    BY DEF Callers
  <2>3. caller[<<d, "watch">>].msg \in Messages
    BY <1>1, <2>1, <2>2, CallerFacts
  <2> QED
    BY <1>3, <2>1, <2>3 DEF CacheInv, GateHolds
<1>6. \A m \in Messages : NotRecording(m)' => NotRecording(m)
  BY <1>2 DEF NotRecording
<1>7. Messages \in SUBSET Messages
  OBVIOUS
<1> QED
  BY <1>1, <1>2, <1>4, <1>5, <1>6, <1>7, WipeCache

-----------------------------------------------------------------------------
LEMMA CacheStep == CacheInv /\ [Next]_vars => CacheInv'
<1> SUFFICES ASSUME CacheInv, [Next]_vars PROVE CacheInv'
  OBVIOUS
<1>1. TypeOK /\ TypeOK' /\ drift \in [Sinks \cup {"cache"} -> SUBSET Messages]
  BY TypeStep, CallerFacts DEF CacheInv
<1>2. ASSUME NEW c \in Chains, Raise(c) PROVE CacheInv'
  BY <1>2, RaiseCache
<1>3. ASSUME NEW c \in Chains, ClearAll(c) PROVE CacheInv'
  BY <1>3, ClearAllCache
<1>4. ASSUME NEW g \in Callers, AlertSend(g) PROVE CacheInv'
  BY <1>4, SendCache
<1>5. ASSUME NEW g \in Callers, AlertRecord(g) PROVE CacheInv'
  BY <1>5, RecordCache
<1>6. ASSUME NEW g \in Callers, ClearNoBlocks(g) PROVE CacheInv'
  BY <1>6, ClearNoBlocksCache
<1>7. ASSUME NEW i \in Slots, Notify(i) PROVE CacheInv'
  <2>1. drift'["cache"] = drift["cache"]
    BY <1>1, <1>7
       DEF Notify, NotifyDeduped, NotifySlack, NotifyPushover, ForgetPushover,
           ShouldNotify, Drop, Skip, ClearSent, SuppressFlap, MarkSent
  <2> QED
    BY <1>1, <1>7, <2>1, CacheKept DEF Notify
<1>8. ASSUME NEW i \in Slots, Post(i) PROVE CacheInv'
  BY <1>1, <1>8, CacheKept DEF Post, cacheVars
<1>9. CASE FlapExpire
  BY <1>1, <1>9, CacheKept DEF FlapExpire, historyVars
<1>10. CASE UNCHANGED vars
  BY <1>1, <1>10, CacheKept DEF vars, cacheVars, historyVars
<1> QED
  BY <1>2, <1>3, <1>4, <1>5, <1>6, <1>7, <1>8, <1>9, <1>10 DEF Next

LEMMA CacheAlways == Spec => []CacheInv
  BY CacheInitially, CacheStep, PTL DEF Spec

\* AllAlarms agrees with the last alert about every message of one chain, once
\* that alert() has returned, unless clearAll or a race made it drift (alert()
\* and clearAll in alert.go).
THEOREM CacheFollowsAlways == Spec => []CacheFollowsAlerts
<1>1. CacheInv => CacheFollowsAlerts
  BY DEF CacheInv, CacheFollows, CacheFollowsAlerts
<1> QED
  BY <1>1, CacheAlways, PTL

\* The gate on AllAlarms that watch() reads for the stalled and the inactive
\* alarm is still valid when alert() hands the alarm over.
THEOREM GatedAnnouncedOnceAlways == Spec => GatedAnnouncedOnce
<1>1. CacheInv =>
        \A c \in Chains :
          LET g == <<c, "watch">>
              m == caller[g].msg
          IN  (/\ caller[g].pc = "send" /\ caller'[g].pc = "record"
               /\ ~caller[g].resolved
               /\ Kind[m] = "gated" /\ Unshared(c, m))
                => (m \notin want \/ m \in drift["cache"])
  BY DEF CacheInv, GateHolds
<1> QED
  BY <1>1, CacheAlways, PTL DEF GatedAnnouncedOnce
=============================================================================
