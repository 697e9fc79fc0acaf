------------------------- MODULE AlarmRestart_proofs -------------------------
(***************************************************************************)
(* Proofs about restarts: what AlarmDelivery_proofs shows of one process   *)
(* holds over any number of restarts, whenever they come and whatever of   *)
(* the state file was written.                                             *)
(***************************************************************************)
EXTENDS AlarmRestart, AlarmDelivery_proofs

\* What RestartTypeOK says of the file and of its preparation.
StoreOK ==
  /\ file \in StoreStates
  /\ image \in StoreStates
  /\ saving \in 0..Written
  /\ saving \in {0, 1, Written} => image = Blank

LEMMA BlankTyped == Blank \in StoreStates
  BY DEF Blank, StoreStates

LEMMA StoreStep ==
  ASSUME TypeOK, StoreOK, RestartNext
  PROVE  StoreOK'
<1>1. CASE UNCHANGED storeVars
  BY <1>1 DEF StoreOK, storeVars
<1>2. CASE BeginSave
  BY <1>2, BlankTyped DEF BeginSave, StoreOK, Written
<1>3. CASE MarshalPart
  <2>1. Parts[saving] \in Sinks \cup {"cache"}
    BY <1>3 DEF MarshalPart, Parts, Sinks
  <2>2. image' \in StoreStates
    BY <1>3, <2>1, TypeOKParts DEF MarshalPart, StoreOK, StoreStates, CacheTyped
  <2>3. saving' \in 2..7
    BY <1>3 DEF MarshalPart, Marshalled
  <2> QED
    BY <1>3, <2>2, <2>3 DEF MarshalPart, StoreOK, Written
<1>4. CASE WriteFile
  BY <1>4, BlankTyped DEF WriteFile, StoreOK, Written, Marshalled
<1>5. CASE Restart
  BY <1>5, BlankTyped DEF Restart, StoreOK, Written
<1> QED
  BY <1>1, <1>2, <1>3, <1>4, <1>5 DEF RestartNext

-----------------------------------------------------------------------------
(* The restart itself *)

\* A new process has nobody in alert() and nothing under way.
LEMMA FreshProcess ==
  ASSUME Restart
  PROVE  /\ \A g \in Callers : caller'[g] = IdleCaller
         /\ \A i \in Slots : task'[i] = IdleTask /\ ~Live(i)'
         /\ \A g \in Callers : caller'[g].pc = "idle"
<1>1. \A i \in Slots : task'[i] = IdleTask
  BY DEF Restart
<1>2. \A g \in Callers : caller'[g] = IdleCaller
  BY DEF Restart
<1>3. \A i \in Slots : ~Live(i)'
  BY <1>1, IdleTyped DEF Live, Done
<1>4. IdleCaller.pc = "idle"
  BY DEF IdleCaller
<1> QED
  BY <1>1, <1>2, <1>3, <1>4

LEMMA RestartTyped ==
  ASSUME TypeOK, StoreOK, Restart
  PROVE  TypeOK'
<1> PICK stale \in SUBSET Messages :
      /\ sent' = Kept(stale).sent
      /\ active' = Kept(stale).active
      /\ drift' = [s \in Sinks \cup {"cache"} |->
                     drift[s] \cup IF s = "cache"
                                   THEN CutRecording \cup OutdatedCache(stale)
                                   ELSE Cut(s) \cup Outdated(s, stale) \cup Forgotten(s)]
      /\ lost' = [s \in Sinks |-> lost[s] \cup Outdated(s, stale)
                                  \cup {m \in Messages : Posting(s, m)}]
  BY DEF Restart
<1>1. /\ file.sent \in [Sinks -> SUBSET Messages]
      /\ file.active \in [Chains -> SUBSET Messages]
  BY DEF StoreOK, StoreStates
<1>2. CacheTyped'
  BY <1>1 DEF Restart, Kept, CacheTyped
<1>3. /\ \A s \in Sinks : Outdated(s, stale) \subseteq Messages
      /\ \A s \in Sinks : Cut(s) \subseteq Messages
      /\ \A s \in Sinks : Forgotten(s) \subseteq Messages
      /\ CutRecording \subseteq Messages
  BY <1>1, TypeOKParts
     DEF Outdated, Cut, CutRecording, Forgotten, CacheTyped, Sinks
<1>4. OutdatedCache(stale) \subseteq Messages
  BY <1>1, TypeOKParts DEF OutdatedCache, CacheTyped
<1>5. HistoryTyped'
  <2>1. drift' \in [Sinks \cup {"cache"} -> SUBSET Messages]
    BY <1>3, <1>4, TypeOKParts DEF HistoryTyped
  <2>2. lost' \in [Sinks -> SUBSET Messages]
    BY <1>3, TypeOKParts DEF HistoryTyped
  <2> QED
    BY <2>1, <2>2, TypeOKParts DEF HistoryTyped, Restart
<1>6. CallersTyped'
  <2>1. caller' \in [Callers -> CallStates]
    BY IdleTyped DEF Restart
  <2> QED
    BY <2>1, FreshProcess DEF CallersTyped
<1>7. TasksTyped'
  <2>1. TaskOK(IdleTask)
    BY IdleTyped DEF TaskOK, Done
  <2>2. task' \in [Slots -> TaskStates]
    BY IdleTyped DEF Restart
  <2> QED
    BY <2>1, <2>2, FreshProcess DEF TasksTyped
<1> QED
  BY <1>2, <1>5, <1>6, <1>7, TypeOKParts, PTL

\* An alarm that has not drifted was settled when the process ended, its entry
\* was saved as it was, and it is restored.
LEMMA RestoredAsItWas ==
  ASSUME TypeOK, StoreOK, Restart, NEW s \in Sinks, NEW m \in Messages,
         m \notin drift'[s]
  PROVE  /\ m \notin drift[s] /\ Settled(s, m)
         /\ m \in sent'[s] <=> m \in sent[s]
<1> PICK stale \in SUBSET Messages :
      /\ sent' = Kept(stale).sent
      /\ drift' = [r \in Sinks \cup {"cache"} |->
                     drift[r] \cup IF r = "cache"
                                   THEN CutRecording \cup OutdatedCache(stale)
                                   ELSE Cut(r) \cup Outdated(r, stale) \cup Forgotten(r)]
  BY DEF Restart
<1>1. s # "cache"
  BY DEF Sinks
<1>2. /\ m \notin drift[s] /\ m \notin Cut(s) /\ m \notin Outdated(s, stale)
      /\ m \notin Forgotten(s)
  BY <1>1
<1>3. Settled(s, m)
  BY <1>2 DEF Cut
<1>4. m \notin stale /\ (m \in file.sent[s] <=> m \in sent[s])
  BY <1>2 DEF Outdated
<1>5. CASE s \in Restored
  BY <1>2, <1>3, <1>4, <1>5 DEF Kept
<1>6. CASE s \notin Restored
  <2>1. s = "po"
    BY <1>6 DEF Sinks, Restored
  <2> QED
    BY <1>2, <1>3, <1>6, <2>1 DEF Kept, Forgotten
<1> QED
  BY <1>5, <1>6

LEMMA RestartKeepsDelivery ==
  ASSUME DeliveryInv, StoreOK, Restart
  PROVE  DeliveryInv'
<1>1. TypeOK /\ TypeOK'
  BY RestartTyped DEF DeliveryInv
<1>2. RenamedBySlack' /\ DirectionInv'
  BY FreshProcess DEF RenamedBySlack, DirectionInv, Direction, Undecided
<1>3. want' = want
  BY DEF Restart
<1>4. \A s \in Sinks, m \in Messages :
        Applies(s, m) => FollowsLastAlert(s, m)'
  BY <1>1, <1>3, RestoredAsItWas
     DEF DeliveryInv, FollowsInv, FollowsLastAlert, Reaches
<1> QED
  BY <1>1, <1>2, <1>4 DEF DeliveryInv, FollowsInv, Applies

LEMMA RestartKeepsCache ==
  ASSUME CacheInv, StoreOK, Restart
  PROVE  CacheInv'
<1>1. TypeOK /\ TypeOK' /\ want' = want
  BY RestartTyped DEF CacheInv, Restart
<1>2. LagCallers' /\ GateHolds' /\ \A m \in Messages : RecordDirection(m)'
  <2>1. \A c \in Chains : <<c, "watch">> \in Callers
    BY DEF Callers
  <2> QED
    BY <2>1, FreshProcess DEF LagCallers, GateHolds, RecordDirection
<1>3. ASSUME NEW c \in Chains, NEW m \in Messages, Unshared(c, m),
             m \notin drift'["cache"]
      PROVE  m \in active'[c] <=> m \in want
  <2> PICK stale \in SUBSET Messages :
        /\ active' = Kept(stale).active
        /\ drift' = [s \in Sinks \cup {"cache"} |->
                       drift[s] \cup IF s = "cache"
                                     THEN CutRecording \cup OutdatedCache(stale)
                                     ELSE Cut(s) \cup Outdated(s, stale) \cup Forgotten(s)]
    BY DEF Restart
  <2>1. /\ m \notin drift["cache"] /\ m \notin CutRecording
        /\ m \notin OutdatedCache(stale)
    BY <1>3
  <2>2. NotRecording(m)
    BY <2>1 DEF CutRecording
  <2>3. m \notin stale /\ (m \in file.active[c] <=> m \in active[c])
    BY <2>1 DEF OutdatedCache
  <2>4. m \in active[c] <=> m \in want
    BY <1>3, <2>1, <2>2 DEF CacheInv, CacheFollows
  <2> QED
    BY <2>3, <2>4 DEF Kept
<1>4. \A c \in Chains, m \in Messages : CacheFollows(c, m)'
  BY <1>1, <1>3 DEF CacheFollows, Unshared
<1> QED
  BY <1>1, <1>2, <1>4 DEF CacheInv

\* An alarm that is not lost had no request under way when the process ended,
\* and the service still shows what the restored record says.
LEMMA RestartKeepsRemote ==
  ASSUME DeliveryInv, RemoteInv, StoreOK, Restart
  PROVE  RemoteInv'
<1> PICK stale \in SUBSET Messages :
      /\ sent' = Kept(stale).sent
      /\ lost' = [s \in Sinks |-> lost[s] \cup Outdated(s, stale)
                                  \cup {m \in Messages : Posting(s, m)}]
  BY DEF Restart
<1>1. shown' = shown /\ want' = want
  BY DEF Restart
<1>2. ASSUME NEW s \in Deduped \cup {"slk"}, NEW m \in Messages
      PROVE  /\ \A i \in Slots : ~Posts(i, s, m)'
             /\ m \notin lost'[s] =>
                  /\ m \notin lost[s] /\ Answered(s, m)
                  /\ m \in sent'[s] <=> m \in sent[s]
  <2>1. s \in Sinks /\ s \in Restored
    BY DEF Deduped, Sinks, Restored
  <2>2. \A i \in Slots : ~Posts(i, s, m)'
    <3>1. ~IdleTask.posting
      BY DEF IdleTask
    <3> QED
      BY <3>1, FreshProcess DEF Posts
  <2>3. m \notin lost'[s] => /\ m \notin lost[s] /\ ~Posting(s, m)
                            /\ m \notin Outdated(s, stale)
    BY <2>1
  <2>4. m \notin Outdated(s, stale) => (m \in sent'[s] <=> m \in sent[s])
    BY <2>1 DEF Outdated, Kept
  <2> QED
    BY <2>2, <2>3, <2>4 DEF Answered
<1>3. ASSUME NEW m \in Messages, m \notin drift'["slk"]
      PROVE  m \notin drift["slk"] /\ Settled("slk", m)
  BY <1>3, RestoredAsItWas DEF DeliveryInv, Sinks
<1>4. \A s \in Deduped \cup {"slk"}, m \in Messages : OnePost(s, m)'
  BY <1>2 DEF OnePost
<1>5. \A s \in Deduped, m \in Messages : ShowsSent(s, m)'
  BY <1>1, <1>2 DEF ShowsSent, RemoteInv
<1>6. ASSUME NEW m \in Messages PROVE SlackShows(m)'
  <2>1. SlackShows(m)
    BY DEF RemoteInv
  <2>2. Reaches("slk", m)' <=> Reaches("slk", m)
    BY DEF Reaches
  <2> QED
    BY <1>1, <1>2, <1>3, <2>1, <2>2 DEF SlackShows
<1> QED
  BY <1>4, <1>5, <1>6 DEF RemoteInv

-----------------------------------------------------------------------------
RestartInv == DeliveryInv /\ RemoteInv /\ CacheInv /\ StoreOK

LEMMA RestartInitially == RestartInit => RestartInv
  BY DeliveryInitially, RemoteInitially, CacheInitially, BlankTyped
     DEF RestartInit, RestartInv, StoreOK, Written

LEMMA RestartStep == RestartInv /\ [RestartNext]_restartVars => RestartInv'
<1> SUFFICES ASSUME RestartInv, [RestartNext]_restartVars PROVE RestartInv'
  OBVIOUS
<1>1. DeliveryInv /\ RemoteInv /\ CacheInv /\ StoreOK /\ TypeOK
  BY DEF RestartInv, DeliveryInv
<1>2. CASE Restart
  BY <1>1, <1>2, RestartKeepsDelivery, RestartKeepsRemote, RestartKeepsCache,
     StoreStep
     DEF RestartInv, RestartNext
<1>3. CASE RestartNext /\ [Next]_vars
  BY <1>1, <1>3, DeliveryStep, RemoteStep, CacheStep, StoreStep DEF RestartInv
<1>4. CASE UNCHANGED restartVars
  <2>1. StoreOK' /\ UNCHANGED vars
    BY <1>1, <1>4 DEF StoreOK, restartVars, storeVars
  <2> QED
    BY <1>1, <2>1, DeliveryStep, RemoteStep, CacheStep DEF RestartInv
<1>5. RestartNext => Restart \/ (RestartNext /\ [Next]_vars)
  BY DEF RestartNext, BeginSave, MarshalPart, WriteFile
<1> QED
  BY <1>2, <1>3, <1>4, <1>5

LEMMA RestartAlways == RestartSpec => []RestartInv
  BY RestartInitially, RestartStep, PTL DEF RestartSpec

\* The cache, the file and what is being written to it are of their types over
\* any number of restarts (saveOnExit, loadConfig).
THEOREM RestartTypeCorrect == RestartSpec => []RestartTypeOK
<1>1. RestartInv => RestartTypeOK
  BY DEF RestartInv, DeliveryInv, StoreOK, RestartTypeOK
<1> QED
  BY <1>1, RestartAlways, PTL

\* The Sent maps of PagerDuty, Discord and Telegram agree with the last alert
\* after any number of restarts, except about alarms that the file was not up
\* to date about or whose delivery was cut (loadConfig in types.go).
THEOREM SinksFollowOverRestarts == RestartSpec => []SinkFollowsAlerts
<1>1. DeliveryInv => SinkFollowsAlerts
  BY DEF DeliveryInv, FollowsInv, Applies, SinkFollowsAlerts, Sinks
<1> QED
  BY <1>1, RestartAlways, PTL DEF RestartInv

\* So does Pushover's, on chains without Slack.  The exceptions are the same,
\* and the critical alarms that were open when the process ended, since
\* SentPoAlarms is not read back (loadConfig in types.go).
THEOREM PushoverFollowsOverRestarts == RestartSpec => []PushoverFollowsAlerts
<1>1. DeliveryInv => PushoverFollowsAlerts
  BY DeliveryAssumption
     DEF DeliveryInv, FollowsInv, Applies, PushoverFollowsAlerts, Sinks
<1> QED
  BY <1>1, RestartAlways, PTL DEF RestartInv

\* What the four services show agrees with the last alert too, except about
\* alarms whose request the end of a process cut short.
THEOREM RemotesFollowOverRestarts == RestartSpec => []RemoteFollowsAlerts
  BY RemoteImplied, RestartAlways, PTL DEF RestartInv

\* The same of AllAlarms, the cache that the dashboard counts.
THEOREM CacheFollowsOverRestarts == RestartSpec => []CacheFollowsAlerts
<1>1. CacheInv => CacheFollowsAlerts
  BY DEF CacheInv, CacheFollows, CacheFollowsAlerts
<1> QED
  BY <1>1, RestartAlways, PTL DEF RestartInv

\* A stalled or inactive alarm that stands announced is not announced again by
\* the next process, since the cache that gates it is restored.
THEOREM GatedOnceOverRestarts == RestartSpec => GatedAnnouncedOnce
<1>1. CacheInv =>
        \A c \in Chains :
          LET g == <<c, "watch">>
              m == caller[g].msg
          IN  (/\ caller[g].pc = "send" /\ caller'[g].pc = "record"
               /\ ~caller[g].resolved
               /\ Kind[m] = "gated" /\ Unshared(c, m))
                => (m \notin want \/ m \in drift["cache"])
  BY DEF CacheInv, GateHolds
<1> QED
  BY <1>1, RestartAlways, PTL DEF GatedAnnouncedOnce, RestartInv
=============================================================================
