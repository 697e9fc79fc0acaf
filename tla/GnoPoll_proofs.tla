--------------------------- MODULE GnoPoll_proofs ---------------------------
(***************************************************************************)
(* For any number of nodes, any limits and any missed blocks: the types of *)
(* GnoPoll are right, no block is counted twice between two starts of      *)
(* PollRun, a chain that makes blocks is not reported as stalled once the  *)
(* weather has been steady for longer than PollRun's idle exit, and a halt *)
(* is announced if stalled_minutes is below that exit.                     *)
(***************************************************************************)
EXTENDS GnoPoll, FiniteSetTheorems, WellFoundedInduction, TLAPS

-----------------------------------------------------------------------------
(* Least and greatest elements: the first usable node, the highest block *)

LEMMA LeastExists ==
  ASSUME NEW S \in SUBSET Nat, S # {}
  PROVE  \E n \in S : \A k \in S : n <= k
<1> DEFINE Less == OpToRel(<, Nat)
<1>1. IsWellFoundedOn(Less, Nat)
  BY NatLessThanWellFounded
<1>2. \A m, k \in Nat : m < k => <<m, k>> \in Less
  BY DEF OpToRel
<1> HIDE DEF Less
<1>3. PICK n \in S : \A k \in S : <<k, n>> \notin Less
  BY <1>1, WFMin
<1>4. \A k \in S : ~(k < n)
  BY <1>2, <1>3
<1>5. QED
  BY <1>4

LEMMA GreatestExists ==
  ASSUME NEW b \in Nat, NEW S \in SUBSET (0..b), S # {}
  PROVE  \E n \in S : \A k \in S : n >= k
<1> DEFINE Gap == {b - k : k \in S}
<1>1. \A k \in S : b - k \in Nat
  OBVIOUS
<1>2. Gap \in SUBSET Nat /\ Gap # {}
  BY <1>1
<1>3. PICK g \in Gap : \A d \in Gap : g <= d
  BY <1>2, LeastExists
<1>4. PICK n \in S : g = b - n
  OBVIOUS
<1>5. \A k \in S : b - n <= b - k
  BY <1>3, <1>4
<1>6. QED
  BY <1>5

LEMMA SaturatedRange ==
  ASSUME NEW n \in Nat, NEW bound \in Nat
  PROVE  Saturated(n, bound) \in 0..bound
BY DEF Saturated

\* Of this chain, or of another.
Heights == (0..head) \cup ForeignHeights

\* Best returns a height that some node may have served, and the highest that
\* any node not marked down has.
LEMMA BestIsHighest ==
  ASSUME TypeOK, NEW r \in Replies
  PROVE  /\ Best(r) \in Heights /\ Best(r) \in Nat
         /\ ~Rough => Best(r) \in 0..head
         /\ \A n \in Nodes : ~down[n] => r[n] <= Best(r)
<1> DEFINE served == {0} \cup {r[n] : n \in {k \in Nodes : ~down[k]}}
           top == head + MaxForeign
<1>1. head \in Nat /\ MaxForeign \in Nat /\ ForeignHeights \subseteq 1..MaxForeign
  BY PollAssumption DEF TypeOK, PollAssumption
<1>2. \A n \in Nodes : r[n] \in Heights /\ (~Rough => r[n] \in 0..head)
  BY <1>1 DEF Replies, Heights
<1>3. Heights \subseteq 0..top /\ 0 \in Heights /\ 0 \in 0..head /\ top \in Nat
  BY <1>1 DEF Heights
<1>4. served \in SUBSET Heights /\ served # {} /\ served \in SUBSET (0..top)
  BY <1>2, <1>3
<1>5. \E h \in served : \A k \in served : h >= k
  BY <1>3, <1>4, GreatestExists
<1>6. Best(r) \in served /\ \A k \in served : Best(r) >= k
  BY <1>5 DEF Best
<1>7. ~Rough => Best(r) \in 0..head
  BY <1>2, <1>3, <1>6
<1>8. \A n \in Nodes : ~down[n] => r[n] <= Best(r)
  <2>1. \A n \in Nodes : ~down[n] => r[n] \in served
    OBVIOUS
  <2>2. served \subseteq Nat
    BY <1>3, <1>4
  <2>3. QED BY <1>6, <2>1, <2>2
<1>9. QED
  BY <1>3, <1>4, <1>6, <1>7, <1>8

-----------------------------------------------------------------------------
(* Types *)

LEMMA TypeInit == Init => TypeOK
<1> SUFFICES ASSUME Init PROVE TypeOK
  OBVIOUS
<1>1. /\ head \in 0..MaxHeight /\ lastHeight \in (0..head) \cup ForeignHeights
      /\ span \in 0..MaxAge /\ idle \in 0..MaxAge /\ streak \in 0..MaxStreak
  BY PollAssumption DEF Init, PollAssumption
<1>2. QED
  BY <1>1 DEF Init, TypeOK

\* The environment's part of a tick.
LEMMA WeatherTypes ==
  ASSUME TypeOK, NEW w \in {"rough", "steady", "halted"}, Weather(w)
  PROVE  /\ head' \in 0..MaxHeight /\ head' >= head
         /\ announced' \in BOOLEAN
         /\ w = "steady" => head' > head
         /\ w = "halted" => head' = head /\ announced' = announced
<1>1. /\ head \in Nat /\ MaxHeight \in Nat /\ MaxStep \in Nat
      /\ head <= MaxHeight
  BY PollAssumption DEF TypeOK, PollAssumption
<1>2. ASSUME NEW n \in 1..MaxStep, Produce(n)
      PROVE  head' \in 0..MaxHeight /\ head' > head /\ announced' \in BOOLEAN
  <2>1. head' = head + n /\ head' <= MaxHeight /\ n > 0 /\ n \in Nat
    BY <1>1, <1>2 DEF Produce
  <2>2. announced' \in BOOLEAN
    BY <1>2 DEF Produce
  <2>3. QED
    BY <1>1, <2>1, <2>2
<1>3. Quiet => head' = head /\ announced' = announced
  BY DEF Quiet
<1>4. CASE w = "rough"
  BY <1>1, <1>2, <1>3, <1>4 DEF Weather, TypeOK
<1>5. CASE w = "steady"
  BY <1>1, <1>2, <1>5 DEF Weather
<1>6. CASE w = "halted"
  BY <1>1, <1>3, <1>6 DEF Weather, TypeOK
<1>7. QED
  BY <1>4, <1>5, <1>6

LEMMA TickTypes ==
  ASSUME TypeOK, Tick
  PROVE  /\ span' \in 0..MaxAge /\ idle' \in 0..MaxAge
         /\ age' \in {Never} \cup 0..MaxAge
<1>1. MaxAge \in Nat /\ MaxAge > 0
  BY PollAssumption DEF PollAssumption
<1>2. span + 1 \in Nat /\ idle + 1 \in Nat
  BY <1>1 DEF TypeOK
<1>3. span' \in {Saturated(span + 1, MaxAge), 1}
  BY DEF Tick, NextSpan
<1>4. age' \in {Never} \cup 0..MaxAge
  <2>1. CASE age = Never
    BY <2>1 DEF Tick, Older
  <2>2. CASE age # Never
    <3>1. age + 1 \in Nat
      BY <1>1, <2>2 DEF TypeOK
    <3>2. QED
      BY <1>1, <2>2, <3>1, SaturatedRange DEF Tick, Older
  <2>3. QED BY <2>1, <2>2
<1>5. Saturated(span + 1, MaxAge) \in 0..MaxAge /\ Saturated(idle + 1, MaxAge) \in 0..MaxAge
  BY <1>1, <1>2, SaturatedRange
<1>6. 1 \in 0..MaxAge /\ idle' = Saturated(idle + 1, MaxAge)
  BY <1>1 DEF Tick
<1>7. QED
  BY <1>3, <1>4, <1>5, <1>6

\* What counting a block does to the miss counter.
LEMMA CountTypes ==
  ASSUME TypeOK, NEW h \in (1..head) \cup ForeignHeights, CountBlock(h)
  PROVE  /\ streak' \in 0..MaxStreak /\ resumed' \in BOOLEAN
         /\ counted' \subseteq (1..head) \cup ForeignHeights
<1>1. MaxStreak \in Nat /\ streak + 1 \in Nat
  BY PollAssumption DEF PollAssumption, TypeOK
<1>2. Saturated(streak + 1, MaxStreak) \in 0..MaxStreak
  BY <1>1, SaturatedRange
<1>3. CASE ~bonded
  BY <1>3 DEF CountBlock, statVars, TypeOK
<1>4. CASE bonded /\ (h \in MissedHeights \/ ~resolved \/ h > head)
  BY <1>2, <1>4 DEF CountBlock, TypeOK
<1>5. CASE bonded /\ ~(h \in MissedHeights \/ ~resolved \/ h > head)
  <2>1. streak' = 0 /\ counted' = {} /\ resumed' = FALSE
    BY <1>5 DEF CountBlock
  <2>2. 0 \in 0..MaxStreak
    BY <1>1
  <2>3. QED
    BY <2>1, <2>2, Zenon
<1>6. QED
  BY <1>3, <1>4, <1>5

LEMMA InfoTypes ==
  ASSUME NEW d, GetValInfo(d)
  PROVE  resolved' \in BOOLEAN /\ bonded' \in BOOLEAN
BY DEF GetValInfo, Resolves

LEMMA TypeStep == TypeOK /\ [Next]_vars => TypeOK'
<1> SUFFICES ASSUME TypeOK, [Next]_vars PROVE TypeOK'
  OBVIOUS
<1>a. head \in Nat /\ lastHeight \in Nat /\ MaxAge \in Nat
      /\ ForeignHeights \subseteq Nat \ {0}
  BY PollAssumption DEF TypeOK, PollAssumption
<1>1. CASE Tick
  <2>1. PICK w \in {"rough", "steady", "halted"} : Weather(w) /\ weather' = w
    BY <1>1 DEF Tick
  <2>2. /\ head' \in 0..MaxHeight /\ announced' \in BOOLEAN
        /\ lastHeight \in (0..head') \cup ForeignHeights
        /\ counted \subseteq (1..head') \cup ForeignHeights
    BY <2>1, <1>a, WeatherTypes DEF TypeOK
  <2>3. QED
    BY <1>1, <2>1, <2>2, TickTypes DEF Tick, TypeOK, infoVars, statVars, Tasks
<1>2. CASE Connect
  <2>1. down' \in [Nodes -> BOOLEAN]
    BY <1>2 DEF Connect, TypeOK
  <2>2. run' \in {"connect", "info", "start", "poll"} /\ alarm' \in BOOLEAN
        /\ due' \subseteq Tasks
    BY <1>2 DEF Connect, TypeOK, Ran
  <2>3. QED
    BY <1>2, <2>1, <2>2 DEF Connect, TypeOK, envVars, infoVars, statVars
<1>3. CASE RunnerInfo
  BY <1>3, InfoTypes DEF RunnerInfo, TypeOK, envVars, statVars
<1>4. CASE StartPoll
  <2>1. 0 \in (0..head) \cup ForeignHeights /\ 0 \in 0..MaxAge
    BY <1>a
  <2>2. resumed' \in BOOLEAN
    BY <1>4 DEF StartPoll, NewSession, TypeOK
  <2>3. QED
    BY <1>4, <2>1, <2>2 DEF StartPoll, NewSession, TypeOK, envVars, infoVars, Ran
<1>5. CASE Poll
  <2>1. PICK r \in Replies :
          IF Advances(Best(r))
          THEN /\ lastHeight' = Best(r)
               /\ idle' = 0 /\ age' = 0
               /\ CountBlock(Best(r))
               /\ UNCHANGED run
          ELSE /\ run' = IF idle > IdleLimit THEN "connect" ELSE "poll"
               /\ UNCHANGED <<lastHeight, idle, age, statVars>>
    BY <1>5 DEF Poll
  <2>2. due' \subseteq Tasks
    BY <1>5 DEF Poll, Ran, TypeOK
  <2>3. CASE Advances(Best(r))
    <3>0. Best(r) \in Heights /\ Best(r) > lastHeight
      BY <2>3, BestIsHighest DEF Advances
    <3>1. /\ Best(r) \in (1..head) \cup ForeignHeights
          /\ Best(r) \in (0..head) \cup ForeignHeights /\ 0 \in 0..MaxAge
      BY <1>a, <3>0 DEF Heights
    <3>2. /\ streak' \in 0..MaxStreak /\ resumed' \in BOOLEAN
          /\ counted' \subseteq (1..head) \cup ForeignHeights
      BY <2>1, <2>3, <3>1, CountTypes
    <3>3. QED
      BY <1>5, <2>1, <2>2, <2>3, <3>1, <3>2 DEF Poll, TypeOK, envVars, infoVars
  <2>4. CASE ~Advances(Best(r))
    BY <1>5, <2>1, <2>2, <2>4 DEF Poll, TypeOK, envVars, infoVars, statVars
  <2>5. QED BY <2>3, <2>4
<1>6. CASE Health
  <2>1. down' \in [Nodes -> BOOLEAN]
    BY <1>6 DEF Health, TypeOK
  <2>2. resolved' \in BOOLEAN /\ bonded' \in BOOLEAN /\ unbonding' \in BOOLEAN
    BY <1>6, InfoTypes DEF Health, TypeOK
  <2>3. QED
    BY <1>6, <2>1, <2>2 DEF Health, TypeOK, envVars, pollVars, statVars, Ran
<1>7. CASE EndHealth
  BY <1>7 DEF EndHealth, TypeOK, envVars, pollVars, statVars
<1>8. CASE Watch
  <2>1. alarm' \in BOOLEAN /\ announced' \in BOOLEAN /\ latch' \in BOOLEAN
    BY <1>8 DEF Watch, TypeOK, IsStalled
  <2>2. QED
    BY <1>8, <2>1 DEF Watch, TypeOK, envVars, infoVars, pollVars, statVars, Ran
<1>9. CASE UNCHANGED vars
  BY <1>9 DEF vars, envVars, infoVars, pollVars, statVars, TypeOK
<1>10. QED
  BY <1>1, <1>2, <1>3, <1>4, <1>5, <1>6, <1>7, <1>8, <1>9 DEF Next

\* Every reachable state of the poller is well typed: PollRun's height is one
\* that this chain has made or that another serves, and so are those it counts.
THEOREM PollTypeCorrect == Spec => []TypeOK
<1>1. Init => TypeOK
  BY TypeInit
<1>2. TypeOK /\ [Next]_vars => TypeOK'
  BY TypeStep
<1>3. QED
  BY <1>1, <1>2, PTL DEF Spec

-----------------------------------------------------------------------------
(* Consecutive misses *)

\* In a session the counted blocks are ones that PollRun has passed, so a block
\* that advances it has not been counted.
SessionInv ==
  ~resumed => /\ streak = Saturated(Cardinality(counted), MaxStreak)
              /\ counted \subseteq 1..lastHeight

LEMMA SessionInit == Init => SessionInv
<1> SUFFICES ASSUME Init PROVE SessionInv
  OBVIOUS
<1>1. streak = 0 /\ counted = {}
  BY DEF Init
<1>2. Saturated(0, MaxStreak) = 0
  BY PollAssumption DEF PollAssumption, Saturated
<1>3. QED
  BY <1>1, <1>2, FS_EmptySet DEF SessionInv

\* One more block is one more in the streak, also where both saturate.
LEMMA CountAddsOne ==
  ASSUME TypeOK, SessionInv, ~resumed, NEW h \in Nat, h > lastHeight
  PROVE  Saturated(streak + 1, MaxStreak)
           = Saturated(Cardinality(counted \cup {h}), MaxStreak)
<1>1. head \in Nat /\ lastHeight \in Nat /\ MaxStreak \in Nat /\ MaxStreak > 0
  BY PollAssumption DEF TypeOK, PollAssumption
<1>2. IsFiniteSet(counted)
  <2>1. IsFiniteSet(1..lastHeight) /\ counted \in SUBSET (1..lastHeight)
    BY <1>1, FS_Interval DEF SessionInv
  <2>2. QED
    BY <2>1, FS_Subset
<1>3. h \notin counted
  BY <1>1 DEF SessionInv
<1>4. /\ Cardinality(counted) \in Nat
      /\ Cardinality(counted \cup {h}) = Cardinality(counted) + 1
  BY <1>2, <1>3, FS_CardinalityType, FS_AddElement
<1>5. QED
  BY <1>1, <1>4 DEF SessionInv, Saturated

LEMMA SessionStep == TypeOK /\ SessionInv /\ [Next]_vars => SessionInv'
<1> SUFFICES ASSUME TypeOK, SessionInv, [Next]_vars PROVE SessionInv'
  OBVIOUS
<1>1. head \in Nat /\ lastHeight \in Nat
  BY PollAssumption DEF TypeOK, PollAssumption
<1>2. ASSUME UNCHANGED <<statVars, lastHeight>> PROVE SessionInv'
  BY <1>2 DEF SessionInv, statVars
<1>3. CASE StartPoll
  <2>1. CASE resolved
    <3>1. lastHeight' = 0 /\ streak' = streak /\ counted' = counted
          /\ resumed' = (resumed \/ counted # {})
      BY <1>3, <2>1 DEF StartPoll, NewSession
    <3>2. ~resumed' => ~resumed /\ counted' = {}
      BY <3>1
    <3>3. QED
      BY <3>1, <3>2 DEF SessionInv
  <2>2. CASE ~resolved
    BY <1>2, <1>3, <2>2 DEF StartPoll, statVars
  <2>3. QED BY <2>1, <2>2
<1>4. CASE Poll
  <2>1. PICK r \in Replies :
          IF Advances(Best(r))
          THEN lastHeight' = Best(r) /\ CountBlock(Best(r))
          ELSE UNCHANGED <<lastHeight, statVars>>
    BY <1>4 DEF Poll
  <2>2. CASE ~Advances(Best(r))
    BY <1>2, <2>1, <2>2
  <2>3. CASE Advances(Best(r))
    <3> DEFINE h == Best(r)
    <3>1. lastHeight' = h /\ h > lastHeight /\ h \in Nat /\ CountBlock(h)
      BY <1>1, <2>1, <2>3, BestIsHighest DEF Advances
    <3> HIDE DEF h
    <3>2. CASE ~bonded
      <4>1. UNCHANGED statVars
        BY <3>1, <3>2 DEF CountBlock
      <4>2. 1..lastHeight \subseteq 1..h
        BY <1>1, <3>1
      <4>3. QED
        BY <3>1, <4>1, <4>2 DEF SessionInv, statVars
    <3>3. CASE bonded /\ (h \in MissedHeights \/ ~resolved \/ h > head)
      <4>1. /\ streak' = Saturated(streak + 1, MaxStreak)
            /\ counted' = counted \cup {h} /\ resumed' = resumed
        BY <3>1, <3>3 DEF CountBlock
      <4>2. CASE ~resumed
        <5>1. streak' = Saturated(Cardinality(counted'), MaxStreak)
          BY <3>1, <4>1, <4>2, CountAddsOne
        <5>2. counted' \subseteq 1..lastHeight'
          BY <1>1, <3>1, <4>1, <4>2 DEF SessionInv
        <5>3. QED
          BY <5>1, <5>2 DEF SessionInv
      <4>3. CASE resumed
        BY <4>1, <4>3 DEF SessionInv
      <4>4. QED BY <4>2, <4>3
    <3>4. CASE bonded /\ ~(h \in MissedHeights \/ ~resolved \/ h > head)
      <4>1. streak' = 0 /\ counted' = {}
        BY <3>1, <3>4 DEF CountBlock
      <4>2. Saturated(0, MaxStreak) = 0
        BY PollAssumption DEF PollAssumption, Saturated
      <4>3. QED
        BY <4>1, <4>2, FS_EmptySet DEF SessionInv
    <3>5. QED BY <3>2, <3>3, <3>4
  <2>4. QED BY <2>2, <2>3
<1>5. CASE Tick \/ Connect \/ RunnerInfo \/ Health \/ EndHealth \/ Watch
  BY <1>2, <1>5 DEF Tick, Connect, RunnerInfo, Health, EndHealth, Watch, pollVars
<1>6. CASE UNCHANGED vars
  BY <1>2, <1>6 DEF vars, pollVars
<1>7. QED
  BY <1>3, <1>4, <1>5, <1>6 DEF Next

\* Between two starts of PollRun the consecutive-misses counter is the number of
\* blocks missed: none is counted twice, whatever the nodes answer and whatever
\* the refreshes of valInfo write meanwhile.
THEOREM ConsecutiveAlwaysInSession == Spec => []ConsecutiveInSession
<1>1. Init => TypeOK /\ SessionInv
  BY TypeInit, SessionInit
<1>2. TypeOK /\ SessionInv /\ [Next]_vars => (TypeOK /\ SessionInv)'
  BY TypeStep, SessionStep
<1>3. SessionInv => ConsecutiveInSession
  BY DEF SessionInv, ConsecutiveInSession
<1>4. QED
  BY <1>1, <1>2, <1>3, PTL DEF Spec

-----------------------------------------------------------------------------
(* The stalled-chain alarm *)

\* The nodes before the sound one answer the query of the realm as well, so that
\* it is answered whichever of them is up.
RealmBefore == \A n \in Nodes : n < Sound => n \in RealmNodes

LEMMA RealmAnswers ==
  ASSUME RealmBefore, ~Rough, NEW d \in [Nodes -> BOOLEAN], ~d[Sound]
  PROVE  Resolves(d) = {TRUE}
<1> DEFINE up == {n \in Nodes : ~d[n]}
           first == CHOOSE n \in up : \A k \in up : n <= k
<1>1. Sound \in up /\ up \in SUBSET Nat /\ RealmNodes \subseteq Nodes /\ Sound \in RealmNodes
  BY PollAssumption DEF PollAssumption, Nodes
<1>2. \E n \in up : \A k \in up : n <= k
  BY <1>1, LeastExists
<1>3. first \in up /\ first <= Sound
  BY <1>1, <1>2
<1>4. RealmNode(d) = first
  BY <1>1 DEF RealmNode
<1>5. first \in Nodes /\ (first < Sound \/ first = Sound)
  BY <1>1, <1>3
<1>6. first \in RealmNodes
  BY <1>1, <1>5 DEF RealmBefore
<1> HIDE DEF first
<1>7. QED
  BY <1>4, <1>6 DEF Resolves

\* Once the weather has been fair for a health check, the sound node is up and
\* the validator is known, and both stay so.
SoundSeen ==
  (~Rough /\ (span >= 2 \/ weather = "halted" \/ "health" \notin due))
    => (resolved /\ ~down[Sound])

\* PollRun has seen the head in this minute.
AtHead == lastHeight = head /\ age = 0 /\ idle = 0 /\ run = "poll"

\* In steady times PollRun is not below the head only if it has seen it in this
\* minute, or if its height is of the rough times before and it has been idle
\* since.  From the second minute on one of both is so when the minute is over,
\* and PollRun does not end a minute idle beyond its limit.
HeadSeen ==
  weather = "steady" =>
    /\ head > 0 /\ span > 0
    /\ lastHeight >= head => (AtHead \/ idle >= span)
    /\ (span >= 2 /\ "run" \notin due) =>
         lastHeight >= head /\ run = "poll" /\ idle <= IdleLimit

\* So it is at the head once it must have noticed that it was idle.
LEMMA HeadSeenAtLast ==
  ASSUME TypeOK, HeadSeen, weather = "steady", span >= 2, span > IdleLimit, "run" \notin due
  PROVE  AtHead
BY PollAssumption DEF TypeOK, HeadSeen, PollAssumption

\* Once the idle exit must have come the last block is young, and a minute later
\* watch() has seen that.
YoungBlock ==
  (weather = "steady" /\ span >= 3 /\ span > IdleLimit + 1) =>
    /\ age \in {0, 1}
    /\ "watch" \notin due => ~alarm

\* Until a halt is announced, PollRun waits at the head, everybody counts the
\* same minutes, and the round of watch() that announces it is still to come.
HaltSeen ==
  (weather = "halted" /\ ~announced) =>
    /\ span <= StalledMin + 1 /\ age = span /\ idle = span
    /\ run = "poll" /\ lastHeight = head
    /\ span = StalledMin + 1 => "watch" \in due

\* What a tick does to the weather.
LEMMA TickWeather ==
  ASSUME TypeOK, Tick
  PROVE  /\ due = {} /\ due' = Tasks
         /\ weather' = "steady" => head' > head
         /\ weather' = "halted" =>
              /\ head' = head /\ announced' = announced
              /\ weather = "halted" \/ (weather = "steady" /\ span >= Settle)
         /\ weather' # weather => span' = 1
         /\ weather' = weather => span' = Saturated(span + 1, MaxAge)
<1>1. PICK w \in {"rough", "steady", "halted"} :
        Weather(w) /\ weather' = w /\ span' = NextSpan(w)
  BY DEF Tick
<1>2. w = "halted" => weather = "halted" \/ (weather = "steady" /\ span >= Settle)
  BY <1>1 DEF Weather
<1>3. QED
  BY <1>1, <1>2, WeatherTypes DEF Tick, NextSpan

LEMMA FairTypes ==
  ASSUME TypeOK
  PROVE  /\ head \in Nat /\ lastHeight \in Nat
         /\ span \in Nat /\ span <= MaxAge /\ idle \in Nat /\ MaxAge \in Nat
         /\ {StalledMin, IdleLimit, Settle} \subseteq Nat
         /\ MaxAge > StalledMin + 1 /\ MaxAge > IdleLimit /\ MaxAge >= Settle
         /\ Sound \in Nodes
BY PollAssumption DEF TypeOK, PollAssumption

\* With the sound node up, PollRun sees the head.
LEMMA SoundGivesHead ==
  ASSUME TypeOK, ~Rough, ~down[Sound], NEW r \in Replies
  PROVE  Best(r) = head
<1>1. r[Sound] = head
  BY DEF Replies
<1>2. Best(r) \in 0..head /\ head <= Best(r)
  BY <1>1, BestIsHighest, FairTypes
<1>3. QED
  BY <1>2, FairTypes

\* In fair weather the runner finds a node, and leaves the sound one up.
LEMMA ConnectFinds ==
  ASSUME TypeOK, ~Rough, Connect
  PROVE  /\ run' = "info" /\ due' = due
         /\ ~down[Sound] => ~down'[Sound]
<1>1. PICK up \in Answering :
        IF up = {}
        THEN TRUE
        ELSE LET first == CHOOSE n \in up : \A k \in up : n <= k
             IN  /\ down' = [n \in Nodes |-> IF n < first THEN TRUE
                                             ELSE down[n] /\ n # first]
                 /\ run' = "info"
                 /\ UNCHANGED <<alarm, due>>
  BY DEF Connect
<1>2. up \in SUBSET Nodes /\ Sound \in up
  BY <1>1 DEF Answering
<1> DEFINE first == CHOOSE n \in up : \A k \in up : n <= k
<1>3. Nodes \subseteq Nat
  BY PollAssumption DEF Nodes, PollAssumption
<1>4. \E n \in up : \A k \in up : n <= k
  BY <1>2, <1>3, LeastExists
<1>5. first \in up /\ first <= Sound
  BY <1>2, <1>4
<1>6. /\ run' = "info" /\ due' = due
      /\ down' = [n \in Nodes |-> IF n < first THEN TRUE ELSE down[n] /\ n # first]
  BY <1>1, <1>2
<1> HIDE DEF first
<1>7. ~(Sound < first)
  BY <1>2, <1>3, <1>5
<1>8. down'[Sound] = (down[Sound] /\ Sound # first)
  BY <1>2, <1>6, <1>7
<1>9. QED
  BY <1>6, <1>8

\* In fair weather a health check finds the sound node up and the validator.
LEMMA HealthFinds ==
  ASSUME TypeOK, RealmBefore, ~Rough, Health
  PROVE  resolved' /\ ~down'[Sound]
<1>a. PICK up \in Answering : \E syncing \in SUBSET (Nodes \ up) :
        down' = [n \in Nodes |-> IF n \in syncing THEN down[n] ELSE n \notin up]
  BY DEF Health
<1>1. PICK syncing \in SUBSET (Nodes \ up) :
        down' = [n \in Nodes |-> IF n \in syncing THEN down[n] ELSE n \notin up]
  BY <1>a
<1>2. Sound \in up /\ Sound \notin syncing /\ Sound \in Nodes
  BY <1>1, FairTypes DEF Answering
<1>3. down'[Sound] = (Sound \notin up)
  BY <1>1, <1>2
<1>4. resolved'
  <2>1. down' \in [Nodes -> BOOLEAN] /\ ~down'[Sound]
    BY <1>1, <1>2, <1>3 DEF TypeOK
  <2>2. Resolves(down') = {TRUE}
    BY <2>1, RealmAnswers
  <2>3. QED BY <2>2 DEF Health, GetValInfo
<1>5. QED
  BY <1>2, <1>3, <1>4

LEMMA SoundSeenStep ==
  ASSUME TypeOK, RealmBefore, SoundSeen, [Next]_vars
  PROVE  SoundSeen'
<1>1. CASE Tick
  <2>1. down' = down /\ resolved' = resolved
    BY <1>1 DEF Tick, infoVars
  <2>2. ASSUME ~Rough', span' >= 2 \/ weather' = "halted" PROVE ~Rough
    BY <1>1, <2>2, TickWeather DEF Rough, TypeOK
  <2>3. "health" \notin due /\ "health" \in due'
    BY <1>1, TickWeather DEF Tasks
  <2>4. QED
    BY <2>1, <2>2, <2>3 DEF SoundSeen
<1>2. CASE Connect
  <2>1. UNCHANGED <<envVars, resolved>>
    BY <1>2 DEF Connect, infoVars
  <2>2. CASE Rough
    BY <2>1, <2>2 DEF SoundSeen, Rough, envVars
  <2>3. CASE ~Rough
    BY <1>2, <2>1, <2>3, ConnectFinds DEF SoundSeen, Rough, envVars
  <2>4. QED BY <2>2, <2>3
<1>3. CASE RunnerInfo
  <2>1. UNCHANGED <<envVars, down, due>> /\ resolved' \in Resolves(down)
    BY <1>3 DEF RunnerInfo, GetValInfo
  <2>2. ASSUME ~Rough, ~down[Sound] PROVE resolved'
    <3>1. Resolves(down) = {TRUE}
      BY <2>2, RealmAnswers DEF TypeOK
    <3>2. QED BY <2>1, <3>1
  <2>3. QED BY <2>1, <2>2 DEF SoundSeen, Rough, envVars
<1>4. CASE Health
  <2>1. UNCHANGED envVars
    BY <1>4 DEF Health
  <2>2. CASE Rough
    BY <2>1, <2>2 DEF SoundSeen, Rough, envVars
  <2>3. CASE ~Rough
    BY <1>4, <2>3, HealthFinds DEF SoundSeen
  <2>4. QED BY <2>2, <2>3
<1>5. ASSUME UNCHANGED <<envVars, down, resolved>>, "health" \in due => "health" \in due'
      PROVE  SoundSeen'
  BY <1>5 DEF SoundSeen, Rough, envVars
<1>6. CASE StartPoll \/ Poll \/ EndHealth \/ Watch
  BY <1>5, <1>6 DEF StartPoll, Poll, EndHealth, Watch, infoVars, Ran
<1>7. CASE UNCHANGED vars
  BY <1>5, <1>7 DEF vars, infoVars
<1>8. QED
  BY <1>1, <1>2, <1>3, <1>4, <1>6, <1>7 DEF Next

\* A step of PollRun in fair weather with the sound node up.
LEMMA PollAtSound ==
  ASSUME TypeOK, ~Rough, ~down[Sound], Poll
  PROVE  IF head > lastHeight
         THEN lastHeight' = head /\ idle' = 0 /\ age' = 0 /\ run' = "poll"
         ELSE /\ run' = IF idle > IdleLimit THEN "connect" ELSE "poll"
              /\ UNCHANGED <<lastHeight, idle, age>>
BY SoundGivesHead DEF Poll, Advances

\* Whatever it sees, PollRun is at the height of the block it has just taken,
\* or where it was.
LEMMA PollSeen ==
  ASSUME TypeOK, Poll
  PROVE  \/ /\ ~Rough => lastHeight' \in 0..head
            /\ idle' = 0 /\ age' = 0 /\ run' = "poll"
         \/ /\ run' = IF idle > IdleLimit THEN "connect" ELSE "poll"
            /\ UNCHANGED <<lastHeight, idle, age>>
BY BestIsHighest DEF Poll

LEMMA HeadSeenStep ==
  ASSUME TypeOK, SoundSeen, HeadSeen, [Next]_vars
  PROVE  HeadSeen'
<1> SUFFICES ASSUME weather' = "steady" PROVE HeadSeen'
  BY DEF HeadSeen
<1>a. /\ head \in Nat /\ lastHeight \in Nat /\ IdleLimit \in Nat /\ idle \in Nat
      /\ span \in Nat /\ MaxAge \in Nat /\ MaxAge > 0
  BY FairTypes
<1>1. CASE Tick
  <2>1. head' > head /\ lastHeight' = lastHeight /\ "run" \in due' /\ head' \in Nat
    <3>1. PICK w \in {"rough", "steady", "halted"} : Weather(w) /\ weather' = w
      BY <1>1 DEF Tick
    <3>2. QED
      BY <1>1, <3>1, WeatherTypes, TickWeather DEF Tick, Tasks
  <2>2. idle' = Saturated(idle + 1, MaxAge)
    BY <1>1 DEF Tick
  <2>3. CASE weather = "steady"
    <3>1. span' = Saturated(span + 1, MaxAge)
      BY <1>1, <2>3, TickWeather
    <3>2. lastHeight >= head' => idle >= span
      BY <1>a, <2>1, <2>3 DEF HeadSeen, AtHead
    <3>3. span' > 0 /\ (idle >= span => idle' >= span')
      BY <1>a, <2>2, <3>1 DEF Saturated
    <3>4. QED
      BY <1>a, <2>1, <3>2, <3>3 DEF HeadSeen
  <2>4. CASE weather # "steady"
    <3>1. span' = 1
      BY <1>1, <2>4, TickWeather
    <3>2. idle' >= 1
      BY <1>a, <2>2 DEF Saturated
    <3>3. QED
      BY <1>a, <2>1, <3>1, <3>2 DEF HeadSeen
  <2>5. QED BY <2>3, <2>4
<1> SUFFICES ASSUME ~Tick PROVE HeadSeen'
  BY <1>1
<1>2. UNCHANGED envVars
  BY DEF Next, Connect, RunnerInfo, StartPoll, Poll, Health, EndHealth, Watch, vars
<1>3. /\ weather = "steady" /\ ~Rough /\ head' = head /\ span' = span
      /\ head > 0 /\ span > 0
  BY <1>2 DEF envVars, Rough, HeadSeen
<1>4. ASSUME UNCHANGED <<lastHeight, age, idle, run>>,
             "run" \in due => "run" \in due'
      PROVE  HeadSeen'
  BY <1>3, <1>4 DEF HeadSeen, AtHead
\* what the runner does before it polls again is part of the minute
<1>5. ASSUME run # "poll"
      PROVE  /\ lastHeight >= head => idle >= span
             /\ span >= 2 => "run" \in due
  BY <1>3, <1>5 DEF HeadSeen, AtHead
<1>6. ASSUME UNCHANGED <<lastHeight, idle>>, run # "poll",
             due' = due \/ ~(span >= 2)
      PROVE  HeadSeen'
  BY <1>3, <1>5, <1>6 DEF HeadSeen
<1>7. CASE Connect
  BY <1>3, <1>6, <1>7, ConnectFinds DEF Connect
<1>8. CASE RunnerInfo
  BY <1>6, <1>8 DEF RunnerInfo
<1>9. CASE StartPoll
  <2>0. run # "poll"
    BY <1>9 DEF StartPoll
  <2>1. CASE resolved
    <3>1. lastHeight' = 0 /\ due' = due
      BY <1>9, <2>1 DEF StartPoll, NewSession
    <3>2. QED
      BY <1>3, <1>a, <1>5, <2>0, <3>1 DEF HeadSeen
  <2>2. CASE ~resolved
    <3>1. UNCHANGED <<lastHeight, idle>> /\ ~(span >= 2)
      BY <1>3, <1>9, <2>2 DEF StartPoll, SoundSeen
    <3>2. QED
      BY <1>6, <2>0, <3>1
  <2>3. QED BY <2>1, <2>2
<1>10. CASE Poll
  <2>0. run = "poll" /\ ("run" \notin due' => run' = "poll" \/ due' = due)
    BY <1>10 DEF Poll
  <2>1. ASSUME UNCHANGED <<lastHeight, idle, age>>,
               run' = IF idle > IdleLimit THEN "connect" ELSE "poll",
               span >= 2 => lastHeight >= head
        PROVE  HeadSeen'
    <3>1. CASE idle > IdleLimit
      <4>1. ~AtHead /\ (span >= 2 => "run" \in due) /\ due' = due
        BY <1>a, <1>3, <1>10, <2>1, <3>1 DEF HeadSeen, AtHead, Poll
      <4>2. QED
        BY <1>3, <2>1, <4>1 DEF HeadSeen
    <3>2. CASE ~(idle > IdleLimit)
      <4>1. UNCHANGED run /\ idle <= IdleLimit
        BY <1>a, <2>0, <2>1, <3>2
      <4>2. QED
        BY <1>3, <2>0, <2>1, <4>1 DEF HeadSeen, AtHead
    <3>3. QED BY <3>1, <3>2
  <2>2. CASE span >= 2
    <3>1. ~down[Sound]
      BY <1>3, <2>2 DEF SoundSeen
    <3>2. CASE head > lastHeight
      BY <1>3, <1>a, <1>10, <3>1, <3>2, PollAtSound DEF HeadSeen, AtHead
    <3>3. CASE ~(head > lastHeight)
      BY <1>3, <1>a, <1>10, <2>1, <3>1, <3>3, PollAtSound
    <3>4. QED BY <3>2, <3>3
  <2>3. CASE ~(span >= 2)
    <3>1. CASE UNCHANGED <<lastHeight, idle, age>> /\ run' = IF idle > IdleLimit THEN "connect" ELSE "poll"
      BY <2>1, <2>3, <3>1
    <3>2. CASE lastHeight' \in 0..head /\ idle' = 0 /\ age' = 0 /\ run' = "poll"
      BY <1>a, <1>3, <2>3, <3>2 DEF HeadSeen, AtHead
    <3>3. QED
      BY <1>3, <1>10, <3>1, <3>2, PollSeen
  <2>4. QED BY <2>2, <2>3
<1>11. CASE Health \/ EndHealth \/ Watch \/ UNCHANGED vars
  BY <1>4, <1>11 DEF Health, EndHealth, Watch, vars, pollVars, Ran
<1>12. QED
  BY <1>7, <1>8, <1>9, <1>10, <1>11 DEF Next

LEMMA YoungBlockStep ==
  ASSUME TypeOK, HeadSeen, YoungBlock, StalledMin >= 1, [Next]_vars
  PROVE  YoungBlock'
<1> SUFFICES ASSUME weather' = "steady", span' >= 3, span' > IdleLimit + 1 PROVE YoungBlock'
  BY DEF YoungBlock
<1>1. CASE Tick
  <2>1. /\ weather = "steady" /\ span >= 2 /\ span > IdleLimit
        /\ due = {} /\ "watch" \in due'
    BY <1>1, TickWeather, FairTypes DEF Saturated, Tasks
  <2>2. age = 0
    BY <2>1, HeadSeenAtLast DEF AtHead
  <2>3. age' = 1
    BY <1>1, <2>2, FairTypes DEF Tick, Older, Never, Saturated
  <2>4. QED
    BY <2>1, <2>3 DEF YoungBlock
<1> SUFFICES ASSUME ~Tick PROVE YoungBlock'
  BY <1>1
<1>2. UNCHANGED envVars
  BY DEF Next, Connect, RunnerInfo, StartPoll, Poll, Health, EndHealth, Watch, vars
<1>3. /\ weather = "steady" /\ span >= 3 /\ span > IdleLimit + 1 /\ ~Rough
      /\ age \in {0, 1} /\ ("watch" \notin due => ~alarm)
  BY <1>2 DEF envVars, Rough, YoungBlock
<1>4. ASSUME age' \in {age, 0}, alarm' = alarm, "watch" \in due => "watch" \in due'
      PROVE  YoungBlock'
  BY <1>3, <1>4 DEF YoungBlock
<1>5. CASE Connect
  BY <1>3, <1>4, <1>5, ConnectFinds DEF Connect
<1>6. CASE Poll
  BY <1>4, <1>6, PollSeen DEF Poll, Ran
<1>7. CASE RunnerInfo \/ StartPoll \/ Health \/ EndHealth \/ UNCHANGED vars
  BY <1>4, <1>7 DEF RunnerInfo, StartPoll, Health, EndHealth, vars, Ran
<1>8. CASE Watch
  <2>1. ~IsStalled /\ age' = age
    BY <1>3, <1>8, FairTypes DEF IsStalled, Watch
  <2>2. ~alarm'
    BY <1>8, <2>1 DEF Watch
  <2>3. QED
    BY <1>3, <2>1, <2>2 DEF YoungBlock
<1>9. QED
  BY <1>5, <1>6, <1>7, <1>8 DEF Next

LEMMA HaltSeenStep ==
  ASSUME TypeOK, SoundSeen, HeadSeen, HaltSeen,
         Settle > IdleLimit, StalledMin < IdleLimit, [Next]_vars
  PROVE  HaltSeen'
<1> SUFFICES ASSUME weather' = "halted", ~announced' PROVE HaltSeen'
  BY DEF HaltSeen
<1>a. /\ span \in Nat /\ idle \in Nat /\ head \in Nat
      /\ StalledMin \in Nat /\ IdleLimit \in Nat /\ Settle \in Nat
      /\ MaxAge \in Nat /\ MaxAge > StalledMin + 1
  BY FairTypes
<1>1. CASE Tick
  <2>1. /\ head' = head /\ ~announced /\ due = {} /\ "watch" \in due'
        /\ lastHeight' = lastHeight /\ run' = run
    BY <1>1, TickWeather DEF Tick, Tasks
  <2>2. age' = Older(age) /\ idle' = Saturated(idle + 1, MaxAge)
    BY <1>1 DEF Tick
  <2>3. CASE weather = "halted"
    <3>1. /\ span <= StalledMin + 1 /\ age = span /\ idle = span
          /\ run = "poll" /\ lastHeight = head /\ span # StalledMin + 1
      BY <2>1, <2>3 DEF HaltSeen
    <3>2. span' = Saturated(span + 1, MaxAge)
      BY <1>1, <2>3, TickWeather
    <3>3. span + 1 <= StalledMin + 1 /\ Saturated(span + 1, MaxAge) = span + 1
      BY <1>a, <3>1 DEF Saturated
    <3>4. age' = span + 1
      BY <1>a, <2>2, <3>1, <3>3 DEF Older, Never
    <3>5. QED
      BY <2>1, <2>2, <3>1, <3>2, <3>3, <3>4 DEF HaltSeen
  <2>4. CASE weather # "halted"
    <3>1. weather = "steady" /\ span >= 2 /\ span > IdleLimit /\ span' = 1
      BY <1>a, <1>1, <2>4, TickWeather
    <3>2. lastHeight = head /\ age = 0 /\ idle = 0 /\ run = "poll"
      BY <2>1, <3>1, HeadSeenAtLast DEF AtHead
    <3>3. Saturated(1, MaxAge) = 1 /\ 1 <= StalledMin + 1
      BY <1>a DEF Saturated
    <3>4. age' = 1 /\ idle' = 1
      BY <2>2, <3>2, <3>3 DEF Older, Never
    <3>5. QED
      BY <2>1, <3>1, <3>2, <3>3, <3>4 DEF HaltSeen
  <2>5. QED BY <2>3, <2>4
<1> SUFFICES ASSUME ~Tick PROVE HaltSeen'
  BY <1>1
<1>2. UNCHANGED envVars
  BY DEF Next, Connect, RunnerInfo, StartPoll, Poll, Health, EndHealth, Watch, vars
<1>3. ~announced
  BY DEF Next, Connect, RunnerInfo, StartPoll, Poll, Health, EndHealth, Watch, vars
<1>4. /\ weather = "halted" /\ ~Rough /\ head' = head /\ span' = span
      /\ span <= StalledMin + 1 /\ age = span /\ idle = span
      /\ run = "poll" /\ lastHeight = head
      /\ span = StalledMin + 1 => "watch" \in due
  BY <1>2, <1>3 DEF envVars, Rough, HaltSeen
<1>5. ASSUME UNCHANGED <<lastHeight, age, idle, run>>,
             "watch" \in due => "watch" \in due'
      PROVE  HaltSeen'
  BY <1>4, <1>5 DEF HaltSeen
<1>6. CASE Connect \/ RunnerInfo \/ StartPoll
  BY <1>4, <1>6 DEF Connect, RunnerInfo, StartPoll
<1>7. CASE Poll
  <2>1. ~down[Sound] /\ ~(head > lastHeight) /\ ~(idle > IdleLimit)
    BY <1>a, <1>4 DEF SoundSeen
  <2>2. run' = "poll" /\ UNCHANGED <<lastHeight, idle, age>>
    BY <1>4, <1>7, <2>1, PollAtSound
  <2>3. "watch" \in due => "watch" \in due'
    BY <1>7, <2>2 DEF Poll, Ran
  <2>4. QED
    BY <1>4, <1>5, <2>2, <2>3
<1>8. CASE Watch
  <2>1. UNCHANGED <<lastHeight, age, idle, run>>
    BY <1>8 DEF Watch, pollVars
  <2>2. ~(age # Never /\ IsStalled)
    BY <1>8 DEF Watch
  <2>3. span # StalledMin + 1
    BY <1>a, <1>4, <2>2 DEF Never, IsStalled
  <2>4. QED
    BY <1>4, <2>1, <2>3 DEF HaltSeen
<1>9. CASE Health \/ EndHealth \/ UNCHANGED vars
  BY <1>5, <1>9 DEF Health, EndHealth, vars, pollVars, Ran
<1>10. QED
  BY <1>6, <1>7, <1>8, <1>9 DEF Next

LEMMA FairInit == Init => SoundSeen /\ HeadSeen /\ YoungBlock /\ HaltSeen
BY DEF Init, SoundSeen, HeadSeen, YoungBlock, HaltSeen, Rough

\* A chain that makes blocks is not reported as stalled once the weather has been
\* steady for longer than PollRun's idle exit, whatever the nodes served before,
\* and however the others lag and fail: a minute for the health check to find the
\* sound node, the idle exit to leave a height that is not this chain's, and a
\* minute for watch().  The nodes configured before the sound one must answer the
\* realm's query, since only one node is asked.
THEOREM HealthyNeverStalled ==
  ASSUME RealmBefore, Settle >= 2, Settle > IdleLimit, StalledMin >= 1
  PROVE  Spec => []HealthyNotStalled
<1> DEFINE Inv == TypeOK /\ SoundSeen /\ HeadSeen /\ YoungBlock
<1>1. Init => Inv
  BY TypeInit, FairInit
<1>2. Inv /\ [Next]_vars => Inv'
  BY TypeStep, SoundSeenStep, HeadSeenStep, YoungBlockStep
<1>3. Inv => HealthyNotStalled
  BY FairTypes DEF YoungBlock, HealthyNotStalled
<1>4. QED
  BY <1>1, <1>2, <1>3, PTL DEF Spec

\* The halt of a chain that was seen for longer than the idle exit is announced by the end of
\* the first minute past stalled_minutes, for every stalled_minutes below
\* PollRun's idle exit.  That bound is needed: gnopoll_halt refutes the rest.
THEOREM HaltAlwaysAnnounced ==
  ASSUME RealmBefore, Settle > IdleLimit, StalledMin < IdleLimit
  PROVE  Spec => []HaltAnnounced
<1> DEFINE Inv == TypeOK /\ SoundSeen /\ HeadSeen /\ HaltSeen
<1>1. Init => Inv
  BY TypeInit, FairInit
<1>2. Inv /\ [Next]_vars => Inv'
  BY TypeStep, SoundSeenStep, HeadSeenStep, HaltSeenStep
<1>3. Inv => HaltAnnounced
  BY FairTypes DEF HaltSeen, HaltAnnounced
<1>4. QED
  BY <1>1, <1>2, <1>3, PTL DEF Spec
=============================================================================
