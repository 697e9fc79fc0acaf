------------------------- MODULE NodeHealth_proofs -------------------------
(***************************************************************************)
(* For any number of nodes, any choice of alert_if_down and any providers: *)
(* the types are right; with the cosmos provider an open node-down alarm   *)
(* is remembered, but for recoveries that a new failure has crossed; and   *)
(* an outage is timed once both its flags are written.                     *)
(***************************************************************************)
EXTENDS NodeHealth, TLAPS

Times == {"zero", "fresh", "old", "epoch"}

LEMMA FirstNode == 1 \in Nodes /\ 1 \in 1..(NumNodes + 1)
BY HealthAssumption DEF HealthAssumption, Nodes

LEMMA NextNode == ASSUME NEW n \in Nodes PROVE n + 1 \in 1..(NumNodes + 1)
BY HealthAssumption DEF HealthAssumption, Nodes

LEMMA TypeInit == Init => TypeOK
<1> SUFFICES ASSUME Init PROVE TypeOK
  OBVIOUS
<1>1. 1 \in Nodes /\ 1 \in 1..(NumNodes + 1) /\ 0 \in 0..MaxFlips
  BY FirstNode, HealthAssumption DEF HealthAssumption
<1>2. PICK nodes \in SUBSET Nodes :
        Restore(nodes) /\ open \in SUBSET AlertIfDown /\ orphan = open \ nodes
  BY DEF Init
<1>3. /\ down \in [Nodes -> BOOLEAN] /\ wasDown \in [Nodes -> BOOLEAN]
      /\ since \in [Nodes -> Times] /\ overtaken \subseteq Nodes
  BY <1>2 DEF Restore, Times
<1>4. noNodes \in BOOLEAN
  BY <1>2, Zenon DEF Restore
<1>5. QED
  BY <1>1, <1>2, <1>3, <1>4 DEF Init, TypeOK, Times

\* What the writes of a failure and of a recovery do to the flags.
LEMMA FlagTypes ==
  ASSUME TypeOK, NEW n \in Nodes
  PROVE  /\ SetDown(n) => /\ down' \in [Nodes -> BOOLEAN] /\ crossed' \subseteq Nodes
                          /\ UNCHANGED <<wasDown, since, overtaken>>
         /\ SetSince(n) => since' \in [Nodes -> Times] /\ overtaken' \subseteq Nodes
         /\ SetUp(n) => down' \in [Nodes -> BOOLEAN] /\ overtaken' \subseteq Nodes
         /\ ResetSince(n) => since' \in [Nodes -> Times] /\ overtaken' \subseteq Nodes
BY DEF TypeOK, SetDown, SetSince, SetUp, ResetSince, Times

LEMMA TypeStep == TypeOK /\ [Next]_vars => TypeOK'
<1> SUFFICES ASSUME TypeOK, [Next]_vars PROVE TypeOK'
  OBVIOUS
<1> USE DEF TypeOK, Times
<1>1. ASSUME NEW n \in Nodes, Flip(n) PROVE TypeOK'
  BY <1>1, HealthAssumption DEF Flip, nodeVars, runVars, watchVars
<1>2. ASSUME NEW n \in Nodes, Age(n) PROVE TypeOK'
  BY <1>2 DEF Age, envVars, runVars, watchVars
<1>3. ASSUME NEW n \in Nodes, Check(n) PROVE TypeOK'
  <2>1. CASE HealthOK(n)
    BY <1>3, <2>1 DEF Check, HealthOK, Goes, envVars, runVars, watchVars
  <2>2. CASE HealthBad(n)
    <3>1. check' \in [Nodes -> {"idle", "mark", "found", "reset"}]
      BY <2>2 DEF HealthBad, Goes
    <3>2. QED
      BY <1>3, <2>2, <3>1, FlagTypes DEF Check, HealthBad, envVars, runVars, watchVars
  <2>3. QED BY <1>3, <2>1, <2>2 DEF Check
<1>4. ASSUME NEW n \in Nodes, EndFailure(n) PROVE TypeOK'
  BY <1>4, FlagTypes DEF EndFailure, Goes, envVars, runVars, watchVars
<1>5. ASSUME NEW n \in Nodes, Recover(n) PROVE TypeOK'
  BY <1>5, FlagTypes DEF Recover, Goes, envVars, runVars, watchVars
<1>6. ASSUME NEW n \in Nodes, EndCheck(n) PROVE TypeOK'
  BY <1>6, FlagTypes DEF EndCheck, Goes, envVars, runVars, watchVars
<1>7. ASSUME NEW n \in Nodes, Look(n) PROVE TypeOK'
  BY <1>7 DEF Look, envVars, nodeVars, runVars
<1>8. ASSUME NEW n \in Nodes, WatchNode(n) PROVE TypeOK'
  BY <1>8 DEF WatchNode, FireNode, ResolveNode, envVars, runVars
<1>9. ASSUME Begin PROVE TypeOK'
  <2>1. any' \in BOOLEAN
    BY <1>9 DEF Begin
  <2>2. QED
    BY <1>9, <2>1, FirstNode DEF Begin, envVars, nodeVars, watchVars
<1>10. ASSUME TryNode PROVE TypeOK'
  <2>0. at \in Nodes /\ at + 1 \in 1..(NumNodes + 1)
    BY <1>10, NextNode DEF TryNode, SkipNode, RejectNode, TakeNode, Trying
  <2>1. CASE SkipNode
    BY <1>10, <2>0, <2>1 DEF TryNode, SkipNode, Trying, envVars, nodeVars, watchVars
  <2>2. CASE RejectNode
    <3>1. spent' \in BOOLEAN
      BY <2>2 DEF RejectNode
    <3>2. run' \in {"rest", "try", "mark", "taken", "stream"} /\ at' \in 1..(NumNodes + 1)
      BY <2>0, <2>2 DEF RejectNode
    <3>3. QED
      BY <1>10, <2>0, <2>2, <3>1, <3>2, FlagTypes DEF TryNode, RejectNode, envVars, watchVars
  <2>3. CASE TakeNode
    <3>1. CASE provider = "cosmos"
      BY <1>10, <2>0, <2>3, <3>1 DEF TryNode, TakeNode, envVars, nodeVars, watchVars
    <3>2. CASE provider = "gno"
      BY <1>10, <2>0, <2>3, <3>2, FlagTypes DEF TryNode, TakeNode, envVars, watchVars
    <3>3. QED BY <2>3, <3>1, <3>2 DEF TakeNode
  <2>4. QED BY <1>10, <2>1, <2>2, <2>3 DEF TryNode
<1>11. ASSUME EndReject PROVE TypeOK'
  <2>1. at \in Nodes /\ at + 1 \in 1..(NumNodes + 1)
    BY <1>11, NextNode DEF EndReject
  <2>2. QED
    BY <1>11, <2>1, FlagTypes DEF EndReject, envVars, watchVars
<1>12. ASSUME EndTake PROVE TypeOK'
  BY <1>12, FlagTypes DEF EndTake, envVars, watchVars
<1>13. ASSUME GiveUp PROVE TypeOK'
  <2>1. any' \in BOOLEAN /\ noNodes' \in BOOLEAN /\ spent' \in BOOLEAN
    BY <1>13 DEF GiveUp
  <2>2. QED
    BY <1>13, <2>1, FirstNode DEF GiveUp, envVars, nodeVars, watchVars
<1>14. ASSUME StreamEnds PROVE TypeOK'
  BY <1>14, FirstNode DEF StreamEnds, envVars, nodeVars, watchVars
<1>15. ASSUME WatchNoNodes PROVE TypeOK'
  BY <1>15 DEF WatchNoNodes, envVars, nodeVars, runVars
<1>16. CASE UNCHANGED vars
  BY <1>16 DEF vars, envVars, nodeVars, runVars, watchVars
<1>17. QED
  BY <1>1, <1>2, <1>3, <1>4, <1>5, <1>6, <1>7, <1>8, <1>9, <1>10, <1>11, <1>12,
     <1>13, <1>14, <1>15, <1>16
  DEF Next, CheckSteps, WatchSteps, RunSteps

\* Every reachable state is well typed.
THEOREM HealthTypeCorrect == Spec => []TypeOK
<1>1. Init => TypeOK
  BY TypeInit
<1>2. TypeOK /\ [Next]_vars => TypeOK'
  BY TypeStep
<1>3. QED
  BY <1>1, <1>2, PTL DEF Spec

-----------------------------------------------------------------------------
(* The recoveries that open alarms wait for *)

Remembered(n) == down[n] \/ wasDown[n] \/ n \in crossed

\* What it takes that a recovery is remembered when a check resets the flag:
\* the check has noted it, or the failure after the check's reading is known.
\* And watch() may be about to announce only what can still be resolved.
RecoveryInv ==
  provider = "cosmos" =>
    /\ \A n \in open \ orphan : Remembered(n)
    /\ \A n \in AlertIfDown :
         /\ (check[n] = "found" /\ down[n]) => (wasDown[n] \/ n \in crossed)
         /\ seen[n] = "down" => Remembered(n)

\* A process that starts has the nodes of the open alarms down, or these
\* alarms are orphans.
LEMMA RecoveryInit == Init => RecoveryInv
<1> SUFFICES ASSUME Init PROVE RecoveryInv
  OBVIOUS
<1>1. PICK nodes \in SUBSET Nodes :
        Restore(nodes) /\ open \in SUBSET AlertIfDown /\ orphan = open \ nodes
  BY DEF Init
<1>2. \A n \in open \ orphan : n \in nodes /\ down[n]
  BY <1>1, Zenon DEF Restore
<1>3. \A n \in AlertIfDown : check[n] = "idle" /\ seen[n] = "nothing"
  BY HealthAssumption DEF Init, HealthAssumption
<1>4. QED
  BY <1>2, <1>3 DEF RecoveryInv, Remembered

\* A node that fails is remembered for being down, and another failure of it
\* for having crossed the check.
LEMMA SetDownRemembers ==
  ASSUME TypeOK, RecoveryInv, NEW n \in Nodes, SetDown(n),
         UNCHANGED <<provider, open, orphan, seen>>,
         \A m \in Nodes : check'[m] = "found" => check[m] = "found"
  PROVE  RecoveryInv'
<1>1. /\ \A m \in Nodes : down'[m] <=> (down[m] \/ m = n)
      /\ crossed \subseteq crossed' /\ UNCHANGED wasDown
      /\ \A m \in AlertIfDown : (m = n /\ ~down[m] /\ check[m] = "found") => m \in crossed'
  BY DEF TypeOK, SetDown
<1>2. AlertIfDown \subseteq Nodes /\ open \subseteq AlertIfDown
  BY HealthAssumption DEF HealthAssumption, TypeOK
<1>3. QED
  BY <1>1, <1>2, Zenon DEF RecoveryInv, Remembered

LEMMA ProviderKept == [Next]_vars => UNCHANGED provider
<1>1. \A n : (Flip(n) \/ Age(n) \/ CheckSteps(n) \/ WatchSteps(n)) => UNCHANGED provider
  BY DEF CheckSteps, WatchSteps, Flip, Age, Check, EndFailure, Recover, EndCheck, Look,
         WatchNode, envVars
<1>2. RunSteps \/ StreamEnds \/ WatchNoNodes => UNCHANGED provider
  BY DEF RunSteps, Begin, TryNode, EndReject, EndTake, GiveUp, StreamEnds, WatchNoNodes,
         envVars
<1>3. UNCHANGED vars => UNCHANGED provider
  BY DEF vars, envVars
<1>4. QED BY <1>1, <1>2, <1>3 DEF Next

LEMMA RecoveryStep == TypeOK /\ RecoveryInv /\ [Next]_vars => RecoveryInv'
<1> SUFFICES ASSUME TypeOK, RecoveryInv, [Next]_vars PROVE RecoveryInv'
  OBVIOUS
<1>c. UNCHANGED provider
  BY ProviderKept
<1> SUFFICES ASSUME provider = "cosmos" PROVE RecoveryInv'
  BY <1>c DEF RecoveryInv
<1>0. AlertIfDown \subseteq Nodes /\ open \subseteq AlertIfDown
  BY HealthAssumption DEF HealthAssumption, TypeOK
<1>1. ASSUME NEW n \in Nodes, Check(n) PROVE RecoveryInv'
  <2>0. UNCHANGED <<provider, open, orphan, seen>>
    BY <1>1 DEF Check, envVars, watchVars
  <2>1. CASE HealthOK(n)
    \* the recovery of a node that is down is noted before anything else
    <3>1. /\ UNCHANGED down
          /\ \A m \in AlertIfDown : wasDown'[m] <=> (wasDown[m] \/ (m = n /\ down[m]))
          /\ \A m \in Nodes : m \in crossed' <=> (m \in crossed /\ ~(m = n /\ down[m]))
          /\ \A m \in Nodes : m # n => check'[m] = check[m]
      BY <1>0, <2>1 DEF TypeOK, HealthOK, Goes
    <3>2. QED
      BY <1>0, <2>0, <3>1, Zenon DEF RecoveryInv, Remembered
  <2>2. CASE HealthBad(n)
    <3>1. \A m \in Nodes : check'[m] = "found" => check[m] = "found"
      BY <2>2 DEF TypeOK, HealthBad, Goes
    <3>2. QED
      BY <2>0, <2>2, <3>1, SetDownRemembers DEF HealthBad
  <2>3. QED BY <1>1, <2>1, <2>2 DEF Check
<1>2. ASSUME NEW n \in Nodes, Recover(n) PROVE RecoveryInv'
  <2>1. /\ UNCHANGED <<provider, open, orphan, seen, wasDown, crossed>>
        /\ check[n] = "found"
        /\ \A m \in Nodes : down'[m] <=> (down[m] /\ m # n)
        /\ \A m \in Nodes : m # n => check'[m] = check[m]
        /\ check'[n] = "reset"
    BY <1>2 DEF TypeOK, Recover, SetUp, Goes, envVars, watchVars
  <2>2. QED
    BY <1>0, <2>1, Zenon DEF RecoveryInv, Remembered
<1>3. ASSUME NEW n \in Nodes, WatchNode(n) PROVE RecoveryInv'
  <2>0. /\ UNCHANGED <<provider, down, check>>
        /\ \A m \in Nodes : seen'[m] = "down" => (seen[m] = "down" /\ m # n)
    BY <1>3 DEF TypeOK, WatchNode, envVars
  <2>1. CASE FireNode(n)
    \* an alarm is opened for a node that is, or was just, down
    <3>1. /\ UNCHANGED <<wasDown, crossed>>
          /\ seen[n] = "down"
          /\ \A m \in open' \ orphan' : m \in open \ orphan \/ m = n
      BY <2>1 DEF FireNode
    <3>2. QED
      BY <1>0, <2>0, <3>1, Zenon DEF RecoveryInv, Remembered, TypeOK
  <2>2. CASE ResolveNode(n)
    \* and closed for good
    <3>1. /\ \A m \in Nodes : m # n => wasDown'[m] = wasDown[m]
          /\ crossed \subseteq crossed' /\ (check[n] = "found" => n \in crossed')
          /\ \A m \in open' \ orphan' : m \in open \ orphan /\ m # n
      BY <2>2 DEF TypeOK, ResolveNode
    <3>2. QED
      BY <1>0, <2>0, <3>1, Zenon DEF RecoveryInv, Remembered
  <2>3. QED BY <1>3, <2>1, <2>2 DEF WatchNode
<1>4. ASSUME NEW n \in Nodes, Look(n) PROVE RecoveryInv'
  <2>1. /\ UNCHANGED <<provider, open, orphan, down, wasDown, crossed, check>>
        /\ \A m \in Nodes : seen'[m] = "down" => (seen[m] = "down" \/ down[m])
    BY <1>4 DEF TypeOK, Look, envVars, nodeVars
  <2>2. QED
    BY <1>0, <2>1, Zenon DEF RecoveryInv, Remembered
<1>5. ASSUME TryNode PROVE RecoveryInv'
  <2>0. UNCHANGED <<provider, open, orphan, seen, check>>
    BY <1>5 DEF TryNode, envVars, watchVars
  <2>1. CASE RejectNode
    BY <2>0, <2>1, SetDownRemembers DEF RejectNode, Trying
  <2>2. CASE SkipNode \/ TakeNode
    \* newRpc leaves the flags of the node it takes alone
    <3>1. UNCHANGED <<down, wasDown, crossed>>
      BY <2>2 DEF SkipNode, TakeNode, nodeVars
    <3>2. QED BY <2>0, <3>1 DEF RecoveryInv, Remembered
  <2>3. QED BY <1>5, <2>1, <2>2 DEF TryNode
<1>6. ASSUME NEW n \in Nodes, EndFailure(n) \/ EndCheck(n) PROVE RecoveryInv'
  <2>1. /\ UNCHANGED <<provider, open, orphan, down, wasDown, crossed, seen>>
        /\ \A m \in Nodes : check'[m] = "found" => check[m] = "found"
    BY <1>6 DEF TypeOK, EndFailure, EndCheck, Goes, envVars, watchVars
  <2>2. QED
    BY <1>0, <2>1, Zenon DEF RecoveryInv, Remembered
<1>7. CASE \/ \E n \in Nodes : Flip(n) \/ Age(n)
           \/ Begin \/ EndReject \/ EndTake \/ GiveUp \/ StreamEnds \/ WatchNoNodes
           \/ UNCHANGED vars
  <2>1. UNCHANGED <<provider, open, orphan, down, wasDown, crossed, seen, check>>
    BY <1>7 DEF Flip, Age, Begin, EndReject, EndTake, GiveUp, StreamEnds, WatchNoNodes,
                vars, envVars, nodeVars, watchVars
  <2>2. QED BY <2>1 DEF RecoveryInv, Remembered
<1>8. QED
  BY <1>1, <1>2, <1>3, <1>4, <1>5, <1>6, <1>7 DEF Next, CheckSteps, WatchSteps, RunSteps

\* With the cosmos provider an open node-down alarm is remembered: its node is
\* down, or watch() will find the recovery noted, unless the node failed again
\* after a check had read its flag and before it reset it.
THEOREM RecoveryAlwaysRemembered == Spec => []RecoveryRemembered
<1>1. Init => TypeOK /\ RecoveryInv
  BY TypeInit, RecoveryInit
<1>2. TypeOK /\ RecoveryInv /\ [Next]_vars => (TypeOK /\ RecoveryInv)'
  BY TypeStep, RecoveryStep
<1>3. RecoveryInv => RecoveryRemembered
  BY DEF RecoveryInv, Remembered, RecoveryRemembered
<1>4. QED
  BY <1>1, <1>2, <1>3, PTL DEF Spec

-----------------------------------------------------------------------------
(* The time of an outage *)

\* A process that starts has restored downSince with down; where that is 1970
\* the node counts as overtaken.
LEMMA TimedInit == Init => OutageIsTimed
<1> SUFFICES ASSUME Init, NEW n \in AlertIfDown \ overtaken, down[n]
             PROVE  since[n] \in {"fresh", "old"}
  BY DEF OutageIsTimed
<1>0. n \in Nodes
  BY HealthAssumption DEF HealthAssumption
<1>1. PICK nodes \in SUBSET Nodes : Restore(nodes)
  BY DEF Init
<1>2. n \in nodes /\ wasDown[n]
  BY <1>0, <1>1, Zenon DEF Restore
<1>3. since[n] \in Times /\ since[n] # "zero" /\ since[n] # "epoch"
  BY <1>0, <1>1, <1>2 DEF Restore, Times
<1>4. QED BY <1>3 DEF Times

\* Whoever finds a node that was up to be down is about to set downSince.
LEMMA SetDownTimes ==
  ASSUME TypeOK, OutageIsTimed, NEW n \in Nodes, SetDown(n),
         UNCHANGED since,
         \A m \in AlertIfDown : BeingMarked(m) => BeingMarked(m)',
         ToBeTimed(n) => BeingMarked(n)'
  PROVE  OutageIsTimed'
<1> SUFFICES ASSUME NEW m \in AlertIfDown \ overtaken, down'[m], ~BeingMarked(m)'
             PROVE  since[m] \in {"fresh", "old"}
  BY DEF OutageIsTimed, SetDown
<1>1. m \in Nodes
  BY HealthAssumption DEF HealthAssumption
<1>2. down[m]
  <2>1. CASE m = n
    BY <2>1 DEF ToBeTimed
  <2>2. CASE m # n
    BY <1>1, <2>2 DEF TypeOK, SetDown
  <2>3. QED BY <2>1, <2>2
<1>3. QED
  BY <1>2 DEF OutageIsTimed

\* The second write of a failure times the outage.
LEMMA SetSinceTimes ==
  ASSUME TypeOK, OutageIsTimed, NEW n \in Nodes, SetSince(n), UNCHANGED down,
         \A m \in Nodes : m # n /\ BeingMarked(m) => BeingMarked(m)'
  PROVE  OutageIsTimed'
<1> SUFFICES ASSUME NEW m \in AlertIfDown \ overtaken', down[m], ~BeingMarked(m)'
             PROVE  since'[m] \in {"fresh", "old"}
  BY DEF OutageIsTimed
<1>1. m \in Nodes
  BY HealthAssumption DEF HealthAssumption
<1>2. CASE m = n
  BY <1>1, <1>2 DEF TypeOK, SetSince
<1>3. CASE m # n
  BY <1>1, <1>3 DEF TypeOK, SetSince, OutageIsTimed
<1>4. QED BY <1>2, <1>3

\* Whoever resets downSince overtakes the node if it is down.
LEMMA ResetSinceTimes ==
  ASSUME TypeOK, OutageIsTimed, NEW n, ResetSince(n), UNCHANGED down,
         \A m \in Nodes : BeingMarked(m) => BeingMarked(m)'
  PROVE  OutageIsTimed'
<1> SUFFICES ASSUME NEW m \in AlertIfDown \ overtaken', down[m], ~BeingMarked(m)'
             PROVE  since'[m] \in {"fresh", "old"}
  BY DEF OutageIsTimed
<1>1. m \in Nodes /\ m \notin overtaken /\ m # n
  BY HealthAssumption DEF HealthAssumption, ResetSince
<1>2. QED
  BY <1>1 DEF TypeOK, OutageIsTimed, ResetSince

\* A node that is up is not being timed.
LEMMA SetUpUntimed ==
  ASSUME TypeOK, OutageIsTimed, NEW n \in Nodes, SetUp(n), UNCHANGED since,
         \A m \in Nodes : BeingMarked(m) => BeingMarked(m)'
  PROVE  OutageIsTimed'
<1> SUFFICES ASSUME NEW m \in AlertIfDown \ overtaken', down'[m], ~BeingMarked(m)'
             PROVE  since[m] \in {"fresh", "old"}
  BY DEF OutageIsTimed
<1>1. m \in Nodes
  BY HealthAssumption DEF HealthAssumption
<1>2. m # n /\ down[m] /\ m \notin overtaken
  BY <1>1 DEF TypeOK, SetUp
<1>3. QED BY <1>1, <1>2 DEF OutageIsTimed

LEMMA TimedStep == TypeOK /\ OutageIsTimed /\ [Next]_vars => OutageIsTimed'
<1> SUFFICES ASSUME TypeOK, OutageIsTimed, [Next]_vars PROVE OutageIsTimed'
  OBVIOUS
<1>0. AlertIfDown \subseteq Nodes
  BY HealthAssumption DEF HealthAssumption
<1>1. ASSUME NEW n \in Nodes, Age(n) PROVE OutageIsTimed'
  <2>1. UNCHANGED <<down, overtaken, check, run, at>>
    BY <1>1 DEF Age, runVars
  <2>2. \A m \in AlertIfDown : since[m] \in {"fresh", "old"} => since'[m] \in {"fresh", "old"}
    BY <1>0, <1>1 DEF TypeOK, Age
  <2>3. QED
    BY <2>1, <2>2 DEF OutageIsTimed, BeingMarked
<1>2. ASSUME NEW n \in Nodes, Check(n) PROVE OutageIsTimed'
  <2>0. UNCHANGED <<run, at>> /\ check[n] = "idle"
    BY <1>2 DEF Check, runVars
  <2>1. CASE HealthOK(n)
    <3>1. \A m \in Nodes : BeingMarked(m) => BeingMarked(m)'
      BY <2>0, <2>1 DEF TypeOK, HealthOK, Goes, BeingMarked
    <3>2. QED
      BY <1>0, <2>1, <3>1 DEF OutageIsTimed, HealthOK
  <2>2. CASE HealthBad(n)
    <3>1. \A m \in Nodes : BeingMarked(m) => BeingMarked(m)'
      BY <2>0, <2>2 DEF TypeOK, HealthBad, Goes, BeingMarked
    <3>2. ToBeTimed(n) => BeingMarked(n)'
      BY <2>2 DEF TypeOK, HealthBad, Goes, BeingMarked
    <3>3. SetDown(n) /\ UNCHANGED since
      BY <2>2 DEF HealthBad, SetDown
    <3>4. QED
      BY <1>0, <3>1, <3>2, <3>3, SetDownTimes
  <2>3. QED BY <1>2, <2>1, <2>2 DEF Check
<1>3. ASSUME NEW n \in Nodes, EndFailure(n) PROVE OutageIsTimed'
  <2>1. \A m \in Nodes : m # n /\ BeingMarked(m) => BeingMarked(m)'
    BY <1>3 DEF TypeOK, EndFailure, Goes, BeingMarked, runVars
  <2>2. QED
    BY <1>3, <2>1, SetSinceTimes DEF EndFailure
<1>4. ASSUME NEW n \in Nodes, Recover(n) PROVE OutageIsTimed'
  <2>1. \A m \in Nodes : BeingMarked(m) => BeingMarked(m)'
    BY <1>4 DEF TypeOK, Recover, Goes, BeingMarked, runVars
  <2>2. QED
    BY <1>4, <2>1, SetUpUntimed DEF Recover
<1>5. ASSUME NEW n \in Nodes, EndCheck(n) PROVE OutageIsTimed'
  <2>1. \A m \in Nodes : BeingMarked(m) => BeingMarked(m)'
    BY <1>5 DEF TypeOK, EndCheck, Goes, BeingMarked, runVars
  <2>2. QED
    BY <1>5, <2>1, ResetSinceTimes DEF EndCheck
<1>6. ASSUME TryNode PROVE OutageIsTimed'
  <2>0. run = "try" /\ at \in Nodes /\ UNCHANGED check
    BY <1>6 DEF TryNode, SkipNode, RejectNode, TakeNode, Trying
  <2>1. \A m \in Nodes : BeingMarked(m) => BeingMarked(m)'
    BY <2>0 DEF BeingMarked
  <2>2. CASE SkipNode
    BY <1>0, <2>1, <2>2 DEF OutageIsTimed, SkipNode, nodeVars
  <2>3. CASE RejectNode
    <3>1. PICK n \in Nodes : n = at
      BY <2>0
    <3>2. ToBeTimed(n) => BeingMarked(n)'
      BY <2>3, <3>1 DEF RejectNode, BeingMarked
    <3>3. SetDown(n) /\ UNCHANGED since
      BY <2>3, <3>1 DEF RejectNode, SetDown
    <3>4. QED
      BY <1>0, <2>1, <3>2, <3>3, SetDownTimes
  <2>4. CASE TakeNode
    <3>1. CASE provider = "cosmos"
      BY <1>0, <2>1, <2>4, <3>1 DEF OutageIsTimed, TakeNode, nodeVars
    <3>2. CASE provider = "gno"
      BY <2>0, <2>1, <2>4, <3>2, SetUpUntimed DEF TakeNode
    <3>3. QED BY <2>4, <3>1, <3>2 DEF TakeNode
  <2>5. QED BY <1>6, <2>2, <2>3, <2>4 DEF TryNode
<1>7. ASSUME EndReject PROVE OutageIsTimed'
  <2>1. at \in Nodes
    BY <1>7 DEF EndReject, TypeOK
  <2>2. \A m \in Nodes : m # at /\ BeingMarked(m) => BeingMarked(m)'
    BY <1>7 DEF EndReject, BeingMarked
  <2>3. QED
    BY <1>7, <2>1, <2>2, SetSinceTimes DEF EndReject
<1>8. ASSUME EndTake PROVE OutageIsTimed'
  <2>1. \A m \in Nodes : BeingMarked(m) => BeingMarked(m)'
    BY <1>8 DEF EndTake, BeingMarked
  <2>2. QED
    BY <1>8, <2>1, ResetSinceTimes DEF EndTake
<1>9. CASE \/ \E n \in Nodes : Flip(n) \/ WatchSteps(n)
           \/ Begin \/ GiveUp \/ StreamEnds \/ WatchNoNodes \/ UNCHANGED vars
  <2>1. /\ UNCHANGED <<down, since, overtaken, check>>
        /\ UNCHANGED <<run, at>> \/ run # "mark"
    BY <1>9 DEF Flip, WatchSteps, Look, WatchNode, Begin, GiveUp, StreamEnds,
                WatchNoNodes, vars, nodeVars, runVars
  <2>2. QED BY <2>1 DEF OutageIsTimed, BeingMarked
<1>10. QED
  BY <1>1, <1>2, <1>3, <1>4, <1>5, <1>6, <1>7, <1>8, <1>9
  DEF Next, CheckSteps, RunSteps

\* An outage is timed from its beginning: downSince is of the outage that is,
\* once both flags are written and unless the node was set down between the
\* two writes of its recovery.
THEOREM OutageAlwaysTimed == Spec => []OutageIsTimed
<1>1. Init => TypeOK /\ OutageIsTimed
  BY TypeInit, TimedInit
<1>2. TypeOK /\ OutageIsTimed /\ [Next]_vars => (TypeOK /\ OutageIsTimed)'
  BY TypeStep, TimedStep
<1>3. QED
  BY <1>1, <1>2, PTL DEF Spec
=============================================================================
