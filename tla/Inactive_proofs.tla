--------------------------- MODULE Inactive_proofs ---------------------------
(***************************************************************************)
(* Proofs about the inactive alarm, for one provider or both: that it is   *)
(* not raised falsely, and that it stands exactly while the validator is   *)
(* known to be out of the set.                                             *)
(***************************************************************************)
EXTENDS Inactive, TLAPS

-----------------------------------------------------------------------------
(* Type correctness *)

HistoryTyped ==
  /\ rested \in BOOLEAN /\ left \in BOOLEAN
  /\ failed \in BOOLEAN /\ excused \in BOOLEAN
  /\ rounds \in 0..2

ChainTyped ==
  /\ provider \in Providers
  /\ val \in {"bonded", "out", "tombstoned"}
  /\ provider = "gnoland" => val # "tombstoned"

InfoTyped ==
  /\ info \in Infos \cup {Nil}
  /\ last \in Infos \cup {Nil}
  /\ info = Nil => last = Nil

\* What TypeOK says of one refresh.
RefreshOK(r) ==
  /\ r.pc = "set" => provider = "gnoland"
  /\ r.pc = "signing" => provider = "cosmos"
  /\ r.pc \in {"set", "write", "signing"} => info # Nil
  /\ r.pc # "write" => ~r.failed

RefreshTyped ==
  /\ refresh \in [Refreshers -> RefreshStates]
  /\ \A g \in Refreshers : RefreshOK(refresh[g])

AlarmsTyped == alarms \subseteq BOOLEAN \X BOOLEAN

LEMMA TypeOKParts ==
  TypeOK <=> ChainTyped /\ InfoTyped /\ RefreshTyped /\ AlarmsTyped /\ HistoryTyped
<1>1. <<rested, left, failed, excused>> \in BOOLEAN \X BOOLEAN \X BOOLEAN \X BOOLEAN
        <=> /\ rested \in BOOLEAN /\ left \in BOOLEAN
            /\ failed \in BOOLEAN /\ excused \in BOOLEAN
  OBVIOUS
<1> QED
  BY <1>1 DEF TypeOK, ChainTyped, InfoTyped, RefreshTyped, RefreshOK, AlarmsTyped,
              HistoryTyped

LEMMA NilUnnamed == Nil \notin Infos
  BY InactiveAssumption DEF Infos

LEMMA BlankTyped == Blank \in Infos /\ Idle \in RefreshStates /\ RefreshOK(Idle)
  BY DEF Blank, Infos, Idle, RefreshStates, RefreshOK

LEMMA TypeInit == Init => TypeOK
<1> SUFFICES ASSUME Init PROVE TypeOK
  OBVIOUS
<1>1. RefreshTyped
  BY BlankTyped DEF Init, RefreshTyped
<1>2. ChainTyped /\ InfoTyped /\ AlarmsTyped
  BY DEF Init, ChainTyped, InfoTyped, AlarmsTyped
<1>3. HistoryTyped
  <2>1. rounds \in 0..2
    BY DEF Init
  <2> QED
    BY <2>1, Zenon DEF Init, HistoryTyped
<1> QED
  BY <1>1, <1>2, <1>3, TypeOKParts

\* A refresh moves on while valInfo is there and the chain type stays.
LEMMA StepTyped ==
  ASSUME RefreshTyped, NEW g \in Refreshers, NEW r \in RefreshStates,
         Step(g, r), RefreshOK(r)', provider' = provider,
         info # Nil => info' # Nil
  PROVE  RefreshTyped'
<1>1. refresh' = [refresh EXCEPT ![g] = r]
  BY DEF Step
<1>2. refresh' \in [Refreshers -> RefreshStates]
  BY <1>1 DEF RefreshTyped
<1>3. \A h \in Refreshers : refresh'[h] = IF h = g THEN r ELSE refresh[h]
  BY <1>1 DEF RefreshTyped
<1>4. \A h \in Refreshers : RefreshOK(refresh[h])'
  BY <1>3 DEF RefreshTyped, RefreshOK
<1> QED
  BY <1>2, <1>4 DEF RefreshTyped

LEMMA QueryTyped ==
  ASSUME TypeOK, NEW g \in Refreshers, Query(g)
  PROVE  TypeOK'
<1>1. Known \in Infos
  BY TypeOKParts, BlankTyped DEF InfoTyped, Known
<1>2. info' \in Infos /\ info' # Nil
  BY <1>1, NilUnnamed DEF Query, Infos
<1>3. PICK r \in RefreshStates : Step(g, r) /\ RefreshOK(r)'
  <2>1. provider' = provider /\ provider \in {"cosmos", "gnoland"}
    BY TypeOKParts, InactiveAssumption DEF Query, ChainTyped
  <2>2. (val = "bonded") \in BOOLEAN
    OBVIOUS
  <2>3. ASSUME NEW b \in BOOLEAN, NEW f \in BOOLEAN
        PROVE  /\ [pc |-> "write", bonded |-> b, failed |-> f] \in RefreshStates
               /\ RefreshOK([pc |-> "write", bonded |-> b, failed |-> f])'
    BY <1>2 DEF RefreshStates, RefreshOK
  <2>4. /\ [pc |-> "set", bonded |-> FALSE, failed |-> FALSE] \in RefreshStates
        /\ provider = "gnoland" =>
             RefreshOK([pc |-> "set", bonded |-> FALSE, failed |-> FALSE])'
    BY <1>2, <2>1 DEF RefreshStates, RefreshOK
  <2>5. CASE Step(g, [pc |-> "write", bonded |-> FALSE, failed |-> TRUE])
    BY <2>3, <2>5
  <2>6. CASE Step(g, IF provider = "cosmos"
                   THEN [pc |-> "write", bonded |-> val = "bonded", failed |-> FALSE]
                   ELSE [pc |-> "set", bonded |-> FALSE, failed |-> FALSE])
    <3>1. CASE provider = "cosmos"
      BY <2>2, <2>3, <2>6, <3>1
    <3>2. CASE provider = "gnoland"
      BY <2>4, <2>6, <3>2
    <3> QED
      BY <2>1, <3>1, <3>2
  <2> QED
    BY <2>5, <2>6 DEF Query
<1>4. RefreshTyped'
  BY <1>2, <1>3, StepTyped, TypeOKParts DEF Query
<1>5. ChainTyped' /\ InfoTyped' /\ AlarmsTyped' /\ HistoryTyped'
  BY <1>2, TypeOKParts DEF Query, Failing, ChainTyped, InfoTyped, AlarmsTyped, HistoryTyped
<1> QED
  BY <1>4, <1>5, TypeOKParts, PTL

LEMMA ActiveSetTyped ==
  ASSUME TypeOK, NEW g \in Refreshers, ActiveSet(g)
  PROVE  TypeOK'
<1>1. info # Nil /\ info \in Infos
  BY TypeOKParts DEF ActiveSet, InfoTyped, RefreshTyped, RefreshOK
<1>2. PICK b \in BOOLEAN, f \in BOOLEAN :
        Step(g, [pc |-> "write", bonded |-> b, failed |-> f])
  <2>1. (val = "bonded") \in BOOLEAN /\ info.bonded \in BOOLEAN
    BY <1>1 DEF Infos
  <2> QED
    BY <2>1 DEF ActiveSet
<1>3. /\ [pc |-> "write", bonded |-> b, failed |-> f] \in RefreshStates
      /\ RefreshOK([pc |-> "write", bonded |-> b, failed |-> f])'
  BY <1>1 DEF RefreshStates, RefreshOK, ActiveSet
<1>4. RefreshTyped'
  BY <1>1, <1>2, <1>3, StepTyped, TypeOKParts DEF ActiveSet
<1>5. ChainTyped' /\ InfoTyped' /\ AlarmsTyped' /\ HistoryTyped'
  BY TypeOKParts DEF ActiveSet, Failing, ChainTyped, InfoTyped, AlarmsTyped, HistoryTyped
<1> QED
  BY <1>4, <1>5, TypeOKParts, PTL

LEMMA WriteTyped ==
  ASSUME TypeOK, NEW g \in Refreshers, WriteBonded(g) \/ Signing(g)
  PROVE  TypeOK'
<1>1. info # Nil /\ info \in Infos
  BY TypeOKParts DEF WriteBonded, Signing, InfoTyped, RefreshTyped, RefreshOK
<1>2. info' \in Infos /\ info' # Nil
  <2>1. refresh[g].bonded \in BOOLEAN /\ (val = "tombstoned") \in BOOLEAN
    BY TypeOKParts DEF RefreshTyped, RefreshStates
  <2>2. \A b \in BOOLEAN : /\ [info EXCEPT !.bonded = b] \in Infos
                           /\ [info EXCEPT !.tombstoned = b] \in Infos
    BY <1>1 DEF Infos
  <2>3. CASE WriteBonded(g)
    BY <2>1, <2>2, <2>3, NilUnnamed DEF WriteBonded
  <2>4. CASE Signing(g)
    BY <1>1, <2>1, <2>2, <2>4, NilUnnamed DEF Signing
  <2> QED
    BY <2>3, <2>4
<1>3. PICK r \in RefreshStates : Step(g, r) /\ RefreshOK(r)'
  <2>1. Idle \in RefreshStates /\ RefreshOK(Idle)'
    BY DEF Idle, RefreshStates, RefreshOK
  <2>2. /\ [Idle EXCEPT !.pc = "signing"] \in RefreshStates
        /\ provider' = "cosmos" => RefreshOK([Idle EXCEPT !.pc = "signing"])'
    BY <1>2 DEF Idle, RefreshStates, RefreshOK
  <2> QED
    BY <2>1, <2>2 DEF WriteBonded, Signing
<1>4. RefreshTyped'
  BY <1>2, <1>3, StepTyped, TypeOKParts DEF WriteBonded, Signing
<1>5. ChainTyped' /\ InfoTyped' /\ AlarmsTyped'
  BY <1>2, TypeOKParts DEF WriteBonded, Signing, ChainTyped, InfoTyped, AlarmsTyped
<1>6. HistoryTyped'
  <2>1. (excused \/ Undone(g)) \in BOOLEAN /\ (excused \/ Mixed) \in BOOLEAN
    OBVIOUS
  <2> QED
    BY <2>1, TypeOKParts DEF WriteBonded, Signing, Failing, HistoryTyped
<1> QED
  BY <1>4, <1>5, <1>6, TypeOKParts, PTL

\* The health check or the runner begins.
LEMMA BeginTyped ==
  ASSUME TypeOK, Tick \/ Reconnect
  PROVE  TypeOK'
<1>1. PICK g \in Refreshers :
        ~Refreshing(g) /\ refresh' = [refresh EXCEPT ![g].pc = "query"]
  BY DEF Tick, Reconnect, Refreshers
<1>2. RefreshTyped'
  <2>1. /\ refresh[g] \in RefreshStates /\ ~refresh[g].failed
    BY <1>1, TypeOKParts DEF RefreshTyped, RefreshOK, Refreshing
  <2>2. PICK r \in RefreshStates : /\ r = [refresh[g] EXCEPT !.pc = "query"]
                                   /\ r.pc = "query"
                                   /\ r.failed = refresh[g].failed
    <3> DEFINE q == [refresh[g] EXCEPT !.pc = "query"]
    <3>1. q \in RefreshStates
      BY <2>1 DEF RefreshStates
    <3>2. q.pc = "query" /\ q.failed = refresh[g].failed
      BY <2>1 DEF RefreshStates
    <3> QED
      BY <3>1, <3>2
  <2>3. Step(g, r)
    BY <1>1, <2>2, TypeOKParts DEF Step, RefreshTyped
  <2>4. RefreshOK(r)'
    BY <2>1, <2>2 DEF RefreshOK
  <2> QED
    BY <2>3, <2>4, StepTyped, TypeOKParts DEF Tick, Reconnect
<1>3. ChainTyped' /\ InfoTyped' /\ AlarmsTyped'
  BY TypeOKParts DEF Tick, Reconnect, ChainTyped, InfoTyped, AlarmsTyped
<1>4. HistoryTyped'
  <2>1. CASE Tick
    <3>1. left' \in BOOLEAN /\ failed' \in BOOLEAN
      BY <2>1, TypeOKParts DEF Tick, RefreshTyped, RefreshStates
    <3>2. rounds' \in 0..2
      BY <2>1 DEF Tick
    <3> QED
      BY <2>1, <3>1, <3>2, TypeOKParts, Zenon DEF Tick, HistoryTyped
  <2>2. CASE Reconnect
    BY <2>2, TypeOKParts DEF Reconnect, HistoryTyped
  <2> QED
    BY <2>1, <2>2
<1> QED
  BY <1>2, <1>3, <1>4, TypeOKParts, PTL

LEMMA WatchTyped ==
  ASSUME TypeOK, Watch \/ ClearAll
  PROVE  TypeOK'
<1>1. AlarmsTyped'
  <2>1. CASE Watch
    <3>1. info \in Infos
      BY <2>1, TypeOKParts DEF Watch, InfoTyped
    <3>2. Message(info) \in BOOLEAN \X BOOLEAN
      BY <3>1 DEF Message, Infos
    <3> QED
      BY <2>1, <3>2, TypeOKParts DEF Watch, AlarmsTyped
  <2>2. CASE ClearAll
    BY <2>2 DEF ClearAll, AlarmsTyped
  <2> QED
    BY <2>1, <2>2
<1>2. ChainTyped' /\ InfoTyped' /\ RefreshTyped'
  BY TypeOKParts
     DEF Watch, ClearAll, infoVars, ChainTyped, InfoTyped, RefreshTyped, RefreshOK
<1>3. HistoryTyped'
  <2>1. (excused /\ ~Calm) \in BOOLEAN
    OBVIOUS
  <2> QED
    BY <2>1, TypeOKParts DEF Watch, ClearAll, HistoryTyped
<1> QED
  BY <1>1, <1>2, <1>3, TypeOKParts, PTL

LEMMA TypeStep == TypeOK /\ [Next]_vars => TypeOK'
<1> SUFFICES ASSUME TypeOK, [Next]_vars PROVE TypeOK'
  OBVIOUS
<1>1. CASE Change
  <2>1. ChainTyped' /\ HistoryTyped' /\ AlarmsTyped'
    BY <1>1, TypeOKParts DEF Change, ChainTyped, HistoryTyped, AlarmsTyped
  <2>2. InfoTyped' /\ RefreshTyped'
    BY <1>1, TypeOKParts DEF Change, infoVars, InfoTyped, RefreshTyped, RefreshOK
  <2> QED
    BY <2>1, <2>2, TypeOKParts, PTL
<1>2. CASE Tick \/ Reconnect
  BY <1>2, BeginTyped
<1>3. ASSUME NEW g \in Refreshers, Query(g) PROVE TypeOK'
  BY <1>3, QueryTyped
<1>4. ASSUME NEW g \in Refreshers, ActiveSet(g) PROVE TypeOK'
  BY <1>4, ActiveSetTyped
<1>5. ASSUME NEW g \in Refreshers, WriteBonded(g) \/ Signing(g) PROVE TypeOK'
  BY <1>5, WriteTyped
<1>6. CASE Watch \/ ClearAll
  BY <1>6, WatchTyped
<1>7. CASE Restart
  <2>1. InfoTyped' /\ ChainTyped' /\ AlarmsTyped'
    BY <1>7, BlankTyped, TypeOKParts
       DEF Restart, InfoTyped, ChainTyped, AlarmsTyped
  <2>3. HistoryTyped'
    <3>1. rounds' \in 0..2
      BY <1>7 DEF Restart
    <3> QED
      BY <1>7, <3>1, Zenon DEF Restart, HistoryTyped
  <2>2. RefreshTyped'
    <3>1. refresh' \in [Refreshers -> RefreshStates]
      BY <1>7, BlankTyped DEF Restart
    <3>2. \A g \in Refreshers : refresh'[g] = Idle
      BY <1>7 DEF Restart
    <3>3. \A g \in Refreshers : RefreshOK(refresh[g])'
      BY <3>2 DEF Idle, RefreshOK
    <3> QED
      BY <3>1, <3>3 DEF RefreshTyped
  <2> QED
    BY <2>1, <2>2, <2>3, TypeOKParts, PTL
<1>8. CASE UNCHANGED vars
  BY <1>8 DEF vars, infoVars, historyVars, TypeOK
<1> QED
  BY <1>1, <1>2, <1>3, <1>4, <1>5, <1>6, <1>7, <1>8 DEF Next

\* Type correctness: the two refreshes are in the places that their provider
\* has, and have something to write into (GetValInfo, GnoGetValInfo).
THEOREM InactiveTypeCorrect == Spec => []TypeOK
  BY TypeInit, TypeStep, PTL DEF Spec

-----------------------------------------------------------------------------
(* No false alarm.  Between two copies of the health check, a refresh that *)
(* succeeds while the validator is in the set finds it there, and one that *)
(* fails on its own hides the name for as long as valInfo may be wrong.    *)

\* Since the copy nothing has happened to the validator, and no answer from
\* before it is still to be written.
StillBonded ==
  (last # Nil /\ ~left) =>
    /\ val = "bonded"
    /\ \A g \in Refreshers :
         refresh[g].pc = "write" /\ ~refresh[g].failed => refresh[g].bonded

FailureNoted == ~failed => \A g \in Refreshers : ~refresh[g].failed

NoFailure ==
  (last # Nil /\ ~left /\ ~failed) => (last.bonded => info.bonded)

\* With one refresh since the copy, it is the health check's own.
OwnRefresh ==
  (last # Nil /\ rounds # 2) => rounds = 1 /\ ~Refreshing("runner")

OneRefresh ==
  (last # Nil /\ ~left /\ rounds # 2 /\ last.bonded) =>
    /\ info.bonded \/ (~info.named /\ ~Refreshing("health"))
    /\ refresh["health"].pc = "write" => refresh["health"].bonded \/ ~info.named

NoFalseInv ==
  TypeOK /\ StillBonded /\ FailureNoted /\ NoFailure /\ OwnRefresh /\ OneRefresh

LEMMA NoFalseInitially == Init => NoFalseInv
<1> SUFFICES ASSUME Init PROVE NoFalseInv
  OBVIOUS
<1>1. last = Nil /\ \A g \in Refreshers : ~refresh[g].failed
  BY DEF Init, Idle
<1> QED
  BY <1>1, TypeInit
     DEF NoFalseInv, StillBonded, FailureNoted, NoFailure, OwnRefresh, OneRefresh

\* The step of one refresh, seen from both.
LEMMA StepAt ==
  ASSUME TypeOK, NEW g \in Refreshers, NEW r, Step(g, r)
  PROVE  \A h \in Refreshers : refresh'[h] = IF h = g THEN r ELSE refresh[h]
  BY TypeOKParts DEF Step, RefreshTyped

\* While there is one refresh since the copy, it is the health check that
\* steps, and valInfo is still as it was copied where it matters.
LEMMA OneIsHealth ==
  ASSUME NoFalseInv, NEW g \in Refreshers, Refreshing(g),
         last # Nil, ~left, rounds # 2, last.bonded
  PROVE  g = "health" /\ info.bonded
<1>1. g = "health"
  BY DEF NoFalseInv, OwnRefresh, Refreshers
<1> QED
  BY <1>1 DEF NoFalseInv, OneRefresh

LEMMA RefreshersAre ==
  /\ "runner" \in Refreshers /\ "health" \in Refreshers
  /\ \A g \in Refreshers : g = "runner" \/ g = "health"
  BY DEF Refreshers

LEMMA QueryNoFalse ==
  ASSUME NoFalseInv, NEW g \in Refreshers, Query(g)
  PROVE  NoFalseInv'
<1>1. /\ TypeOK /\ TypeOK' /\ Refreshing(g) /\ refresh[g].pc = "query"
      /\ val' = val /\ last' = last /\ left' = left /\ rounds' = rounds
  BY QueryTyped DEF NoFalseInv, Query, Refreshing
<1>2. last # Nil => info # Nil /\ info \in Infos
  BY <1>1, TypeOKParts DEF InfoTyped
<1>3. PICK r : /\ Step(g, r)
               /\ \/ /\ r.pc = "write" /\ ~r.failed /\ r.bonded = (val = "bonded")
                     /\ failed' = failed
                  \/ r.pc = "set" /\ ~r.failed /\ failed' = failed
                  \/ r.pc = "write" /\ r.failed /\ failed' = TRUE
                     /\ info' = [Known EXCEPT !.named = FALSE]
  BY DEF Query, Failing
<1>4. \A h \in Refreshers : refresh'[h] = IF h = g THEN r ELSE refresh[h]
  BY <1>1, <1>3, StepAt
<1>5. last # Nil => info'.bonded = info.bonded
  BY <1>2 DEF Query, Known, Infos
<1>6. StillBonded'
  BY <1>1, <1>3, <1>4 DEF NoFalseInv, StillBonded
<1>7. FailureNoted'
  BY <1>3, <1>4 DEF NoFalseInv, FailureNoted
<1>8. NoFailure'
  BY <1>1, <1>3, <1>5 DEF NoFalseInv, NoFailure
<1>9. OwnRefresh'
  <2>1. Refreshing("runner")' => Refreshing("runner")
    BY <1>1, <1>4, RefreshersAre DEF Refreshing
  <2> QED
    BY <1>1, <2>1 DEF NoFalseInv, OwnRefresh
<1>10. OneRefresh'
  <2>1. SUFFICES ASSUME last # Nil, ~left, rounds # 2, last.bonded
                 PROVE  /\ info'.bonded
                        /\ refresh'["health"].pc = "write" =>
                             refresh'["health"].bonded \/ ~info'.named
    BY <1>1 DEF OneRefresh
  <2>2. g = "health" /\ info.bonded
    BY <1>1, <2>1, OneIsHealth
  <2>3. refresh'["health"] = r
    BY <1>4, <2>2
  <2>4. r.failed /\ info' = [Known EXCEPT !.named = FALSE] => ~info'.named
    BY <1>2, <2>1 DEF Known, Infos
  <2>5. val = "bonded"
    BY <2>1 DEF NoFalseInv, StillBonded
  <2> QED
    BY <1>3, <1>5, <2>1, <2>2, <2>3, <2>4, <2>5
<1> QED
  BY <1>1, <1>6, <1>7, <1>8, <1>9, <1>10 DEF NoFalseInv

LEMMA ActiveSetNoFalse ==
  ASSUME NoFalseInv, NEW g \in Refreshers, ActiveSet(g)
  PROVE  NoFalseInv'
<1>1. /\ TypeOK /\ TypeOK' /\ Refreshing(g)
      /\ val' = val /\ last' = last /\ left' = left /\ rounds' = rounds
      /\ info' = info
  BY ActiveSetTyped DEF NoFalseInv, ActiveSet, Refreshing
<1>2. PICK r : /\ Step(g, r) /\ r.pc = "write"
               /\ \/ ~r.failed /\ r.bonded = (val = "bonded") /\ failed' = failed
                  \/ r.failed /\ r.bonded = info.bonded /\ failed' = TRUE
  BY DEF ActiveSet, Failing
<1>3. \A h \in Refreshers : refresh'[h] = IF h = g THEN r ELSE refresh[h]
  BY <1>1, <1>2, StepAt
<1>4. StillBonded'
  BY <1>1, <1>2, <1>3 DEF NoFalseInv, StillBonded
<1>5. FailureNoted'
  BY <1>2, <1>3 DEF NoFalseInv, FailureNoted
<1>6. NoFailure'
  BY <1>1, <1>2 DEF NoFalseInv, NoFailure
<1>7. OwnRefresh'
  <2>1. Refreshing("runner")' => Refreshing("runner")
    BY <1>1, <1>3, RefreshersAre DEF Refreshing
  <2> QED
    BY <1>1, <2>1 DEF NoFalseInv, OwnRefresh
<1>8. OneRefresh'
  <2>1. SUFFICES ASSUME last # Nil, ~left, rounds # 2, last.bonded
                 PROVE  info.bonded /\ refresh'["health"].bonded
    BY <1>1 DEF OneRefresh
  <2>2. g = "health" /\ info.bonded
    BY <1>1, <2>1, OneIsHealth
  <2>3. val = "bonded"
    BY <2>1 DEF NoFalseInv, StillBonded
  <2> QED
    BY <1>2, <1>3, <2>2, <2>3
<1> QED
  BY <1>1, <1>4, <1>5, <1>6, <1>7, <1>8 DEF NoFalseInv

LEMMA WriteNoFalse ==
  ASSUME NoFalseInv, NEW g \in Refreshers, WriteBonded(g)
  PROVE  NoFalseInv'
<1>1. /\ TypeOK /\ TypeOK' /\ Refreshing(g) /\ refresh[g].pc = "write"
      /\ val' = val /\ last' = last /\ left' = left /\ rounds' = rounds
      /\ failed' = failed
  BY WriteTyped DEF NoFalseInv, WriteBonded, Refreshing
<1>2. /\ info # Nil /\ info \in Infos
      /\ info'.bonded = refresh[g].bonded /\ info'.named = info.named
  <2>1. info # Nil /\ info \in Infos
    BY <1>1, TypeOKParts DEF InfoTyped, RefreshTyped, RefreshOK
  <2> QED
    BY <2>1 DEF WriteBonded, Infos
<1>3. PICK r : /\ Step(g, r) /\ ~r.failed
               /\ \/ r.pc = "signing" /\ ~refresh[g].failed
                  \/ r.pc = "idle"
  BY DEF WriteBonded, Idle
<1>4. \A h \in Refreshers : refresh'[h] = IF h = g THEN r ELSE refresh[h]
  BY <1>1, <1>3, StepAt
<1>5. StillBonded'
  BY <1>1, <1>3, <1>4 DEF NoFalseInv, StillBonded
<1>6. FailureNoted'
  BY <1>1, <1>3, <1>4 DEF NoFalseInv, FailureNoted
<1>7. NoFailure'
  BY <1>1, <1>2 DEF NoFalseInv, NoFailure, StillBonded, FailureNoted
<1>8. OwnRefresh'
  <2>1. Refreshing("runner")' => Refreshing("runner")
    BY <1>1, <1>4, RefreshersAre DEF Refreshing
  <2> QED
    BY <1>1, <2>1 DEF NoFalseInv, OwnRefresh
<1>9. OneRefresh'
  <2>1. SUFFICES ASSUME last # Nil, ~left, rounds # 2, last.bonded
                 PROVE  /\ info'.bonded \/ (~info'.named /\ ~Refreshing("health")')
                        /\ refresh'["health"].pc # "write"
    BY <1>1 DEF OneRefresh
  <2>2. g = "health" /\ refresh'["health"] = r
    BY <1>1, <1>4, <2>1, OneIsHealth
  <2>3. refresh[g].bonded \/ ~info.named
    BY <1>1, <2>1, <2>2 DEF NoFalseInv, OneRefresh
  <2>4. ~refresh[g].failed => refresh[g].bonded
    BY <1>1, <2>1 DEF NoFalseInv, StillBonded
  <2> QED
    BY <1>2, <1>3, <2>2, <2>3, <2>4 DEF Refreshing
<1> QED
  BY <1>1, <1>5, <1>6, <1>7, <1>8, <1>9 DEF NoFalseInv

LEMMA SigningNoFalse ==
  ASSUME NoFalseInv, NEW g \in Refreshers, Signing(g)
  PROVE  NoFalseInv'
<1>1. /\ TypeOK /\ TypeOK' /\ Refreshing(g)
      /\ val' = val /\ last' = last /\ left' = left /\ rounds' = rounds
      /\ failed' = failed \/ failed' = TRUE
  BY WriteTyped DEF NoFalseInv, Signing, Refreshing, Failing
<1>2. info'.bonded = info.bonded
  <2>1. info \in Infos
    BY <1>1, TypeOKParts DEF InfoTyped, RefreshTyped, RefreshOK, Signing
  <2> QED
    BY <2>1 DEF Signing, Infos
<1>3. \A h \in Refreshers : refresh'[h] = IF h = g THEN Idle ELSE refresh[h]
  BY <1>1, StepAt DEF Signing
<1>4. Idle.pc = "idle" /\ ~Idle.failed
  BY DEF Idle
<1>5. StillBonded'
  BY <1>1, <1>3, <1>4 DEF NoFalseInv, StillBonded
<1>6. FailureNoted'
  BY <1>1, <1>3, <1>4 DEF NoFalseInv, FailureNoted
<1>7. NoFailure'
  BY <1>1, <1>2 DEF NoFalseInv, NoFailure
<1>8. OwnRefresh'
  <2>1. Refreshing("runner")' => Refreshing("runner")
    BY <1>1, <1>3, RefreshersAre DEF Refreshing
  <2> QED
    BY <1>1, <2>1 DEF NoFalseInv, OwnRefresh
<1>9. OneRefresh'
  <2>1. SUFFICES ASSUME last # Nil, ~left, rounds # 2, last.bonded
                 PROVE  info'.bonded /\ refresh'["health"].pc # "write"
    BY <1>1 DEF OneRefresh
  <2>2. g = "health" /\ info.bonded
    BY <1>1, <2>1, OneIsHealth
  <2> QED
    BY <1>2, <1>3, <1>4, <2>2
<1> QED
  BY <1>1, <1>5, <1>6, <1>7, <1>8, <1>9 DEF NoFalseInv

LEMMA BeginNoFalse ==
  ASSUME NoFalseInv, Tick \/ Reconnect
  PROVE  NoFalseInv'
<1>1. TypeOK /\ TypeOK' /\ val' = val /\ info' = info
  BY BeginTyped DEF NoFalseInv, Tick, Reconnect
<1>2. PICK g \in Refreshers :
        /\ ~Refreshing(g) /\ refresh' = [refresh EXCEPT ![g].pc = "query"]
        /\ (Tick /\ g = "health") \/ (Reconnect /\ g = "runner")
  <2>1. CASE Tick
    <3>1. /\ ~Refreshing("health")
          /\ refresh' = [refresh EXCEPT !["health"].pc = "query"]
      BY <2>1 DEF Tick
    <3> QED
      BY <2>1, <3>1, RefreshersAre
  <2>2. CASE Reconnect
    <3>1. /\ ~Refreshing("runner")
          /\ refresh' = [refresh EXCEPT !["runner"].pc = "query"]
      BY <2>2 DEF Reconnect
    <3> QED
      BY <2>2, <3>1, RefreshersAre
  <2> QED
    BY <2>1, <2>2
<1>3. /\ refresh'[g].pc = "query" /\ refresh'[g].failed = refresh[g].failed
      /\ \A h \in Refreshers \ {g} : refresh'[h] = refresh[h]
  BY <1>1, <1>2, TypeOKParts DEF RefreshTyped, RefreshStates
<1>4. CASE Tick
  <2>1. g = "health" /\ (last' # Nil => info # Nil /\ last' = info)
    BY <1>1, <1>2, <1>4, TypeOKParts DEF Tick, Reconnect, Refreshing, InfoTyped
  <2>2. StillBonded'
    BY <1>1, <1>3, <1>4 DEF StillBonded, Tick
  <2>3. FailureNoted'
    BY <1>3, <1>4 DEF FailureNoted, Tick
  <2>4. NoFailure'
    BY <1>1, <2>1 DEF NoFailure
  <2>5. OwnRefresh'
    <3>1. rounds' # 2 => rounds' = 1 /\ ~Refreshing("runner")
      BY <1>4 DEF Tick
    <3> QED
      BY <1>3, <2>1, <3>1, RefreshersAre DEF OwnRefresh, Refreshing
  <2>6. OneRefresh'
    BY <1>1, <1>3, <2>1 DEF OneRefresh
  <2> QED
    BY <1>1, <2>2, <2>3, <2>4, <2>5, <2>6 DEF NoFalseInv
<1>5. CASE Reconnect
  <2>1. last' = last /\ left' = left /\ failed' = failed
    BY <1>5 DEF Reconnect
  <2>2. StillBonded'
    BY <1>1, <1>3, <2>1 DEF NoFalseInv, StillBonded
  <2>3. FailureNoted'
    BY <1>3, <2>1 DEF NoFalseInv, FailureNoted
  <2>4. NoFailure'
    BY <1>1, <2>1 DEF NoFalseInv, NoFailure
  <2>5. last' # Nil => rounds' = 2
    BY <1>5, <2>1 DEF NoFalseInv, OwnRefresh, Reconnect
  <2> QED
    BY <1>1, <2>2, <2>3, <2>4, <2>5 DEF NoFalseInv, OwnRefresh, OneRefresh
<1> QED
  BY <1>4, <1>5

\* A step that leaves both copies, the refreshes and the chain alone.
LEMMA KeepsNoFalse ==
  ASSUME NoFalseInv, TypeOK', UNCHANGED <<val, infoVars, left, failed, rounds>>
  PROVE  NoFalseInv'
<1>1. \A g \in Refreshers : Refreshing(g)' <=> Refreshing(g)
  BY DEF Refreshing, infoVars
<1> QED
  BY <1>1, RefreshersAre
     DEF infoVars, NoFalseInv, StillBonded, FailureNoted, NoFailure, OwnRefresh, OneRefresh

LEMMA NoFalseStep == NoFalseInv /\ [Next]_vars => NoFalseInv'
<1> SUFFICES ASSUME NoFalseInv, [Next]_vars PROVE NoFalseInv'
  OBVIOUS
<1>1. TypeOK /\ TypeOK'
  BY TypeStep DEF NoFalseInv
<1>2. CASE Change
  <2>1. left' /\ UNCHANGED <<infoVars, failed, rounds>>
    BY <1>2 DEF Change
  <2>2. FailureNoted' /\ OwnRefresh'
    BY <2>1 DEF infoVars, NoFalseInv, FailureNoted, OwnRefresh, Refreshing
  <2> QED
    BY <1>1, <2>1, <2>2 DEF NoFalseInv, StillBonded, NoFailure, OneRefresh
<1>3. CASE Tick \/ Reconnect
  BY <1>3, BeginNoFalse
<1>4. ASSUME NEW g \in Refreshers, Query(g) PROVE NoFalseInv'
  BY <1>4, QueryNoFalse
<1>5. ASSUME NEW g \in Refreshers, ActiveSet(g) PROVE NoFalseInv'
  BY <1>5, ActiveSetNoFalse
<1>6. ASSUME NEW g \in Refreshers, WriteBonded(g) PROVE NoFalseInv'
  BY <1>6, WriteNoFalse
<1>7. ASSUME NEW g \in Refreshers, Signing(g) PROVE NoFalseInv'
  BY <1>7, SigningNoFalse
<1>8. CASE Watch \/ ClearAll
  BY <1>1, <1>8, KeepsNoFalse DEF Watch, ClearAll
<1>9. CASE Restart
  <2>1. last' = Nil /\ \A g \in Refreshers : refresh'[g] = Idle
    BY <1>9 DEF Restart
  <2>2. FailureNoted'
    BY <2>1 DEF FailureNoted, Idle
  <2> QED
    BY <1>1, <2>1, <2>2 DEF NoFalseInv, StillBonded, NoFailure, OwnRefresh, OneRefresh
<1>10. CASE UNCHANGED vars
  BY <1>1, <1>10, KeepsNoFalse DEF vars, historyVars
<1> QED
  BY <1>2, <1>3, <1>4, <1>5, <1>6, <1>7, <1>8, <1>9, <1>10 DEF Next

\* A step that raises the alarm is a look of watch() at two copies that differ.
LEMMA RaisedByWatch ==
  ASSUME [Next]_vars, Raised
  PROVE  Fires
<1>1. CASE Watch
  BY <1>1 DEF Watch, Raised
<1>2. CASE alarms' = alarms \/ alarms' = {}
  BY <1>2 DEF Raised
<1>3. Watch \/ alarms' = alarms \/ alarms' = {}
  BY DEF Next, Change, Tick, Reconnect, Query, ActiveSet, WriteBonded, Signing,
         ClearAll, Restart, vars
<1> QED
  BY <1>1, <1>2, <1>3

\* A validator that stays in the set is not reported inactive because one
\* refresh failed, with either provider (GetValInfo, GnoGetValInfo and
\* inactiveTransition), whichever way watch() falls between their writes.
THEOREM NeverFalselyInactive == Spec => NoFalseInactive
<1>1. NoFalseInv /\ [Next]_vars
        => (Raised => left \/ (failed /\ rounds = 2) \/ ~last.named)
  <2> SUFFICES ASSUME NoFalseInv, [Next]_vars, Raised, ~left, last.named
               PROVE  failed /\ rounds = 2
    OBVIOUS
  <2>1. last # Nil /\ last.bonded /\ ~info.bonded /\ info.named
    BY RaisedByWatch DEF Fires, Comparable
  <2>2. failed
    BY <2>1 DEF NoFalseInv, NoFailure
  <2>3. rounds = 2
    BY <2>1 DEF NoFalseInv, OneRefresh
  <2> QED
    BY <2>2, <2>3
<1> QED
  BY <1>1, NoFalseInitially, NoFalseStep, PTL DEF Spec, NoFalseInactive

-----------------------------------------------------------------------------
(* The alarm is exact.  From a calm moment on, the copy of the health check *)
(* and the alarm say together what valInfo said when watch() last looked.   *)

BothNamed == ~excused => last # Nil /\ info # Nil /\ last.named /\ info.named

Tombstoned == (info # Nil /\ info.tombstoned) => val = "tombstoned"

\* A tombstoned validator does not come back.
NoReturn ==
  (~excused /\ info.tombstoned) =>
    \A g \in Refreshers : refresh[g].pc = "write" => ~refresh[g].bonded

AlarmNames ==
  ~excused => /\ alarms \subseteq {<<TRUE, FALSE>>, <<TRUE, TRUE>>}
              /\ <<TRUE, TRUE>> \in alarms => info.tombstoned

\* The alarm is up to date whenever the rule sees no difference.
UpToDate ==
  ~excused =>
    /\ last.bonded = info.bonded \/ rested => (alarms # {} <=> ~info.bonded)
    /\ info.bonded /\ ~last.bonded => ~info.tombstoned

ExactInv == TypeOK /\ BothNamed /\ Tombstoned /\ NoReturn /\ AlarmNames /\ UpToDate

LEMMA ExactInitially == Init => ExactInv
<1> SUFFICES ASSUME Init PROVE ExactInv
  OBVIOUS
<1>1. excused /\ info = Nil
  BY DEF Init
<1> QED
  BY <1>1, TypeInit
     DEF ExactInv, BothNamed, Tombstoned, NoReturn, AlarmNames, UpToDate

\* Both copies are there, and what they say is Boolean.
LEMMA ExactTyped ==
  ASSUME ExactInv, ~excused
  PROVE  /\ info \in Infos /\ info.named /\ info.bonded \in BOOLEAN
         /\ info.tombstoned \in BOOLEAN /\ info # Nil
         /\ last \in Infos /\ last.named /\ last.bonded \in BOOLEAN /\ last # Nil
<1>1. info \in Infos /\ last \in Infos /\ info # Nil /\ last # Nil
  BY TypeOKParts DEF ExactInv, BothNamed, InfoTyped
<1>2. info.named /\ last.named
  BY DEF ExactInv, BothNamed
<1> QED
  BY <1>1, <1>2 DEF Infos

LEMMA QueryExact ==
  ASSUME ExactInv, NEW g \in Refreshers, Query(g)
  PROVE  ExactInv'
<1>1. /\ TypeOK /\ TypeOK' /\ val' = val /\ last' = last /\ alarms' = alarms
      /\ ~rested'
  BY QueryTyped DEF ExactInv, Query
<1>2. Tombstoned'
  <2>1. Known \in Infos /\ (Known.tombstoned => val = "tombstoned")
    BY TypeOKParts, BlankTyped DEF Known, ExactInv, Tombstoned, InfoTyped, Blank
  <2>2. info'.tombstoned = Known.tombstoned
    BY <2>1 DEF Query, Infos
  <2> QED
    BY <1>1, <2>1, <2>2 DEF Tombstoned
<1>3. CASE excused'
  BY <1>1, <1>2, <1>3 DEF ExactInv, BothNamed, NoReturn, AlarmNames, UpToDate
<1>4. CASE ~excused'
  <2>1. ~excused /\ info' = [info EXCEPT !.named = TRUE]
    BY <1>4, ExactTyped DEF Query, Failing, Known
  <2>2. /\ info'.named /\ info'.bonded = info.bonded
        /\ info'.tombstoned = info.tombstoned /\ info' # Nil
    BY <2>1, ExactTyped, NilUnnamed DEF Infos
  <2>3. PICK r : Step(g, r) /\ (r.pc = "write" => r.bonded = (val = "bonded"))
    BY <1>4 DEF Query, Failing
  <2>4. \A h \in Refreshers : refresh'[h] = IF h = g THEN r ELSE refresh[h]
    BY <1>1, <2>3, StepAt
  <2>5. BothNamed'
    BY <1>1, <2>1, <2>2 DEF ExactInv, BothNamed
  <2>6. NoReturn'
    BY <2>1, <2>2, <2>3, <2>4, ExactTyped DEF ExactInv, NoReturn, Tombstoned
  <2>7. AlarmNames' /\ UpToDate'
    BY <1>1, <2>1, <2>2 DEF ExactInv, AlarmNames, UpToDate
  <2> QED
    BY <1>1, <1>2, <2>5, <2>6, <2>7 DEF ExactInv
<1> QED
  BY <1>3, <1>4

LEMMA ActiveSetExact ==
  ASSUME ExactInv, NEW g \in Refreshers, ActiveSet(g)
  PROVE  ExactInv'
<1>1. /\ TypeOK /\ TypeOK' /\ val' = val /\ last' = last /\ alarms' = alarms
      /\ info' = info /\ rested' = rested
  BY ActiveSetTyped DEF ExactInv, ActiveSet
<1>2. Tombstoned'
  BY <1>1 DEF ExactInv, Tombstoned
<1>3. CASE excused'
  BY <1>1, <1>2, <1>3 DEF ExactInv, BothNamed, NoReturn, AlarmNames, UpToDate
<1>4. CASE ~excused'
  <2>1. ~excused
    BY <1>4 DEF ActiveSet, Failing
  <2>2. PICK r : Step(g, r) /\ r.bonded = (val = "bonded")
    BY <1>4 DEF ActiveSet, Failing
  <2>3. \A h \in Refreshers : refresh'[h] = IF h = g THEN r ELSE refresh[h]
    BY <1>1, <2>2, StepAt
  <2>4. NoReturn'
    BY <1>1, <2>1, <2>2, <2>3, ExactTyped DEF ExactInv, NoReturn, Tombstoned
  <2>5. BothNamed' /\ AlarmNames' /\ UpToDate'
    BY <1>1, <2>1 DEF ExactInv, BothNamed, AlarmNames, UpToDate
  <2> QED
    BY <1>1, <1>2, <2>4, <2>5 DEF ExactInv
<1> QED
  BY <1>3, <1>4

\* What is written differs from the copy, unless nothing changes: a change
\* that is taken back excuses.
LEMMA WriteExact ==
  ASSUME ExactInv, NEW g \in Refreshers, WriteBonded(g)
  PROVE  ExactInv'
<1>1. /\ TypeOK /\ TypeOK' /\ val' = val /\ last' = last /\ alarms' = alarms
      /\ ~rested' /\ refresh[g].pc = "write" /\ refresh[g].bonded \in BOOLEAN
  BY WriteTyped, TypeOKParts DEF ExactInv, WriteBonded, RefreshTyped, RefreshStates
<1>2. /\ info # Nil /\ info \in Infos
      /\ info'.bonded = refresh[g].bonded /\ info'.named = info.named
      /\ info'.tombstoned = info.tombstoned /\ info' # Nil
  <2>1. info # Nil /\ info \in Infos
    BY <1>1, TypeOKParts DEF InfoTyped, RefreshTyped, RefreshOK
  <2>2. info' \in Infos
    BY <1>1, <2>1 DEF WriteBonded, Infos
  <2> QED
    BY <2>1, <2>2, NilUnnamed DEF WriteBonded, Infos
<1>3. Tombstoned'
  BY <1>1, <1>2 DEF ExactInv, Tombstoned
<1>4. CASE excused'
  BY <1>1, <1>3, <1>4 DEF ExactInv, BothNamed, NoReturn, AlarmNames, UpToDate
<1>5. CASE ~excused'
  <2>1. ~excused /\ ~Undone(g)
    BY <1>5 DEF WriteBonded
  <2>2. refresh[g].bonded = info.bonded \/ refresh[g].bonded # last.bonded
    BY <2>1, ExactTyped DEF Undone
  <2>3. PICK r : Step(g, r) /\ r.pc # "write"
    BY DEF WriteBonded, Idle
  <2>4. \A h \in Refreshers : refresh'[h] = IF h = g THEN r ELSE refresh[h]
    BY <1>1, <2>3, StepAt
  <2>5. NoReturn'
    BY <1>2, <2>1, <2>3, <2>4 DEF ExactInv, NoReturn
  <2>6. BothNamed' /\ AlarmNames'
    BY <1>1, <1>2, <2>1 DEF ExactInv, BothNamed, AlarmNames
  <2>7. UpToDate'
    <3>1. CASE refresh[g].bonded = info.bonded
      BY <1>1, <1>2, <2>1, <3>1 DEF ExactInv, UpToDate
    <3>2. CASE refresh[g].bonded # info.bonded
      <4>1. last'.bonded # info'.bonded
        BY <1>1, <1>2, <2>2, <3>2
      <4>2. refresh[g].bonded => ~info.tombstoned
        BY <1>1, <2>1 DEF ExactInv, NoReturn
      <4> QED
        BY <1>1, <1>2, <4>1, <4>2 DEF UpToDate
    <3> QED
      BY <3>1, <3>2
  <2> QED
    BY <1>1, <1>3, <2>5, <2>6, <2>7 DEF ExactInv
<1> QED
  BY <1>4, <1>5

LEMMA SigningExact ==
  ASSUME ExactInv, NEW g \in Refreshers, Signing(g)
  PROVE  ExactInv'
<1>1. /\ TypeOK /\ TypeOK' /\ val' = val /\ last' = last /\ alarms' = alarms
      /\ ~rested'
      /\ \A h \in Refreshers : refresh'[h] = IF h = g THEN Idle ELSE refresh[h]
  BY WriteTyped, StepAt DEF ExactInv, Signing
<1>2. /\ info # Nil /\ info \in Infos /\ info' # Nil
      /\ info'.bonded = info.bonded /\ info'.named = info.named
      /\ info'.tombstoned = info.tombstoned \/ info'.tombstoned = (val = "tombstoned")
  <2>1. info # Nil /\ info \in Infos
    BY <1>1, TypeOKParts DEF InfoTyped, RefreshTyped, RefreshOK, Signing
  <2>2. (val = "tombstoned") \in BOOLEAN
    OBVIOUS
  <2>3. info' \in Infos
    BY <2>1, <2>2 DEF Signing, Infos
  <2> QED
    BY <2>1, <2>3, NilUnnamed DEF Signing, Infos
<1>3. Tombstoned'
  BY <1>1, <1>2 DEF ExactInv, Tombstoned
<1>4. CASE excused'
  BY <1>1, <1>3, <1>4 DEF ExactInv, BothNamed, NoReturn, AlarmNames, UpToDate
<1>5. CASE ~excused'
  <2>1. ~excused /\ ~Mixed /\ info'.tombstoned = (val = "tombstoned")
    BY <1>1, <1>2, <1>5 DEF Signing, Failing, Infos
  <2>2. info.tombstoned => info'.tombstoned
    BY <1>2, <2>1 DEF ExactInv, Tombstoned
  <2>3. NoReturn'
    <3>1. SUFFICES ASSUME info'.tombstoned, NEW h \in Refreshers,
                          refresh'[h].pc = "write"
                   PROVE  ~refresh'[h].bonded
      BY DEF NoReturn
    <3>2. h # g /\ refresh'[h] = refresh[h]
      BY <1>1, <3>1 DEF Idle
    <3>3. val = "tombstoned"
      BY <2>1, <3>1
    <3> QED
      BY <2>1, <3>1, <3>2, <3>3 DEF Mixed
  <2>4. BothNamed' /\ AlarmNames'
    BY <1>1, <1>2, <2>1, <2>2 DEF ExactInv, BothNamed, AlarmNames
  <2>5. UpToDate'
    BY <1>1, <1>2, <2>1 DEF ExactInv, UpToDate, Mixed
  <2> QED
    BY <1>1, <1>3, <2>3, <2>4, <2>5 DEF ExactInv
<1> QED
  BY <1>4, <1>5

LEMMA BeginExact ==
  ASSUME ExactInv, Tick \/ Reconnect
  PROVE  ExactInv'
<1>1. /\ TypeOK /\ TypeOK' /\ val' = val /\ info' = info /\ alarms' = alarms
      /\ excused' = excused /\ rested
  BY BeginTyped DEF ExactInv, Tick, Reconnect
<1>2. Tombstoned' /\ AlarmNames'
  BY <1>1 DEF ExactInv, Tombstoned, AlarmNames
<1>3. last' = last \/ last' = info
  BY DEF Tick, Reconnect
<1>4. BothNamed'
  BY <1>1, <1>3 DEF ExactInv, BothNamed
<1>5. NoReturn'
  <2>1. PICK g \in Refreshers : refresh' = [refresh EXCEPT ![g].pc = "query"]
    BY RefreshersAre DEF Tick, Reconnect
  <2>2. \A h \in Refreshers : IF h = g THEN refresh'[h].pc = "query"
                              ELSE refresh'[h] = refresh[h]
    BY <1>1, <2>1, TypeOKParts DEF RefreshTyped, RefreshStates
  <2> QED
    BY <1>1, <2>2 DEF ExactInv, NoReturn
<1>6. UpToDate'
  BY <1>1, <1>3 DEF ExactInv, UpToDate
<1> QED
  BY <1>1, <1>2, <1>4, <1>5, <1>6 DEF ExactInv

\* watch() sees the difference to the copy and brings the alarm up to date.
LEMMA WatchUpdates ==
  ASSUME ExactInv, Watch, ~excused
  PROVE  /\ alarms' # {} <=> ~info.bonded
         /\ alarms' \subseteq {<<TRUE, FALSE>>, <<TRUE, TRUE>>}
         /\ <<TRUE, TRUE>> \in alarms' => info.tombstoned
<1>1. /\ info.named /\ info.tombstoned \in BOOLEAN /\ info.bonded \in BOOLEAN
      /\ last.bonded \in BOOLEAN /\ last.named
      /\ info \in Infos /\ last \in Infos /\ Comparable
  BY ExactTyped DEF Comparable, Infos
<1>2. /\ alarms \subseteq {<<TRUE, FALSE>>, <<TRUE, TRUE>>}
      /\ <<TRUE, TRUE>> \in alarms => info.tombstoned
  BY DEF ExactInv, AlarmNames
<1>3. Message(info) = <<TRUE, info.tombstoned>>
  BY <1>1 DEF Message, Infos
<1>4. CASE last.bonded /\ ~info.bonded
  <2>1. Message(info) \in alarms' /\ alarms' \subseteq alarms \cup {Message(info)}
    BY <1>1, <1>4 DEF Watch, Fires, Resolves
  <2>2. CASE info.tombstoned
    <3>1. Message(info) = <<TRUE, TRUE>>
      BY <1>1, <1>3, <2>2
    <3> QED
      BY <1>2, <1>4, <2>1, <2>2, <3>1
  <2>3. CASE ~info.tombstoned
    <3>1. Message(info) = <<TRUE, FALSE>>
      BY <1>1, <1>3, <2>3
    <3>2. <<TRUE, TRUE>> # <<TRUE, FALSE>>
      OBVIOUS
    <3> QED
      BY <1>2, <1>4, <2>1, <2>3, <3>1, <3>2
  <2> QED
    BY <2>2, <2>3
<1>5. CASE ~last.bonded /\ info.bonded
  <2>1. ~info.tombstoned
    BY <1>5 DEF ExactInv, UpToDate
  <2>2. Message(info) = <<TRUE, FALSE>> /\ alarms \subseteq {Message(info)}
    BY <1>1, <1>2, <1>3, <2>1
  <2>3. alarms' = {}
    BY <1>1, <1>5, <2>2 DEF Watch, Fires, Resolves
  <2> QED
    BY <1>5, <2>3
<1>6. CASE last.bonded = info.bonded
  <2>1. alarms' = alarms
    BY <1>6 DEF Watch, Fires, Resolves
  <2> QED
    BY <1>2, <1>6, <2>1 DEF ExactInv, UpToDate
<1> QED
  BY <1>1, <1>4, <1>5, <1>6

LEMMA WatchExact ==
  ASSUME ExactInv, Watch
  PROVE  ExactInv'
<1>1. /\ TypeOK /\ TypeOK' /\ UNCHANGED <<val, infoVars>> /\ rested'
      /\ excused' = (excused /\ ~Calm)
  BY WatchTyped DEF ExactInv, Watch
<1>2. Tombstoned'
  BY <1>1 DEF ExactInv, Tombstoned, infoVars
<1>3. CASE excused'
  BY <1>1, <1>2, <1>3 DEF ExactInv, BothNamed, NoReturn, AlarmNames, UpToDate
<1>4. CASE ~excused
  <2>1. /\ alarms' # {} <=> ~info.bonded
        /\ alarms' \subseteq {<<TRUE, FALSE>>, <<TRUE, TRUE>>}
        /\ <<TRUE, TRUE>> \in alarms' => info.tombstoned
    BY <1>4, WatchUpdates
  <2>2. BothNamed' /\ NoReturn'
    BY <1>1, <1>4 DEF ExactInv, BothNamed, NoReturn, infoVars
  <2>3. AlarmNames' /\ UpToDate'
    BY <1>1, <1>4, <2>1 DEF ExactInv, AlarmNames, UpToDate, infoVars
  <2> QED
    BY <1>1, <1>2, <2>2, <2>3 DEF ExactInv
<1>5. CASE Calm
  <2>1. BothNamed'
    BY <1>1, <1>5 DEF Calm, BothNamed, infoVars
  <2>2. NoReturn'
    BY <1>1, <1>5 DEF Calm, NoReturn, Refreshing, infoVars
  <2>3. AlarmNames' /\ UpToDate'
    BY <1>1, <1>5 DEF Calm, AlarmNames, UpToDate, infoVars
  <2> QED
    BY <1>1, <1>2, <2>1, <2>2, <2>3 DEF ExactInv
<1> QED
  BY <1>1, <1>3, <1>4, <1>5

LEMMA ExactStep == ExactInv /\ [Next]_vars => ExactInv'
<1> SUFFICES ASSUME ExactInv, [Next]_vars PROVE ExactInv'
  OBVIOUS
<1>1. TypeOK /\ TypeOK'
  BY TypeStep DEF ExactInv
<1>2. CASE Change
  <2>1. /\ UNCHANGED <<infoVars, alarms, rested, excused>>
        /\ val # "tombstoned"
    BY <1>2 DEF Change
  <2>2. Tombstoned'
    BY <2>1 DEF ExactInv, Tombstoned, infoVars
  <2> QED
    BY <1>1, <2>1, <2>2 DEF infoVars, ExactInv, BothNamed, NoReturn, AlarmNames, UpToDate
<1>3. CASE Tick \/ Reconnect
  BY <1>3, BeginExact
<1>4. ASSUME NEW g \in Refreshers, Query(g) PROVE ExactInv'
  BY <1>4, QueryExact
<1>5. ASSUME NEW g \in Refreshers, ActiveSet(g) PROVE ExactInv'
  BY <1>5, ActiveSetExact
<1>6. ASSUME NEW g \in Refreshers, WriteBonded(g) PROVE ExactInv'
  BY <1>6, WriteExact
<1>7. ASSUME NEW g \in Refreshers, Signing(g) PROVE ExactInv'
  BY <1>7, SigningExact
<1>8. CASE Watch
  BY <1>8, WatchExact
<1>9. CASE ClearAll \/ Restart
  <2>1. excused'
    BY <1>9 DEF ClearAll, Restart
  <2>2. Tombstoned'
    <3>1. CASE ClearAll
      BY <3>1 DEF ClearAll, infoVars, ExactInv, Tombstoned
    <3>2. CASE Restart
      BY <3>2 DEF Restart, Tombstoned, Blank
    <3> QED
      BY <1>9, <3>1, <3>2
  <2> QED
    BY <1>1, <2>1, <2>2 DEF ExactInv, BothNamed, NoReturn, AlarmNames, UpToDate
<1>10. CASE UNCHANGED vars
  BY <1>1, <1>10
     DEF vars, infoVars, historyVars, ExactInv, BothNamed, Tombstoned, NoReturn,
         AlarmNames, UpToDate
<1> QED
  BY <1>2, <1>3, <1>4, <1>5, <1>6, <1>7, <1>8, <1>9, <1>10 DEF Next

\* From a calm moment on the alarm stands exactly while the validator is known
\* to be out of the set (inactiveTransition in alert.go), until something
\* happens that the rule cannot see; InactiveExact lists what that is.
THEOREM InactiveAlwaysExact == Spec => []InactiveExact
<1>1. ExactInv => InactiveExact
  BY DEF ExactInv, UpToDate, InactiveExact
<1> QED
  BY <1>1, ExactInitially, ExactStep, PTL DEF Spec
=============================================================================
