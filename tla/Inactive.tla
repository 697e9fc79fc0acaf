------------------------------ MODULE Inactive ------------------------------
(***************************************************************************)
(* The alarm that the validator is no longer active (jailed, tombstoned or *)
(* out of the set): GetValInfo and GnoGetValInfo, which refresh valInfo in *)
(* place, the health check, which first keeps a copy in lastValInfo, and   *)
(* the rule of watch() that compares the two.                              *)
(*                                                                         *)
(* Two goroutines refresh: the health check once a minute, and the runner  *)
(* after every connection, which keeps no copy.  A refresh asks one        *)
(* question after the other and writes each answer when it has it; a       *)
(* refresh that fails writes blanks.  watch() looks every two seconds, so  *)
(* between any two of these writes.                                        *)
(*                                                                         *)
(* rested, left, failed, rounds and excused are history variables; only    *)
(* the pace of the refreshes depends on rested.                            *)
(***************************************************************************)
EXTENDS Naturals

CONSTANTS
  Providers,   \* the chain types of the instance
  Nil          \* valInfo while it says "not connected", and lastValInfo while
               \* there is none or it is a copy of that

ASSUME InactiveAssumption ==
  /\ Providers \subseteq {"cosmos", "gnoland"}
  /\ Providers # {}
  /\ Nil \notin [named : BOOLEAN, bonded : BOOLEAN, tombstoned : BOOLEAN]

Refreshers == {"runner", "health"}

VARIABLES
  provider,  \* chain type, fixed
  val,       \* the validator on the chain (external)
  info,      \* valInfo; named: Moniker is the validator's, not a placeholder
  last,      \* lastValInfo
  refresh,   \* refresher -> its progress through GetValInfo
  alarms,    \* this rule's messages in AllAlarms
  rested,    \* history: watch() has looked since the last write
  left,      \* history: the validator was out since last was copied
  failed,    \* history: a refresh has failed since last was copied
  rounds,    \* history: refreshes since last was copied, at most two
  excused    \* history: see InactiveExact

infoVars == <<info, last, refresh>>
historyVars == <<rested, left, failed, rounds, excused>>
vars == <<provider, val, infoVars, alarms, historyVars>>

Blank == [named |-> FALSE, bonded |-> FALSE, tombstoned |-> FALSE]

Idle == [pc |-> "idle", bonded |-> FALSE, failed |-> FALSE]

\* The message names the validator as valInfo does, and why it is inactive.
Message(i) == <<i.named, i.tombstoned>>

Init ==
  /\ provider \in Providers
  /\ val \in {"bonded", "out"}
  /\ info = Nil /\ last = Nil
  /\ refresh = [g \in Refreshers |-> Idle]
  /\ alarms = {}
  /\ rested = TRUE /\ left = FALSE /\ failed = FALSE /\ rounds = 0
  /\ excused = TRUE

-----------------------------------------------------------------------------
(* The validator *)

\* It leaves the active set and comes back; a tombstoned one does not.
Change ==
  /\ val # "tombstoned"
  /\ val' \in {"bonded", "out", "tombstoned"} \ {val}
  /\ val' = "tombstoned" => provider = "cosmos"
  /\ left' = TRUE
  /\ UNCHANGED <<provider, infoVars, alarms, rested, failed, rounds, excused>>

-----------------------------------------------------------------------------
(* A refresh of valInfo *)

Refreshing(g) == refresh[g].pc # "idle"

Known == IF info = Nil THEN Blank ELSE info

\* The health check keeps a copy before it refreshes.  A minute has thirty
\* rounds of watch(), so watch() has looked in between.
Tick ==
  /\ ~Refreshing("health") /\ rested
  /\ last' = IF info = Nil THEN last ELSE info
  /\ refresh' = [refresh EXCEPT !["health"].pc = "query"]
  /\ left' = (val # "bonded" \/ \E g \in Refreshers :
                                  refresh[g].pc = "write" /\ ~refresh[g].bonded
                                  /\ ~refresh[g].failed)
  /\ failed' = \E g \in Refreshers : refresh[g].failed
  /\ rounds' = IF Refreshing("runner") THEN 2 ELSE 1
  /\ rested' = FALSE
  /\ UNCHANGED <<provider, val, info, alarms, excused>>

\* The runner has found an endpoint; it does so every five seconds at most.
Reconnect ==
  /\ ~Refreshing("runner") /\ rested
  /\ refresh' = [refresh EXCEPT !["runner"].pc = "query"]
  /\ rounds' = IF rounds = 0 THEN 1 ELSE 2
  /\ UNCHANGED <<provider, val, info, last, alarms, rested, left, failed, excused>>

Step(g, r) == refresh' = [refresh EXCEPT ![g] = r]

Failing == failed' = TRUE /\ excused' = TRUE

\* The first question: getVal, or the valopers realm.  Either way the Moniker
\* is written at once, with a placeholder if there is no answer.
Query(g) ==
  /\ refresh[g].pc = "query"
  /\ \/ /\ info' = [Known EXCEPT !.named = TRUE]
        /\ Step(g, IF provider = "cosmos"
                   THEN [pc |-> "write", bonded |-> val = "bonded", failed |-> FALSE]
                   ELSE [pc |-> "set", bonded |-> FALSE, failed |-> FALSE])
        /\ UNCHANGED <<failed, excused>>
     \/ /\ info' = [Known EXCEPT !.named = FALSE]
        /\ Step(g, [pc |-> "write", bonded |-> FALSE, failed |-> TRUE])
        /\ Failing
  /\ rested' = FALSE
  /\ UNCHANGED <<provider, val, last, alarms, left, rounds>>

\* gnoCheckBonded: when no endpoint answers, the state known so far is kept.
ActiveSet(g) ==
  /\ refresh[g].pc = "set"
  /\ \/ /\ Step(g, [pc |-> "write", bonded |-> val = "bonded", failed |-> FALSE])
        /\ UNCHANGED <<failed, excused>>
     \/ /\ Step(g, [pc |-> "write", bonded |-> info.bonded, failed |-> TRUE])
        /\ Failing
  /\ UNCHANGED <<provider, val, info, last, alarms, rested, left, rounds>>

\* A change that another refresh of the same minute takes back, before the
\* health check has copied it, is a change that the rule will not see.
Undone(g) ==
  /\ last # Nil
  /\ refresh[g].bonded # info.bonded
  /\ refresh[g].bonded = last.bonded

WriteBondedOrSign(g) ==          \* a bug: gno.land has no signing info
  /\ refresh[g].pc = "write"
  /\ info' = [info EXCEPT !.bonded = refresh[g].bonded]
  /\ Step(g, [Idle EXCEPT !.pc = "signing"])
  /\ excused' = (excused \/ Undone(g))
  /\ rested' = FALSE
  /\ UNCHANGED <<provider, val, last, alarms, left, failed, rounds>>

WriteBonded(g) ==
  /\ refresh[g].pc = "write"
  /\ info' = [info EXCEPT !.bonded = refresh[g].bonded]
  /\ Step(g, IF provider = "cosmos" /\ ~refresh[g].failed
             THEN [Idle EXCEPT !.pc = "signing"] ELSE Idle)
  /\ excused' = (excused \/ Undone(g))
  /\ rested' = FALSE
  /\ UNCHANGED <<provider, val, last, alarms, left, failed, rounds>>

\* A tombstoned validator that was still seen in the set: the message that its
\* return would resolve is another one now.
Mixed ==
  /\ val = "tombstoned"
  /\ info.bonded \/ \E g \in Refreshers : refresh[g].pc = "write" /\ refresh[g].bonded

\* Cosmos only: the signing info, whose failure leaves the rest as it is.
Signing(g) ==
  /\ refresh[g].pc = "signing"
  /\ \/ /\ info' = [info EXCEPT !.tombstoned = (val = "tombstoned")]
        /\ excused' = (excused \/ Mixed)
        /\ UNCHANGED failed
     \/ /\ Failing
        /\ UNCHANGED info
  /\ Step(g, Idle)
  /\ rested' = FALSE
  /\ UNCHANGED <<provider, val, last, alarms, left, rounds>>

-----------------------------------------------------------------------------
(* watch() and the cache *)

ComparableAlways == last # Nil /\ info # Nil        \* a bug: ignores Moniker

\* The rule is skipped when the two copies do not name the validator alike.
Comparable == last # Nil /\ info # Nil /\ last.named = info.named

Fires == Comparable /\ last.bonded /\ ~info.bonded /\ Message(info) \notin alarms

ResolvesLate ==                    \* a bug: waits for the next copy
  Comparable /\ last.bonded /\ info.bonded /\ Message(info) \in alarms

Resolves == Comparable /\ ~last.bonded /\ info.bonded /\ Message(info) \in alarms

\* Everything watch() compares is back to normal, and no alarm stands.
Calm ==
  /\ alarms' = {}
  /\ last # Nil /\ info # Nil
  /\ last = info /\ info.named /\ info.bonded
  /\ \A g \in Refreshers : ~Refreshing(g)

Watch ==
  /\ info # Nil
  /\ alarms' = IF Fires THEN alarms \cup {Message(info)}
               ELSE IF Resolves THEN alarms \ {Message(info)}
               ELSE alarms
  /\ rested' = TRUE
  /\ excused' = (excused /\ ~Calm)
  /\ UNCHANGED <<provider, val, infoVars, left, failed, rounds>>

\* newRpc found no usable endpoint and cleared the chain's alarms.
ClearAll ==
  /\ alarms # {}
  /\ alarms' = {}
  /\ excused' = TRUE
  /\ UNCHANGED <<provider, val, infoVars, rested, left, failed, rounds>>

\* The process is restarted with its saved alarms; validateConfig gives the
\* chain a valInfo that says "not connected", for which watch() waits.
Restart ==
  /\ info # Nil
  /\ info' = Nil /\ last' = Nil
  /\ refresh' = [g \in Refreshers |-> Idle]
  /\ rested' = TRUE /\ left' = FALSE /\ failed' = FALSE /\ rounds' = 0
  /\ excused' = TRUE
  /\ UNCHANGED <<provider, val, alarms>>

Next ==
  \/ Change \/ Tick \/ Reconnect
  \/ \E g \in Refreshers : Query(g) \/ ActiveSet(g) \/ WriteBonded(g) \/ Signing(g)
  \/ Watch \/ ClearAll \/ Restart

Spec == Init /\ [][Next]_vars

-----------------------------------------------------------------------------
(* Properties *)

Infos == [named : BOOLEAN, bonded : BOOLEAN, tombstoned : BOOLEAN]

RefreshStates ==
  [pc : {"idle", "query", "set", "write", "signing"}, bonded : BOOLEAN, failed : BOOLEAN]

\* Each provider asks its own questions, and only a refresh that has had an
\* answer, or none, has something to write.
TypeOK ==
  /\ provider \in Providers
  /\ val \in {"bonded", "out", "tombstoned"}
  /\ info \in Infos \cup {Nil} /\ last \in Infos \cup {Nil}
  /\ refresh \in [Refreshers -> RefreshStates]
  /\ \A g \in Refreshers :
       /\ refresh[g].pc = "set" => provider = "gnoland"
       /\ refresh[g].pc = "signing" => provider = "cosmos"
       /\ refresh[g].pc \in {"set", "write", "signing"} => info # Nil
       /\ refresh[g].pc # "write" => ~refresh[g].failed
  /\ info = Nil => last = Nil
  /\ provider = "gnoland" => val # "tombstoned"
  /\ alarms \subseteq BOOLEAN \X BOOLEAN
  /\ <<rested, left, failed, excused>> \in BOOLEAN \X BOOLEAN \X BOOLEAN \X BOOLEAN
  /\ rounds \in 0..2

Raised == alarms' \ alarms # {}

\* A validator that has been in the set ever since lastValInfo was copied is
\* not reported inactive because a refresh failed.  The exception is a minute
\* with two refreshes of which one failed: the second names the validator
\* again before it knows whether it is in the set, or the two mix in valInfo
\* and the next copy is of a bonded validator without a name.
NoFalseInactive ==
  [][Raised => left \/ (failed /\ rounds = 2) \/ ~last.named]_vars

\* gnoCheckBonded's comment (gno_provider.go:250) has no such exception: an
\* error "must not flip a bonded validator to inactive (which would raise a
\* false "jailed" alarm)".  Stated of copies that name the validator.
FailuresRaiseNothing ==
  [][Raised /\ provider = "gnoland" /\ last.named => left]_vars

\* Whenever watch() has looked, an alarm stands exactly if the validator is
\* known to be out of the set.  This holds from a calm moment on, until a
\* refresh fails, the cache is wiped, the process is restarted, the validator
\* is tombstoned between two questions, or a refresh takes back a change that
\* the health check has not copied: the rule only compares with the copy.
InactiveExact ==
  (rested /\ ~excused) => (alarms # {} <=> ~info.bonded)
=============================================================================
