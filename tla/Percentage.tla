----------------------------- MODULE Percentage -----------------------------
(***************************************************************************)
(* The alarm on the percentage of missed blocks: valInfo.Missed and        *)
(* valInfo.Window, which are written one after the other, and the rule of  *)
(* watch(), which reads them one after the other; neither side has a lock. *)
(*                                                                         *)
(* For gno.land the numbers are those of PollRun's window (GnoWindow).     *)
(* For a cosmos chain GetValInfo asks for them: for Missed every time, for *)
(* Window until it has an answer, with a query between the two writes.     *)
(*                                                                         *)
(* span is a history variable.                                             *)
(***************************************************************************)
EXTENDS GnoWindow

CONSTANTS
  Providers,    \* the chain types of the instance
  SlashWindow,  \* signed_blocks_window of the cosmos chain
  Threshold     \* percentage_missed, as configured

ASSUME PercentAssumption ==
  /\ Providers \subseteq {"cosmos", "gnoland"}
  /\ SlashWindow \in Nat \ {0}
  /\ Threshold \in Nat

VARIABLES
  provider,   \* chain type, fixed
  info,       \* valInfo.Missed and valInfo.Window
  stage,      \* gno.land: how far PollRun is with the block it counted;
              \* cosmos: "counted" once a refresh has got as far as Missed
  look,       \* what watch() has read of the pair, in a round that it began
  pctAlarm,   \* its local flag
  span        \* history: what the pair was, or should have been, during look

ringVars == <<buf, head, size, missed>>
watchVars == <<look, pctAlarm>>
pctVars == <<ringVars, provider, info, stage, watchVars, span>>

Pair(m, w) == [missed |-> m, window |-> w]

NotLooking == [field |-> "none", value |-> 0]
Looking == look # NotLooking

\* What PollRun has counted and may not have published yet.
Counted == Pair(missed, size)

PercentInit ==
  /\ Init
  /\ provider \in Providers
  /\ info = Pair(0, 0)
  /\ stage = "idle"
  /\ look = NotLooking
  /\ pctAlarm = FALSE
  /\ span = {}

\* The pair is p from now on, or should be.
Becomes(p) == span' = IF Looking THEN span \cup {p} ELSE span

-----------------------------------------------------------------------------
(* gno.land: the poller *)

\* PollRun starts, with an empty window; the published pair stays.
StartSession ==
  /\ provider = "gnoland" /\ stage = "idle"
  /\ NewWindow
  /\ UNCHANGED <<provider, info, stage, watchVars, span>>

\* A block that the bonded validator signed or missed.
CountBlock(isMiss) ==
  /\ provider = "gnoland" /\ stage = "idle"
  /\ Push(isMiss)
  /\ stage' = "counted"
  /\ Becomes(Counted')
  /\ UNCHANGED <<provider, info, watchVars>>

PublishMissed ==
  /\ provider = "gnoland" /\ stage = "counted"
  /\ info' = [info EXCEPT !.missed = missed]
  /\ stage' = "half"
  /\ UNCHANGED <<ringVars, provider, watchVars, span>>

PublishWindowOnce ==      \* a bug: the window is taken to be fixed
  /\ provider = "gnoland" /\ stage = "half"
  /\ info' = [info EXCEPT !.window = IF info.window = 0 THEN size ELSE @]
  /\ stage' = "idle"
  /\ UNCHANGED <<ringVars, provider, watchVars, span>>

PublishWindow ==
  /\ provider = "gnoland" /\ stage = "half"
  /\ info' = [info EXCEPT !.window = size]
  /\ stage' = "idle"
  /\ UNCHANGED <<ringVars, provider, watchVars, span>>

-----------------------------------------------------------------------------
(* cosmos: GetValInfo, by the runner or by the health check *)

\* The signing info: whatever the chain counts in its own window.
AnswerMissed(m) ==
  /\ provider = "cosmos"
  /\ info' = [info EXCEPT !.missed = m]
  /\ stage' = "counted"
  /\ Becomes(info')
  /\ UNCHANGED <<ringVars, provider, watchVars>>

\* The slashing parameters, which are asked for as long as Window is zero;
\* an answer that fails leaves it so.
AnswerWindow ==
  /\ provider = "cosmos" /\ stage = "counted"
  /\ info.window = 0
  /\ info' = [info EXCEPT !.window = SlashWindow]
  /\ Becomes(info')
  /\ UNCHANGED <<ringVars, provider, stage, watchVars>>

-----------------------------------------------------------------------------
(* watch() *)

\* 100*m/w > Threshold and 100*m/w < Threshold in floating point, where a
\* zero divisor gives infinity, or, under a zero, no number.
Exceeds(m, w) == IF w = 0 THEN m > 0 ELSE 100 * m > Threshold * w

FallsBelow(m, w) == w # 0 /\ 100 * m < Threshold * w

\* One of the two numbers is read; the language leaves open which.
Look(field) ==
  /\ ~Looking
  /\ look' = [field |-> field, value |-> info[field]]
  /\ span' = {info} \cup IF provider = "gnoland" /\ stage # "idle"
                         THEN {Counted} ELSE {}
  /\ UNCHANGED <<ringVars, provider, info, stage, pctAlarm>>

\* The pair that the comparison sees when it reads the other one.
Seen == IF look.field = "missed" THEN Pair(look.value, info.window)
                                 ELSE Pair(info.missed, look.value)

CompareNoMargin ==        \* a bug: at the threshold the alarm ends
  /\ Looking
  /\ pctAlarm' = Exceeds(Seen.missed, Seen.window)
  /\ look' = NotLooking /\ span' = {}
  /\ UNCHANGED <<ringVars, provider, info, stage>>

CompareForGood ==         \* a bug: nothing ends the alarm
  /\ Looking
  /\ pctAlarm' = (pctAlarm \/ Exceeds(Seen.missed, Seen.window))
  /\ look' = NotLooking /\ span' = {}
  /\ UNCHANGED <<ringVars, provider, info, stage>>

\* The rule: the alarm is raised above the threshold and ends below it.
Compare ==
  /\ Looking
  /\ pctAlarm' = IF pctAlarm THEN ~FallsBelow(Seen.missed, Seen.window)
                             ELSE Exceeds(Seen.missed, Seen.window)
  /\ look' = NotLooking /\ span' = {}
  /\ UNCHANGED <<ringVars, provider, info, stage>>

PercentNext ==
  \/ StartSession
  \/ \E isMiss \in BOOLEAN : CountBlock(isMiss)
  \/ PublishMissed \/ PublishWindow
  \/ \E m \in 0..SlashWindow : AnswerMissed(m)
  \/ AnswerWindow
  \/ \E field \in {"missed", "window"} : Look(field)
  \/ Compare

PercentSpec == PercentInit /\ [][PercentNext]_pctVars

-----------------------------------------------------------------------------
\* The most blocks that either number can speak of.
Limit == IF provider = "gnoland" THEN Cap ELSE SlashWindow

Pairs == [missed : 0..Limit, window : 0..Limit]

PercentTypeOK ==
  /\ TypeOK
  /\ provider \in {"cosmos", "gnoland"}
  /\ info \in Pairs
  /\ stage \in {"idle", "counted", "half"}
  /\ look \in [field : {"missed", "window"}, value : 0..Limit] \cup {NotLooking}
  /\ pctAlarm \in BOOLEAN
  /\ span \subseteq Pairs

\* Between two blocks valInfo says what PollRun's window holds: Missed is the
\* number of misses among the last Window outcomes, and these are all that
\* the window remembers.  It holds from the first block of a session on; until
\* then the pair is that of the session before (PollRun, gnoWindow).
PublishedPair ==
  (provider = "gnoland" /\ stage = "idle" /\ size > 0) =>
    /\ info.window = Len(Recent)
    /\ info.missed = Cardinality({k \in 1..info.window : Recent[k]})

\* The window had one size, not zero, as long as watch() looked.
SteadyWindow == \A p, q \in span : p.window = q.window /\ p.window # 0

\* No alarm comes of numbers that do not belong together: while the window
\* keeps its size, the percentage alarm is raised, and ends, only if the
\* percentage was above, or below, the threshold at some moment of the look
\* (watch(), alert.go:676 and alert.go:688).  While the window grows, after a
\* restart of PollRun, and before a cosmos chain's Window is known, the two
\* numbers may be of different moments, and one miss in a window of zero is
\* above any threshold.
PercentSound ==
  [][SteadyWindow =>
       /\ (~pctAlarm /\ pctAlarm')
            => \E p \in span : 100 * p.missed > Threshold * p.window
       /\ (pctAlarm /\ ~pctAlarm')
            => \E p \in span : 100 * p.missed < Threshold * p.window]_pctVars

\* And no look is in vain: if the percentage was above the threshold as long
\* as watch() looked, the alarm stands afterwards, and if it was below, it
\* does not.
PercentComplete ==
  [][(Looking /\ ~Looking' /\ SteadyWindow) =>
       /\ (\A p \in span : 100 * p.missed > Threshold * p.window) => pctAlarm'
       /\ (\A p \in span : 100 * p.missed < Threshold * p.window)
            => ~pctAlarm']_pctVars
=============================================================================
