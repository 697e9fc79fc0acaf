------------------------------ MODULE WsStream ------------------------------
(***************************************************************************)
(* WsRun in td2/ws.go: one websocket subscription of a cosmos chain, and   *)
(* the goroutines that turn its events into the miss counters.             *)
(*                                                                         *)
(* A reader hands each event to one of two handlers, one for votes and one *)
(* for blocks; both send status updates to the processor, which keeps the  *)
(* highest status seen (signState) and, at a block, counts it.  All        *)
(* channels are unbuffered, so a vote and a block read one after the other *)
(* can be processed in either order.  The health check refreshes valInfo   *)
(* meanwhile (td2/validator.go); a failed refresh blanks it.               *)
(***************************************************************************)
EXTENDS Integers

CONSTANT MaxStreak    \* bound: the miss counter saturates

ASSUME StreamAssumption == MaxStreak \in Nat \ {0}

\* StatusType.  The last two say that the block has the precommit.
Missed == 0
Prevote == 1
Precommit == 2
Signed == 3
Proposed == 4
NoState == -1

\* A vote of a type that handleVotes does not name leaves the status at zero.
Votes == {Missed, Prevote, Precommit, Proposed}
Commits == {Missed, Signed, Proposed}

VARIABLES
  known, bonded,    \* valInfo: Conspub is set, Bonded
  ws,               \* WsRun: "wait", "dial", "run" or "over"
  cancelled,        \* the context of this subscription
  ours,             \* the validator's address was read from a set Conspub
  reader,           \* what the reader holds
  votes, blocks,    \* what handleVotes and handleBlocks hold
  still,            \* no block since the ticker of handleBlocks last looked
  up,               \* the processor has not ended
  signState,        \* the processor's local variable
  streak,           \* statConsecutiveMiss
  misses, unsure    \* history: how many of the blocks processed last lacked the
                    \*   precommit; the counter is not required to match

infoVars == <<known, bonded>>
statVars == <<signState, streak, misses, unsure>>
vars == <<infoVars, ws, cancelled, ours, reader, votes, blocks, still, up, statVars>>

Nothing == [kind |-> "none", status |-> NoState]
Gone == [kind |-> "gone", status |-> NoState]
Vote(s) == [kind |-> "vote", status |-> s]
Block(s) == [kind |-> "block", status |-> s]

Init ==
  /\ known = FALSE /\ bonded = FALSE
  /\ ws = "wait" /\ cancelled = FALSE /\ ours = FALSE
  /\ reader = Nothing /\ votes = Nothing /\ blocks = Nothing
  /\ still = FALSE /\ up = FALSE /\ signState = NoState
  /\ streak = 0 /\ misses = 0 /\ unsure = FALSE

-----------------------------------------------------------------------------
(* GetValInfo, every minute *)

Refresh ==
  /\ known' \in BOOLEAN
  /\ bonded' \in (IF known' THEN BOOLEAN ELSE {FALSE})
  /\ UNCHANGED <<ws, cancelled, ours, reader, votes, blocks, still, up, statVars>>

-----------------------------------------------------------------------------
(* WsRun *)

\* Wait for valInfo (after two minutes it returns, and is called again), then
\* dial, which takes a while and may fail.
Wait ==
  /\ ws = "wait" /\ known
  /\ ws' = "dial"
  /\ UNCHANGED <<infoVars, cancelled, ours, reader, votes, blocks, still, up, statVars>>

DialFails ==
  /\ ws = "dial" /\ ws' = "over"
  /\ UNCHANGED <<infoVars, cancelled, ours, reader, votes, blocks, still, up, statVars>>

\* The address that the handlers look for is read from Conspub only now.
Dial ==
  /\ ws = "dial" /\ ws' = "run"
  /\ ours' = known
  /\ up' = TRUE
  /\ UNCHANGED <<infoVars, cancelled, reader, votes, blocks, still, statVars>>

\* The client has quit, or the subscription could not be written.
ClientQuits ==
  /\ ws = "run" /\ ~cancelled
  /\ cancelled' = TRUE
  /\ UNCHANGED <<infoVars, ws, ours, reader, votes, blocks, still, up, statVars>>

ReturnAfterReader ==             \* a bug: waits for the reader's goroutine
  /\ ws = "run" /\ cancelled /\ reader.kind = "gone"
  /\ ws' = "over"
  /\ UNCHANGED <<infoVars, cancelled, ours, reader, votes, blocks, still, up, statVars>>

Return ==
  /\ ws = "run" /\ cancelled
  /\ ws' = "over"
  /\ UNCHANGED <<infoVars, cancelled, ours, reader, votes, blocks, still, up, statVars>>

\* The runner calls WsRun again when newRpc has found an endpoint, which may be
\* never.  A goroutine that still waits for an old channel waits for ever, and
\* what it holds is lost.
Again ==
  /\ ws = "over" /\ ~up
  /\ ws' = "wait"
  /\ cancelled' = FALSE /\ ours' = FALSE
  /\ reader' = Nothing /\ votes' = Nothing /\ blocks' = Nothing
  /\ still' = FALSE /\ signState' = NoState
  /\ UNCHANGED <<infoVars, up, streak, misses, unsure>>

-----------------------------------------------------------------------------
(* The reader *)

Running == ws \in {"run", "over"} /\ reader.kind # "gone"

Read ==
  /\ Running /\ reader = Nothing
  /\ \/ \E s \in Votes : reader' = Vote(s)
     \/ \E s \in Commits : reader' = Block(s)
  /\ UNCHANGED <<infoVars, ws, cancelled, ours, votes, blocks, still, up, statVars>>

ReadError ==
  /\ Running /\ reader = Nothing
  /\ reader' = Gone
  /\ cancelled' = TRUE
  /\ UNCHANGED <<infoVars, ws, ours, votes, blocks, still, up, statVars>>

\* Only the validator's own votes are kept; none has a blank address.
HandVote ==
  /\ reader.kind = "vote" /\ votes = Nothing
  /\ reader' = Nothing
  /\ votes' = IF ours THEN reader ELSE Nothing
  /\ UNCHANGED <<infoVars, ws, cancelled, ours, blocks, still, up, statVars>>

\* A blank address matches the signature of any absent validator, or none.
HandBlock ==
  /\ reader.kind = "block" /\ blocks = Nothing
  /\ reader' = Nothing
  /\ blocks' \in (IF ours THEN {reader} ELSE {Block(Missed), Block(Signed)})
  /\ still' = FALSE
  /\ UNCHANGED <<infoVars, ws, cancelled, ours, votes, up, statVars>>

-----------------------------------------------------------------------------
(* The handlers *)

\* The ticker of handleBlocks: a minute has gone by, and one without a block
\* ends the subscription.
Minute ==
  /\ ws = "run" /\ blocks = Nothing /\ ~still
  /\ still' = TRUE
  /\ UNCHANGED <<infoVars, ws, cancelled, ours, reader, votes, blocks, up, statVars>>

IdleExitUnnoticed ==             \* a bug: the error is only logged
  /\ ws \in {"run", "over"} /\ blocks = Nothing /\ still
  /\ blocks' = Gone
  /\ UNCHANGED <<infoVars, ws, cancelled, ours, reader, votes, still, up, statVars>>

IdleExit ==
  /\ ws \in {"run", "over"} /\ blocks = Nothing /\ still
  /\ blocks' = Gone
  /\ cancelled' = TRUE
  /\ UNCHANGED <<infoVars, ws, ours, reader, votes, still, up, statVars>>

\* A goroutine that waits in a select on the context ends.
VotesEnd ==
  /\ cancelled /\ votes = Nothing
  /\ votes' = Gone
  /\ UNCHANGED <<infoVars, ws, cancelled, ours, reader, blocks, still, up, statVars>>

BlocksEnd ==
  /\ cancelled /\ blocks = Nothing
  /\ blocks' = Gone
  /\ UNCHANGED <<infoVars, ws, cancelled, ours, reader, votes, still, up, statVars>>

ProcessorEnds ==
  /\ cancelled /\ up
  /\ up' = FALSE
  /\ UNCHANGED <<infoVars, ws, cancelled, ours, reader, votes, blocks, still, statVars>>

-----------------------------------------------------------------------------
(* The processor *)

HighestUnguarded(s) == IF s > signState THEN s ELSE signState    \* a bug

\* The status kept after an update with status s.
Highest(s) == IF s > signState /\ bonded THEN s ELSE signState

Saturated(n) == IF n < MaxStreak THEN n ELSE MaxStreak

ProcessVote ==
  /\ up /\ votes.kind = "vote"
  /\ signState' = Highest(votes.status)
  /\ votes' = Nothing
  /\ UNCHANGED <<infoVars, ws, cancelled, ours, reader, blocks, still, up,
                 streak, misses, unsure>>

CountKeeping(state) ==           \* a bug: signState survives the block
  /\ signState' = IF state \in {Signed, Proposed} THEN state ELSE NoState
  /\ streak' = CASE state \in {Signed, Proposed} -> 0
                 [] state = NoState -> streak
                 [] OTHER -> Saturated(streak + 1)

\* A block with only votes, or none, is a miss; NoState is not counted.
Count(state) ==
  /\ signState' = NoState
  /\ streak' = CASE state \in {Signed, Proposed} -> 0
                 [] state = NoState -> streak
                 [] OTHER -> Saturated(streak + 1)

\* In the history a block counts for a bonded validator only, and by what it
\* contains.  The counter may differ from it, until it is next reset, if Bonded
\* was taken back between the validator's vote and the block, or if a vote event
\* called itself a proposal, which the processor takes for a signature.
ProcessBlock ==
  /\ up /\ blocks.kind = "block"
  /\ Count(Highest(blocks.status))
  /\ LET signed == blocks.status \in {Signed, Proposed}
     IN  /\ misses' = IF ~bonded THEN misses
                      ELSE IF signed THEN 0 ELSE Saturated(misses + 1)
         /\ unsure' = IF bonded /\ signed THEN ~ours
                      ELSE \/ unsure \/ ~ours \/ signState = Proposed
                              \/ (~bonded /\ signState # NoState)
  /\ blocks' = Nothing
  /\ UNCHANGED <<infoVars, ws, cancelled, ours, reader, votes, still, up>>

Next ==
  \/ Refresh
  \/ Wait \/ DialFails \/ Dial \/ ClientQuits \/ Return \/ Again
  \/ Read \/ ReadError \/ HandVote \/ HandBlock
  \/ Minute \/ IdleExit \/ VotesEnd \/ BlocksEnd \/ ProcessorEnds
  \/ ProcessVote \/ ProcessBlock

Spec == Init /\ [][Next]_vars

\* Runnable goroutines run, the ticker ticks, and a wait or a dial ends.
Fairness ==
  /\ WF_vars(Return)
  /\ WF_vars(HandVote) /\ WF_vars(HandBlock)
  /\ WF_vars(Minute) /\ WF_vars(IdleExit) /\ WF_vars(ProcessorEnds)
  /\ WF_vars(ProcessVote) /\ WF_vars(ProcessBlock)

FairSpec == Spec /\ Fairness

-----------------------------------------------------------------------------
(* Properties *)

TypeOK ==
  /\ known \in BOOLEAN /\ bonded \in BOOLEAN
  /\ ws \in {"wait", "dial", "run", "over"}
  /\ cancelled \in BOOLEAN /\ ours \in BOOLEAN /\ still \in BOOLEAN /\ up \in BOOLEAN
  /\ reader \in {Nothing, Gone} \cup {Vote(s) : s \in Votes} \cup {Block(s) : s \in Commits}
  /\ votes \in {Nothing, Gone} \cup {Vote(s) : s \in Votes}
  /\ blocks \in {Nothing, Gone} \cup {Block(s) : s \in Commits}
  /\ signState \in {NoState} \cup Votes
  /\ streak \in 0..MaxStreak /\ misses \in 0..MaxStreak /\ unsure \in BOOLEAN

\* The counter behind the consecutive-misses alarm is the number of blocks in
\* a row, of those that reached the processor, without the bonded validator's
\* precommit, however votes and blocks overtake each other: "the highest value
\* seen is used in the final determination" (ws.go:37), and yet no prevote or
\* precommit hides a miss or turns a signed block into one.  In a subscription
\* these are the blocks of the chain; those made before the next one, or still
\* held by a goroutine when it ends, are counted by nobody.  See ProcessBlock
\* for the exceptions.
StreakIsTrue == ~unsure => streak = misses

\* A subscription that has gone silent does not linger: a block comes, or WsRun
\* ends ("will shutdown the client if there are no blocks for a minute",
\* ws.go:313).
SilentStreamLeft == (ws = "run" /\ still) ~> (ws # "run" \/ ~still)

\* WsRun ends when its context is cancelled, by whichever goroutine, "and if it
\* exits force a renegotiation for a new client" (ws.go:70), also if the reader
\* or a handler waits for a goroutine that has ended.
BrokenStreamLeft == cancelled ~> ws = "over"
=============================================================================
