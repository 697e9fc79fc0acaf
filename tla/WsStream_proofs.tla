-------------------------- MODULE WsStream_proofs --------------------------
(***************************************************************************)
(* For any bound of the counter: the types are right, and the counter      *)
(* behind the consecutive-misses alarm matches the blocks processed.       *)
(***************************************************************************)
EXTENDS WsStream, TLAPS

\* What the reader and the handlers can hold.
LEMMA Held ==
  /\ \A s \in Votes : Vote(s).kind = "vote" /\ Vote(s).status = s
  /\ \A s \in Commits : Block(s).kind = "block" /\ Block(s).status = s
  /\ Nothing.kind = "none" /\ Gone.kind = "gone"
BY DEF Vote, Block, Nothing, Gone

LEMMA SaturatedInRange ==
  ASSUME NEW n \in 0..MaxStreak PROVE Saturated(n + 1) \in 0..MaxStreak
BY StreamAssumption DEF StreamAssumption, Saturated

LEMMA HighestVote ==
  ASSUME TypeOK, NEW s \in Votes PROVE Highest(s) \in {NoState} \cup Votes
BY DEF TypeOK, Highest

LEMMA CountTypes ==
  ASSUME TypeOK, NEW state, Count(state)
  PROVE  signState' = NoState /\ streak' \in 0..MaxStreak
<1>1. 0 \in 0..MaxStreak
  BY StreamAssumption DEF StreamAssumption
<1>2. Saturated(streak + 1) \in 0..MaxStreak
  BY SaturatedInRange DEF TypeOK
<1>3. streak' \in {0, streak, Saturated(streak + 1)}
  BY DEF Count
<1>4. QED BY <1>1, <1>2, <1>3 DEF Count, TypeOK

-----------------------------------------------------------------------------
(* Type correctness *)

LEMMA TypeInit == Init => TypeOK
<1>1. 0 \in 0..MaxStreak
  BY StreamAssumption DEF StreamAssumption
<1>2. QED BY <1>1 DEF Init, TypeOK

LEMMA TypeStep == TypeOK /\ [Next]_vars => TypeOK'
<1> SUFFICES ASSUME TypeOK, [Next]_vars PROVE TypeOK'
  OBVIOUS
<1> USE DEF TypeOK, infoVars, statVars
<1>1. CASE Refresh
  <2>1. known' \in BOOLEAN
    BY <1>1 DEF Refresh
  <2>2. bonded' \in BOOLEAN
    <3>1. CASE known'
      BY <1>1, <3>1 DEF Refresh
    <3>2. CASE ~known'
      BY <1>1, <3>2 DEF Refresh
    <3>3. QED BY <3>1, <3>2
  <2>3. QED BY <1>1, <2>1, <2>2 DEF Refresh
<1>2. CASE Wait \/ DialFails \/ Dial \/ ClientQuits \/ Return \/ Again
  BY <1>2 DEF Wait, DialFails, Dial, ClientQuits, Return, Again
<1>3. CASE Read \/ ReadError
  BY <1>3 DEF Read, ReadError
<1>4. CASE HandVote
  <2>1. reader \in {Vote(s) : s \in Votes}
    BY <1>4, Held DEF HandVote
  <2>2. QED BY <1>4, <2>1 DEF HandVote
<1>5. CASE HandBlock
  <2>1. reader \in {Block(s) : s \in Commits}
    BY <1>5, Held DEF HandBlock
  <2>2. {Block(Missed), Block(Signed)} \subseteq {Block(s) : s \in Commits}
    BY DEF Commits
  <2>3. blocks' \in {Block(s) : s \in Commits}
    BY <1>5, <2>1, <2>2 DEF HandBlock
  <2>4. QED BY <1>5, <2>3 DEF HandBlock
<1>6. CASE Minute \/ IdleExit \/ VotesEnd \/ BlocksEnd \/ ProcessorEnds
  BY <1>6 DEF Minute, IdleExit, VotesEnd, BlocksEnd, ProcessorEnds
<1>7. CASE ProcessVote
  <2>1. PICK s \in Votes : votes = Vote(s)
    BY <1>7, Held DEF ProcessVote
  <2>2. signState' \in {NoState} \cup Votes
    BY <1>7, <2>1, Held, HighestVote DEF ProcessVote
  <2>3. QED BY <1>7, <2>2 DEF ProcessVote
<1>8. CASE ProcessBlock
  <2>1. signState' = NoState /\ streak' \in 0..MaxStreak
    BY <1>8, CountTypes DEF ProcessBlock
  <2>2. 0 \in 0..MaxStreak /\ Saturated(misses + 1) \in 0..MaxStreak
    BY StreamAssumption, SaturatedInRange DEF StreamAssumption
  <2>3. misses' \in 0..MaxStreak
    BY <1>8, <2>2 DEF ProcessBlock
  <2>4. unsure' \in BOOLEAN
    BY <1>8 DEF ProcessBlock
  <2>5. QED BY <1>8, <2>1, <2>3, <2>4 DEF ProcessBlock
<1>9. CASE UNCHANGED vars
  BY <1>9 DEF vars
<1>10. QED
  BY <1>1, <1>2, <1>3, <1>4, <1>5, <1>6, <1>7, <1>8, <1>9 DEF Next

\* Every reachable state has the types of WsRun's variables: in particular the
\* processor's signState is never Signed between two blocks, which only a block
\* can say (ws.go:118, ws.go:163).
THEOREM StreamTypeCorrect == Spec => []TypeOK
BY TypeInit, TypeStep, PTL DEF Spec

-----------------------------------------------------------------------------
(* The counter *)

\* A block of a bonded validator: any vote seen before it, but a proposal, ranks
\* below Signed and not below Missed, so it decides neither way.
LEMMA BondedBlockCounted ==
  ASSUME TypeOK, bonded, NEW s \in Commits, Count(Highest(s)),
         s \in {Signed, Proposed} \/ signState # Proposed
  PROVE  streak' = IF s \in {Signed, Proposed} THEN 0 ELSE Saturated(streak + 1)
<1>1. signState \in {-1, 0, 1, 2, 4}
  BY DEF TypeOK, NoState, Votes, Missed, Prevote, Precommit, Proposed
<1>2. CASE s \in {Signed, Proposed}
  <2>1. Highest(s) \in {Signed, Proposed} /\ Highest(s) # NoState
    BY <1>1, <1>2 DEF Highest, Signed, Proposed, NoState
  <2>2. QED BY <1>2, <2>1 DEF Count
<1>3. CASE s = Missed
  <2>1. signState \in {-1, 0, 1, 2}
    BY <1>1, <1>3 DEF Missed, Signed, Proposed
  <2>2. Highest(s) \in {0, 1, 2}
    BY <2>1, <1>3 DEF Highest, Missed
  <2>3. Highest(s) \notin {Signed, Proposed} /\ Highest(s) # NoState
    BY <2>2 DEF Signed, Proposed, NoState
  <2>4. s \notin {Signed, Proposed}
    BY <1>3 DEF Missed, Signed, Proposed
  <2>5. QED BY <2>3, <2>4 DEF Count
<1>4. QED BY <1>2, <1>3 DEF Commits

LEMMA StreakStep == TypeOK /\ StreakIsTrue /\ [Next]_vars => StreakIsTrue'
<1> SUFFICES ASSUME TypeOK, StreakIsTrue, [Next]_vars, ~unsure' PROVE streak' = misses'
  BY DEF StreakIsTrue
<1>1. CASE ProcessBlock
  <2>1. PICK s \in Commits : blocks = Block(s) /\ blocks.status = s
    BY <1>1, Held DEF ProcessBlock, TypeOK
  <2>2. Count(Highest(s))
    BY <1>1, <2>1 DEF ProcessBlock
  <2>3. CASE bonded /\ s \in {Signed, Proposed}
    BY <1>1, <2>1, <2>2, <2>3, BondedBlockCounted DEF ProcessBlock
  <2>4. CASE bonded /\ s \notin {Signed, Proposed}
    <3>1. streak = misses /\ signState # Proposed
      BY <1>1, <2>1, <2>4 DEF ProcessBlock, StreakIsTrue
    <3>2. QED BY <1>1, <2>1, <2>2, <2>4, <3>1, BondedBlockCounted DEF ProcessBlock
  <2>5. CASE ~bonded
    <3>1. streak = misses /\ signState = NoState
      BY <1>1, <2>1, <2>5 DEF ProcessBlock, StreakIsTrue
    <3>2. Highest(s) = NoState
      BY <2>5, <3>1 DEF Highest
    <3>3. streak' = streak
      BY <2>2, <3>2 DEF Count, NoState, Signed, Proposed
    <3>4. QED BY <1>1, <2>5, <3>1, <3>3 DEF ProcessBlock
  <2>6. QED BY <2>3, <2>4, <2>5
<1>2. CASE ~ProcessBlock
  <2>1. UNCHANGED <<streak, misses, unsure>>
    BY <1>2 DEF Next, vars, infoVars, statVars, Refresh, Wait, DialFails, Dial,
       ClientQuits, Return, Again, Read, ReadError, HandVote, HandBlock, Minute,
       IdleExit, VotesEnd, BlocksEnd, ProcessorEnds, ProcessVote
  <2>2. QED BY <2>1 DEF StreakIsTrue
<1>3. QED BY <1>1, <1>2

\* However the reader, the two handlers, the processor and the health check
\* interleave, statConsecutiveMiss is the number of blocks in a row, of those that
\* reached the processor, that the bonded validator has missed: but for proposals
\* sent as votes and for a Bonded taken back under a vote, no other event counts.
THEOREM StreakAlwaysTrue == Spec => []StreakIsTrue
<1>1. Init => StreakIsTrue
  BY DEF Init, StreakIsTrue
<1>2. QED
  BY <1>1, StreamTypeCorrect, StreakStep, PTL DEF Spec
=============================================================================
