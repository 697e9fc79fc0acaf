----------------------------- MODULE GnoWindow -----------------------------
(***************************************************************************)
(* td2/gno_window.go: the sliding window of block outcomes kept for a      *)
(* gno.land validator.  A circular buffer with its write index, the number *)
(* of valid entries and an incrementally maintained count of misses.       *)
(* PollRun makes a new window whenever it starts and pushes one outcome    *)
(* per polled block; what it publishes of the window is in Percentage.     *)
(***************************************************************************)
EXTENDS Integers, Sequences, FiniteSets

CONSTANT CapArg     \* the argument of newGnoWindow, as configured

ASSUME CapArgAssumption == CapArg \in Int

VARIABLES
  buf,      \* the outcomes; TRUE is a missed block
  head,     \* next slot to write, the oldest entry once the window is full
  size,     \* valid entries
  missed    \* TRUE entries among them

vars == <<buf, head, size, missed>>

\* A capacity below one is clamped to one.
Cap == IF CapArg < 1 THEN 1 ELSE CapArg

Slots == 0..(Cap - 1)

Init ==
  /\ buf = [i \in Slots |-> FALSE]
  /\ head = 0
  /\ size = 0
  /\ missed = 0

Full == size = Cap

Bit(b) == IF b THEN 1 ELSE 0

PushDroppingNothing(isMiss) ==   \* a bug: the evicted entry stays counted
  /\ size' = IF Full THEN size ELSE size + 1
  /\ missed' = missed + Bit(isMiss)
  /\ buf' = [buf EXCEPT ![head] = isMiss]
  /\ head' = (head + 1) % Cap

PushLateWrap(isMiss) ==          \* a bug: the head skips a slot once full
  /\ size' = IF Full THEN size ELSE size + 1
  /\ missed' = missed - Bit(Full /\ buf[head]) + Bit(isMiss)
  /\ buf' = [buf EXCEPT ![head] = isMiss]
  /\ head' = (head + Bit(Full) + 1) % Cap

PushUnwrapped(isMiss) ==         \* a bug: the head leaves the buffer
  /\ size' = IF Full THEN size ELSE size + 1
  /\ missed' = missed - Bit(Full /\ buf[head]) + Bit(isMiss)
  /\ buf' = [buf EXCEPT ![head] = isMiss]
  /\ head' = head + 1

\* Push: the outcome overwrites the slot at head; once the window is full
\* that slot holds the oldest outcome, which leaves the count first.
Push(isMiss) ==
  /\ size' = IF Full THEN size ELSE size + 1
  /\ missed' = missed - Bit(Full /\ buf[head]) + Bit(isMiss)
  /\ buf' = [buf EXCEPT ![head] = isMiss]
  /\ head' = (head + 1) % Cap

\* A poller that starts again makes an empty window.
NewWindow ==
  /\ buf' = [i \in Slots |-> FALSE]
  /\ head' = 0
  /\ size' = 0
  /\ missed' = 0

Next == NewWindow \/ \E isMiss \in BOOLEAN : Push(isMiss)

Spec == Init /\ [][Next]_vars

-----------------------------------------------------------------------------
\* The slot of the k-th oldest entry, and the entries oldest first.
Oldest == IF Full THEN head ELSE 0

SlotOf(k) == (Oldest + k - 1) % Cap

Recent == [k \in 1..size |-> buf[SlotOf(k)]]

TypeOK ==
  /\ buf \in [Slots -> BOOLEAN]
  /\ head \in Slots
  /\ size \in 0..Cap
  /\ missed \in Int

\* The published count is exactly the number of misses among the blocks the
\* window remembers: no eviction is counted twice or forgotten (Push adjusts
\* the count before it overwrites the slot).
MissedIsCount == missed = Cardinality({k \in 1..size : Recent[k]})

\* The ring buffer implements "the last Cap outcomes": every Push of
\* gno_window.go is one Observe of the abstract window, which forgets the
\* oldest outcome and no other.
Ideal == INSTANCE SlidingWindow WITH N <- Cap, recent <- Recent

IsSlidingWindow == Ideal!Spec
=============================================================================
