------------------------- MODULE Percentage_proofs -------------------------
(***************************************************************************)
(* Proofs about the signing-health window and the percentage alarm, for    *)
(* every capacity, slashing window and threshold.                          *)
(***************************************************************************)
EXTENDS Percentage, FiniteSetTheorems, SequenceTheorems, TLAPS

-----------------------------------------------------------------------------
(* Arithmetic of the circular index *)

\* The capacity is positive whatever was configured (newGnoWindow's clamp).
LEMMA CapPositive == Cap \in Nat /\ Cap >= 1
  BY CapArgAssumption DEF Cap

\* An index that has run at most once past the end wraps by one subtraction.
LEMMA WrapOnce ==
  \A x \in 0..(2 * Cap - 1) : x % Cap = IF x < Cap THEN x ELSE x - Cap
<1> TAKE x \in 0..(2 * Cap - 1)
<1>1. Cap \in Nat /\ Cap >= 1
  BY CapPositive
<1>2. CASE x < Cap
  BY <1>1, <1>2
<1>3. CASE ~(x < Cap)
  BY <1>1, <1>3
<1> QED
  BY <1>2, <1>3

-----------------------------------------------------------------------------
(* The inductive invariant.  MissedIsCount speaks of the outcomes in       *)
(* order; what a Push maintains is a count over the slots, which is the    *)
(* same number only because a slot not yet written holds no miss and       *)
(* because the writes of the warm-up go from slot 0 upwards.               *)

MissedSlots == {i \in Slots : buf[i]}

WarmUp == ~Full => head = size

CleanBeyondSize == \A i \in Slots : i >= size => ~buf[i]

CountBySlot == missed = Cardinality(MissedSlots)

WindowInv == TypeOK /\ WarmUp /\ CleanBeyondSize /\ CountBySlot

LEMMA MissedSlotsFinite == IsFiniteSet(MissedSlots)
<1>1. Cap - 1 \in Int
  BY CapPositive
<1>2. IsFiniteSet(Slots)
  BY <1>1, FS_Interval DEF Slots
<1>3. MissedSlots \in SUBSET Slots
  BY DEF MissedSlots
<1> QED
  BY <1>2, <1>3, FS_Subset

LEMMA WindowInvInit == Init => WindowInv
<1> SUFFICES ASSUME Init PROVE WindowInv
  OBVIOUS
<1> USE CapPositive
<1>1. TypeOK
  BY DEF Init, TypeOK, Slots
<1>2. WarmUp /\ CleanBeyondSize
  BY DEF Init, WarmUp, CleanBeyondSize
<1>3. MissedSlots = {}
  BY DEF Init, MissedSlots
<1>4. CountBySlot
  BY <1>3, FS_EmptySet DEF Init, CountBySlot
<1> QED
  BY <1>1, <1>2, <1>4 DEF WindowInv

\* A new window is one in its initial state.
LEMMA WindowInvNew ==
  ASSUME NewWindow
  PROVE  WindowInv'
<1> USE CapPositive
<1>1. TypeOK'
  BY DEF NewWindow, TypeOK, Slots, Cap
<1>2. WarmUp' /\ CleanBeyondSize'
  BY DEF NewWindow, WarmUp, CleanBeyondSize
<1>3. MissedSlots' = {}
  BY DEF NewWindow, MissedSlots
<1>4. CountBySlot'
  BY <1>3, FS_EmptySet DEF NewWindow, CountBySlot
<1> QED
  BY <1>1, <1>2, <1>4 DEF WindowInv

\* What one Push does to the four parts of the invariant.
LEMMA WindowInvPush ==
  ASSUME WindowInv, NEW isMiss \in BOOLEAN, Push(isMiss)
  PROVE  WindowInv'
<1> USE CapPositive
<1>1. /\ buf \in [Slots -> BOOLEAN]
      /\ head \in Slots /\ head \in 0..(Cap - 1)
      /\ size \in 0..Cap
      /\ missed \in Int
  BY DEF WindowInv, TypeOK, Slots
<1>2. head' = IF head + 1 = Cap THEN 0 ELSE head + 1
  <2>1. PICK next \in 0..(2 * Cap - 1) : next = head + 1
    BY <1>1
  <2>2. next % Cap = IF next < Cap THEN next ELSE next - Cap
    BY WrapOnce
  <2> QED
    BY <1>1, <2>1, <2>2 DEF Push
<1>3. TypeOK'
  <2>1. buf' \in [Slots -> BOOLEAN]
    BY <1>1 DEF Push
  <2>2. head' \in Slots
    BY <1>1, <1>2 DEF Slots
  <2>3. size' \in 0..Cap
    BY <1>1 DEF Push, Full
  <2>4. missed' \in Int
    BY <1>1 DEF Push, Bit
  <2> QED
    BY <2>1, <2>2, <2>3, <2>4 DEF TypeOK, Slots, Cap
<1>4. WarmUp'
  BY <1>1, <1>2 DEF WindowInv, WarmUp, Push, Full
<1>5. CleanBeyondSize'
  BY <1>1 DEF WindowInv, WarmUp, CleanBeyondSize, Push, Full, Slots
<1>6. MissedSlots' = IF isMiss THEN MissedSlots \cup {head}
                     ELSE MissedSlots \ {head}
  BY <1>1 DEF MissedSlots, Push
<1>7. head \in MissedSlots <=> buf[head]
  BY <1>1 DEF MissedSlots
<1>8. ~Full => ~buf[head]
  BY <1>1 DEF WindowInv, WarmUp, CleanBeyondSize
<1>9. missed = Cardinality(MissedSlots) /\ missed \in Nat
  BY MissedSlotsFinite, FS_CardinalityType DEF WindowInv, CountBySlot
<1>10. CASE isMiss
  <2>1. Cardinality(MissedSlots') =
          IF head \in MissedSlots THEN missed ELSE missed + 1
    BY <1>6, <1>9, <1>10, MissedSlotsFinite, FS_AddElement
  <2>2. missed' = IF Full /\ buf[head] THEN missed ELSE missed + 1
    BY <1>9, <1>10 DEF Push, Bit
  <2>3. CountBySlot'
    BY <1>7, <1>8, <2>1, <2>2 DEF CountBySlot
  <2> QED
    BY <1>3, <1>4, <1>5, <2>3 DEF WindowInv
<1>11. CASE ~isMiss
  <2>1. Cardinality(MissedSlots') =
          IF head \in MissedSlots THEN missed - 1 ELSE missed
    BY <1>6, <1>9, <1>11, MissedSlotsFinite, FS_RemoveElement
  <2>2. missed' = IF Full /\ buf[head] THEN missed - 1 ELSE missed
    BY <1>9, <1>11 DEF Push, Bit
  <2>3. CountBySlot'
    BY <1>7, <1>8, <2>1, <2>2 DEF CountBySlot
  <2> QED
    BY <1>3, <1>4, <1>5, <2>3 DEF WindowInv
<1> QED
  BY <1>10, <1>11

LEMMA WindowInvStep == WindowInv /\ [Next]_vars => WindowInv'
<1> SUFFICES ASSUME WindowInv, [Next]_vars PROVE WindowInv'
  OBVIOUS
<1>1. CASE Next
  BY <1>1, WindowInvNew, WindowInvPush DEF Next
<1>2. CASE UNCHANGED vars
  BY <1>2 DEF vars, WindowInv, TypeOK, WarmUp, CleanBeyondSize, CountBySlot,
              MissedSlots, Full, Slots, Cap
<1> QED
  BY <1>1, <1>2

LEMMA WindowInvAlways == Spec => []WindowInv
  BY WindowInvInit, WindowInvStep, PTL DEF Spec

-----------------------------------------------------------------------------
(* From the slots to the outcomes in order *)

\* The slot of the k-th oldest outcome, without the modulo.
LEMMA SlotOfValue ==
  WindowInv => \A k \in 1..size :
                 SlotOf(k) = IF ~Full THEN k - 1
                             ELSE IF head + k - 1 < Cap THEN head + k - 1
                                  ELSE head + k - 1 - Cap
<1> SUFFICES ASSUME WindowInv, NEW k \in 1..size
             PROVE  SlotOf(k) = IF ~Full THEN k - 1
                                ELSE IF head + k - 1 < Cap THEN head + k - 1
                                     ELSE head + k - 1 - Cap
  OBVIOUS
<1>1. /\ Cap \in Nat /\ Cap >= 1
      /\ head \in 0..(Cap - 1)
      /\ size \in 0..Cap
  BY CapPositive DEF WindowInv, TypeOK, Slots
<1>2. PICK x \in 0..(2 * Cap - 1) : x = Oldest + k - 1
  BY <1>1 DEF Oldest
<1>3. x % Cap = IF x < Cap THEN x ELSE x - Cap
  BY WrapOnce
<1> QED
  BY <1>1, <1>2, <1>3 DEF SlotOf, Oldest, Full

\* The outcomes in order are a sequence as long as the window.
LEMMA RecentIsSeq ==
  WindowInv => Recent \in Seq(BOOLEAN) /\ Len(Recent) = size
<1> SUFFICES ASSUME WindowInv
             PROVE  Recent \in Seq(BOOLEAN) /\ Len(Recent) = size
  OBVIOUS
<1>1. /\ Cap \in Nat /\ Cap >= 1
      /\ buf \in [Slots -> BOOLEAN]
      /\ head \in 0..(Cap - 1)
      /\ size \in 0..Cap
  BY CapPositive DEF WindowInv, TypeOK, Slots
<1>2. \A k \in 1..size : SlotOf(k) \in Slots
  BY <1>1, SlotOfValue DEF Slots, Full
<1>3. Recent \in [1..size -> BOOLEAN]
  BY <1>1, <1>2 DEF Recent
<1> QED
  BY <1>1, <1>3

\* Appending to a sequence of outcomes, element by element.
LEMMA AppendOutcome ==
  ASSUME NEW s \in Seq(BOOLEAN), NEW b \in BOOLEAN
  PROVE  /\ Append(s, b) \in Seq(BOOLEAN)
         /\ Len(Append(s, b)) = Len(s) + 1
         /\ \A k \in 1..(Len(s) + 1) :
              Append(s, b)[k] = IF k <= Len(s) THEN s[k] ELSE b
  OBVIOUS

\* The count over slots is the count over outcomes: SlotOf is a bijection
\* from the outcomes that are misses to the slots that hold one.
LEMMA CountOverOutcomes ==
  ASSUME WindowInv
  PROVE  MissedIsCount
<1> DEFINE Misses == {k \in 1..size : Recent[k]}
           f == [k \in Misses |-> SlotOf(k)]
<1>1. /\ Cap \in Nat /\ Cap >= 1
      /\ head \in 0..(Cap - 1)
      /\ size \in 0..Cap
  BY CapPositive DEF WindowInv, TypeOK, Slots
<1>2. \A k \in 1..size : SlotOf(k) \in Slots
  BY <1>1, SlotOfValue DEF Slots, Full
<1>3. f \in [Misses -> MissedSlots]
  BY <1>2 DEF Recent, MissedSlots
<1>4. \A j, k \in Misses : f[j] = f[k] => j = k
  BY <1>1, SlotOfValue DEF Full
<1>5. \A i \in MissedSlots : \E k \in Misses : f[k] = i
  <2> TAKE i \in MissedSlots
  <2>1. i \in 0..(Cap - 1) /\ buf[i]
    BY DEF MissedSlots, Slots
  <2>2. \E k \in 1..size : SlotOf(k) = i
    <3>1. CASE ~Full
      <4>1. i + 1 \in 1..size
        BY <1>1, <2>1 DEF WindowInv, CleanBeyondSize, Slots
      <4> QED
        BY <1>1, <2>1, <3>1, <4>1, SlotOfValue
    <3>2. CASE Full /\ i >= head
      <4>1. PICK k \in 1..size : k = i - head + 1
        BY <1>1, <2>1, <3>2 DEF Full
      <4>2. SlotOf(k) = IF head + k - 1 < Cap THEN head + k - 1
                        ELSE head + k - 1 - Cap
        BY <3>2, SlotOfValue
      <4> QED
        BY <1>1, <2>1, <3>2, <4>1, <4>2
    <3>3. CASE Full /\ ~(i >= head)
      <4>1. PICK k \in 1..size : k = i + Cap - head + 1
        BY <1>1, <2>1, <3>3 DEF Full
      <4>2. SlotOf(k) = IF head + k - 1 < Cap THEN head + k - 1
                        ELSE head + k - 1 - Cap
        BY <3>3, SlotOfValue
      <4> QED
        BY <1>1, <2>1, <3>3, <4>1, <4>2
    <3> QED
      BY <3>1, <3>2, <3>3
  <2> QED
    BY <2>1, <2>2 DEF Recent
<1>6. ExistsBijection(Misses, MissedSlots)
  <2>1. f \in Injection(Misses, MissedSlots)
    BY <1>3, <1>4 DEF Injection, IsInjective
  <2>2. f \in Surjection(Misses, MissedSlots)
    BY <1>3, <1>5 DEF Surjection
  <2> QED
    BY <2>1, <2>2 DEF ExistsBijection, Bijection
<1>7. IsFiniteSet(Misses)
  <2>1. IsFiniteSet(1..size)
    BY <1>1, FS_Interval
  <2>2. Misses \in SUBSET (1..size)
    OBVIOUS
  <2> QED
    BY <2>1, <2>2, FS_Subset
<1>8. Cardinality(MissedSlots) = Cardinality(Misses)
  BY <1>6, <1>7, FS_Bijection
<1> QED
  BY <1>8 DEF WindowInv, CountBySlot, MissedIsCount

-----------------------------------------------------------------------------
(* Refinement *)

\* Initial states map to the initial state of the abstract window.
LEMMA RefinesInit == Init => Ideal!Init
  BY DEF Init, Ideal!Init, Recent

\* Push appends to the sequence of outcomes, and drops its head when full.
LEMMA PushRefinesObserve ==
  ASSUME WindowInv, NEW isMiss \in BOOLEAN, Push(isMiss)
  PROVE  Ideal!Observe(isMiss)
<1>1. /\ Cap \in Nat /\ Cap >= 1
      /\ buf \in [Slots -> BOOLEAN]
      /\ head \in 0..(Cap - 1)
      /\ size \in 0..Cap
      /\ ~Full => head = size
  BY CapPositive DEF WindowInv, TypeOK, WarmUp, Slots
<1>2. WindowInv'
  BY WindowInvPush
<1>3. head' = IF head + 1 = Cap THEN 0 ELSE head + 1
  <2>1. PICK next \in 0..(2 * Cap - 1) : next = head + 1
    BY <1>1
  <2>2. next % Cap = IF next < Cap THEN next ELSE next - Cap
    BY WrapOnce
  <2> QED
    BY <1>1, <2>1, <2>2 DEF Push
<1>4. /\ size' = IF Full THEN size ELSE size + 1
      /\ buf' = [buf EXCEPT ![head] = isMiss]
      /\ size' \in 0..Cap /\ head' \in 0..(Cap - 1)
  BY <1>1, <1>3 DEF Push, Full
<1>5. \A k \in 1..size :
        SlotOf(k) = IF ~Full THEN k - 1
                    ELSE IF head + k - 1 < Cap THEN head + k - 1
                         ELSE head + k - 1 - Cap
  BY SlotOfValue
<1>6. \A k \in 1..size' :
        SlotOf(k)' = IF ~Full' THEN k - 1
                     ELSE IF head' + k - 1 < Cap THEN head' + k - 1
                          ELSE head' + k - 1 - Cap
  <2>1. (\A k \in 1..size :
           SlotOf(k) = IF ~Full THEN k - 1
                       ELSE IF head + k - 1 < Cap THEN head + k - 1
                            ELSE head + k - 1 - Cap)'
    BY <1>2, SlotOfValue, PTL
  <2> QED
    BY <2>1 DEF Cap
<1>7. Full' <=> size' = Cap
  BY DEF Full, Cap
<1>8. /\ Recent \in Seq(BOOLEAN) /\ Len(Recent) = size
      /\ Recent' \in Seq(BOOLEAN) /\ Len(Recent') = size'
  <2>1. (Recent \in Seq(BOOLEAN) /\ Len(Recent) = size)'
    BY <1>2, RecentIsSeq, PTL
  <2> QED
    BY <2>1, RecentIsSeq
<1>9. Recent' = [k \in 1..size' |-> buf'[SlotOf(k)']]
  BY DEF Recent
<1>10. CASE ~Full
  <2>1. /\ Append(Recent, isMiss) \in Seq(BOOLEAN)
        /\ Len(Append(Recent, isMiss)) = size + 1
        /\ \A k \in 1..(size + 1) :
             Append(Recent, isMiss)[k] = IF k <= size THEN Recent[k] ELSE isMiss
    BY <1>8, AppendOutcome
  <2>2. size' = size + 1 /\ head = size
    BY <1>1, <1>4, <1>10
  <2>3. \A k \in 1..size' : SlotOf(k)' = k - 1
    BY <1>1, <1>3, <1>4, <1>6, <1>7, <1>10, <2>2 DEF Full
  <2>4. \A k \in 1..size' :
          buf'[SlotOf(k)'] = IF k <= size THEN Recent[k] ELSE isMiss
    <3> TAKE k \in 1..size'
    <3>1. CASE k <= size
      <4>1. SlotOf(k) = k - 1 /\ k - 1 # head /\ k \in 1..size
        BY <1>1, <1>5, <1>10, <2>2, <3>1
      <4> QED
        BY <1>1, <1>4, <2>3, <3>1, <4>1 DEF Recent
    <3>2. CASE ~(k <= size)
      <4>1. k - 1 = head /\ head \in Slots
        BY <1>1, <2>2, <3>2 DEF Slots
      <4> QED
        BY <1>1, <1>4, <2>3, <3>2, <4>1
    <3> QED
      BY <3>1, <3>2
  <2>5. \A k \in 1..Len(Recent') : Recent'[k] = Append(Recent, isMiss)[k]
    BY <1>8, <1>9, <2>1, <2>2, <2>4
  <2>6. Recent' = Append(Recent, isMiss)
    BY <1>8, <2>1, <2>2, <2>5, SeqEqual
  <2> QED
    BY <1>8, <1>10, <2>6 DEF Ideal!Observe, Full
<1>11. CASE Full
  <2>1. /\ size = Cap /\ size' = Cap
        /\ Tail(Recent) \in Seq(BOOLEAN) /\ Len(Tail(Recent)) = Cap - 1
        /\ \A k \in 1..(Cap - 1) : Tail(Recent)[k] = Recent[k + 1]
    <3>1. size = Cap /\ size' = Cap /\ Recent # <<>>
      BY <1>1, <1>4, <1>8, <1>11 DEF Full
    <3> QED
      BY <1>8, <3>1, HeadTailProperties
  <2>2. /\ Append(Tail(Recent), isMiss) \in Seq(BOOLEAN)
        /\ Len(Append(Tail(Recent), isMiss)) = Cap
        /\ \A k \in 1..Cap :
             Append(Tail(Recent), isMiss)[k] =
               IF k < Cap THEN Recent[k + 1] ELSE isMiss
    <3>1. /\ Append(Tail(Recent), isMiss) \in Seq(BOOLEAN)
          /\ Len(Append(Tail(Recent), isMiss)) = Len(Tail(Recent)) + 1
          /\ \A k \in 1..(Len(Tail(Recent)) + 1) :
               Append(Tail(Recent), isMiss)[k] =
                 IF k <= Len(Tail(Recent)) THEN Tail(Recent)[k] ELSE isMiss
      BY <2>1, AppendOutcome
    <3> QED
      BY <1>1, <2>1, <3>1
  <2>3. \A k \in 1..Cap :
          SlotOf(k)' = IF head' + k - 1 < Cap THEN head' + k - 1
                       ELSE head' + k - 1 - Cap
    BY <1>1, <1>6, <1>7, <2>1
  <2>4. \A k \in 1..Cap :
          buf'[SlotOf(k)'] = IF k < Cap THEN Recent[k + 1] ELSE isMiss
    <3> TAKE k \in 1..Cap
    <3>1. CASE k < Cap
      <4>1. k + 1 \in 1..size
        BY <1>1, <2>1, <3>1
      <4>2. SlotOf(k + 1) = IF head + k < Cap THEN head + k ELSE head + k - Cap
        BY <1>1, <1>5, <1>11, <4>1
      <4>3. SlotOf(k)' = SlotOf(k + 1) /\ SlotOf(k + 1) # head
        BY <1>1, <1>3, <2>3, <3>1, <4>2
      <4>4. Recent[k + 1] = buf[SlotOf(k + 1)]
        BY <4>1 DEF Recent
      <4>5. buf'[SlotOf(k + 1)] = buf[SlotOf(k + 1)]
        <5>1. SlotOf(k + 1) \in Slots
          BY <1>1, <3>1, <4>2 DEF Slots
        <5> QED
          BY <1>1, <1>4, <4>3, <5>1
      <4> QED
        BY <3>1, <4>3, <4>4, <4>5
    <3>2. CASE ~(k < Cap)
      <4>1. SlotOf(k)' = head /\ head \in Slots
        BY <1>1, <1>3, <2>3, <3>2 DEF Slots
      <4> QED
        BY <1>1, <1>4, <3>2, <4>1
    <3> QED
      BY <3>1, <3>2
  <2>5. \A k \in 1..Len(Recent') :
          Recent'[k] = Append(Tail(Recent), isMiss)[k]
    BY <1>8, <1>9, <2>1, <2>2, <2>4
  <2>6. Recent' = Append(Tail(Recent), isMiss)
    BY <1>8, <2>1, <2>2, <2>5, SeqEqual
  <2> QED
    BY <1>8, <2>1, <2>6 DEF Ideal!Observe
<1> QED
  BY <1>10, <1>11

\* At any capacity the ring buffer behaves as the sequence of the last Cap
\* outcomes.
LEMMA RingRefines == Spec => IsSlidingWindow
<1>1. WindowInv /\ [Next]_vars => [Ideal!Next]_Recent
  <2> SUFFICES ASSUME WindowInv, [Next]_vars PROVE [Ideal!Next]_Recent
    OBVIOUS
  <2>1. CASE \E isMiss \in BOOLEAN : Push(isMiss)
    <3>1. PICK isMiss \in BOOLEAN : Push(isMiss)
      BY <2>1
    <3>2. Ideal!Observe(isMiss)
      BY <3>1, PushRefinesObserve
    <3> QED
      BY <3>2 DEF Ideal!Next
  <2>3. CASE NewWindow
    BY <2>3 DEF NewWindow, Recent, Ideal!Next, Ideal!Forget
  <2>2. CASE UNCHANGED vars
    BY <2>2 DEF vars, Recent, SlotOf, Oldest, Full, Cap
  <2> QED
    BY <2>1, <2>2, <2>3 DEF Next
<1> QED
  BY <1>1, RefinesInit, WindowInvAlways, PTL DEF Spec, IsSlidingWindow, Ideal!Spec

-----------------------------------------------------------------------------
(* The ring inside PollRun and watch() *)

LEMMA RingStep ==
  ASSUME [PercentNext]_pctVars
  PROVE  [Next]_vars
<1>1. CASE StartSession
  BY <1>1 DEF StartSession, Next
<1>2. ASSUME NEW isMiss \in BOOLEAN, CountBlock(isMiss) PROVE Next
  BY <1>2 DEF CountBlock, Next
<1>3. CASE UNCHANGED ringVars
  BY <1>3 DEF ringVars, vars
<1>4. CASE \/ PublishMissed \/ PublishWindow \/ AnswerWindow \/ Compare
           \/ \E m \in 0..SlashWindow : AnswerMissed(m)
           \/ \E field \in {"missed", "window"} : Look(field)
  BY <1>3, <1>4 DEF PublishMissed, PublishWindow, AnswerWindow, Compare,
                    AnswerMissed, Look
<1>5. CASE UNCHANGED pctVars
  BY <1>3, <1>5 DEF pctVars
<1> QED
  BY <1>1, <1>2, <1>4, <1>5 DEF PercentNext

LEMMA RingInside == PercentSpec => Spec
  BY RingStep, PTL DEF PercentSpec, PercentInit, Spec

\* The count lies within the capacity.
LEMMA CountBounded == WindowInv => missed \in 0..Cap /\ size \in 0..Cap
<1> SUFFICES ASSUME WindowInv PROVE missed \in 0..Cap /\ size \in 0..Cap
  OBVIOUS
<1>1. Cap \in Nat /\ Cap >= 1
  BY CapPositive
<1>2. IsFiniteSet(Slots) /\ Cardinality(Slots) = Cap
  BY <1>1, FS_Interval DEF Slots
<1>3. MissedSlots \in SUBSET Slots
  BY DEF MissedSlots
<1>4. Cardinality(MissedSlots) <= Cap
  BY <1>2, <1>3, FS_Subset
<1>5. Cardinality(MissedSlots) \in Nat
  BY MissedSlotsFinite, FS_CardinalityType
<1> QED
  BY <1>1, <1>4, <1>5 DEF WindowInv, TypeOK, CountBySlot

-----------------------------------------------------------------------------
(* The inductive invariant *)

\* How far PollRun is with publishing what it has counted.
PublishInv ==
  provider = "gnoland" =>
    /\ stage # "idle" => size > 0
    /\ (stage = "idle" /\ size > 0) => info = Counted
    /\ stage = "half" => info.missed = missed

\* Whatever watch() has read, and whatever it may still read, is of a pair in
\* span; and what PollRun is about to write is there, too.
SpanInv ==
  Looking =>
    /\ look.field \in {"missed", "window"}
    /\ \E p \in span : look.value = p[look.field]
    /\ \E p \in span : info.missed = p.missed
    /\ \E p \in span : info.window = p.window
    /\ (provider = "gnoland" /\ stage # "idle") => Counted \in span

PercentInv == WindowInv /\ PercentTypeOK /\ PublishInv /\ SpanInv

LEMMA PercentInvInit == PercentInit => PercentInv
<1> SUFFICES ASSUME PercentInit PROVE PercentInv
  OBVIOUS
<1>1. WindowInv
  BY WindowInvInit DEF PercentInit
<1>2. Limit \in Nat
  BY CapPositive, PercentAssumption DEF Limit
<1>3. PercentTypeOK
  <2>1. info \in Pairs /\ span \subseteq Pairs
    BY <1>2 DEF PercentInit, Pairs, Pair
  <2>2. TypeOK /\ provider \in {"cosmos", "gnoland"}
    BY <1>1, PercentAssumption DEF PercentInit, WindowInv
  <2> QED
    BY <2>1, <2>2 DEF PercentInit, PercentTypeOK
<1>4. PublishInv
  BY DEF PercentInit, Init, PublishInv
<1>5. SpanInv
  BY DEF PercentInit, SpanInv, Looking
<1> QED
  BY <1>1, <1>3, <1>4, <1>5 DEF PercentInv

LEMMA CountedIsPair ==
  ASSUME WindowInv, provider = "gnoland"
  PROVE  Counted \in Pairs
  BY CountBounded DEF Counted, Pair, Pairs, Limit

\* The bound of the numbers is fixed.
LEMMA LimitFixed ==
  ASSUME UNCHANGED provider
  PROVE  Pairs' = Pairs /\ Limit' = Limit
  BY DEF Pairs, Limit, Cap

\* What watch() compares are numbers of blocks.
LEMMA SeenTyped ==
  ASSUME PercentTypeOK, Looking
  PROVE  Seen.missed \in 0..Limit /\ Seen.window \in 0..Limit
<1>1. look.value \in 0..Limit
  BY DEF PercentTypeOK, Looking
<1>2. info.missed \in 0..Limit /\ info.window \in 0..Limit
  BY DEF PercentTypeOK, Pairs
<1> QED
  BY <1>1, <1>2 DEF Seen, Pair

LEMMA ExceedsBoolean ==
  ASSUME NEW m \in Nat, NEW w \in Nat
  PROVE  Exceeds(m, w) \in BOOLEAN
<1>1. Threshold * w \in Nat /\ 100 * m \in Nat
  BY PercentAssumption
<1>2. (m > 0) \in BOOLEAN /\ (100 * m > Threshold * w) \in BOOLEAN
  BY <1>1
<1> QED
  BY <1>2 DEF Exceeds

LEMMA PercentTypeStep ==
  ASSUME PercentInv, WindowInv', [PercentNext]_pctVars
  PROVE  PercentTypeOK'
<1>1. /\ info \in Pairs /\ span \subseteq Pairs /\ pctAlarm \in BOOLEAN
      /\ look \in [field : {"missed", "window"}, value : 0..Limit]
                    \cup {NotLooking}
      /\ provider \in {"cosmos", "gnoland"}
      /\ stage \in {"idle", "counted", "half"}
  BY DEF PercentInv, PercentTypeOK
<1>2. UNCHANGED provider
  BY DEF PercentNext, StartSession, CountBlock, PublishMissed, PublishWindow,
         AnswerMissed, AnswerWindow, Look, Compare, pctVars
<1>3. Pairs' = Pairs /\ Limit' = Limit
  BY <1>2, LimitFixed
<1>4. TypeOK'
  BY DEF WindowInv
<1>5. NotLooking' = NotLooking
  BY DEF NotLooking
<1> USE DEF PercentTypeOK
<1>6. CASE StartSession
  BY <1>1, <1>2, <1>3, <1>4, <1>5, <1>6 DEF StartSession, watchVars
<1>7. ASSUME NEW isMiss \in BOOLEAN, CountBlock(isMiss) PROVE PercentTypeOK'
  <2>1. Counted' \in Pairs
    <3>1. provider' = "gnoland"
      BY <1>7 DEF CountBlock
    <3>2. (missed \in 0..Cap /\ size \in 0..Cap)'
      BY CountBounded, PTL
    <3> QED
      BY <1>3, <3>1, <3>2 DEF Counted, Pair, Pairs, Limit, Cap
  <2>2. span' \subseteq Pairs
    BY <1>1, <1>7, <2>1 DEF CountBlock, Becomes
  <2> QED
    BY <1>1, <1>2, <1>3, <1>4, <1>5, <1>7, <2>2 DEF CountBlock, watchVars
<1>8. CASE PublishMissed
  <2>1. info' \in Pairs
    BY <1>1, <1>8, CountBounded
       DEF PublishMissed, Pairs, Limit, PercentInv
  <2> QED
    BY <1>1, <1>2, <1>3, <1>4, <1>5, <1>8, <2>1 DEF PublishMissed, watchVars
<1>9. CASE PublishWindow
  <2>1. info' \in Pairs
    BY <1>1, <1>9, CountBounded
       DEF PublishWindow, Pairs, Limit, PercentInv
  <2> QED
    BY <1>1, <1>2, <1>3, <1>4, <1>5, <1>9, <2>1 DEF PublishWindow, watchVars
<1>10. ASSUME NEW m \in 0..SlashWindow, AnswerMissed(m) PROVE PercentTypeOK'
  <2>1. info' \in Pairs
    BY <1>1, <1>10 DEF AnswerMissed, Pairs, Limit
  <2>2. span' \subseteq Pairs
    BY <1>1, <1>10, <2>1 DEF AnswerMissed, Becomes
  <2> QED
    BY <1>1, <1>2, <1>3, <1>4, <1>5, <1>10, <2>1, <2>2
       DEF AnswerMissed, watchVars
<1>11. CASE AnswerWindow
  <2>1. info' \in Pairs
    BY <1>1, <1>11, PercentAssumption DEF AnswerWindow, Pairs, Limit
  <2>2. span' \subseteq Pairs
    BY <1>1, <1>11, <2>1 DEF AnswerWindow, Becomes
  <2> QED
    BY <1>1, <1>2, <1>3, <1>4, <1>5, <1>11, <2>1, <2>2
       DEF AnswerWindow, watchVars
<1>12. ASSUME NEW field \in {"missed", "window"}, Look(field)
       PROVE  PercentTypeOK'
  <2>1. look' \in [field : {"missed", "window"}, value : 0..Limit]
    BY <1>1, <1>12 DEF Look, Pairs
  <2>2. span' \subseteq Pairs
    BY <1>1, <1>12, CountedIsPair DEF Look, PercentInv
  <2> QED
    BY <1>1, <1>2, <1>3, <1>4, <1>5, <1>12, <2>1, <2>2 DEF Look
<1>13. CASE Compare
  <2>1. CASE pctAlarm
    BY <1>1, <1>2, <1>3, <1>4, <1>5, <1>13, <2>1 DEF Compare, FallsBelow
  <2>2. CASE ~pctAlarm
    <3>1. Exceeds(Seen.missed, Seen.window) \in BOOLEAN
      <4>1. Limit \in Nat
        BY CapPositive, PercentAssumption DEF Limit
      <4>2. Seen.missed \in Nat /\ Seen.window \in Nat
        BY <1>13, <4>1, SeenTyped DEF Compare, PercentInv
      <4> QED
        BY <4>2, ExceedsBoolean
    <3>2. pctAlarm' \in BOOLEAN
      BY <1>13, <2>2, <3>1 DEF Compare
    <3> QED
      BY <1>1, <1>2, <1>3, <1>4, <1>5, <1>13, <3>2 DEF Compare
  <2> QED
    BY <2>1, <2>2
<1>14. CASE UNCHANGED pctVars
  BY <1>1, <1>2, <1>3, <1>4, <1>5, <1>14 DEF pctVars, watchVars
<1> QED
  BY <1>6, <1>7, <1>8, <1>9, <1>10, <1>11, <1>12, <1>13, <1>14 DEF PercentNext

LEMMA PublishStep ==
  ASSUME PercentInv, [PercentNext]_pctVars
  PROVE  PublishInv'
<1>1. PublishInv /\ info \in Pairs
  BY DEF PercentInv, PercentTypeOK
<1>2. CASE StartSession
  BY <1>1, <1>2 DEF StartSession, NewWindow, PublishInv
<1>3. ASSUME NEW isMiss \in BOOLEAN, CountBlock(isMiss) PROVE PublishInv'
  <2>1. size' > 0
    <3>1. size \in 0..Cap /\ Cap >= 1
      BY CapPositive DEF PercentInv, WindowInv, TypeOK
    <3> QED
      BY <1>3, <3>1 DEF CountBlock, Push, Full
  <2> QED
    BY <1>3, <2>1 DEF CountBlock, PublishInv
<1>4. CASE PublishMissed
  BY <1>1, <1>4 DEF PublishMissed, PublishInv, Pairs, ringVars
<1>5. CASE PublishWindow
  <2>1. info.missed = missed
    BY <1>1, <1>5 DEF PublishWindow, PublishInv
  <2>2. info' = Pair(missed, size)
    BY <1>1, <1>5, <2>1 DEF PublishWindow, Pairs, Pair
  <2> QED
    BY <1>5, <2>2 DEF PublishWindow, PublishInv, Counted, ringVars, Pair
<1>6. CASE AnswerWindow \/ \E m \in 0..SlashWindow : AnswerMissed(m)
  BY <1>6 DEF AnswerWindow, AnswerMissed, PublishInv
<1>7. CASE Compare \/ \E field \in {"missed", "window"} : Look(field)
  BY <1>1, <1>7 DEF Compare, Look, PublishInv, Counted, Pair, ringVars
<1>8. CASE UNCHANGED pctVars
  BY <1>1, <1>8 DEF pctVars, ringVars, PublishInv, Counted, Pair
<1> QED
  BY <1>2, <1>3, <1>4, <1>5, <1>6, <1>7, <1>8 DEF PercentNext

LEMMA SpanStep ==
  ASSUME PercentInv, [PercentNext]_pctVars
  PROVE  SpanInv'
<1>1. SpanInv /\ info \in Pairs /\ span \subseteq Pairs
  BY DEF PercentInv, PercentTypeOK
<1>2. CASE StartSession
  BY <1>1, <1>2 DEF StartSession, watchVars, SpanInv, Looking, NotLooking
<1>3. ASSUME NEW isMiss \in BOOLEAN, CountBlock(isMiss) PROVE SpanInv'
  BY <1>1, <1>3
     DEF CountBlock, Becomes, watchVars, SpanInv, Looking, NotLooking
<1>4. CASE PublishMissed
  <2>1. Looking => Counted \in span
    BY <1>1, <1>4 DEF PublishMissed, SpanInv
  <2>2. info'.missed = Counted.missed /\ info'.window = info.window
    BY <1>1, <1>4 DEF PublishMissed, Counted, Pair, Pairs
  <2>3. Counted' = Counted
    BY <1>4 DEF PublishMissed, Counted, Pair, ringVars
  <2> QED
    BY <1>1, <1>4, <2>1, <2>2, <2>3
       DEF PublishMissed, watchVars, SpanInv, Looking, NotLooking
<1>5. CASE PublishWindow
  <2>1. Looking => Counted \in span
    BY <1>1, <1>5 DEF PublishWindow, SpanInv
  <2>2. info'.window = Counted.window /\ info'.missed = info.missed
    BY <1>1, <1>5 DEF PublishWindow, Counted, Pair, Pairs
  <2> QED
    BY <1>1, <1>5, <2>1, <2>2
       DEF PublishWindow, watchVars, SpanInv, Looking, NotLooking
<1>6. CASE AnswerWindow \/ \E m \in 0..SlashWindow : AnswerMissed(m)
  <2>1. /\ provider' = "cosmos" /\ UNCHANGED look
        /\ Looking => span' = span \cup {info'}
    BY <1>6 DEF AnswerWindow, AnswerMissed, Becomes, watchVars
  <2> QED
    BY <1>1, <2>1 DEF SpanInv, Looking, NotLooking
<1>7. ASSUME NEW field \in {"missed", "window"}, Look(field) PROVE SpanInv'
  <2>1. /\ look'.field = field /\ look'.value = info[field]
        /\ info \in span' /\ UNCHANGED <<info, provider, stage>>
    BY <1>7 DEF Look
  <2>2. (provider = "gnoland" /\ stage # "idle") => Counted' \in span'
    BY <1>7 DEF Look, Counted, Pair, ringVars
  <2> QED
    BY <2>1, <2>2 DEF SpanInv
<1>8. CASE Compare
  BY <1>8 DEF Compare, SpanInv, Looking, NotLooking
<1>9. CASE UNCHANGED pctVars
  BY <1>1, <1>9 DEF pctVars, ringVars, watchVars, SpanInv, Looking, NotLooking,
                    Counted, Pair
<1> QED
  BY <1>2, <1>3, <1>4, <1>5, <1>6, <1>7, <1>8, <1>9 DEF PercentNext

LEMMA PercentInvStep == PercentInv /\ [PercentNext]_pctVars => PercentInv'
<1> SUFFICES ASSUME PercentInv, [PercentNext]_pctVars PROVE PercentInv'
  OBVIOUS
<1>1. WindowInv'
  BY RingStep, WindowInvStep DEF PercentInv
<1> QED
  BY <1>1, PercentTypeStep, PublishStep, SpanStep DEF PercentInv

LEMMA PercentInvAlways == PercentSpec => []PercentInv
  BY PercentInvInit, PercentInvStep, PTL DEF PercentSpec

\* With a window of one size, what watch() compares is one of the pairs that
\* there were while it looked.
LEMMA SeenInSpan ==
  ASSUME PercentInv, Looking, SteadyWindow
  PROVE  Seen \in span /\ Seen.window # 0 /\ Seen.missed \in Nat /\ Seen.window \in Nat
<1>1. Limit \in Nat
  BY CapPositive, PercentAssumption DEF Limit
<1>2. span \subseteq Pairs
  BY DEF PercentInv, PercentTypeOK
<1>3. PICK p \in span : look.value = p[look.field]
  BY DEF PercentInv, SpanInv
<1>4. PICK q \in span : info.missed = q.missed
  BY DEF PercentInv, SpanInv
<1>5. PICK r \in span : info.window = r.window
  BY DEF PercentInv, SpanInv
<1>6. p.window = r.window /\ q.window = r.window /\ q.window = p.window /\ p.window # 0
  BY DEF SteadyWindow
<1>7. CASE look.field = "missed"
  <2>1. Seen = Pair(p.missed, p.window)
    BY <1>3, <1>5, <1>6, <1>7 DEF Seen
  <2>2. Seen = p
    BY <1>2, <2>1 DEF Pair, Pairs
  <2> QED
    BY <1>1, <1>2, <1>6, <2>2 DEF Pairs
<1>8. CASE look.field = "window"
  <2>1. Seen = Pair(q.missed, q.window)
    BY <1>3, <1>4, <1>6, <1>8 DEF Seen
  <2>2. Seen = q
    BY <1>2, <2>1 DEF Pair, Pairs
  <2> QED
    BY <1>1, <1>2, <1>6, <2>2 DEF Pairs
<1> QED
  BY <1>7, <1>8 DEF PercentInv, SpanInv

\* Only the end of a look changes the alarm.
LEMMA OnlyCompare ==
  ASSUME [PercentNext]_pctVars, ~Compare
  PROVE  UNCHANGED pctAlarm /\ ~(Looking /\ ~Looking')
  BY DEF PercentNext, StartSession, CountBlock, PublishMissed, PublishWindow,
         AnswerMissed, AnswerWindow, Look, pctVars, watchVars, Looking, NotLooking

-----------------------------------------------------------------------------
(* The theorems *)

\* Type correctness at any capacity, slashing window and threshold: the ring's
\* head stays one of its slots, and neither number exceeds the window
\* (gno_window.go; ValInfo in validator.go).
THEOREM PercentTypeCorrect == PercentSpec => []PercentTypeOK
  BY PercentInvAlways, PTL DEF PercentInv

\* Invariant: the count of misses is the number of misses among the blocks
\* the window remembers (gno_window.go, Push and Missed), at any capacity.
THEOREM MissedIsCountAlways == PercentSpec => []MissedIsCount
  BY RingInside, WindowInvAlways, CountOverOutcomes, PTL

\* Refinement: in any behaviour of the poller the ring buffer is the sequence
\* of the last Cap outcomes (gno_window.go's own description of the type).
THEOREM ImplementsSlidingWindow == PercentSpec => IsSlidingWindow
  BY RingInside, RingRefines, PTL

\* Invariant: between two blocks valInfo.Missed is the number of misses among
\* the last valInfo.Window outcomes (gno_poll.go:174), at any capacity.
THEOREM PublishedAlwaysPair == PercentSpec => []PublishedPair
<1>1. ASSUME PercentInv PROVE PublishedPair
  <2> SUFFICES ASSUME provider = "gnoland", stage = "idle", size > 0
               PROVE  /\ info.window = Len(Recent)
                      /\ info.missed = Cardinality({k \in 1..info.window : Recent[k]})
    BY DEF PublishedPair
  <2>1. info.missed = missed /\ info.window = size
    BY <1>1 DEF PercentInv, PublishInv, Counted, Pair
  <2>2. Len(Recent) = size
    BY <1>1, RecentIsSeq DEF PercentInv
  <2>3. missed = Cardinality({k \in 1..size : Recent[k]})
    BY <1>1, CountOverOutcomes DEF PercentInv, MissedIsCount
  <2> QED
    BY <2>1, <2>2, <2>3
<1> QED
  BY <1>1, PercentInvAlways, PTL

\* Action property: while the window keeps its size, the percentage alarm
\* changes only because the percentage was on the other side of the threshold
\* while watch() looked (alert.go:676, alert.go:688), however its two reads and
\* the writes of the pair interleave.
THEOREM PercentAlwaysSound == PercentSpec => PercentSound
<1>1. ASSUME PercentInv, [PercentNext]_pctVars, SteadyWindow
      PROVE  /\ (~pctAlarm /\ pctAlarm')
                  => \E p \in span : 100 * p.missed > Threshold * p.window
             /\ (pctAlarm /\ ~pctAlarm')
                  => \E p \in span : 100 * p.missed < Threshold * p.window
  <2>1. CASE Compare
    <3>1. Seen \in span /\ Seen.window # 0
      BY <1>1, <2>1, SeenInSpan DEF Compare
    <3>2. (~pctAlarm /\ pctAlarm') => 100 * Seen.missed > Threshold * Seen.window
      BY <2>1, <3>1 DEF Compare, Exceeds
    <3>3. (pctAlarm /\ ~pctAlarm') => 100 * Seen.missed < Threshold * Seen.window
      BY <2>1 DEF Compare, FallsBelow
    <3> QED
      BY <3>1, <3>2, <3>3
  <2>2. CASE ~Compare
    BY <1>1, <2>2, OnlyCompare
  <2> QED
    BY <2>1, <2>2
<1> QED
  BY <1>1, PercentInvAlways, PTL DEF PercentSpec, PercentSound

\* Action property: a look during which the percentage was above the threshold
\* throughout leaves the alarm standing, one during which it was below ends it.
THEOREM PercentAlwaysComplete == PercentSpec => PercentComplete
<1>1. ASSUME PercentInv, [PercentNext]_pctVars, Looking, ~Looking', SteadyWindow
      PROVE  /\ (\A p \in span : 100 * p.missed > Threshold * p.window)
                  => pctAlarm'
             /\ (\A p \in span : 100 * p.missed < Threshold * p.window)
                  => ~pctAlarm'
  <2>1. Compare
    BY <1>1, OnlyCompare
  <2>2. /\ Seen \in span /\ Seen.window # 0
        /\ Seen.missed \in Nat /\ Seen.window \in Nat
    BY <1>1, SeenInSpan
  <2>3. Threshold * Seen.window \in Nat /\ 100 * Seen.missed \in Nat
    BY <2>2, PercentAssumption
  <2>4. ASSUME 100 * Seen.missed > Threshold * Seen.window PROVE pctAlarm'
    <3>1. Exceeds(Seen.missed, Seen.window)
      BY <2>2, <2>4 DEF Exceeds
    <3>2. ~FallsBelow(Seen.missed, Seen.window)
      BY <2>3, <2>4 DEF FallsBelow
    <3> QED
      BY <2>1, <3>1, <3>2 DEF Compare
  <2>5. ASSUME 100 * Seen.missed < Threshold * Seen.window PROVE ~pctAlarm'
    <3>1. ~Exceeds(Seen.missed, Seen.window)
      BY <2>2, <2>3, <2>5 DEF Exceeds
    <3>2. FallsBelow(Seen.missed, Seen.window)
      BY <2>2, <2>5 DEF FallsBelow
    <3> QED
      BY <2>1, <3>1, <3>2 DEF Compare
  <2> QED
    BY <2>2, <2>4, <2>5
<1> QED
  BY <1>1, PercentInvAlways, PTL DEF PercentSpec, PercentComplete
=============================================================================
