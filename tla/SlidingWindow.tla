--------------------------- MODULE SlidingWindow ---------------------------
(***************************************************************************)
(* What the gno signing-health window promises to its readers, without its *)
(* ring buffer: the outcomes of the last N blocks that were recorded,      *)
(* oldest first, TRUE for a missed block.  The two numbers published from  *)
(* it (valInfo.Missed and valInfo.Window) are functions of that sequence.  *)
(***************************************************************************)
EXTENDS Naturals, Sequences

CONSTANT N          \* how many blocks are remembered

VARIABLE recent     \* their outcomes, oldest first

Init == recent = <<>>

\* One more block: its outcome is appended, and the oldest one is forgotten
\* when that makes one too many.
Observe(outcome) ==
  recent' = IF Len(recent) = N
            THEN Append(Tail(recent), outcome)
            ELSE Append(recent, outcome)

\* A new window takes the place of the old one (a poller that starts again).
Forget == recent' = <<>>

Next == Forget \/ \E outcome \in BOOLEAN : Observe(outcome)

Spec == Init /\ [][Next]_recent
=============================================================================
