------------------------------- MODULE Ledger -------------------------------
(***************************************************************************)
(* What ingestion promises: a ledger of blocks filled at two frontiers.    *)
(* The live frontier moves forward from Start, the fill frontier forward   *)
(* through RangeStart..RangeEnd; a move counts exactly the blocks it       *)
(* passes, and nothing else ever changes a count.                          *)
(***************************************************************************)
EXTENDS Integers

CONSTANTS MaxBlock, Start, RangeStart, RangeEnd

VARIABLES count, liveTo, fillTo

Blocks == 1..MaxBlock

Init ==
  /\ count = [b \in Blocks |-> 0]
  /\ liveTo = Start
  /\ fillTo = RangeStart - 1

CountUp(S) == count' = [b \in Blocks |-> IF b \in S THEN count[b] + 1 ELSE count[b]]

AdvanceLive(to) ==
  /\ liveTo < to /\ to <= MaxBlock
  /\ CountUp((liveTo + 1)..to)
  /\ liveTo' = to
  /\ UNCHANGED fillTo

AdvanceFill(to) ==
  /\ fillTo < to /\ to <= RangeEnd
  /\ CountUp((fillTo + 1)..to)
  /\ fillTo' = to
  /\ UNCHANGED liveTo

Next == \E to \in Blocks : AdvanceLive(to) \/ AdvanceFill(to)

Spec == Init /\ [][Next]_<<count, liveTo, fillTo>>

=============================================================================
