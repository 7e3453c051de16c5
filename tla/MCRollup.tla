------------------------------ MODULE MCRollup ------------------------------
(* Small instances of Rollup for TLC.                                        *)
EXTENDS Rollup, TLC

CONSTANTS a1, a2, c1

\* Two overlapping live runs and a backfill; one day, senders left out.
OneDay == [b \in Blocks |-> 0]
NoSenders == [b \in Blocks |-> {}]
NoCalls == [b \in Blocks |-> {}]

\* Two days of live blocks after a gap of three.
SplitDays == [b \in Blocks |-> IF b <= 4 THEN 0 ELSE 1]

\* Four days: the gap lies in days 0 and 1, live blocks in days 1 to 3.
FourDays == [b \in Blocks |-> CASE b = 1 -> 0 [] b \in {2, 3} -> 1 [] b = 4 -> 2 [] OTHER -> 3]
TwoSenders == [b \in Blocks |-> IF b = 4 THEN {} ELSE IF b % 2 = 1 THEN {a1} ELSE {a2}]
AlternateSenders == [b \in Blocks |-> IF b % 2 = 1 THEN {a1} ELSE {a2}]
OneContract == [b \in Blocks |-> {c1}]

LiveSymmetry == Permutations(Live)
=============================================================================
