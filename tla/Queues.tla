------------------------------- MODULE Queues -------------------------------
(***************************************************************************)
(* What the limiters, the caches and the readers of tables do with their   *)
(* sequences.  First order (no LAMBDA), so that QueueProofs can state what *)
(* they return.                                                            *)
(***************************************************************************)
EXTENDS Integers, Sequences

\* Popping heads while they are not above the cutoff: what is behind a head that is
\* stays, even when it is not above the cutoff itself.
DropUpTo(q, cutoff) ==
  LET first == CHOOSE i \in 1..(Len(q) + 1) :
                 /\ \A j \in 1..(i - 1) : q[j] <= cutoff
                 /\ i <= Len(q) => q[i] > cutoff
  IN SubSeq(q, first, Len(q))

\* The elements that are in S, in their order.
Only(q, S) ==
  LET kept[i \in 0..Len(q)] ==
        IF i = 0 THEN <<>>
        ELSE IF q[i] \in S THEN Append(kept[i - 1], q[i]) ELSE kept[i - 1]
  IN kept[Len(q)]

\* A table read in the order of its keys, which are positive: what has been read, and
\* the row with the next key if there is one by now.
LastKey(read) == IF read = <<>> THEN 0 ELSE read[Len(read)]
AndNext(table, read) ==
  LET more == {k \in table : k > LastKey(read)}
  IN IF more = {} THEN read
     ELSE Append(read, CHOOSE k \in more : \A m \in more : k <= m)

\* What has been read, and the next page of the table.
ReadOn(table, read, rows) ==
  LET got[n \in 0..rows] == IF n = 0 THEN read ELSE AndNext(table, got[n - 1])
  IN got[rows]

=============================================================================
