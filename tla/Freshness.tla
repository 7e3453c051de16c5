----------------------------- MODULE Freshness -----------------------------
(***************************************************************************)
(* GET /metrics/network/daily (api/routes/metrics.py, api/aggregate.py):   *)
(* the daily rows and data_through are read side by side while batches of  *)
(* the live worker and of the gap backfill are applied, and each day is    *)
(* served with a flag that says whether it is complete.                    *)
(***************************************************************************)
EXTENDS Integers

CONSTANTS
  LastUtcDay,   \* bound: days are 1..LastUtcDay
  DayBlocks,    \* blocks of a day
  GapDays,      \* days before the live checkpoint, left to the gap backfill
  FreshBatch    \* most blocks of a batch

ASSUME FreshnessAssumption ==
  /\ LastUtcDay \in Nat \ {0} /\ DayBlocks \in Nat \ {0} /\ FreshBatch \in Nat \ {0}
  /\ GapDays \in 0..(LastUtcDay - 1)

VARIABLES
  today,      \* the current UTC day
  applied,    \* sync_state: the last block the live worker has applied
  filled,     \* the last block the gap backfill has applied
  stamp,      \* the day of last_block_ts, 0: never set
  reading,    \* the request: which of its two reads are done, freshness known
  series,     \* the blocks that the rows it has read count for each day
  boundary    \* the day from which it calls a day partial, 0: not read yet

dvars == <<today, applied, filled, stamp, reading, series, boundary>>

Days == 1..LastUtcDay
DayAt(n) == ((n - 1) \div DayBlocks) + 1
GapEnd == GapDays * DayBlocks
Least(a, b) == IF a < b THEN a ELSE b

FreshnessTypeOK ==
  /\ today \in Days /\ applied \in GapEnd..(LastUtcDay * DayBlocks) /\ filled \in 0..GapEnd
  /\ stamp \in 0..LastUtcDay
  /\ reading \subseteq {"on", "rows", "status", "known"}
  /\ series \in [Days -> 0..DayBlocks] /\ boundary \in 0..LastUtcDay

NoSeries == [d \in Days |-> 0]

\* The worker is live from the day after the gap.
FreshnessInit ==
  /\ today = GapDays + 1 /\ applied = GapEnd /\ filled = 0 /\ stamp = 0
  /\ reading = {} /\ series = NoSeries /\ boundary = 0

\* Blocks of day d that the first n blocks hold.
Within(d, n) == IF n <= (d - 1) * DayBlocks THEN 0 ELSE Least(n - (d - 1) * DayBlocks, DayBlocks)

\* daily_network_metrics: what both workers have added to a day.
InRows(d) == IF d <= GapDays THEN Within(d, filled) ELSE Within(d, applied)
Complete(d) == InRows(d) = DayBlocks

Midnight ==
  /\ today < LastUtcDay /\ today' = today + 1
  /\ UNCHANGED <<applied, filled, stamp, reading, series, boundary>>

\* apply_ingest_batch: rows, checkpoint and timestamp in one transaction; a worker
\* from before the timestamp existed passes none, and the one there is stays.
ApplyLive ==
  /\ \E n \in (applied + 1)..(applied + FreshBatch) :
       /\ DayAt(n) <= today
       /\ applied' = n
       /\ stamp' \in {DayAt(n), stamp}
  /\ UNCHANGED <<today, filled, reading, series, boundary>>

\* apply_backfill_batch never touches sync_state.
ApplyGap ==
  /\ \E n \in (filled + 1)..Least(filled + FreshBatch, GapEnd) : filled' = n
  /\ UNCHANGED <<today, applied, stamp, reading, series, boundary>>

-----------------------------------------------------------------------------
(* network_daily.build: two reads side by side.                              *)

BeginRequest ==
  /\ reading = {}
  /\ reading' = {"on"}
  /\ UNCHANGED <<today, applied, filled, stamp, series, boundary>>

\* fetch_network_daily; if it fails, so does the request.
ReadRows ==
  /\ "on" \in reading /\ "rows" \notin reading
  /\ \/ /\ reading' = reading \cup {"rows"}
        /\ series' = [d \in Days |-> InRows(d)]
        /\ UNCHANGED boundary
     \/ reading' = {} /\ series' = NoSeries /\ boundary' = 0
  /\ UNCHANGED <<today, applied, filled, stamp>>

\* Mutant: every day up to the stamp is taken for complete.
BoundaryAfter == IF stamp = 0 THEN today ELSE Least(stamp + 1, LastUtcDay)

\* The day of data_through, or today when there is none.
Boundary == IF stamp = 0 THEN today ELSE stamp

\* fetch_pipeline_status; a failure leaves the freshness unknown.
ReadStatus ==
  /\ "on" \in reading /\ "status" \notin reading
  /\ \/ /\ reading' = reading \cup {"status"} \cup (IF stamp = 0 THEN {} ELSE {"known"})
        /\ boundary' = Boundary
     \/ /\ reading' = reading \cup {"status"}
        /\ boundary' = today
  /\ UNCHANGED <<today, applied, filled, stamp, series>>

\* build_network_daily: the days that have a row are served.
Serve ==
  /\ {"rows", "status"} \subseteq reading
  /\ reading' = {} /\ series' = NoSeries /\ boundary' = 0
  /\ UNCHANGED <<today, applied, filled, stamp>>

FreshnessNext ==
  Midnight \/ ApplyLive \/ ApplyGap \/ BeginRequest \/ ReadRows \/ ReadStatus \/ Serve

FreshnessSpec == FreshnessInit /\ [][FreshnessNext]_dvars

-----------------------------------------------------------------------------
(* Properties.                                                              *)

Ready == {"rows", "status", "known"} \subseteq reading
\* Of the rows that ingestion writes: one kept from before the rollup is never partial.
Partial(d) == d >= boundary

\* "partial is True for any day that is not fully covered", aggregate.py:397, when
\* the freshness is known.
PartialFlagged ==
  Ready =>
    \A d \in Days : series[d] \in 1..(DayBlocks - 1) => Partial(d)

\* A day that is served as complete is complete in the database by then, even if the
\* row was read before its last batch, unless it is a day of the gap or the freshness
\* is unknown: the reader's next list is right.
CompleteWhenServed ==
  Ready =>
    \A d \in (GapDays + 1)..LastUtcDay : series[d] > 0 /\ ~Partial(d) => Complete(d)

=============================================================================
