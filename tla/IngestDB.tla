------------------------------ MODULE IngestDB ------------------------------
(***************************************************************************)
(* The Postgres side of ingestion: the two checkpoint rows, the rollup     *)
(* tables, and the stored procedures that change them.  Each procedure is  *)
(* one transaction and takes its checkpoint row FOR UPDATE first, so a     *)
(* call is one atomic step here.                                           *)
(*                                                                         *)
(* The additive tables (network, token and contract totals) are sums of    *)
(* per-block deltas, so they are exact if and only if every block's delta  *)
(* was added the right number of times: "counted" keeps that number.  The  *)
(* three tables that are also pruned or counted from (distinct senders,    *)
(* active_addresses, per-contract rows) are kept as data.                  *)
(***************************************************************************)
EXTENDS Integers, FiniteSets

CONSTANTS
  MaxBlock,      \* bound: the last block the chain of the model produces
  Start,         \* live ingestion starts after this block
  RangeStart,    \* the historical gap, filled by the backfill job
  RangeEnd,
  FreshDb,       \* TRUE: sync_state has no row yet
  LastDay,       \* bound: the last UTC day of the model
  DayOf,         \* the UTC day of each block's timestamp
  RawDays,       \* the days whose network row has source = 'raw_backfill'
  Addr, Senders,    \* the distinct senders of each block's transactions
  Contract, Calls,  \* the contracts each block calls (one call each)
  KeepDays,      \* p_keep_days of prune_rollup_addresses
  KeepFullDays,  \* p_keep_full_days, p_min_tx and p_max_rows of
  MinTx,         \* prune_rollup_long_tail
  ChunkRows

Blocks == 1..MaxBlock
Days == 0..LastDay
NoRow == -1     \* no sync_state row
Unknown == -1   \* SQL null

ASSUME DBAssumption ==
  /\ MaxBlock \in Nat /\ Start \in 0..MaxBlock
  /\ RangeStart \in Nat \ {0} /\ RangeEnd \in RangeStart..Start
  /\ FreshDb \in BOOLEAN
  /\ LastDay \in Nat /\ DayOf \in [Blocks -> Days] /\ RawDays \subseteq Days
  /\ \A a, b \in Blocks : a <= b => DayOf[a] <= DayOf[b]
  /\ IsFiniteSet(Addr) /\ Senders \in [Blocks -> SUBSET Addr]
  /\ IsFiniteSet(Contract) /\ Calls \in [Blocks -> SUBSET Contract]
  /\ KeepDays \in Nat /\ KeepFullDays \in Nat /\ MinTx \in Nat
  /\ ChunkRows \in Nat \ {0}

VARIABLES
  sync,      \* sync_state.last_block_number, or NoRow
  through,   \* the day of sync_state.last_block_ts, or Unknown
  next,      \* historical_backfill_state.next_block
  counted,   \* counted[b]: how often block b's deltas are in the totals
  addrs,     \* daily_active_addresses: the senders stored for each day
  active,    \* daily_network_metrics.active_addresses, or Unknown
  calls      \* daily_contract_metrics.tx_count by day and contract, 0: no row

dbVars == <<sync, through, next, counted, addrs, active, calls>>

DBTypeOK ==
  /\ sync \in NoRow..MaxBlock
  /\ through \in Days \cup {Unknown}
  /\ next \in RangeStart..(RangeEnd + 1)
  /\ counted \in [Blocks -> Nat]
  /\ addrs \in [Days -> SUBSET Addr]
  /\ active \in [Days -> Nat \cup {Unknown}]
  /\ calls \in [Days -> [Contract -> Nat]]

DBInit ==
  /\ sync = IF FreshDb THEN NoRow ELSE Start
  /\ through = Unknown
  /\ next = RangeStart
  /\ counted = [b \in Blocks |-> 0]
  /\ addrs = [d \in Days |-> {}]
  /\ active = [d \in Days |-> IF d \in RawDays THEN 0 ELSE Unknown]
  /\ calls = [d \in Days |-> [c \in Contract |-> 0]]

-----------------------------------------------------------------------------
(* What a batch carries: its block numbers first..last, the blocks that     *)
(* were aggregated into it, and the oldest day it records senders for.      *)

NewSenders(q, d) ==
  IF d >= q.minDay THEN UNION {Senders[b] : b \in {x \in q.blocks : DayOf[x] = d}}
                   ELSE {}

NewCalls(q, d, c) == Cardinality({b \in q.blocks : DayOf[b] = d /\ c \in Calls[b]})

\* The p_addresses keys: only days with a recorded sender are recounted.
Touched(q) == {d \in Days : NewSenders(q, d) # {}}

\* The upserts of both procedures.  "stamped" is the set of days whose
\* active_addresses the procedure may overwrite with a fresh count.
AddBatch(q, stamped) ==
  /\ counted' = [b \in Blocks |-> counted[b] + (IF b \in q.blocks THEN 1 ELSE 0)]
  /\ calls' = [d \in Days |-> [c \in Contract |-> calls[d][c] + NewCalls(q, d, c)]]
  /\ addrs' = [d \in Days |-> addrs[d] \cup NewSenders(q, d)]
  /\ active' = [d \in Days |->
       IF d \in Touched(q) \cap stamped THEN Cardinality(addrs'[d]) ELSE active[d]]

\* max_block_ts: the newest block the accumulator has seen.
NewestDay(q) ==
  CHOOSE d \in Days : /\ \E b \in q.blocks : DayOf[b] = d
                     /\ \A b \in q.blocks : DayOf[b] <= d

\* Mutant: the checkpoint row is locked but never compared.
IngestAcceptsAny(q) == q.first <= q.last /\ sync # NoRow

IngestAccepts(q) ==
  /\ q.first <= q.last
  /\ sync # NoRow
  /\ sync = q.first - 1

\* Mutant: the checkpoint moves to the start of the batch.
ApplyIngestBatchShort(q) ==
  /\ AddBatch(q, Days)
  /\ sync' = q.first
  /\ through' = NewestDay(q)
  /\ UNCHANGED next

\* Mutant: the checkpoint of the other procedure is moved.
ApplyIngestBatchElsewhere(q) ==
  /\ AddBatch(q, Days)
  /\ next' = q.last + 1
  /\ UNCHANGED <<sync, through>>

ApplyIngestBatch(q) ==
  /\ AddBatch(q, Days)
  /\ sync' = q.last
  /\ through' = NewestDay(q)
  /\ UNCHANGED next

BackfillAccepts(q) ==
  /\ q.first <= q.last
  /\ next = q.first
  /\ q.last <= RangeEnd

ApplyBackfillBatch(q) ==
  /\ AddBatch(q, Days \ RawDays)
  /\ next' = q.last + 1
  /\ UNCHANGED <<sync, through>>

-----------------------------------------------------------------------------
(* Maintenance, at the database's own date.                                 *)

PruneRollupAddresses(today) ==
  /\ addrs' = [d \in Days |-> IF d < today - KeepDays THEN {} ELSE addrs[d]]
  /\ UNCHANGED <<sync, through, next, counted, active, calls>>

\* Mutant: the newest day that is kept in full is trimmed too.
LongTailEager(today) ==
  {p \in Days \X Contract :
     /\ p[1] <= today - KeepFullDays
     /\ calls[p[1]][p[2]] \in 1..(MinTx - 1)}

LongTail(today) ==
  {p \in Days \X Contract :
     /\ p[1] < today - KeepFullDays
     /\ calls[p[1]][p[2]] \in 1..(MinTx - 1)}

\* One chunk: the rows a LIMIT picks are any ChunkRows of the doomed ones.
PruneRollupLongTail(doomed) ==
  /\ calls' = [d \in Days |-> [c \in Contract |->
                 IF <<d, c>> \in doomed THEN 0 ELSE calls[d][c]]]
  /\ UNCHANGED <<sync, through, next, counted, addrs, active>>

=============================================================================
