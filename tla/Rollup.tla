------------------------------- MODULE Rollup -------------------------------
(***************************************************************************)
(* The ingestion jobs: overlapping executions of the live worker           *)
(* (ingestion/worker.py run) and of the historical backfill                *)
(* (ingestion/backfill_rollup.py run), both built on rollup.run_rollup.    *)
(*                                                                         *)
(* A run reads its checkpoint, fetches a batch of blocks concurrently, and *)
(* sends one apply request; the database executes the request on its own   *)
(* time.  A run can die at any step (an exception, a job timeout, a killed *)
(* runner): a request already sent may still execute afterwards, or be     *)
(* lost.  A run slot is reused for the next execution of the same job.     *)
(***************************************************************************)
EXTENDS IngestDB

CONSTANTS
  Live, Back,    \* run slots of the two workflows
  Batch,         \* BATCH_BLOCKS
  MaxBlocks,     \* MAX_BLOCKS_PER_RUN
  FollowTip,     \* FOLLOW_TIP
  Window,        \* days before today the backfill records senders for (6)
  MaxChunks,     \* MAINTENANCE_MAX_CHUNKS
  Lag,           \* how far behind the chain an RPC endpoint may answer
  MaxFaults      \* bound: how many runs die in a behaviour

Runs == Live \cup Back

ASSUME RunAssumption ==
  /\ Live \cap Back = {}
  /\ Batch \in Nat \ {0} /\ MaxBlocks \in Nat \ {0}
  /\ FollowTip \in BOOLEAN
  /\ Window \in Nat /\ Window <= KeepDays
  /\ MaxChunks \in Nat \ {0} /\ Lag \in Nat /\ MaxFaults \in Nat

VARIABLES
  tip,       \* the chain's last block
  today,     \* the UTC date
  run,       \* the state of each run slot
  req,       \* the apply request a slot has sent, or NoReq
  fillDone,  \* the backfill workflow has seen done=true
  faults

vars == <<sync, through, next, counted, addrs, active, calls,
          tip, today, run, req, fillDone, faults>>

RunState ==
  [pc: {"idle", "tip", "loop", "fetch", "wait", "prune", "trim"},
   cursor: Nat,        \* the next block to process
   latest: Nat,        \* the chain tip as last read (range_end for a backfill)
   cap: Nat,           \* the last block this run may process
   over: BOOLEAN,      \* RUN_TIME_BUDGET_SECONDS is used up
   some: BOOLEAN,      \* batches > 0
   bend: Nat,          \* batch_end
   acc: SUBSET Blocks, \* the blocks the BatchAccumulator holds
   minDay: Nat,        \* address_min_day, 0: none
   chunks: Nat]        \* prune_rollup_long_tail calls made

Idle == [pc |-> "idle", cursor |-> 0, latest |-> 0, cap |-> 0, over |-> FALSE,
         some |-> FALSE, bend |-> 0, acc |-> {}, minDay |-> 0, chunks |-> 0]

NoReq == [first |-> 0, last |-> 0, blocks |-> {}, minDay |-> 0, status |-> "none"]

Request == [first: Nat, last: Nat, blocks: SUBSET Blocks, minDay: Nat,
            status: {"none", "sent", "applied", "raised"}]

TypeOK ==
  /\ DBTypeOK
  /\ tip \in 0..MaxBlock /\ today \in Days
  /\ run \in [Runs -> RunState] /\ req \in [Runs -> Request]
  /\ fillDone \in BOOLEAN /\ faults \in 0..MaxFaults

Init ==
  /\ DBInit
  /\ tip = Start
  /\ today = IF Start = 0 THEN 0 ELSE DayOf[Start]
  /\ run = [r \in Runs |-> Idle]
  /\ req = [r \in Runs |-> NoReq]
  /\ fillDone = FALSE
  /\ faults = 0

Least(a, b) == IF a <= b THEN a ELSE b

-----------------------------------------------------------------------------
(* The environment: the chain and the calendar.                             *)

Mine ==
  /\ tip < MaxBlock
  /\ DayOf[tip + 1] <= today
  /\ tip' = tip + 1
  /\ UNCHANGED <<dbVars, today, run, req, fillDone, faults>>

NewDay ==
  /\ today < LastDay
  /\ today' = today + 1
  /\ UNCHANGED <<dbVars, tip, run, req, fillDone, faults>>

-----------------------------------------------------------------------------
(* Starting a run.                                                          *)

Became(r, state) ==
  /\ run' = [run EXCEPT ![r] = state]
  /\ UNCHANGED <<tip, today, faults>>

\* get_last_synced_block: without a row, DEFAULT_START_BLOCK.
LastSynced == IF sync = NoRow THEN Start ELSE sync

\* worker.run reads the checkpoint, then the tip.
StartLive(r) ==
  /\ r \in Live
  /\ run[r].pc = "idle" /\ req[r] = NoReq
  /\ Became(r, [Idle EXCEPT !.pc = "tip", !.cursor = LastSynced + 1])
  /\ UNCHANGED <<dbVars, req, fillDone>>

\* Whichever endpoint answers, its head may be behind the chain's.
TipReads == {t \in 0..tip : t + Lag >= tip}

ReadTip(r) ==
  /\ run[r].pc = "tip"
  /\ \E t \in TipReads :
       LET last == run[r].cursor - 1 IN
       Became(r, IF last >= t /\ ~FollowTip THEN Idle
                 ELSE [run[r] EXCEPT !.pc = "loop", !.latest = t, !.cap = last + MaxBlocks])
  /\ UNCHANGED <<dbVars, req, fillDone>>

\* Mutant: the backfill's window is one day short.
OldestDayLate == IF today >= Window THEN today - Window + 1 ELSE 0

\* The oldest day the backfill records senders for (window_start).
OldestDay == IF today >= Window THEN today - Window ELSE 0

\* backfill_rollup.run: nothing left to do reports done at once.
StartBack(r) ==
  /\ r \in Back
  /\ run[r].pc = "idle" /\ req[r] = NoReq
  /\ \/ /\ next > RangeEnd
        /\ fillDone' = TRUE
        /\ UNCHANGED <<run, tip, today, faults>>
     \/ /\ next <= RangeEnd
        /\ Became(r, [Idle EXCEPT !.pc = "loop", !.cursor = next, !.latest = RangeEnd,
                        !.cap = RangeEnd,
                        !.minDay = OldestDay])
        /\ UNCHANGED fillDone
  /\ UNCHANGED <<dbVars, req>>

-----------------------------------------------------------------------------
(* The loop of run_rollup.                                                  *)

EndBlock(r) == Least(run[r].latest, run[r].cap)
CaughtUp(r) == run[r].cursor > EndBlock(r)

\* The clock is read at the head of each iteration.
TimeUp(r) ==
  /\ run[r].pc = "loop" /\ ~run[r].over
  /\ Became(r, [run[r] EXCEPT !.over = TRUE])
  /\ UNCHANGED <<dbVars, req, fillDone>>

MayFollow(r) ==
  /\ ~run[r].over
  /\ FollowTip
  /\ r \in Live                     \* the backfill passes no tip_fn
  /\ run[r].cursor <= run[r].cap

PollTip(r) ==
  /\ run[r].pc = "loop" /\ CaughtUp(r) /\ MayFollow(r)
  /\ \E t \in TipReads : Became(r, [run[r] EXCEPT !.latest = t])
  /\ UNCHANGED <<dbVars, req, fillDone>>

\* Mutant: a slow start ends the run before its first batch.
OutOfTimeAtOnce(r) == run[r].over

OutOfTime(r) == run[r].over /\ run[r].some

\* Mutant: every backfill run that ends cleanly reports done.
FinishAlwaysDone(r) ==
  /\ run[r].pc = "loop"
  /\ IF CaughtUp(r) THEN ~MayFollow(r) ELSE OutOfTime(r)
  /\ Became(r, IF r \in Live THEN [Idle EXCEPT !.pc = "prune"] ELSE Idle)
  /\ fillDone' = (fillDone \/ r \in Back)
  /\ UNCHANGED <<dbVars, req>>

Finish(r) ==
  /\ run[r].pc = "loop"
  /\ IF CaughtUp(r) THEN ~MayFollow(r) ELSE OutOfTime(r)
  /\ \/ /\ r \in Live
        /\ Became(r, [Idle EXCEPT !.pc = "prune"])
        /\ UNCHANGED fillDone
     \/ /\ r \in Back
        /\ Became(r, Idle)
        /\ fillDone' = (fillDone \/ run[r].cursor - 1 >= RangeEnd)
  /\ UNCHANGED <<dbVars, req>>

BeginBatch(r) ==
  /\ run[r].pc = "loop" /\ ~CaughtUp(r) /\ ~OutOfTime(r)
  /\ Became(r, [run[r] EXCEPT !.pc = "fetch", !.acc = {},
                  !.bend = Least(run[r].cursor + Batch - 1, EndBlock(r))])
  /\ UNCHANGED <<dbVars, req, fillDone>>

\* The fetches of a batch complete in any order.
FetchBlock(r, b) ==
  /\ run[r].pc = "fetch"
  /\ b \in (run[r].cursor..run[r].bend) \ run[r].acc
  /\ Became(r, [run[r] EXCEPT !.acc = @ \cup {b}])
  /\ UNCHANGED <<dbVars, req, fillDone>>

\* Mutant: a block whose fetch failed is left out of the batch.
SendPartial(r) ==
  /\ run[r].pc = "fetch"
  /\ run[r].acc # {}
  /\ Became(r, [run[r] EXCEPT !.pc = "wait", !.acc = {}])
  /\ req' = [req EXCEPT ![r] =
       [first |-> run[r].cursor, last |-> run[r].bend, blocks |-> run[r].acc,
        minDay |-> run[r].minDay, status |-> "sent"]]
  /\ UNCHANGED <<dbVars, fillDone>>

\* process_batch returns only once every block is in.
Send(r) ==
  /\ run[r].pc = "fetch"
  /\ run[r].acc = run[r].cursor..run[r].bend
  /\ Became(r, [run[r] EXCEPT !.pc = "wait", !.acc = {}])
  /\ req' = [req EXCEPT ![r] =
       [first |-> run[r].cursor, last |-> run[r].bend, blocks |-> run[r].acc,
        minDay |-> run[r].minDay, status |-> "sent"]]
  /\ UNCHANGED <<dbVars, fillDone>>

\* The answer matters only to a run that still waits for it.
Answered(r, status) ==
  req' = [req EXCEPT ![r] = IF run[r].pc = "wait" THEN [@ EXCEPT !.status = status]
                                                  ELSE NoReq]

Accepts(r) == IF r \in Live THEN IngestAccepts(req[r]) ELSE BackfillAccepts(req[r])

Apply(r) ==
  /\ req[r].status = "sent"
  /\ Accepts(r)
  /\ IF r \in Live THEN ApplyIngestBatch(req[r]) ELSE ApplyBackfillBatch(req[r])
  /\ Answered(r, "applied")
  /\ UNCHANGED <<tip, today, run, fillDone, faults>>

Raise(r) ==
  /\ req[r].status = "sent"
  /\ ~Accepts(r)
  /\ Answered(r, "raised")
  /\ UNCHANGED <<dbVars, tip, today, run, fillDone, faults>>

\* A request whose sender is gone may also never reach the database.
Lose(r) ==
  /\ run[r].pc # "wait" /\ req[r].status = "sent"
  /\ req' = [req EXCEPT ![r] = NoReq]
  /\ UNCHANGED <<dbVars, tip, today, run, fillDone, faults>>

\* Mutant: a rejected batch is logged and the run goes on.
ReplySwallowed(r) ==
  /\ run[r].pc = "wait" /\ req[r].status \in {"applied", "raised"}
  /\ Became(r, [run[r] EXCEPT !.pc = "loop", !.some = TRUE,
                  !.cursor = run[r].bend + 1, !.bend = 0])
  /\ req' = [req EXCEPT ![r] = NoReq]
  /\ UNCHANGED <<dbVars, fillDone>>

Reply(r) ==
  /\ run[r].pc = "wait"
  /\ \/ /\ req[r].status = "applied"
        /\ Became(r, [run[r] EXCEPT !.pc = "loop", !.some = TRUE,
                        !.cursor = run[r].bend + 1, !.bend = 0])
     \/ /\ req[r].status = "raised"
        /\ Became(r, Idle)
  /\ req' = [req EXCEPT ![r] = NoReq]
  /\ UNCHANGED <<dbVars, fillDone>>

\* An exception in the run, a timeout of its request, or its runner killed.
Die(r) ==
  /\ run[r].pc # "idle" /\ faults < MaxFaults
  /\ faults' = faults + 1
  /\ run' = [run EXCEPT ![r] = Idle]
  /\ req' = [req EXCEPT ![r] = IF @.status = "sent" THEN @ ELSE NoReq]
  /\ UNCHANGED <<dbVars, tip, today, fillDone>>

-----------------------------------------------------------------------------
(* run_maintenance: a failing call is reported and skipped.                 *)

PruneAddresses(r) ==
  /\ run[r].pc = "prune"
  /\ PruneRollupAddresses(today) \/ UNCHANGED dbVars
  /\ Became(r, [run[r] EXCEPT !.pc = "trim"])
  /\ UNCHANGED <<req, fillDone>>

TrimChunk(r) ==
  /\ run[r].pc = "trim"
  /\ \E doomed \in SUBSET LongTail(today) :
       /\ Cardinality(doomed) = Least(ChunkRows, Cardinality(LongTail(today)))
       /\ PruneRollupLongTail(doomed)
       /\ Became(r, IF Cardinality(doomed) >= ChunkRows /\ run[r].chunks + 1 < MaxChunks
                    THEN [run[r] EXCEPT !.chunks = @ + 1] ELSE Idle)
  /\ UNCHANGED <<req, fillDone>>

TrimFails(r) ==
  /\ run[r].pc = "trim"
  /\ Became(r, Idle)
  /\ UNCHANGED <<dbVars, req, fillDone>>

-----------------------------------------------------------------------------

Step(r) ==
  \/ StartLive(r) \/ ReadTip(r) \/ StartBack(r)
  \/ TimeUp(r) \/ PollTip(r) \/ Finish(r)
  \/ BeginBatch(r) \/ (\E b \in Blocks : FetchBlock(r, b)) \/ Send(r)
  \/ Apply(r) \/ Raise(r) \/ Lose(r) \/ Reply(r) \/ Die(r)
  \/ PruneAddresses(r) \/ TrimChunk(r) \/ TrimFails(r)

Next == Mine \/ NewDay \/ \E r \in Runs : Step(r)

Spec == Init /\ [][Next]_vars

-----------------------------------------------------------------------------
(* Properties.                                                              *)

LiveCounted(b) == Start < b /\ b <= LastSynced
FillCounted(b) == RangeStart <= b /\ b < next

\* Every block the two checkpoints have passed is in the totals exactly once
\* and no other block is in them, whatever runs overlap, die, or leave a late
\* request behind ("a crash can never double-count or skip a batch, and
\* overlapping cron runs are rejected", ingestion/rollup.py:17-19).
ExactlyOnce ==
  \A b \in Blocks : counted[b] = IF LiveCounted(b) \/ FillCounted(b) THEN 1 ELSE 0

Committed(r) == IF r \in Live THEN LastSynced ELSE next - 1

\* A run never moves its cursor past what the database has committed: the
\* checkpoint it reports is real, and it never leaves a batch behind it.
RunBehindCheckpoint ==
  \A r \in Runs : run[r].pc # "idle" => run[r].cursor - 1 <= Committed(r)

\* The workflow stops chaining backfill runs on done=true; by then the whole
\* gap is in the totals.
FillDoneComplete ==
  fillDone => \A b \in RangeStart..RangeEnd : counted[b] = 1

\* api/aggregate.py build_network_daily calls a day complete when it is before
\* the date of data_through: such a day has every live block it will ever have.
\* (The pipeline_freshness migration exists because this once failed.)
ReportedDayComplete ==
  \A b \in Blocks : (b > Start /\ DayOf[b] < through) => counted[b] = 1

CountedOn(d) == {b \in Blocks : counted[b] > 0 /\ DayOf[b] = d}

\* Over the last Window days, the stored senders are exactly those of the
\* counted blocks and active_addresses is their number, although pruning,
\* both jobs and late requests all touch these rows.
WindowExact ==
  \A d \in Days \ RawDays : d >= today - Window =>
    /\ addrs[d] = UNION {Senders[b] : b \in CountedOn(d)}
    /\ active[d] \in {Cardinality(addrs[d])} \cup (IF addrs[d] = {} THEN {Unknown} ELSE {})

CallsOn(d, c) == Cardinality({b \in CountedOn(d) : c \in Calls[b]})

\* While a day is younger than the long-tail cut, its per-contract rows are
\* the exact totals; after it they are exact or were dropped and restarted,
\* never more than the truth.
ContractRowsBounded ==
  \A d \in Days, c \in Contract :
    /\ calls[d][c] <= CallsOn(d, c)
    /\ d >= today - KeepFullDays => calls[d][c] = CallsOn(d, c)

\* "Persist the distinct-sender count for every day this batch touched (survives
\* later pruning of daily_active_addresses)", 20261006000000_pipeline_freshness.sql:97:
\* once persisted, a day's count never goes down.  Fails: a live run that is more
\* than KeepDays behind recounts a day from the table that was pruned under it.
ActiveSurvivesPruning == [][\A d \in Days : active'[d] >= active[d]]_vars

\* "Once a day is closed ..., rows with fewer than p_min_tx transactions are
\* dropped", 20261004210000_rollup_discovery_and_pruning.sql:13: a contract with
\* MinTx calls on a day keeps its row.  Fails: "closed" is judged by the clock,
\* so a day that is still being ingested loses what its earlier batches added.
BusyContractKept ==
  \A d \in Days, c \in Contract : CallsOn(d, c) >= MinTx => calls[d][c] = CallsOn(d, c)

\* The jobs implement the ledger: every commit extends one frontier over
\* exactly the blocks it counts.
LedgerOfRuns == INSTANCE Ledger WITH
  count <- counted, liveTo <- LastSynced, fillTo <- next - 1
ImplementsLedger == LedgerOfRuns!Spec

-----------------------------------------------------------------------------
(* Liveness.  A run that is started gets on: endpoints and database answer  *)
(* in the end, and at most MaxFaults runs die.  The schedule starts live    *)
(* runs whatever became of the last one; the backfill workflow starts the   *)
(* next run itself, but only after one that succeeded.                      *)

Advance(r) ==
  \/ StartLive(r) \/ ReadTip(r) \/ StartBack(r)
  \/ TimeUp(r) \/ Finish(r)
  \/ BeginBatch(r) \/ (\E b \in Blocks : FetchBlock(r, b)) \/ Send(r)
  \/ Apply(r) \/ Raise(r) \/ Reply(r)
  \/ PruneAddresses(r) \/ TrimChunk(r) \/ TrimFails(r)

FairSpec == Spec /\ \A r \in Runs : WF_vars(Advance(r))

\* Ingestion catches up with every block the chain produces, to within the
\* staleness of the endpoints, however short the time budget of its runs and
\* whichever of them die.
CatchesUp == \A b \in Blocks : tip >= b ~> LastSynced >= b - Lag

\* Unless a run fails (and breaks the chain of runs), the backfill finishes
\* and its workflow is told so: a run always completes at least one batch,
\* even when its time is up before it starts.
FillFinishes == <>(fillDone \/ faults > 0)

=============================================================================
