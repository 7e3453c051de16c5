# Isogram: TLA+ models, checks and proofs

Isogram counts what happens on the Arc chain (calls, distinct senders, volumes),
works out which contracts belong to which project, scores the projects and serves
all of it through an API. These modules model the parts of it where the order of
steps decides what is true. Paths below are relative to the root of the repository.

## 1. Inventory

| component | state | operations | modelled in |
|---|---|---|---|
| live ingestion, gap backfill, stored procedures, maintenance (`ingestion/worker.py`, `rollup.py`, `backfill_rollup.py`, `supabase/migrations/*rollup*`, `*freshness*`, `*gap_backfill*`) | `sync_state`, `historical_backfill_state`, the per-day tables; in a run: cursor, tip, batch, time budget | read the checkpoint, fetch a batch, apply it, follow the tip, prune | IngestDB, Rollup, Ledger, ApplyTx |
| RPC pool and batch accumulator (`worker.py`, `rollup.py`, `decode.py`) | the sticky index, the calls of each thread, the counters of a batch | connect, call with retries, rotate, add a finished block | BlockFetch |
| discovery (`ingestion/discovery.py`) | `discovered_contracts`, `projects` | seed, classify, promote | Discovery |
| submissions, admin review, command line review, wallet sweep (`api/routes/submit.py`, `admin.py`, `ingestion/admin_tools.py`, `ingestion/reclassify_existing_eoas.py`) | `project_submissions`, and the two tables above | submit, classify, dismiss, restore, review | Discovery |
| snapshot cache (`api/cache.py`) | entries, one lock per key | get, background refresh, store and evict | SnapshotCache |
| rate limiter (`api/ratelimit.py`) | the hit times of each address | check, make room | RateLimit |
| keys and tiers (`api/access.py`, `apikeys.py`, `routes/keys.py`) | `api_keys`, the key directory, limiters made on first use | identify, create, revoke | KeyAccess |
| refreshers (`holders.py`, `socials.py`, `market_data.py`) | fetch times | pick what is due, fetch within a budget | Refresh |
| venue scan (`venues.py`) | the rows of a scan in progress, `venue_market_data` | read a page, finish a venue, stop | Venues |
| workflows (`.github/workflows/`, `worker.main`) | running and waiting jobs | schedule, steps of a job, chain | Workflow |
| scoring and the project list (`scoring/`, `api/db.py`, `api/aggregate.py`, `routes/projects.py`, `retire_project` of `ops/seed_launchpads.py`) | `project_scores`, pages read so far | score, insert, read page by page, join | Scores |
| daily series (`routes/metrics.py`, `api/aggregate.py`) | two reads in progress | read rows and status, flag days | Freshness |
| launch platforms (`ops/seed_launchpads.py`) | `projects` and the rows that refer to them; the plan of a run | read, plan, mark tokens, create or merge a platform, retire stubs | LaunchpadSeed |
| other read routes, service shell, dashboard, remaining `ops/` scripts and migrations | none the others read | | not modelled (section 8) |

How they interact: live and backfill runs share nothing but the database, and reach it
only through stored procedures, each a transaction. Discovery and the refreshers run at the
end of an ingestion job; discovery writes the same rows that admin requests write, with one
statement per write and no transaction around them. API requests read through the snapshot
cache, in threads; submissions pass the limiter first, keyed requests the key directory.
Scoring jobs read what ingestion and discovery wrote, page by page, while they write.

What is hard, and what makes each part correct:

- *Ingestion.* Runs overlap, die with a request in flight, or read an old tip. Every
  block must be counted exactly once; a day must not be called complete early; the
  backfill must not report `done` early; recent days must be exact while pruning and
  two writers touch them; ingestion must catch up.
- *One batch.* Threads share the index they start from without a lock, endpoints fail in
  several ways, blocks finish in any order. A rotation must reach every endpoint once, wherever
  the others move the index, and what is sent is the whole batch, each transfer once.
- *Discovery and review.* Rows change under a run; a step of several fails. A project
  must not lose a contract to another; what no source recognises, or what looks like a
  fake, must not become a project unless a person said so; an approved submission must
  have been queued; no candidate may stay in a queue for ever.
- *Cache.* Concurrent cold callers, rebuilds that fail, eviction under use. One rebuild
  of a key at a time; snapshots only get newer; overaged data only after a failed rebuild; locks
  always come back.
- *Limiter and keys.* The clock is read outside the lock; tables are bounded; a key is looked up,
  stored and answered in separate steps, and counted before it is inserted. The limit must
  hold over every window; a revoked key must be refused; the cap of an email must nearly hold.
- *Refreshers and venues.* Targets that always fail stay in front of the queue; listings move
  between two pages. Every due target must get its turn; a row not flagged truncated is whole.
- *Workflows.* A job is cancelled, a step fails, the service refuses the dispatch. Ingestion must go on.
- *Scores and reads.* Two scoring jobs overlap; projects come and go between two pages; rows
  and freshness are read side by side. A score must not go back; a list must be whole; a day
  called complete must be.
- *Launch platforms.* A script writes row by row without a transaction, deletes projects and may stop
  anywhere; the projects it planned for change meanwhile. No contract of a platform may be lost.

The hazards are listed line by line in `PROJECT.json`, with the property that covers
each one or the reason none does.

## 2. Modules and their correspondence to the code

**Queues** has what several modules do with sequences: `DropUpTo` (the loops that pop the head of a
deque while it is too old), `Only` (what is left of an order after deletions), and `ReadOn` (the next page of a table
read by key, `_fetch_all_pages_keyset`). They are written with bounded recursive functions and without operators as
parameters, because the provers know nothing of `SelectSeq`, `SortSeq` or folds.

**IngestDB** holds the tables. `sync` is `sync_state.last_block_number`, `through` the
date of `sync_state.last_block_ts`, from which the API derives `data_through`, `next` is
`historical_backfill_state.next_block`. `counted[b]` is a
history count of how often block b is in the totals; `addrs[d]`, `active[d]` and
`calls[d][c]` are `daily_active_addresses`, `active_addresses` and `tx_count` of
`daily_contract_metrics`. The other sums of a day live and die with these rows and are
not repeated. One operator per stored procedure: `ApplyIngestBatch`,
`ApplyBackfillBatch`, `PruneRollupAddresses`, `PruneRollupLongTail`.

**Rollup** extends it with the jobs. A *slot* is one execution of a workflow at a
time; two live slots are two live runs that overlap. A run's `pc` follows `run_rollup`: `tip`, `loop`,
`fetch` (blocks arrive in any order), `wait` (request sent), then `prune` and `trim` for
a live run. A request is a record of its own in `req`: the database applies it or raises on it
when it likes, also after its sender died (`Die`), and may never see it (`Lose`). A
slot is used again only once its old request is resolved; a request that outlives the
*next* run is covered by the second live slot. One apply call is one step here, which ApplyTx justifies.

**ApplyTx** has the two procedures as transactions on IngestDB's tables: the checkpoint row
taken `for update` and compared (`Begin`, `Refuse`), then `Statements` in their order, row by row. A row that
another transaction has written is waited for (`LockedByOther`); `wrote` holds a transaction's own versions,
and everything else is read as committed by then (`NetworkSeen`, `CallsSeen`, `SendersSeen`). The recount is
two steps, because the subquery reads before the row it updates is locked. `Commit` publishes the versions and
the new checkpoint, `Rollback` drops them. `AppliedAtOnce` says that each commit is exactly one
`ApplyIngestBatch` or `ApplyBackfillBatch` step of IngestDB on the tables of that moment, though live and backfill
hold different checkpoint rows. It holds because every batch writes the network row of its days before it inserts
senders and counts them, so whoever counts second counts after the first has committed. The server's
rules about versions and locks are an external part of the model. Deadlocks are possible, since `group by` leaves the order of
contract rows open: the victim rolls back and its run fails, which Rollup has as a run that dies and a request that is lost.

**Ledger** is the abstract promise: two frontiers, and a step extends one of them over
exactly the blocks it counts. `Rollup!ImplementsLedger` maps `liveTo` to the last
synced block and `fillTo` to `next - 1`.

**BlockFetch** is what Rollup takes as the steps from `BeginBatch` to `Send`: `Connect`
(`get_web3_pool`), the tip, and `process_batch` with its executor. `rpc[t]` is the call a thread makes:
it tries position `(start + offset) % Size` of the pool, `start` being the sticky index at
its beginning; `Busy` is a 429 or 5xx with its retries, `Refused` any other status,
`Unreachable` a connection error, a timeout or an empty result, on which `_raw_rpc_on_pool` goes on to the next endpoint while the calls
that catch `HTTPError` only raise, and `Garbled` a reply that is not JSON, which no loop catches (`rollup.py:112`). `exhausted` is a call that ends
on the last endpoint's error, `raised` one that leaves its loop earlier. `acc` is the
`BatchAccumulator`, with a bag of counters. A transaction says what it moves, `LogsOf` which logs the chain makes of that
(two of a USDC move through the ERC-20 contract, one of a native one), `TxCounters` and `LogCounters` which counters a receipt
and a log add one to, and `AddBlock` goes through the receipts of a block, a recursive function so that it can be proved about.

**Discovery** has one action per database call of the run (`SeedOrganic`,
`SeedTrending`, `ReadCandidates`, `ClassifyOne`, `ReadReady`, `RejectCandidate`,
`UpsertProject`, `MarkPromoted`, `RunFails`, and `UpsertFails` for the `except Exception` that rejects a candidate
whose upsert failed, written or not) and of each request (`ManualClassify` and
`Classify`, `BeginReject`/`EndReject`, `BeginRestore`/`EndRestore`, `BeginReview`,
`QueueSubmission`, `MarkSubmission`, `Submit`). The command line tool is a request that
marks first and queues second (`ReviewByTool`, `FindByTool`, `QueueByTool`): its upsert succeeds only for a contract that had no row when it looked, because for
others it leaves out columns that may not be null (`QueueNothing`). The wallet sweep rejects one row at a time, in the two steps of a dismissal (`Swept`). `Says[c]` is what the sources may
answer about c; with no answer (`Silence`) always possible. `human`, `restored` (kept for the contracts in `Followed`), `queued` and
`byTool` are history variables. Initially some wallets may be in review already (`OldWallet`): rows
from before the bytecode check existed, which is what the sweep is for. Curated projects are
hand-written, typed and `seeded`.

**SnapshotCache** has the caller's steps (`Get`, `Decide`, `LockFor`, `Acquire`,
`Recheck`, `Store`, `Release`), the background refresh (`TryAcquire`, then a refresher
thread that stores or fails and releases), and `Tick`. A lock is a pair of a key and a
number, so that a lock which eviction drops and the one created after it differ.
`evicted` remembers the keys that were ever evicted. Computing and storing are one
step; entries stored at the same reading of the clock are evicted in either order.

**RateLimit** has `Arrive` and `GoGlobal` (the clock is read), `CheckAddress` and
`CheckGlobal` (under the lock), and `Tick`. An address whose window was evicted starts
afresh, as in the code; the statements about windows are for addresses that were not.

**KeyAccess** gives every request a thread. A lookup is `LookUp` (answered at once on a fresh
entry), `LimiterFor` and `MakeLimiter` (get, then make, without a lock), `CheckBudget`, `Fetch`, `Store`,
`AnswerLookUp`; creating a key is `CountKeys` and `InsertKey`; revoking is the
database's update (`RevokeKey`), then the cleared directory (`ClearDirectory`). The steps
are where `access.py` waits for the database or another thread may run.

**Refresh** keeps only the order of the stamps (`line`, oldest first; the first `due` of them
have expired): `PickDue` is `pick_due`, `CallTarget` one call with one of its outcomes. The
volume pass comes after the price batches, as in `refresh_market_data`. In that pass `Target` is the tokens
the source prices: only those that came back with a price are queued for their volume (`market_data.py:187-190`).

**Venues** reads one page per step while `Trade` moves volumes. Whether the API honours the sort
parameter is chosen for each venue, as `scan_venue` finds out on its first page. A pool's place in the listing is
the number of pools `Before` it (`Ahead`), and the pages follow that number. `read` carries what was read of the venue, and the
last venue, a 429 or the time budget writes the rows that finished. Volumes are whole units, so that a sum of them is the
number of units (`VolumeRead`).

**Workflow** has the group (one running job, one waiting), the steps of `worker.main` in order, the
chain step with its attempts, and the timeout that cancels a job anywhere.

**Scores** has the scoring job (`StartScoring` to `InsertScores`), the keyset pages
(`ReadOn` of Queues), `latest_project_scores` (`Latest`), `retire_project` in its two
steps, and the list the API joins from two paged reads. `RowsOf` is `compute_all_scores`: gas, users and TVL, each normalised by
itself among the DeFi projects the run read (`Normalized`, `Peers`), and the age bonus, clamped and not normalised (`AgeBonus`), with
equal weights (`Composite`; scores are integers, `Unit` being a quarter of the score 1). `Windows` is what a run may find.

**Freshness** has the two writers as Rollup leaves them (a batch moves rows, checkpoint and timestamp
at once) and a request with its two reads, in either order, each of which may fail. The days are those the rollup writes:
rows kept from before it (`source = raw_backfill`) are never partial (`aggregate.py:424`) and are not in the model.

**LaunchpadSeed** has the script with one action per database call: `ReadProjectPage`, `BuildPlan` (with whichever
contracts the coin index offers at the moment), `MarkToken` and `SeedToken`, and for each platform `InsertPlatform`, or `UpdatePlatform` and
`SeedPlatform`, around the five steps of `retire_project` (`RepointLedger` to `DeleteStub`). `SeedingStops` may come
between any two. `table` is `projects`, `rows` what refers to a project by a foreign key; an update of a seeded project's
contracts or category is refused by a trigger the script's docstring names (`TriggerRefuses`), which is external. Discovery
(`PromoteContract`) and scoring (`ScoreProject`) are its environment. `had` remembers every contract that has had a project. The assumption
on the constants says of the script's lists what can be read off them: platforms share no contract, a token is not a platform contract,
and no name discovery gives to a contract the script knows is the id of another platform.

**MCRollup, MCDiscovery, MCFetch, MCStandAlone, MCServices, MCUpkeep**: the values of the
constants. MCStandAlone holds Discovery, SnapshotCache and LaunchpadSeed, MCServices RateLimit, KeyAccess and ApplyTx, and MCUpkeep BlockFetch, Refresh,
Venues, Workflow, Scores and Freshness, as a *sum*: the variable `part` says which one is at work, and the others
stay in one initial state. The parts share no state in the code either (a limiter and a
directory with locks of their own; procedures, jobs and scripts that only meet in the database), so their product would repeat
each one's states as often as the others have any and show nothing more.

**RollupProofs, ApplyTxProofs, SnapshotCacheProofs, DiscoveryProofs, RateLimitProofs, KeyAccessProofs,
QueueProofs, UpkeepProofs** (BlockFetch, Venues, Workflow, Freshness, Scores): section 5. DiscoveryProofs is about LaunchpadSeed too.

## 3. Runs

| run | question | bounds |
|---|---|---|
| `rollup` | overlap, death, late and lost requests: `ExactlyOnce`, `RunBehindCheckpoint`, `FillDoneComplete`, `ReportedDayComplete`, `TypeOK` | a gap of 3 blocks and 3 live ones over two days, batches of 2, two live runs and a backfill, 2 deaths, tip 1 block stale |
| `rollup_jobs` | live and backfill on the same days under pruning: `WindowExact`, `ContractRowsBounded`, `ImplementsLedger`, `FillFinishes`, `CatchesUp` | 5 blocks over four days, two senders, one contract, trims of one row, 1 death, tip 1 block stale |
| `review` | concurrent reviews, a curated project: `ApprovedWasQueued`, `QueuesDrain` | one contract and submission, two requests, 1 failure |
| `standalone` | an admin under a discovery run: `ProjectsKeepContracts`, `NoSignalNeedsPerson`, `TypeOK`; the cache: `OneRebuild`, `SnapshotsMoveForward`, `ServedInTime`, `EntriesBounded`, `HeldByOne`; the script of the platforms: `NothingLost` | discovery: two contracts of one name, one of them a wallet, one admin, 1 failure; cache: two callers, one refresher, two keys, room for one, clock to 2; script: one platform with two contracts and one possible token, one listed token, any of them promoted and curated before, legacy rows of one project (`Legacy`), pages of two, 1 promotion or score meanwhile |
| `services` | `WindowRespected`, `TableBounded`, `WaitingFreesTheSlot`; `RevokedKeyRefused`, `LookupsBounded`, `CapNearlyKept`, `DirectoryBounded`; `AppliedAtOnce` | limiter: two requests, two addresses, room for one, 2 per address and 3 in all, clock to 4, window 2; keys: two requests, three keys, room for one, one lookup per window, one key per email, clock to 2; transactions: two live writers and a backfill, batches of two, a gap of three blocks and two live ones, two contracts and two senders |
| `upkeep` | `EveryEndpointTried`, `BatchExact`; `TurnsCome`; `VenueRowWhole`; `ChainBreaksForReason`, `JobsGoOn`; `ScoresMoveForward`, `ScoredAmongPeers`, `ServedWhole`; `CompleteWhenServed` | below |
| `shrink`, `longtail`, `fresh`, `restore`, `tip`, `partial` | disagreements, section 6 | as the runs above, or smaller |

The bounds of `upkeep`, part by part. *BlockFetch:* three endpoints, so that a rotation can be
overtaken by two moves of the index; two fetching threads, two blocks on two days,
one of them too old for senders, whose receipts are a USDC move, a mint, a creation without a sender, a failed call that moves a second token and an
untracked one, and a native move to the sentinel address; two attempts per endpoint. *Refresh:* three targets with room for two per pass, all replies, 2 failures.
*Venues:* two venues, four pools of which one is uncounted and one sound by itself, pages of one, two pages at most, 2
trades. *Workflow:* three and four attempts, as in the two files; two runs to fill the gap. *Scores:* four
projects, three of them scored, pages of two, two overlapping jobs, one promotion or retirement; metrics of 0, 1 and 2, so that a normalised one may be a
half, in two windows: one with every value spread and tied differently, one where the peers tie in two metrics; ages below zero, under, at and past the cap. *Freshness:* three days
of three blocks, batches of two, one day of gap.

Why these are enough. *Blocks:* the live part has three blocks, so that a batch of two
and a shorter one occur, and the cap of a run (`MaxBlocks`) is reached before the tip.
The gap too takes two batches, so that a backfill run can end before its range does, and
its last day is also a day of live blocks. One backfill slot is enough for TLC because its
workflow runs one job at a time; the proofs hold for any number. *Days:* four days
with retention of two and trimming after one let a day pass from "written" through
"recounted" to "pruned" and "trimmed" while a job still writes to it. *Cache:* room
for one of two keys makes every store an eviction of the other key; a clock of 0..2
with TTL 1 and MaxStale 2 gives the three ages the code tells apart (fresh, stale,
too old). *Limiter:* the clock runs past a whole window after the first hit, and the
global limit is reached before both addresses use theirs up. *Keys:* an entry stored
before a revocation can outlive it by its whole time to live within the clock; two requests are
enough to race on the count, on the limiter and on the directory. *Pages:* pages shorter
than the table, so that a row can appear or vanish behind, on and ahead of the cursor.
*Transactions:* both jobs write day 1; blocks 2 and 4 of the two have neither a contract nor a
sender in common, so that no lock before the network row orders them, and blocks 3 and 5 have both, so that writers wait for each other
and two may deadlock; a second live writer waits for the first one's checkpoint.
Bounds that exist only for TLC: `MaxBlock`, `LastDay`, `MaxFaults`, `LastTime`, `EndTime`, `LastUtcDay`, `MaxTrades`,
`MaxScorings`, `MaxChanges`, `MaxMoves`, `FillRuns`, `Spare` (locks
ever made per key), one refresher, `Delay` (how late a thread may take the limiter's lock) and
`AnswerDelay` (how long a lookup takes from the row it read to its answer; without such a
bound nothing could be said of when a revoked key is refused).
The run `standalone` treats callers, refreshers and keys as symmetric: it checks no liveness, and no definition of the three modules tells two of them apart.
TLC's deadlock check is on in every run: where the environment's counters are used up, a run
that finds nothing to do, an admin request, a job or a read is still enabled.

Every property of a passing run has a mutant in `PROJECT.json`: a plausible slip in
one mapped definition that makes TLC report that property.

## 4. Fairness

`Rollup!FairSpec` has weak fairness on `Advance(r)` for each run slot: endpoints and database
answer eventually, at most `MaxFaults` runs die, and *a live run is started again whatever happened
to the last one*, which is what the schedule of `ingestion-cron.yml` does and what `JobsGoOn` shows of it.
`Die`, `Lose`, `Mine`, `NewDay` and `PollTip` have none: following the tip need not go on.
The backfill workflow chains itself only after success, so `FillFinishes` promises the
end only if no run failed. `Discovery!FairSpec` has weak fairness on `Run`, the
discovery run as a whole, because an ingestion job starts it after every ingestion and a run
that does not fail gets through; admin requests and submissions have none, and at most `MaxFaults` of them and of
the runs fail. `Refresh` has weak fairness on `RefreshStep`: jobs keep
running, and a pass takes its next step until it ends; 429s and other failures of the source have none and occur at
most `MaxFaults` times. `Workflow` has weak fairness on the schedule (GitHub may delay it, not
drop it for good), on starting the job that waits, on the end of every step, and on the
answer to a chain request, whichever answer it is; the timeout has none, and any job may be cancelled.
`UpkeepSpec` repeats the fairness of these two for the part that is at work. The cache, the limiter,
the keys, the venues, the scores, the reads and the script of the platforms have no liveness claim: `WaitingFreesTheSlot`
is an action property about the moment the client returns.

`RefreshInit` assumes that fewer targets than `Cap` never get a stamp and that fewer than `Slow` time out:
with more, those stay in front of the queue for ever and the others starve, which the code accepts.

## 5. Proofs

All are checked by TLAPS, for all values of the constants that satisfy the named assumptions
of the modules: `DBAssumption` (the gap ends at or before `Start`, block days never decrease,
finite senders and contracts), `RunAssumption` (live and backfill slots are disjoint,
batches are not empty, the backfill's window is within the retention), `TxAssumption`, `CacheAssumption`, `DiscoveryAssumption`,
`LimitAssumption` (a request waits for the lock for less than a window), `KeyAssumption`, `FetchAssumption`
(endpoints are numbered from 1, blocks are positive numbers, each with a sequence of receipts and a day, and the code of a
creation is no tracked contract), `VenueAssumption` (venues are numbered from 1, the pools are finite and each is of one venue),
`WorkflowAssumption`, `FreshnessAssumption`, `SeedAssumption` (no contract belongs to two platforms, or to a platform and the
list of tokens, and contracts have different ids, none of them the id of a platform they have nothing to do with; the tables at
the top of the script are so), `ScoreAssumption` (ids are numbered in their order; a quarter of the score is a number of units
that every spread of a metric and the cap of the age divide, so that neither needs rounding; the windows are any metrics and ages). TLC evaluates them on every run.

*Ingestion* (RollupProofs). `Spec => []ExactlyOnce`, `[]RunBehindCheckpoint`, `[]FillDoneComplete`,
`[]ReportedDayComplete`, `[]TypeOK` and `Spec => ImplementsLedger`. The inductive
invariant (`Inv`, theorem `Invariance`) has types, the counts of the two frontiers,
facts about the frontiers (`Frontiers`: what `through` and `fillDone` say of them), and one condition for each slot
(`SlotOK`). `SlotOK` is why the others do not stand alone: a request holds
exactly the blocks of its range; the request a run waits for ends where its batch ends; a
run's cursor is never ahead of its checkpoint; and once a request is applied the checkpoint has
reached its end, so that the answer may move the cursor. Nothing more has to be known of a request
whose sender is gone: the procedure compares its first block with the checkpoint itself. `FillDoneComplete` follows because done is
computed from a cursor that is never ahead of `next`; `ReportedDayComplete` because
`through` moves with the checkpoint and days do not decrease along the chain.

*Pruned rows* (second part of RollupProofs). `[]WindowExact` and `[]ContractRowsBounded`, on top of `Inv`. A batch the
database accepts holds no block that is counted already (`AcceptedBatch`), so a contract's row grows by exactly what
the truth grows by (`CallsGrow`, by the cardinality of a disjoint union), and trimming only touches days past the
cut. For the senders one more fact is needed (`Bounds`): a backfill run and its requests carry the day they may record senders
from, fixed when the run started; days only pass, so that bound never lies inside the window, however late the request arrives.
Pruning stays out of it because the window is not longer than the retention.

*Transactions* (ApplyTxProofs). `AppliedAtOnce` (theorem `CommitsAtOnce`), for any number of transactions at once. The invariant (`TxInv`) says what a
transaction has written *relative to what is committed by now*: a contract row it has is the committed one and the
batch's calls, a network row the committed one with the batch's blocks, and with the count of all committed senders and its own once it is
stamped. That survives the commit of another transaction because no row has two writers (`TxApart`), and because a count that has
been read is of a day whose network row the reader holds: whoever adds senders to that day has to get that row first. A commit then
publishes exactly what `ApplyIngestBatch` or `ApplyBackfillBatch` would make of the tables (`TxTyping`: and leaves them well formed).

*Cache* (SnapshotCacheProofs). `[]HeldByOne`, `[]OneRebuild`, `SnapshotsMoveForward`, `ServedInTime` and `[]EntriesBounded`. The invariant
(`CacheInv`, theorem `CacheInvariance`) adds to `HeldByOne`: a thread refers to a lock exactly while it is to acquire or release it;
unless its key was evicted, that lock is the one in the table; and a rebuild under way
read the database no earlier than the snapshot it will replace. The exception for
evicted keys is needed: `_store` drops an unlocked lock (`cache.py:47-49`)
which another thread may have fetched and not yet acquired, and then two rebuilds of that key can run.
`ServedInTime` needs what a waiting caller holds: an entry that was young enough when it was read, or a failure.

*Discovery* (DiscoveryProofs). `[]TypeOK`, `[]NoSignalNeedsPerson`, `[]ApprovedWasQueued` and
`ProjectsKeepContracts`. A category is held in three places between the person or source that gave it and the project that gets
it (the row, the run's ready list, the project), and each copy is justified by itself, because another step may overwrite
the one it was copied from. An approval is a request that has queued before it can mark.

*Launch platforms* (second part of DiscoveryProofs). `[]NothingLost`, for any number of platforms and contracts, any page size and
any stop. The invariant (`SeedInv`, theorem `SeedInvariance`) has four parts. `TableOK`: a project has one contract, or contracts of one platform
and that platform's id or the id of one of its tokens; so what the script writes for a platform is no row of another (`Apart`,
`RowsKept`). `ReadOK`: what a run has read is in the table still, because discovery only adds projects. `ItemOK`: what the plan says of a
platform the script has not finished holds of the table as it is, though not of the table it was computed from. `LostOK`: a
contract without a project is one of a platform whose project is there and not seeded. `PlanHolds` shows that a fresh plan is `ItemOK`, by the
greatest holder of each contract (`GreatestOf`, a least-counterexample argument on the size of the set); `DeleteStubInv` is the step that needs the rest: it
takes the last project of a contract away, and only what the item says of the stubs still to come shows that the update will put it back. The
history `asked` is in the property because the next run resolves the platform's token from the coin index, and has to find the same.

*Queues* (QueueProofs). What `DropUpTo`, `Only` and `ReadOn` return for sequences of any length. The induction theorems of the library
take an operator and cannot be used, so each induction is by a least counterexample (`LeastNumber`). `DropFacts`: what is dropped is old, and
the new head is not. `Matched(p, q, k)`: the entries of p are, one to one from the end, entries of q at most k
older; it survives dropping from either side (`MatchedDrop`, `DropMatched`) and appending to both. `ReadOnFacts`: after a
page the keys read are still increasing, everything new is a row of the table as it is, and every row of the table up to the last key read is new or was
behind the cursor before.

*Limiter* (RateLimitProofs). `[]WindowRespected`, `[]TableBounded` and `WaitingFreesTheSlot`, for any number of addresses and requests. The invariant (`LimitInv`) matches
what a name has let through in the last window with hits of its queue at most `Delay` older, because a thread may take the lock later than it
read the clock; so a hit that still counts has not been dropped, and the queue is never longer than the limit. A promised wait is
always until the head of the queue expires (`Counted`).

*Keys* (KeyAccessProofs). `[]RevokedKeyRefused`: what still says active of a closed key is a lookup that read
before the directory was cleared, or an entry such a lookup stored, and both end in time.
`[]CapNearlyKept`: active keys and requests between count and insert stay together below the cap
and the other threads. `[]DirectoryBounded`: room is made, whether of expired or of live entries, before a key is stored that has no entry, and the order
of the directory lists no key twice. `[]LookupsBounded`: the lookups of a window are the last hits of the limiter object they
went through (`BudgetInv`), one invariant per limiter, since two threads may each have made one.

*The endpoint pool* (UpkeepProofs). `[]EveryEndpointTried`, for any number of endpoints and threads. A call keeps the start of
its rotation, so that after k endpoints it has tried the k positions after its start, and after `Size` of them all of
them (`VisitedAll`, a lemma about remainders), and the next position is none of those before `Size` (`VisitedNew`), wherever the others have moved the index.
The theorem says nothing of calls that raise: those may leave endpoints untried (section 6, `tip`).

*One batch* (UpkeepProofs). `[]BatchExact`, for any blocks, transactions and threads. The invariant (`BatchInv`, theorem `BatchInvariance`) says that while nothing
has failed each block waits, is fetched by exactly one thread, is ready, or was added (`SharedOut`), and that the accumulator is `Exact`
for the added blocks: every counter, whichever its key, holds the number of blocks, transactions and logs that count for it, and the senders and users are
those of the added transactions. `Exact` does not mention an order, which is why the order in which blocks finish does not matter. `AddsReceipt` adds one
transaction to it and `AddsBlock` a block, by induction over its receipts (`ReceiptsAdded` shows that the recursion has a value; both are least-counterexample
arguments). `MovesCounted` turns logs into moves by a bijection: every move that counts has one main log, and no other log of it is counted. The invariant
is needed because `BatchExact` speaks of the sent batch only, and one failed block ends the claim for good: `broken` never becomes false again before `NextRun`.

*Venues* (UpkeepProofs). `[]VenueRowWhole`, for any venues, pools, page size and number of pages. The invariant (`VenuesInv`, theorem `VenuesInvariance`) says that
while no volume of the venue changed, what was read before page k is exactly the pools with fewer than `(k - 1) * PageSize` others ahead of them, each
once and with its volume (`ReadOK`). `BeforeOrders` and `AheadFollows` make the number of pools ahead follow the order of the listing, and `PlacesFilled`
shows that below the place of any pool no place is empty, so that an empty page means that the listing ended (`ReadWhole`). If a sorted page ends in a pool
without volume, all pools after it have none, and the units of what was read are, one to one, the units of the venue (`UnitsAgree`).

*Workflow* (UpkeepProofs): `[]WorkflowTypeOK` and `ChainBreaksForReason`, by cases over the steps. *Freshness* (UpkeepProofs): `[]CompleteWhenServed`, because
the timestamp, and the boundary a request computed from it, lie at a day the live worker has reached, so that every earlier live day is complete by then.

*Scores* (UpkeepProofs). `[]ServedWhole`, `ScoresMoveForward` and `ScoredAmongPeers`, for any number of projects, jobs and rows per page. The two readers of the
list go through their tables in the order of the keys without a gap, so whoever is in a table from the first page to the last is
in what was read, wherever others appear or vanish (`ReadOf`, `ScoreOf`); a score that was there at the beginning
is only ever joined by newer ones, since what retirement deletes belongs to a project that is owed no longer.
`ScoredAmongPeers` holds because a job normalises over exactly the scored projects it read itself: normalisation keeps the order of the peers, strictly where they differ,
and takes the least to nothing and the greatest to a whole quarter (`NormalizedFacts`), since `Unit` is a multiple of every spread (`Divides`); the age bonus grows with the age
(`AgeBonusGrows`), and the four parts are added (`Composed`).

## 6. Disagreements with the documentation

Each is a run TLC finds violated, with the quoted sentence in `PROJECT.json`:

- `shrink`: the distinct-sender count "survives later pruning", but a live run more
  than the retention window behind recounts a pruned day (`20261006000000:101`).
- `longtail`: "once a day is closed" is judged by the date, so a day still being
  ingested loses the rows of its first batches (`20261007010000:144`).
- `fresh`: the cold start that `get_last_synced_block` describes cannot happen, as the
  procedure refuses to work without a `sync_state` row (`20261006000000:40`).
- `restore`: "nothing is promoted without someone choosing a category again", but the
  restored status is the one the classifier picks up by itself (`admin.py:203`).
- `tip`: "Only raises once every endpoint in the pool has failed", but the calls through web3's methods go on after an HTTP error only: one
  endpoint that times out, or answers something else than JSON, ends the call for the tip, and with it the run (`worker.py:330`, `307`).
  A block's fetch survives a timeout but not a reply that is not JSON, although "an endpoint that errors ... is skipped" (`rollup.py:101`).
- `partial`: "`partial` is True for any day that is not fully covered", but the rows may be read
  before a batch that crosses midnight and the status after it (`metrics.py:72`). `CompleteWhenServed` is what does
  hold: such a day is complete by then, and the next request serves it so.

More that no run shows: the days of the gap are before `data_through` and are served
with `partial=False` until the backfill has reached them (`aggregate.py:424`, the exception `CompleteWhenServed` makes);
`manual_classify` of the command line says that it upserts, yet for a contract that has a row the insert leaves `first_seen` out and is refused, as
`admin.py:115-121` explains of the API's own copy; a revocation "takes effect immediately on this instance" (`routes/keys.py:130`), yet a lookup in flight can put the
row back into the directory just cleared (the exception `RevokedKeyRefused` makes);
`ops/seed_launchpads.py` calls itself idempotent (line 17) and its retirement leaves "nothing ... half-merged" (lines 261-263), but:
after a crash between creating a platform and retiring its stub the next run takes the platform for done and the stub stays; a
platform whose fixed or claimed token is not tracked is planned as new again by the next run, which then stops at the id that is taken; if the coin index answers
differently after a crash between the deletion of a stub and the update that follows, the next run plans for another
project, and the stub's contract stays without one (the exception `NothingLost` makes); and a project that discovery happened to name
like a platform is taken for it, and loses its own contract to the update. None of these is what a test or a sentence of the repository excludes in so many words, except
the word idempotent.

## 7. What is only model-checked, and what is left

Only model-checked: liveness (`CatchesUp`, `FillFinishes`, `QueuesDrain`, `TurnsCome`, `JobsGoOn`), because
liveness under fairness and ENABLED are outside what the installed provers do. Every
invariant and action property that a run checks is stated by a theorem too.

What is left, in the order in which it would add most:

1. **ApplyTx**: the pruning functions as transactions beside the two procedures.
2. **Inputs of scoring**: the sums over the window (`project_window_metrics`) and over a project's balances (`tvl.py`), which Scores takes as numbers.
3. One composition of Discovery, LaunchpadSeed, Scores and Freshness over shared tables, to replace the environment
   actions `Promote`, `PromoteContract` and `ApplyLive` by the modules that perform them.

## 8. Not modelled

The dashboard and badge renderer format what the API returns; `memlog.py` logs, `main.py` wires;
`social_links.py` and the name heuristics of discovery are text processing; of `decode.py` only which receipts and logs
count is modelled, not the conversion of amounts; `ops/` other than `seed_launchpads.py` and the initial backfill row, and the dry runs, are started by
hand; of `seed_launchpads.py` the preview and the names and websites of the platforms are left out; the remaining migrations are schema and queries. The read routes other than the project list and the daily series are one
query each. `daily_contract_users` is
written and pruned exactly like `daily_active_addresses`. `SnapshotCache.clear` is called
by tests only, and `Thread.start` is taken to succeed. The wider effect of a promotion (socials and
other project columns) is left out, as is the volume and gas of a day.
