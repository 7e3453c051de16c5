----------------------------- MODULE BlockFetch -----------------------------
(***************************************************************************)
(* One batch of blocks from the chain (ingestion/worker.py: the endpoint   *)
(* pool; ingestion/rollup.py: fetch_block, process_batch and the           *)
(* accumulator).  The main thread connects the pool, asks for the tip,     *)
(* then RPC_CONCURRENCY threads fetch blocks while it adds the finished    *)
(* ones in the order they finish.  The sticky index is shared, no lock.    *)
(***************************************************************************)
EXTENDS Integers, Sequences, FiniteSets, Bags

CONSTANTS
  Endpoint,     \* configured endpoints, 1.., in preference order
  Fetcher,      \* threads of the executor
  Main,         \* the main thread
  Attempts,     \* RPC_RETRY_MAX_ATTEMPTS
  Job,          \* the blocks of the batch
  Txs,          \* block -> the sequence of its transactions
  Tracked,      \* contracts that belong to a project
  DayOfBlock,   \* block -> its UTC day
  MinDay        \* address_min_day

Sentinel == "sentinel"
Creation == "creation"
NoSender == "none"

\* What a transaction moves: USDC through its ERC-20 contract or natively, another token
\* that is tracked, or what is no movement of one: a mint or burn, any other log.
Token == {"usdc", "eurc", "usyc"}
Move == Token \cup {"native", "mint", "other"}
Receipt == [to: STRING, from: STRING, failed: BOOLEAN, moves: Seq(Move)]

ASSUME FetchAssumption ==
  /\ Endpoint = 1..Cardinality(Endpoint) /\ Endpoint # {}
  /\ Main \notin Fetcher /\ Attempts \in Nat \ {0}
  /\ IsFiniteSet(Job) /\ Job \subseteq Nat \ {0}
  /\ Txs \in [Job -> Seq(Receipt)] /\ DayOfBlock \in [Job -> Int] /\ MinDay \in Int
  /\ Creation \notin Tracked

VARIABLES
  phase,      \* connect, tip, batch, applied or failed
  pool,       \* the reachable endpoints, in order
  sticky,     \* _StickyPoolIndex.index
  rpc,        \* the call each thread is making
  waiting,    \* blocks submitted and not started
  ready,      \* blocks fetched and not yet added
  broken,     \* the fetch of a block, or of the tip, ended with an exception
  acc         \* BatchAccumulator: [counts: a bag, senders, users]

fvars == <<phase, pool, sticky, rpc, waiting, ready, broken, acc>>

Thread == Fetcher \cup {Main}
NoBlock == 0
Rest == [at |-> "rest", kind |-> "raw", block |-> NoBlock, part |-> "header",
         start |-> 0, offset |-> 0, attempt |-> 0, tried |-> {}]
EmptyAcc == [counts |-> EmptyBag, senders |-> {}, users |-> {}]

FetchTypeOK ==
  /\ phase \in {"connect", "tip", "batch", "applied", "failed"}
  /\ pool \in Seq(Endpoint) /\ sticky \in 0..Cardinality(Endpoint)
  /\ rpc \in [Thread -> [at: {"rest", "call", "between", "exhausted", "raised"},
                         kind: {"raw", "eth"},
                         block: Job \cup {NoBlock}, part: {"header", "receipts"},
                         start: Nat, offset: Nat, attempt: 0..(Attempts - 1),
                         tried: SUBSET (0..Cardinality(Endpoint))]]
  /\ waiting \subseteq Job /\ ready \subseteq Job /\ broken \in BOOLEAN
  /\ IsABag(acc.counts)

FetchInit ==
  /\ phase = "connect" /\ pool = <<>> /\ sticky = 0
  /\ rpc = [t \in Thread |-> Rest]
  /\ waiting = {} /\ ready = {} /\ broken = FALSE /\ acc = EmptyAcc

-----------------------------------------------------------------------------
(* BatchAccumulator: one counter for each key that a block, a receipt or a  *)
(* log has added one to.                                                     *)

\* The chain reports every move of USDC in a system log, and one made through the
\* ERC-20 contract in a log of that contract too.
LogsOf(tx) ==
  UNION {CASE tx.moves[i] = "usdc"   -> {<<i, "system">>, <<i, "erc20">>}
           [] tx.moves[i] = "native" -> {<<i, "system">>}
           [] OTHER                  -> {<<i, tx.moves[i]>>} : i \in DOMAIN tx.moves}

\* Mutant: the ERC-20 log of a USDC move is counted as well.
EveryLog(log) == log[2] \notin {"mint", "other"}

\* Mints and burns, malformed logs and other tokens count for nothing either.
Counted(log) == log[2] \notin {"erc20", "mint", "other"}

TokenOf(log) == IF log[2] \in {"system", "erc20"} THEN "usdc" ELSE log[2]

\* The counters of its day that one log, and the rest of a receipt, add one to.
LogCounters(d, log) == {<<"token", d, TokenOf(log)>>, <<"transfers", d>>}
TxCounters(d, tx) ==
  {<<"tx", d>>}
    \cup (IF tx.failed THEN {<<"failed", d>>} ELSE {})
    \cup (IF tx.to = Creation THEN {<<"creations", d>>} ELSE {})
    \cup (IF tx.to \in {Creation, Sentinel} THEN {} ELSE
            {<<"calls", d, tx.to>>} \cup (IF tx.failed THEN {<<"failures", d, tx.to>>} ELSE {}))
    \cup (IF tx.from = NoSender THEN {<<"missing">>} ELSE {})

\* What one receipt adds to each counter.
CountsOf(d, tx) ==
  LET Logs(key) == {log \in LogsOf(tx) : Counted(log) /\ key \in LogCounters(d, log)}
      keys == UNION {LogCounters(d, log) : log \in {l \in LogsOf(tx) : Counted(l)}}
  IN SetToBag(TxCounters(d, tx)) (+) [key \in keys |-> Cardinality(Logs(key))]

Recorded(d, tx) == tx.from # NoSender /\ d >= MinDay

AddReceipt(a, d, tx) ==
  [counts  |-> a.counts (+) CountsOf(d, tx),
   senders |-> a.senders \cup (IF Recorded(d, tx) THEN {<<d, tx.from>>} ELSE {}),
   users   |-> a.users \cup (IF Recorded(d, tx) /\ tx.to \in Tracked
                             THEN {<<d, tx.to, tx.from>>} ELSE {})]

\* add_block: the block, then its receipts one after the other.
AddBlock(a, b) ==
  LET d == DayOfBlock[b]
      after[n \in 0..Len(Txs[b])] ==
        IF n = 0 THEN [counts  |-> a.counts (+) SetToBag({<<"blocks", d>>}),
                       senders |-> a.senders, users |-> a.users]
        ELSE AddReceipt(after[n - 1], d, Txs[b][n])
  IN after[Len(Txs[b])]

-----------------------------------------------------------------------------
(* Calls on the pool: rpc[t] tries position (start + offset) % Size.            *)

Size == Len(pool)
Position(t) == (rpc[t].start + rpc[t].offset) % Size
Sets(t, c) == rpc' = [rpc EXCEPT ![t] = c]

Calling(kind, b, part) ==
  [at |-> "call", kind |-> kind, block |-> b, part |-> part, start |-> sticky % Size,
   offset |-> 0, attempt |-> 0, tried |-> {}]

\* What may be left of the configured endpoints, in their order.
Pools ==
  {q \in UNION {[1..n -> Endpoint] : n \in 0..Cardinality(Endpoint)} :
     \A i, j \in DOMAIN q : i < j => q[i] < q[j]}

\* get_web3_pool: endpoints that fail the connectivity check are skipped.
Connect ==
  /\ phase = "connect"
  /\ \E q \in Pools :
       /\ pool' = q
       /\ IF q = <<>> THEN /\ phase' = "failed"
                           /\ UNCHANGED rpc
          ELSE /\ phase' = "tip"
               /\ Sets(Main, [Rest EXCEPT !.at = "call", !.kind = "eth"])
  /\ UNCHANGED <<sticky, waiting, ready, broken, acc>>

Tried(t) == [rpc[t] EXCEPT !.tried = @ \cup {Position(t)}]

\* Mutant: the rotation starts from the shared index again on each endpoint.
NextFromSticky(t) ==
  /\ Sets(t, IF rpc[t].offset + 1 < Size
          THEN [Tried(t) EXCEPT !.offset = @ + 1, !.attempt = 0, !.start = sticky % Size]
          ELSE [Tried(t) EXCEPT !.at = "exhausted"])
  /\ broken' = (broken \/ rpc[t].offset + 1 = Size)

\* The endpoint is given up; the last one ends the call with its error.
NextEndpoint(t) ==
  /\ Sets(t, IF rpc[t].offset + 1 < Size
             THEN [Tried(t) EXCEPT !.offset = @ + 1, !.attempt = 0]
             ELSE [Tried(t) EXCEPT !.at = "exhausted"])
  /\ broken' = (broken \/ rpc[t].offset + 1 = Size)

\* 429 or 5xx: _call_with_retry sleeps and tries again, then gives up.
Busy(t) ==
  /\ rpc[t].at = "call"
  /\ IF rpc[t].attempt + 1 < Attempts
     THEN Sets(t, [rpc[t] EXCEPT !.attempt = @ + 1]) /\ UNCHANGED broken
     ELSE NextEndpoint(t)
  /\ UNCHANGED <<phase, pool, sticky, waiting, ready, acc>>

\* Another HTTP status is not retried.
Refused(t) ==
  /\ rpc[t].at = "call"
  /\ NextEndpoint(t)
  /\ UNCHANGED <<phase, pool, sticky, waiting, ready, acc>>

\* An exception that the loop over the endpoints does not catch ends the call.
Raises(t) == Sets(t, [Tried(t) EXCEPT !.at = "raised"]) /\ broken' = TRUE

\* No connection, a timeout, a JSON-RPC error or a null result: _raw_rpc_on_pool goes
\* on to the next endpoint, while _call_on_pool and _block_number_on_pool catch
\* HTTPError only.
Unreachable(t) ==
  /\ rpc[t].at = "call"
  /\ IF rpc[t].kind = "raw" THEN NextEndpoint(t) ELSE Raises(t)
  /\ UNCHANGED <<phase, pool, sticky, waiting, ready, acc>>

\* A reply with status 200 whose body is no JSON is no RequestException: the error of
\* the decoder leaves a raw call as well.
Garbled(t) ==
  /\ rpc[t].at = "call"
  /\ Raises(t)
  /\ UNCHANGED <<phase, pool, sticky, waiting, ready, acc>>

\* fetch_block asks for the header, then for the receipts, in two calls.
Answers(t) ==
  /\ rpc[t].at = "call"
  /\ sticky' = Position(t)
  /\ LET c == rpc[t]
     IN CASE c.kind = "eth" ->
               /\ phase' = "batch" /\ waiting' = Job /\ Sets(t, Rest) /\ UNCHANGED ready
          [] c.kind = "raw" /\ c.part = "header" ->
               /\ Sets(t, [Rest EXCEPT !.at = "between", !.block = c.block])
               /\ UNCHANGED <<phase, waiting, ready>>
          [] OTHER ->
               /\ ready' = ready \cup {c.block} /\ Sets(t, Rest) /\ UNCHANGED <<phase, waiting>>
  /\ UNCHANGED <<pool, broken, acc>>

\* The second call reads the index anew: another thread may have moved it.
AskReceipts(t) ==
  /\ rpc[t].at = "between"
  /\ Sets(t, Calling("raw", rpc[t].block, "receipts"))
  /\ UNCHANGED <<phase, pool, sticky, waiting, ready, broken, acc>>

-----------------------------------------------------------------------------
(* process_batch.                                                            *)

\* A thread of the executor takes the next block that was submitted.
Take(t) ==
  /\ phase = "batch" /\ t \in Fetcher /\ rpc[t].at \notin {"call", "between"} /\ waiting # {}
  /\ \E b \in waiting :
       /\ \A c \in waiting : b <= c
       /\ waiting' = waiting \ {b}
       /\ Sets(t, Calling("raw", b, "header"))
  /\ UNCHANGED <<phase, pool, sticky, ready, broken, acc>>

\* The first failure ends the run: the blocks not started are cancelled, and the
\* calls in flight go on without anyone waiting for them.
Abort ==
  /\ phase \in {"tip", "batch"} /\ broken
  /\ phase' = "failed" /\ waiting' = {}
  /\ UNCHANGED <<pool, sticky, rpc, ready, broken, acc>>

\* The next finished block, whichever it is, is added; a receipt without
\* effectiveGasPrice ends the run, so that no gas is ever guessed.
AddReady ==
  /\ phase = "batch"
  /\ \E b \in ready :
       /\ ready' = ready \ {b}
       /\ \/ acc' = AddBlock(acc, b) /\ UNCHANGED <<phase, waiting>>
          \/ phase' = "failed" /\ waiting' = {} /\ UNCHANGED acc
  /\ UNCHANGED <<pool, sticky, rpc, broken>>

AllAdded == ~broken /\ waiting = {} /\ ready = {} /\ \A t \in Fetcher : rpc[t].at = "rest"

\* The payload of the finished batch goes to apply_ingest_batch.
SendBatch ==
  /\ phase = "batch" /\ AllAdded
  /\ phase' = "applied"
  /\ UNCHANGED <<pool, sticky, rpc, waiting, ready, broken, acc>>

\* The next run is a process of its own.
NextRun ==
  /\ phase \in {"applied", "failed"}
  /\ phase' = "connect" /\ pool' = <<>> /\ sticky' = 0
  /\ rpc' = [t \in Thread |-> Rest]
  /\ waiting' = {} /\ ready' = {} /\ broken' = FALSE /\ acc' = EmptyAcc

FetchNext ==
  \/ NextRun \/ Connect \/ Abort \/ AddReady \/ SendBatch
  \/ \E t \in Thread : \/ Busy(t) \/ Refused(t) \/ Unreachable(t) \/ Garbled(t)
                      \/ Answers(t) \/ AskReceipts(t) \/ Take(t)

FetchSpec == FetchInit /\ [][FetchNext]_fvars

-----------------------------------------------------------------------------
(* Properties.                                                              *)

\* A rotation is whole: a call goes to no endpoint that it has given up already, and one
\* that ends on the last endpoint's error has tried every one of the pool, although
\* other threads move the index on which it started while it waits and retries.  (A
\* call may also end earlier, on an exception that is not caught: see below.)
EveryEndpointTried ==
  \A t \in Thread :
    /\ rpc[t].at = "call" => Position(t) \notin rpc[t].tried
    /\ rpc[t].at = "exhausted" => rpc[t].tried = 0..(Size - 1)

\* "Only raises once every endpoint in the pool has failed", _call_on_pool in
\* worker.py:293-294; "same endpoint-rotation", _raw_rpc_on_pool in rollup.py:98.
\* Fails: a timeout of one endpoint ends the call of the tip, and a body that is not
\* JSON ends any call.
OnlyRaisesWhenAllFailed ==
  \A t \in Thread : rpc[t].at \in {"exhausted", "raised"} => rpc[t].tried = 0..(Size - 1)

\* Reference: the transactions of the batch by block and place, and their moves.
Placed == UNION {{b} \X DOMAIN Txs[b] : b \in Job}
TxAt(p) == Txs[p[1]][p[2]]
DayOn(p) == DayOfBlock[p[1]]
MovesOn(d, kinds) ==
  UNION {{p} \X {i \in DOMAIN TxAt(p).moves : TxAt(p).moves[i] \in kinds} :
           p \in {q \in Placed : DayOn(q) = d}}
KeptDays == {p \in Placed : DayOn(p) >= MinDay /\ TxAt(p).from # NoSender}
Copies(key, bag) == IF BagIn(key, bag) THEN bag[key] ELSE 0
Total(key) == Copies(key, acc.counts)

\* What is sent is the whole batch, whatever order its blocks finished in: every
\* block, transaction and call once, each move of a token once although the chain
\* reports one of USDC twice, and the senders of exactly the days that are kept.
BatchExact ==
  phase = "applied" =>
    /\ \A d \in {DayOfBlock[b] : b \in Job} :
         /\ Total(<<"blocks", d>>) = Cardinality({b \in Job : DayOfBlock[b] = d})
         /\ Total(<<"tx", d>>) = Cardinality({p \in Placed : DayOn(p) = d})
         /\ \A c \in Tracked \ {Sentinel} :
              /\ Total(<<"calls", d, c>>) = Cardinality({p \in Placed : DayOn(p) = d /\ TxAt(p).to = c})
              /\ Total(<<"failures", d, c>>) =
                   Cardinality({p \in Placed : DayOn(p) = d /\ TxAt(p).to = c /\ TxAt(p).failed})
         /\ Total(<<"transfers", d>>) = Cardinality(MovesOn(d, Token \cup {"native"}))
         /\ Total(<<"token", d, "usdc">>) = Cardinality(MovesOn(d, {"usdc", "native"}))
         /\ \A c \in Token \ {"usdc"} : Total(<<"token", d, c>>) = Cardinality(MovesOn(d, {c}))
    /\ acc.senders = {<<DayOn(p), TxAt(p).from>> : p \in KeptDays}
    /\ acc.users = {<<DayOn(p), TxAt(p).to, TxAt(p).from>> : p \in {q \in KeptDays : TxAt(q).to \in Tracked}}

=============================================================================
