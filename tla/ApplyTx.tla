------------------------------ MODULE ApplyTx ------------------------------
(***************************************************************************)
(* apply_ingest_batch and apply_backfill_batch as the transactions they    *)
(* are: one statement after another, one row lock after another, each row  *)
(* kept locked until the end, and every statement reading what others have *)
(* committed by then (READ COMMITTED).  IngestDB takes each call for one   *)
(* step; here that is a property.  Token totals are written like contract  *)
(* rows and contract users like addresses; pruning, which works on days    *)
(* past the window, is left out.                                           *)
(***************************************************************************)
EXTENDS IngestDB, Sequences

CONSTANTS
  Writer,       \* calls in progress at once
  LiveWriter,   \* those of apply_ingest_batch
  TxBlocks      \* most blocks of a batch

ASSUME TxAssumption ==
  /\ IsFiniteSet(Writer) /\ LiveWriter \subseteq Writer /\ TxBlocks \in Nat \ {0}

VARIABLE tx     \* the transaction of each writer

txVars == <<dbVars, tx>>

\* Mutant: the rows of the days are written last, with the counts.
StatementsCountFirst == <<"contracts", "addresses", "recount", "network">>

\* The statements between the check of the checkpoint and its update.
Statements == <<"contracts", "network", "addresses", "recount">>
Done == Len(Statements) + 1

NoBatch == [first |-> 0, last |-> 0, blocks |-> {}, minDay |-> 0]
NoCount == -1
NoTx == [at |-> 0, todo |-> {}, wrote |-> [r \in {} |-> 0], count |-> NoCount, batch |-> NoBatch]

ContractRow(d, c) == <<"contract", d, c>>
NetworkRow(d) == <<"network", d>>
AddressRow(d, a) == <<"address", d, a>>
AllRows ==
  {ContractRow(d, c) : d \in Days, c \in Contract} \cup {NetworkRow(d) : d \in Days}
    \cup {AddressRow(d, a) : d \in Days, a \in Addr}

TxTypeOK ==
  /\ DBTypeOK
  /\ \A w \in Writer :
       /\ tx[w].at \in 0..Done /\ tx[w].todo \subseteq AllRows
       /\ DOMAIN tx[w].wrote \subseteq AllRows     \* rows it has locked, with its values
       /\ tx[w].count \in Nat \cup {NoCount}
       /\ tx[w].batch.blocks \subseteq Blocks

\* The live worker and the backfill each begin at their checkpoint.
TxInit == DBInit /\ tx = [w \in Writer |-> NoTx]

-----------------------------------------------------------------------------
(* Rows and locks.                                                           *)

LockedByOther(w, r) == \E v \in Writer \ {w} : r \in DOMAIN tx[v].wrote

OnDay(d) == {b \in Blocks : DayOf[b] = d}

\* The rows of a day and of a contract as the transaction sees them: its own
\* version, or the one committed last.
NetworkSeen(w, d) ==
  IF NetworkRow(d) \in DOMAIN tx[w].wrote THEN tx[w].wrote[NetworkRow(d)]
  ELSE [counted |-> [b \in OnDay(d) |-> counted[b]], active |-> active[d]]
CallsSeen(w, d, c) ==
  IF ContractRow(d, c) \in DOMAIN tx[w].wrote THEN tx[w].wrote[ContractRow(d, c)] ELSE calls[d][c]
SendersSeen(w, d) == addrs[d] \cup {a \in Addr : AddressRow(d, a) \in DOMAIN tx[w].wrote}

RowsOf(statement, q) ==
  CASE statement = "contracts" ->
         {r \in AllRows : \E d \in Days, c \in Contract :
            r = ContractRow(d, c) /\ NewCalls(q, d, c) > 0}
    [] statement = "network" -> {NetworkRow(DayOf[b]) : b \in q.blocks}
    [] statement = "addresses" -> {AddressRow(p[1], p[2]) : p \in
            {x \in Days \X Addr : x[2] \in NewSenders(q, x[1])}}
    [] statement = "recount" -> {NetworkRow(d) : d \in Touched(q)}

\* group by leaves the order of rows open; addresses and days come sorted.
Turn(r, todo) ==
  r[1] = "address" => \A s \in todo : r[2] < s[2] \/ (r[2] = s[2] /\ r[3] <= s[3])

Writes(w, r, value) ==
  tx' = [tx EXCEPT ![w].todo = @ \ {r}, ![w].count = NoCount,
                   ![w].wrote = [x \in DOMAIN @ \cup {r} |-> IF x = r THEN value ELSE @[x]]]

-----------------------------------------------------------------------------
(* A call.                                                                   *)

Accepted(w, q) == IF w \in LiveWriter THEN IngestAccepts(q) ELSE BackfillAccepts(q)

\* Nobody else of the same procedure is between its check and its end.
CheckpointFree(w) ==
  \A v \in Writer \ {w} : (v \in LiveWriter <=> w \in LiveWriter) => tx[v].at = 0

\* The batches a call of w may carry; the live worker records senders of all days.
Batches(w) ==
  {q \in {[first |-> f, last |-> l, blocks |-> f..l, minDay |-> d] :
             f \in Blocks, l \in Blocks, d \in IF w \in LiveWriter THEN {0} ELSE Days} :
     q.last - q.first \in 0..(TxBlocks - 1)}

\* The checkpoint row is locked and compared.
Begin(w) ==
  /\ tx[w].at = 0 /\ CheckpointFree(w)
  /\ \E q \in Batches(w) :
       /\ Accepted(w, q)
       /\ tx' = [tx EXCEPT ![w] = [NoTx EXCEPT !.at = 1, !.batch = q,
                                     !.todo = RowsOf(Statements[1], q)]]
  /\ UNCHANGED dbVars

\* A call the checkpoint does not accept raises and leaves nothing behind.
Refuse(w) ==
  /\ tx[w].at = 0 /\ CheckpointFree(w)
  /\ \E q \in Batches(w) : ~Accepted(w, q)
  /\ UNCHANGED txVars

Statement(w) == Statements[tx[w].at]
Running(w) == tx[w].at \in DOMAIN Statements

NextStatement(w) ==
  /\ Running(w) /\ tx[w].todo = {}
  /\ tx' = [tx EXCEPT ![w].at = @ + 1,
                      ![w].todo = IF tx[w].at + 1 = Done THEN {}
                                  ELSE RowsOf(Statements[tx[w].at + 1], tx[w].batch)]
  /\ UNCHANGED dbVars

\* on conflict do update: waits for the row, then adds to its last version.
UpsertContract(w) ==
  /\ Running(w) /\ Statement(w) = "contracts"
  /\ \E r \in tx[w].todo :
       /\ ~LockedByOther(w, r)
       /\ Writes(w, r, CallsSeen(w, r[2], r[3]) + NewCalls(tx[w].batch, r[2], r[3]))
  /\ UNCHANGED dbVars

UpsertNetwork(w) ==
  /\ Running(w) /\ Statement(w) = "network"
  /\ \E r \in tx[w].todo :
       LET seen == NetworkSeen(w, r[2])
       IN /\ ~LockedByOther(w, r)
          /\ Writes(w, r, [seen EXCEPT !.counted =
               [b \in OnDay(r[2]) |-> @[b] + (IF b \in tx[w].batch.blocks THEN 1 ELSE 0)]])
  /\ UNCHANGED dbVars

\* on conflict do nothing: an address that somebody is inserting is waited for.
InsertAddress(w) ==
  /\ Running(w) /\ Statement(w) = "addresses"
  /\ \E r \in tx[w].todo :
       /\ Turn(r, tx[w].todo) /\ ~LockedByOther(w, r)
       /\ IF r[3] \in addrs[r[2]] THEN tx' = [tx EXCEPT ![w].todo = @ \ {r}]
                                  ELSE Writes(w, r, 1)
  /\ UNCHANGED dbVars

\* The count is taken when the statement starts, the row locked after it.
CountSenders(w) ==
  /\ Running(w) /\ Statement(w) = "recount" /\ tx[w].count = NoCount
  /\ \E r \in tx[w].todo :
       /\ \A s \in tx[w].todo : r[2] <= s[2]
       /\ tx' = [tx EXCEPT ![w].count = Cardinality(SendersSeen(w, r[2]))]
  /\ UNCHANGED dbVars

StampCount(w) ==
  /\ Running(w) /\ tx[w].count # NoCount
  /\ \E r \in tx[w].todo :
       LET seen == NetworkSeen(w, r[2])
           stamps == w \in LiveWriter \/ r[2] \notin RawDays
       IN /\ \A s \in tx[w].todo : r[2] <= s[2]
          /\ ~LockedByOther(w, r)
          /\ Writes(w, r, [seen EXCEPT !.active = IF stamps THEN tx[w].count ELSE @])
  /\ UNCHANGED dbVars

\* The checkpoint moves and the transaction commits.
Commit(w) ==
  /\ tx[w].at = Done
  /\ counted' = [b \in Blocks |-> NetworkSeen(w, DayOf[b]).counted[b]]
  /\ active' = [d \in Days |-> NetworkSeen(w, d).active]
  /\ calls' = [d \in Days |-> [c \in Contract |-> CallsSeen(w, d, c)]]
  /\ addrs' = [d \in Days |-> SendersSeen(w, d)]
  /\ IF w \in LiveWriter
     THEN sync' = tx[w].batch.last /\ through' = NewestDay(tx[w].batch) /\ UNCHANGED next
     ELSE next' = tx[w].batch.last + 1 /\ UNCHANGED <<sync, through>>
  /\ tx' = [tx EXCEPT ![w] = NoTx]

\* A lost connection, a statement timeout, or the victim of a deadlock: contract
\* rows are locked in any order, so two writers may wait for each other.
Rollback(w) ==
  /\ tx[w].at # 0
  /\ tx' = [tx EXCEPT ![w] = NoTx]
  /\ UNCHANGED dbVars

TxNext ==
  \E w \in Writer :
    \/ Begin(w) \/ Refuse(w) \/ NextStatement(w)
    \/ UpsertContract(w) \/ UpsertNetwork(w) \/ InsertAddress(w)
    \/ CountSenders(w) \/ StampCount(w) \/ Commit(w) \/ Rollback(w)

TxSpec == TxInit /\ [][TxNext]_txVars

-----------------------------------------------------------------------------
(* Properties.                                                              *)

\* "The two jobs ... can safely run at the same time", 20261007000000_historical_gap
\* _backfill.sql:11: whatever a transaction saw of others half-way, what it commits is
\* one whole step of IngestDB on the tables as they are then.  (Action property.)
AppliedAtOnce ==
  [][\E w \in Writer :
       LET q == tx[w].batch
       IN /\ tx[w].at = Done /\ Accepted(w, q)
          /\ IF w \in LiveWriter THEN ApplyIngestBatch(q) ELSE ApplyBackfillBatch(q)]_dbVars

=============================================================================
