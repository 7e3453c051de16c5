--------------------------- MODULE ApplyTxProofs ---------------------------
(***************************************************************************)
(* Proof that a commit of ApplyTx is one step of IngestDB, whatever the    *)
(* other transactions are doing.                                           *)
(*                                                                         *)
(* The conditions on a transaction are operators of the transaction and of *)
(* the tables it was checked against, so that a step which changes neither *)
(* keeps them.                                                             *)
(***************************************************************************)
EXTENDS ApplyTx, FiniteSetTheorems, TLAPS

-----------------------------------------------------------------------------
(* The inductive invariant.                                                  *)

Fields == {"at", "todo", "wrote", "count", "batch"}

TypedTx(t) ==
  /\ t = [f \in Fields |-> t[f]]
  /\ t.at \in 0..5 /\ t.todo \subseteq AllRows /\ DOMAIN t.wrote \subseteq AllRows
  /\ t.count \in Nat \cup {NoCount} /\ t.batch.blocks \subseteq Blocks

\* A row of a contract that is written is the committed one plus the batch's calls, and
\* from the second statement on every row the batch adds to is written.
ContractsOK(t, rows) ==
  \A d \in Days, c \in Contract :
    LET r == ContractRow(d, c)
    IN /\ r \in DOMAIN t.wrote => t.wrote[r] = rows[d][c] + NewCalls(t.batch, d, c)
       /\ NewCalls(t.batch, d, c) > 0 => r \in DOMAIN t.wrote \/ (t.at = 1 /\ r \in t.todo)
       /\ t.at = 1 /\ r \in t.todo => r \notin DOMAIN t.wrote

\* The days of whose rows w writes the count of senders.
Stamps(w) == IF w \in LiveWriter THEN Days ELSE Days \ RawDays
CountOf(t, d, senders) == Cardinality(senders[d] \cup NewSenders(t.batch, d))
Stamped(t, days, d) ==
  /\ d \in Touched(t.batch) \cap days
  /\ t.at = 5 \/ (t.at = 4 /\ NetworkRow(d) \notin t.todo)
HasBlocks(q, d) == \E b \in q.blocks : DayOf[b] = d

DayRow(t, days, d, blocks, senders, stamp) ==
  [counted |-> [b \in OnDay(d) |-> blocks[b] + (IF b \in t.batch.blocks THEN 1 ELSE 0)],
   active |-> IF Stamped(t, days, d) THEN CountOf(t, d, senders) ELSE stamp[d]]

\* A day that is written has its blocks once more, and its count once it has been
\* stamped; from the third statement on the rows of all days of the batch are written.
NetworkOK(t, days, blocks, senders, stamp) ==
  \A d \in Days :
    LET r == NetworkRow(d)
    IN /\ r \in DOMAIN t.wrote => t.wrote[r] = DayRow(t, days, d, blocks, senders, stamp)
       /\ HasBlocks(t.batch, d) =>
            r \in DOMAIN t.wrote \/ t.at = 1 \/ (t.at = 2 /\ r \in t.todo)
       /\ t.at = 1 \/ (t.at = 2 /\ r \in t.todo) => r \notin DOMAIN t.wrote

\* From the fourth statement on the senders are there or inserted.
SendersOK(t, senders) ==
  \A d \in Days, a \in Addr :
    LET r == AddressRow(d, a)
    IN /\ r \in DOMAIN t.wrote => a \in NewSenders(t.batch, d) /\ t.at >= 3
       /\ t.at >= 3 /\ a \in NewSenders(t.batch, d) =>
            a \in senders[d] \/ r \in DOMAIN t.wrote \/ (t.at = 3 /\ r \in t.todo)

\* A count is of the day that is stamped next, and still right.
CountOK(t, senders) ==
  t.count # NoCount =>
    /\ t.at = 4
    /\ \E d \in Touched(t.batch) :
         /\ NetworkRow(d) \in t.todo /\ t.count = CountOf(t, d, senders)
         /\ \A s \in t.todo : d <= s[2]

TodoOK(t) == t.todo \subseteq (IF t.at \in 1..4 THEN RowsOf(Statements[t.at], t.batch) ELSE {})

TxOK(w) ==
  tx[w].at # 0 =>
    /\ tx[w].batch \in Batches(w) /\ Accepted(w, tx[w].batch)
    /\ ContractsOK(tx[w], calls)
    /\ NetworkOK(tx[w], Stamps(w), counted, addrs, active)
    /\ SendersOK(tx[w], addrs) /\ CountOK(tx[w], addrs) /\ TodoOK(tx[w])

IdleOK(w) == tx[w].at = 0 => tx[w] = NoTx

\* No row is locked twice, no checkpoint either.
TxApart ==
  \A v, w \in Writer : v # w =>
    /\ DOMAIN tx[v].wrote \cap DOMAIN tx[w].wrote = {}
    /\ (v \in LiveWriter <=> w \in LiveWriter) => tx[v].at = 0 \/ tx[w].at = 0

TxInv ==
  /\ DBTypeOK /\ tx = [w \in Writer |-> tx[w]] /\ TxApart
  /\ \A w \in Writer : TypedTx(tx[w]) /\ TxOK(w) /\ IdleOK(w)

-----------------------------------------------------------------------------
(* Rows and statements.                                                      *)

\* There are four statements, in this order.
LEMMA StatementFacts ==
  /\ Done = 5 /\ DOMAIN Statements = 1..4
  /\ Statements[1] = "contracts" /\ Statements[2] = "network"
  /\ Statements[3] = "addresses" /\ Statements[4] = "recount"
  BY DEF Done, Statements

\* A row is told from every other by its table, its day and its key.
LEMMA RowFacts ==
  ASSUME NEW d, NEW x, NEW e, NEW y
  PROVE  /\ ContractRow(d, x) = ContractRow(e, y) => d = e /\ x = y
         /\ AddressRow(d, x) = AddressRow(e, y) => d = e /\ x = y
         /\ NetworkRow(d) = NetworkRow(e) => d = e
         /\ ContractRow(d, x) # NetworkRow(e) /\ ContractRow(d, x) # AddressRow(e, y)
         /\ NetworkRow(d) # AddressRow(e, y)
         /\ ContractRow(d, x)[1] = "contract" /\ ContractRow(d, x)[2] = d /\ ContractRow(d, x)[3] = x
         /\ NetworkRow(d)[1] = "network" /\ NetworkRow(d)[2] = d
         /\ AddressRow(d, x)[1] = "address" /\ AddressRow(d, x)[2] = d /\ AddressRow(d, x)[3] = x
  BY DEF ContractRow, AddressRow, NetworkRow

\* The rows a statement writes.
LEMMA StatementRows ==
  ASSUME NEW q, q.blocks \subseteq Blocks, DBAssumption
  PROVE  /\ RowsOf("contracts", q) =
              {r \in AllRows : \E d \in Days, c \in Contract : r = ContractRow(d, c) /\ NewCalls(q, d, c) > 0}
         /\ RowsOf("network", q) = {NetworkRow(d) : d \in {e \in Days : HasBlocks(q, e)}}
         /\ RowsOf("addresses", q) =
              {r \in AllRows : \E d \in Days, a \in Addr : r = AddressRow(d, a) /\ a \in NewSenders(q, d)}
         /\ RowsOf("recount", q) = {NetworkRow(d) : d \in Touched(q)}
<1>1. RowsOf("contracts", q) =
              {r \in AllRows : \E d \in Days, c \in Contract : r = ContractRow(d, c) /\ NewCalls(q, d, c) > 0}
  BY DEF RowsOf
<1>2. RowsOf("network", q) = {NetworkRow(d) : d \in {e \in Days : HasBlocks(q, e)}}
  <2>1. RowsOf("network", q) = {NetworkRow(DayOf[b]) : b \in q.blocks}
    BY DEF RowsOf
  <2>2. \A b \in q.blocks : DayOf[b] \in Days
    BY DEF DBAssumption
  <2> QED
    BY <2>1, <2>2 DEF HasBlocks
<1>3. RowsOf("addresses", q) =
              {r \in AllRows : \E d \in Days, a \in Addr : r = AddressRow(d, a) /\ a \in NewSenders(q, d)}
  <2>1. RowsOf("addresses", q) =
          {AddressRow(p[1], p[2]) : p \in {x \in Days \X Addr : x[2] \in NewSenders(q, x[1])}}
    BY DEF RowsOf
  <2>2. ASSUME NEW d \in Days, NEW a \in Addr PROVE AddressRow(d, a) \in AllRows
    BY DEF AllRows
  <2>3. ASSUME NEW d \in Days, NEW a \in Addr, a \in NewSenders(q, d)
        PROVE  AddressRow(d, a) \in RowsOf("addresses", q)
    <3>1. <<d, a>> \in {x \in Days \X Addr : x[2] \in NewSenders(q, x[1])}
      BY <2>3
    <3>2. <<d, a>>[1] = d /\ <<d, a>>[2] = a
      OBVIOUS
    <3> QED
      BY <2>1, <3>1, <3>2
  <2>4. ASSUME NEW r \in RowsOf("addresses", q)
        PROVE  \E d \in Days, a \in Addr : r = AddressRow(d, a) /\ a \in NewSenders(q, d)
    BY <2>1
  <2> QED
    BY <2>2, <2>3, <2>4
<1>4. RowsOf("recount", q) = {NetworkRow(d) : d \in Touched(q)}
  BY DEF RowsOf
<1> QED
  BY <1>1, <1>2, <1>3, <1>4

\* Every row of AllRows, by its table.
LEMMA AllRowsFacts ==
  /\ \A d \in Days, c \in Contract : ContractRow(d, c) \in AllRows
  /\ \A d \in Days : NetworkRow(d) \in AllRows
  /\ \A d \in Days, a \in Addr : AddressRow(d, a) \in AllRows
  BY DEF AllRows

\* What a batch of w adds is well defined, and only to days of its own blocks.
LEMMA BatchFacts ==
  ASSUME DBAssumption, NEW w \in Writer, NEW q \in Batches(w)
  PROVE  /\ q.first \in Blocks /\ q.last \in Blocks /\ q.first <= q.last
         /\ q.blocks = q.first..q.last /\ q.blocks \subseteq Blocks /\ q.last \in q.blocks
         /\ \A d \in Days, c \in Contract : NewCalls(q, d, c) \in Nat
         /\ \A d \in Days : NewSenders(q, d) \subseteq Addr /\ IsFiniteSet(NewSenders(q, d))
         /\ Touched(q) \subseteq Days
         /\ \A d \in Days : NewSenders(q, d) # {} => d \in Touched(q)
         /\ \A d \in Touched(q) : NewSenders(q, d) # {}
         /\ \A d \in Days : ~HasBlocks(q, d) => NewSenders(q, d) = {} /\ d \notin Touched(q)
         /\ \A b \in q.blocks : HasBlocks(q, DayOf[b])
<1>1. PICK f \in Blocks, l \in Blocks, m \in (IF w \in LiveWriter THEN {0} ELSE Days) :
        q = [first |-> f, last |-> l, blocks |-> f..l, minDay |-> m]
  BY DEF Batches
<1>2. q.last - q.first \in 0..(TxBlocks - 1)
  BY DEF Batches
<1>3. /\ q.first = f /\ q.last = l /\ q.blocks = q.first..q.last
      /\ q.first <= q.last /\ q.last \in q.blocks /\ q.blocks \subseteq Blocks
  BY <1>1, <1>2 DEF Blocks, DBAssumption
<1>4. \A d \in Days, c \in Contract : NewCalls(q, d, c) \in Nat
  <2> SUFFICES ASSUME NEW d \in Days, NEW c \in Contract PROVE NewCalls(q, d, c) \in Nat
    OBVIOUS
  <2>1. IsFiniteSet(q.blocks)
    BY <1>3, FS_Interval DEF Blocks
  <2>2. IsFiniteSet({b \in q.blocks : DayOf[b] = d /\ c \in Calls[b]})
    BY <2>1, FS_Subset
  <2> QED
    BY <2>2, FS_CardinalityType DEF NewCalls
<1>5. \A d \in Days : NewSenders(q, d) \subseteq Addr
  BY <1>3 DEF NewSenders, DBAssumption
<1>6. \A d \in Days : IsFiniteSet(NewSenders(q, d))
  BY <1>5, FS_Subset DEF DBAssumption
<1>7. /\ Touched(q) \subseteq Days /\ \A d \in Touched(q) : NewSenders(q, d) # {}
      /\ \A d \in Days : NewSenders(q, d) # {} => d \in Touched(q)
  BY DEF Touched
<1>8. ASSUME NEW d \in Days, ~HasBlocks(q, d) PROVE NewSenders(q, d) = {} /\ d \notin Touched(q)
  BY <1>7, <1>8 DEF HasBlocks, NewSenders
<1>9. \A b \in q.blocks : HasBlocks(q, DayOf[b])
  BY DEF HasBlocks
<1> QED
  BY <1>1, <1>3, <1>4, <1>5, <1>6, <1>7, <1>8, <1>9

\* A step of one transaction changes that transaction alone.
LEMMA OneTx ==
  ASSUME tx = [v \in Writer |-> tx[v]], NEW w \in Writer, NEW t, tx' = [tx EXCEPT ![w] = t]
  PROVE  tx' = [v \in Writer |-> tx'[v]] /\ tx'[w] = t /\ \A u \in Writer \ {w} : tx'[u] = tx[u]
<1>1. DOMAIN tx = Writer
  OBVIOUS
<1>2. tx' = [v \in Writer |-> IF v = w THEN t ELSE tx[v]]
  BY <1>1
<1> QED
  BY <1>2

\* What writing a row does to a transaction.
LEMMA WritesFacts ==
  ASSUME TxInv, NEW w \in Writer, NEW r \in AllRows, NEW value, Writes(w, r, value)
  PROVE  /\ tx' = [v \in Writer |-> tx'[v]] /\ \A u \in Writer \ {w} : tx'[u] = tx[u]
         /\ TypedTx(tx'[w])
         /\ tx'[w].at = tx[w].at /\ tx'[w].batch = tx[w].batch /\ tx'[w].count = NoCount
         /\ tx'[w].todo = tx[w].todo \ {r}
         /\ DOMAIN tx'[w].wrote = DOMAIN tx[w].wrote \cup {r} /\ tx'[w].wrote[r] = value
         /\ \A x \in DOMAIN tx[w].wrote : x # r => tx'[w].wrote[x] = tx[w].wrote[x]
<1>1. tx[w] = [f \in Fields |-> tx[w][f]] /\ tx = [v \in Writer |-> tx[v]]
  BY DEF TxInv, TypedTx
<1>2. tx' = [v \in Writer |-> tx'[v]] /\ \A u \in Writer \ {w} : tx'[u] = tx[u]
  BY <1>1 DEF Writes
<1>3. /\ tx'[w] = [f \in Fields |-> tx'[w][f]]
      /\ tx'[w].at = tx[w].at /\ tx'[w].batch = tx[w].batch /\ tx'[w].count = NoCount
      /\ tx'[w].todo = tx[w].todo \ {r}
      /\ tx'[w].wrote = [x \in DOMAIN tx[w].wrote \cup {r} |-> IF x = r THEN value ELSE tx[w].wrote[x]]
  BY <1>1 DEF Writes, Fields
<1>4. /\ DOMAIN tx'[w].wrote = DOMAIN tx[w].wrote \cup {r} /\ tx'[w].wrote[r] = value
      /\ \A x \in DOMAIN tx[w].wrote : x # r => tx'[w].wrote[x] = tx[w].wrote[x]
  BY <1>3
<1>5. TypedTx(tx'[w])
  BY <1>3, <1>4 DEF TxInv, TypedTx
<1> QED
  BY <1>2, <1>3, <1>4, <1>5

-----------------------------------------------------------------------------
(* Steps that leave the tables alone.                                        *)

\* Such a step keeps the invariant if the transaction that takes it is in order
\* afterwards, and has locked nothing that was another's.
LEMMA OwnStep ==
  ASSUME TxInv, NEW w \in Writer, UNCHANGED dbVars,
         tx' = [v \in Writer |-> tx'[v]], \A u \in Writer \ {w} : tx'[u] = tx[u],
         TypedTx(tx'[w]), TxOK(w)', IdleOK(w)',
         \A r \in DOMAIN tx'[w].wrote : r \in DOMAIN tx[w].wrote \/ ~LockedByOther(w, r),
         tx'[w].at = 0 \/ tx[w].at # 0 \/ CheckpointFree(w)
  PROVE  TxInv'
<1>1. DBTypeOK'
  BY DEF TxInv, DBTypeOK, dbVars
<1>2. ASSUME NEW u \in Writer PROVE (TypedTx(tx[u]))' /\ TxOK(u)' /\ IdleOK(u)'
  <2>1. CASE u = w
    BY <2>1
  <2>2. CASE u # w
    <3>1. tx'[u] = tx[u]
      BY <2>2
    <3>2. UNCHANGED <<sync, next, calls, counted, addrs, active>>
      BY DEF dbVars
    <3>3. TypedTx(tx[u]) /\ TxOK(u) /\ IdleOK(u)
      BY DEF TxInv
    <3>4. Accepted(u, tx[u].batch)' <=> Accepted(u, tx[u].batch)
      BY <3>1, <3>2 DEF Accepted, IngestAccepts, BackfillAccepts
    <3>5. TxOK(u)'
      BY <3>1, <3>2, <3>3, <3>4 DEF TxOK
    <3> QED
      BY <3>1, <3>3, <3>5 DEF IdleOK
  <2> QED
    BY <2>1, <2>2
<1>3. TxApart'
  <2>1. ASSUME NEW u \in Writer, u # w
        PROVE  /\ DOMAIN tx'[u].wrote \cap DOMAIN tx'[w].wrote = {}
               /\ (u \in LiveWriter <=> w \in LiveWriter) => tx'[u].at = 0 \/ tx'[w].at = 0
    <3>1. /\ tx'[u] = tx[u] /\ DOMAIN tx[u].wrote \cap DOMAIN tx[w].wrote = {}
          /\ (u \in LiveWriter <=> w \in LiveWriter) => tx[u].at = 0 \/ tx[w].at = 0
      BY <2>1 DEF TxInv, TxApart
    <3>2. \A r \in DOMAIN tx[u].wrote : LockedByOther(w, r)
      BY <2>1 DEF LockedByOther
    <3>3. CheckpointFree(w) /\ (u \in LiveWriter <=> w \in LiveWriter) => tx[u].at = 0
      BY <2>1 DEF CheckpointFree
    <3> QED
      BY <3>1, <3>2, <3>3
  <2>2. ASSUME NEW u \in Writer, NEW v \in Writer, u # v, u # w, v # w
        PROVE  /\ DOMAIN tx'[u].wrote \cap DOMAIN tx'[v].wrote = {}
               /\ (u \in LiveWriter <=> v \in LiveWriter) => tx'[u].at = 0 \/ tx'[v].at = 0
    BY <2>2 DEF TxInv, TxApart
  <2> QED
    BY <2>1, <2>2 DEF TxApart
<1> QED
  BY <1>1, <1>2, <1>3 DEF TxInv

\* A transaction that has not begun holds nothing.
LEMMA NoTxFacts == TypedTx(NoTx) /\ NoTx.at = 0 /\ NoTx.todo = {} /\ DOMAIN NoTx.wrote = {}
                   /\ NoTx.count = NoCount /\ NoTx.batch = NoBatch
  BY DEF TypedTx, NoTx, NoCount, NoBatch, Fields

\* A rollback lets go of everything.
LEMMA RollbackInv == ASSUME TxInv, NEW w \in Writer, Rollback(w) PROVE TxInv'
<1>1. tx = [v \in Writer |-> tx[v]] /\ tx' = [tx EXCEPT ![w] = NoTx] /\ UNCHANGED dbVars
  BY DEF TxInv, Rollback
<1>2. tx' = [v \in Writer |-> tx'[v]] /\ tx'[w] = NoTx /\ \A u \in Writer \ {w} : tx'[u] = tx[u]
  BY <1>1, OneTx
<1>3. TypedTx(tx'[w]) /\ TxOK(w)' /\ IdleOK(w)' /\ DOMAIN tx'[w].wrote = {} /\ tx'[w].at = 0
  BY <1>2, NoTxFacts DEF TxOK, IdleOK
<1> QED
  BY <1>1, <1>2, <1>3, OwnStep

\* A transaction begins with the contracts of its batch to write.
LEMMA BeginInv == ASSUME TxInv, DBAssumption, NEW w \in Writer, Begin(w) PROVE TxInv'
<1>1. PICK q \in Batches(w) :
        /\ Accepted(w, q)
        /\ tx' = [tx EXCEPT ![w] = [NoTx EXCEPT !.at = 1, !.batch = q, !.todo = RowsOf(Statements[1], q)]]
  BY DEF Begin
<1> DEFINE t == [NoTx EXCEPT !.at = 1, !.batch = q, !.todo = RowsOf(Statements[1], q)]
<1>2. /\ t = [f \in Fields |-> t[f]] /\ t.at = 1 /\ t.batch = q
      /\ t.todo = RowsOf("contracts", q) /\ DOMAIN t.wrote = {} /\ t.count = NoCount
  BY NoTxFacts, StatementFacts DEF TypedTx, Fields
<1>3. tx = [v \in Writer |-> tx[v]] /\ UNCHANGED dbVars /\ CheckpointFree(w)
  BY DEF TxInv, Begin
<1> HIDE DEF t
<1>4. tx' = [v \in Writer |-> tx'[v]] /\ tx'[w] = t /\ \A u \in Writer \ {w} : tx'[u] = tx[u]
  BY <1>1, <1>3, OneTx DEF t
<1>5. /\ q.blocks \subseteq Blocks /\ \A d \in Days, c \in Contract : NewCalls(q, d, c) \in Nat
  BY BatchFacts
<1>6. t.todo = {r \in AllRows : \E d \in Days, c \in Contract : r = ContractRow(d, c) /\ NewCalls(q, d, c) > 0}
  BY <1>2, <1>5, StatementRows
<1>7. TypedTx(t)
  BY <1>2, <1>5, <1>6 DEF TypedTx
<1>8. ContractsOK(t, calls)
  BY <1>2, <1>6, AllRowsFacts DEF ContractsOK
<1>9. NetworkOK(t, Stamps(w), counted, addrs, active) /\ SendersOK(t, addrs) /\ CountOK(t, addrs)
  BY <1>2 DEF NetworkOK, SendersOK, CountOK
<1>10. TodoOK(t)
  BY <1>2, StatementFacts DEF TodoOK
<1>11. Accepted(w, q)'
  BY <1>1, <1>3 DEF Accepted, IngestAccepts, BackfillAccepts, dbVars
<1>12. TxOK(w)'
  BY <1>1, <1>2, <1>3, <1>4, <1>8, <1>9, <1>10, <1>11 DEF TxOK, dbVars
<1>13. IdleOK(w)'
  BY <1>2, <1>4 DEF IdleOK
<1> QED
  BY <1>2, <1>3, <1>4, <1>7, <1>12, <1>13, OwnStep

\* What a transaction under way satisfies.
LEMMA UnderWay ==
  ASSUME TxInv, DBAssumption, NEW w \in Writer, tx[w].at # 0
  PROVE  /\ TypedTx(tx[w]) /\ tx[w].batch \in Batches(w) /\ Accepted(w, tx[w].batch)
         /\ ContractsOK(tx[w], calls) /\ NetworkOK(tx[w], Stamps(w), counted, addrs, active)
         /\ SendersOK(tx[w], addrs) /\ CountOK(tx[w], addrs) /\ TodoOK(tx[w])
         /\ tx = [v \in Writer |-> tx[v]] /\ tx[w].batch.blocks \subseteq Blocks
  BY DEF TxInv, TxOK, TypedTx

\* A step under way that is in order for its own transaction.
LEMMA OwnStepUnderWay ==
  ASSUME TxInv, DBAssumption, NEW w \in Writer, UNCHANGED dbVars, tx[w].at # 0,
         tx' = [v \in Writer |-> tx'[v]], \A u \in Writer \ {w} : tx'[u] = tx[u],
         TypedTx(tx'[w]), tx'[w].at # 0, tx'[w].batch = tx[w].batch,
         ContractsOK(tx'[w], calls), NetworkOK(tx'[w], Stamps(w), counted, addrs, active),
         SendersOK(tx'[w], addrs), CountOK(tx'[w], addrs), TodoOK(tx'[w]),
         \A r \in DOMAIN tx'[w].wrote : r \in DOMAIN tx[w].wrote \/ ~LockedByOther(w, r)
  PROVE  TxInv'
<1>1. Accepted(w, tx[w].batch)'
  BY UnderWay DEF Accepted, IngestAccepts, BackfillAccepts, dbVars
<1>2. TxOK(w)'
  BY <1>1, UnderWay DEF TxOK, dbVars
<1>3. IdleOK(w)'
  BY DEF IdleOK
<1> QED
  BY <1>2, <1>3, OwnStep

\* The next statement starts with all of its rows to write.
LEMMA NextStatementInv ==
  ASSUME TxInv, DBAssumption, NEW w \in Writer, NextStatement(w) PROVE TxInv'
<1> DEFINE t == tx[w]
           u == tx'[w]
           q == t.batch
           todo == IF t.at + 1 = 5 THEN {} ELSE RowsOf(Statements[t.at + 1], q)
<1>1. t.at \in 1..4 /\ t.todo = {} /\ UNCHANGED dbVars
  BY StatementFacts DEF NextStatement, Running
<1>2. /\ TypedTx(t) /\ q \in Batches(w) /\ q.blocks \subseteq Blocks
      /\ ContractsOK(t, calls) /\ NetworkOK(t, Stamps(w), counted, addrs, active)
      /\ SendersOK(t, addrs) /\ CountOK(t, addrs)
  BY <1>1, UnderWay
<1>3. tx = [v \in Writer |-> tx[v]] /\ t = [f \in Fields |-> t[f]]
  BY DEF TxInv, TypedTx
<1>4. tx' = [tx EXCEPT ![w].at = @ + 1, ![w].todo = todo]
  BY <1>1, StatementFacts DEF NextStatement
<1> HIDE DEF todo
<1>5. tx' = [v \in Writer |-> tx'[v]] /\ \A v \in Writer \ {w} : tx'[v] = tx[v]
  BY <1>3, <1>4
<1>6. /\ u = [f \in Fields |-> u[f]] /\ u.at = t.at + 1 /\ u.todo = todo
      /\ u.wrote = t.wrote /\ u.count = t.count /\ u.batch = q
  BY <1>3, <1>4 DEF Fields
<1>7. /\ t.at = 1 => todo = {NetworkRow(d) : d \in {e \in Days : HasBlocks(q, e)}}
      /\ t.at = 2 => todo = {r \in AllRows : \E d \in Days, a \in Addr : r = AddressRow(d, a) /\ a \in NewSenders(q, d)}
      /\ t.at = 3 => todo = {NetworkRow(d) : d \in Touched(q)}
      /\ t.at = 4 => todo = {}
  BY <1>1, <1>2, StatementRows, StatementFacts DEF todo
<1>8. todo \subseteq AllRows
  BY <1>1, <1>7, AllRowsFacts DEF Touched
<1> HIDE DEF t, u, q
<1>9. TypedTx(u)
  BY <1>1, <1>2, <1>6, <1>8 DEF TypedTx
<1>10. t.count = NoCount
  BY <1>1, <1>2 DEF CountOK
<1>11. ContractsOK(u, calls)
  BY <1>1, <1>2, <1>6 DEF ContractsOK, q
<1>12. ASSUME NEW d \in Days
       PROVE  DayRow(u, Stamps(w), d, counted, addrs, active) = DayRow(t, Stamps(w), d, counted, addrs, active)
  <2>1. t.at = 3 /\ d \in Touched(q) => NetworkRow(d) \in todo
    BY <1>7
  <2>2. Stamped(u, Stamps(w), d) <=> Stamped(t, Stamps(w), d)
    BY <1>1, <1>6, <2>1 DEF Stamped, q
  <2>3. u.batch = t.batch
    BY <1>6 DEF q
  <2> QED
    BY <2>2, <2>3 DEF DayRow, CountOf
<1>13. NetworkOK(u, Stamps(w), counted, addrs, active)
  <2> SUFFICES ASSUME NEW d \in Days
               PROVE LET r == NetworkRow(d)
                     IN /\ r \in DOMAIN u.wrote => u.wrote[r] = DayRow(u, Stamps(w), d, counted, addrs, active)
                        /\ HasBlocks(u.batch, d) =>
                             r \in DOMAIN u.wrote \/ u.at = 1 \/ (u.at = 2 /\ r \in u.todo)
                        /\ u.at = 1 \/ (u.at = 2 /\ r \in u.todo) => r \notin DOMAIN u.wrote
    BY DEF NetworkOK
  <2> DEFINE r == NetworkRow(d)
  <2>1. /\ r \in DOMAIN t.wrote => t.wrote[r] = DayRow(t, Stamps(w), d, counted, addrs, active)
        /\ HasBlocks(t.batch, d) => r \in DOMAIN t.wrote \/ t.at = 1 \/ (t.at = 2 /\ r \in t.todo)
        /\ t.at = 1 \/ (t.at = 2 /\ r \in t.todo) => r \notin DOMAIN t.wrote
    BY <1>2 DEF NetworkOK
  <2>2. HasBlocks(q, d) /\ t.at = 1 => r \in todo
    BY <1>7
  <2> HIDE DEF r
  <2>3. /\ r \in DOMAIN u.wrote => u.wrote[r] = DayRow(u, Stamps(w), d, counted, addrs, active)
        /\ HasBlocks(u.batch, d) => r \in DOMAIN u.wrote \/ u.at = 1 \/ (u.at = 2 /\ r \in u.todo)
        /\ u.at = 1 \/ (u.at = 2 /\ r \in u.todo) => r \notin DOMAIN u.wrote
    BY <1>1, <1>6, <1>12, <2>1, <2>2 DEF q
  <2> QED
    BY <2>3 DEF r
<1>14. SendersOK(u, addrs)
  <2> SUFFICES ASSUME NEW d \in Days, NEW a \in Addr
               PROVE LET r == AddressRow(d, a)
                     IN /\ r \in DOMAIN u.wrote => a \in NewSenders(u.batch, d) /\ u.at >= 3
                        /\ u.at >= 3 /\ a \in NewSenders(u.batch, d) =>
                             a \in addrs[d] \/ r \in DOMAIN u.wrote \/ (u.at = 3 /\ r \in u.todo)
    BY DEF SendersOK
  <2> DEFINE r == AddressRow(d, a)
  <2>1. /\ r \in DOMAIN t.wrote => a \in NewSenders(t.batch, d) /\ t.at >= 3
        /\ t.at >= 3 /\ a \in NewSenders(t.batch, d) =>
             a \in addrs[d] \/ r \in DOMAIN t.wrote \/ (t.at = 3 /\ r \in t.todo)
    BY <1>2 DEF SendersOK
  <2>2. t.at = 2 /\ a \in NewSenders(q, d) => r \in todo
    BY <1>7, AllRowsFacts
  <2> HIDE DEF r
  <2>3. /\ r \in DOMAIN u.wrote => a \in NewSenders(u.batch, d) /\ u.at >= 3
        /\ u.at >= 3 /\ a \in NewSenders(u.batch, d) =>
             a \in addrs[d] \/ r \in DOMAIN u.wrote \/ (u.at = 3 /\ r \in u.todo)
    BY <1>1, <1>6, <2>1, <2>2 DEF q
  <2> QED
    BY <2>3 DEF r
<1>15. CountOK(u, addrs)
  BY <1>6, <1>10 DEF CountOK
<1>16. TodoOK(u)
  BY <1>1, <1>6 DEF TodoOK, todo
<1>17. /\ TypedTx(tx'[w]) /\ tx'[w].at # 0 /\ tx'[w].batch = tx[w].batch
       /\ ContractsOK(tx'[w], calls) /\ NetworkOK(tx'[w], Stamps(w), counted, addrs, active)
       /\ SendersOK(tx'[w], addrs) /\ CountOK(tx'[w], addrs) /\ TodoOK(tx'[w])
       /\ DOMAIN tx'[w].wrote = DOMAIN tx[w].wrote /\ tx[w].at # 0
  BY <1>1, <1>6, <1>9, <1>11, <1>13, <1>14, <1>15, <1>16 DEF t, u, q
<1> QED
  BY <1>1, <1>5, <1>17, OwnStepUnderWay


\* The number of a statement.
LEMMA StatementNumber ==
  ASSUME NEW w \in Writer, Running(w)
  PROVE  /\ tx[w].at \in 1..4
         /\ Statement(w) = "contracts" => tx[w].at = 1
         /\ Statement(w) = "network" => tx[w].at = 2
         /\ Statement(w) = "addresses" => tx[w].at = 3
         /\ Statement(w) = "recount" => tx[w].at = 4
  BY StatementFacts DEF Running, Statement

\* One row of a contract: it was not written before, so it is the committed one plus
\* the calls of the batch.
LEMMA UpsertContractInv ==
  ASSUME TxInv, DBAssumption, NEW w \in Writer, UpsertContract(w) PROVE TxInv'
<1> DEFINE t == tx[w]
           u == tx'[w]
<1>1. t.at = 1 /\ UNCHANGED dbVars
  BY StatementNumber DEF UpsertContract
<1>2. /\ TypedTx(t) /\ t.batch \in Batches(w) /\ t.batch.blocks \subseteq Blocks
      /\ ContractsOK(t, calls) /\ NetworkOK(t, Stamps(w), counted, addrs, active)
      /\ SendersOK(t, addrs) /\ CountOK(t, addrs) /\ TodoOK(t)
  BY <1>1, UnderWay
<1>3. PICK r \in t.todo :
        /\ ~LockedByOther(w, r)
        /\ Writes(w, r, CallsSeen(w, r[2], r[3]) + NewCalls(tx[w].batch, r[2], r[3]))
  BY DEF UpsertContract
<1>4. PICK d \in Days, c \in Contract : r = ContractRow(d, c)
  BY <1>1, <1>2, StatementRows, StatementFacts DEF TodoOK
<1>5. r \in AllRows /\ r[2] = d /\ r[3] = c
  BY <1>4, AllRowsFacts, RowFacts
<1>6. r \notin DOMAIN t.wrote
  BY <1>1, <1>2, <1>4 DEF ContractsOK
<1>7. CallsSeen(w, r[2], r[3]) = calls[d][c]
  BY <1>4, <1>5, <1>6 DEF CallsSeen
<1> DEFINE value == calls[d][c] + NewCalls(t.batch, d, c)
<1>8. Writes(w, r, value)
  BY <1>3, <1>5, <1>7
<1> HIDE DEF value
<1>9. /\ tx' = [v \in Writer |-> tx'[v]] /\ \A v \in Writer \ {w} : tx'[v] = tx[v]
      /\ TypedTx(u) /\ u.at = t.at /\ u.batch = t.batch /\ u.count = NoCount
      /\ u.todo = t.todo \ {r}
      /\ DOMAIN u.wrote = DOMAIN t.wrote \cup {r} /\ u.wrote[r] = value
      /\ \A x \in DOMAIN t.wrote : x # r => u.wrote[x] = t.wrote[x]
  BY <1>5, <1>8, WritesFacts
<1> HIDE DEF t, u
<1>10. ContractsOK(u, calls)
  <2> SUFFICES ASSUME NEW e \in Days, NEW x \in Contract
               PROVE LET s == ContractRow(e, x)
                     IN /\ s \in DOMAIN u.wrote => u.wrote[s] = calls[e][x] + NewCalls(u.batch, e, x)
                        /\ NewCalls(u.batch, e, x) > 0 => s \in DOMAIN u.wrote \/ (u.at = 1 /\ s \in u.todo)
                        /\ u.at = 1 /\ s \in u.todo => s \notin DOMAIN u.wrote
    BY DEF ContractsOK
  <2> DEFINE s == ContractRow(e, x)
  <2>1. /\ s \in DOMAIN t.wrote => t.wrote[s] = calls[e][x] + NewCalls(t.batch, e, x)
        /\ NewCalls(t.batch, e, x) > 0 => s \in DOMAIN t.wrote \/ (t.at = 1 /\ s \in t.todo)
        /\ t.at = 1 /\ s \in t.todo => s \notin DOMAIN t.wrote
    BY <1>2 DEF ContractsOK
  <2>2. s = r => e = d /\ x = c
    BY <1>4, RowFacts
  <2> HIDE DEF s
  <2>3. /\ s \in DOMAIN u.wrote => u.wrote[s] = calls[e][x] + NewCalls(u.batch, e, x)
        /\ NewCalls(u.batch, e, x) > 0 => s \in DOMAIN u.wrote \/ (u.at = 1 /\ s \in u.todo)
        /\ u.at = 1 /\ s \in u.todo => s \notin DOMAIN u.wrote
    BY <1>9, <2>1, <2>2 DEF value
  <2> QED
    BY <2>3 DEF s
<1>11. \A e \in Days : NetworkRow(e) # r
  BY <1>4, RowFacts
<1>12. NetworkOK(u, Stamps(w), counted, addrs, active)
  BY <1>1, <1>2, <1>9, <1>11 DEF NetworkOK
<1>13. \A e \in Days, a \in Addr : AddressRow(e, a) # r
  BY <1>4, RowFacts
<1>14. SendersOK(u, addrs)
  BY <1>1, <1>2, <1>9, <1>13 DEF SendersOK
<1>15. CountOK(u, addrs) /\ TodoOK(u)
  BY <1>2, <1>9 DEF CountOK, TodoOK
<1>16. /\ TypedTx(tx'[w]) /\ tx'[w].at # 0 /\ tx'[w].batch = tx[w].batch
       /\ ContractsOK(tx'[w], calls) /\ NetworkOK(tx'[w], Stamps(w), counted, addrs, active)
       /\ SendersOK(tx'[w], addrs) /\ CountOK(tx'[w], addrs) /\ TodoOK(tx'[w])
       /\ tx[w].at # 0
       /\ \A x \in DOMAIN tx'[w].wrote : x \in DOMAIN tx[w].wrote \/ ~LockedByOther(w, x)
  BY <1>1, <1>3, <1>9, <1>10, <1>12, <1>14, <1>15 DEF t, u
<1> QED
  BY <1>1, <1>9, <1>16, OwnStepUnderWay


\* One day: its row was not written before, so its blocks are the committed ones, and
\* those of the batch once more.
LEMMA UpsertNetworkInv ==
  ASSUME TxInv, DBAssumption, NEW w \in Writer, UpsertNetwork(w) PROVE TxInv'
<1> DEFINE t == tx[w]
           u == tx'[w]
<1>1. t.at = 2 /\ UNCHANGED dbVars
  BY StatementNumber DEF UpsertNetwork
<1>2. /\ TypedTx(t) /\ t.batch \in Batches(w) /\ t.batch.blocks \subseteq Blocks
      /\ ContractsOK(t, calls) /\ NetworkOK(t, Stamps(w), counted, addrs, active)
      /\ SendersOK(t, addrs) /\ CountOK(t, addrs) /\ TodoOK(t)
  BY <1>1, UnderWay
<1>3. PICK r \in t.todo :
        /\ ~LockedByOther(w, r)
        /\ Writes(w, r, [NetworkSeen(w, r[2]) EXCEPT !.counted =
               [b \in OnDay(r[2]) |-> @[b] + (IF b \in tx[w].batch.blocks THEN 1 ELSE 0)]])
  BY DEF UpsertNetwork
<1>4. PICK d \in Days : r = NetworkRow(d)
  BY <1>1, <1>2, StatementRows, StatementFacts DEF TodoOK
<1>5. r \in AllRows /\ r[2] = d
  BY <1>4, AllRowsFacts, RowFacts
<1>6. r \notin DOMAIN t.wrote
  BY <1>1, <1>2, <1>4 DEF NetworkOK
<1>7. NetworkSeen(w, d) = [counted |-> [b \in OnDay(d) |-> counted[b]], active |-> active[d]]
  BY <1>4, <1>6 DEF NetworkSeen
<1> DEFINE value == [counted |-> [b \in OnDay(d) |-> counted[b] + (IF b \in t.batch.blocks THEN 1 ELSE 0)],
                     active |-> active[d]]
<1>8. Writes(w, r, value)
  <2>1. [NetworkSeen(w, d) EXCEPT !.counted =
               [b \in OnDay(d) |-> @[b] + (IF b \in tx[w].batch.blocks THEN 1 ELSE 0)]] = value
    BY <1>7
  <2> QED
    BY <1>3, <1>5, <2>1
<1>9. /\ tx' = [v \in Writer |-> tx'[v]] /\ \A v \in Writer \ {w} : tx'[v] = tx[v]
      /\ TypedTx(u) /\ u.at = t.at /\ u.batch = t.batch /\ u.count = NoCount
      /\ u.todo = t.todo \ {r}
      /\ DOMAIN u.wrote = DOMAIN t.wrote \cup {r} /\ u.wrote[r] = value
      /\ \A x \in DOMAIN t.wrote : x # r => u.wrote[x] = t.wrote[x]
  <2> HIDE DEF value
  <2> QED
    BY <1>5, <1>8, WritesFacts
<1> HIDE DEF t, u
<1>10. \A e \in Days : DayRow(u, Stamps(w), e, counted, addrs, active) = DayRow(t, Stamps(w), e, counted, addrs, active)
  BY <1>1, <1>9 DEF DayRow, Stamped, CountOf
<1>11. DayRow(t, Stamps(w), d, counted, addrs, active) = value
  BY <1>1 DEF DayRow, Stamped
<1>12. NetworkOK(u, Stamps(w), counted, addrs, active)
  <2> SUFFICES ASSUME NEW e \in Days
               PROVE LET s == NetworkRow(e)
                     IN /\ s \in DOMAIN u.wrote => u.wrote[s] = DayRow(u, Stamps(w), e, counted, addrs, active)
                        /\ HasBlocks(u.batch, e) =>
                             s \in DOMAIN u.wrote \/ u.at = 1 \/ (u.at = 2 /\ s \in u.todo)
                        /\ u.at = 1 \/ (u.at = 2 /\ s \in u.todo) => s \notin DOMAIN u.wrote
    BY DEF NetworkOK
  <2> DEFINE s == NetworkRow(e)
  <2>1. /\ s \in DOMAIN t.wrote => t.wrote[s] = DayRow(t, Stamps(w), e, counted, addrs, active)
        /\ HasBlocks(t.batch, e) => s \in DOMAIN t.wrote \/ t.at = 1 \/ (t.at = 2 /\ s \in t.todo)
        /\ t.at = 1 \/ (t.at = 2 /\ s \in t.todo) => s \notin DOMAIN t.wrote
    BY <1>2 DEF NetworkOK
  <2>2. s = r => e = d
    BY <1>4, RowFacts
  <2> HIDE DEF s, value
  <2>3. /\ s \in DOMAIN u.wrote => u.wrote[s] = DayRow(u, Stamps(w), e, counted, addrs, active)
        /\ HasBlocks(u.batch, e) => s \in DOMAIN u.wrote \/ u.at = 1 \/ (u.at = 2 /\ s \in u.todo)
        /\ u.at = 1 \/ (u.at = 2 /\ s \in u.todo) => s \notin DOMAIN u.wrote
    BY <1>1, <1>9, <1>10, <1>11, <2>1, <2>2
  <2> QED
    BY <2>3 DEF s
<1> HIDE DEF value
<1>13. /\ \A e \in Days, x \in Contract : ContractRow(e, x) # r
       /\ \A e \in Days, a \in Addr : AddressRow(e, a) # r
  BY <1>4, RowFacts
<1>14. ContractsOK(u, calls)
  BY <1>1, <1>2, <1>9, <1>13 DEF ContractsOK
<1>15. SendersOK(u, addrs)
  BY <1>1, <1>2, <1>9, <1>13 DEF SendersOK
<1>16. CountOK(u, addrs) /\ TodoOK(u)
  BY <1>2, <1>9 DEF CountOK, TodoOK
<1>17. /\ TypedTx(tx'[w]) /\ tx'[w].at # 0 /\ tx'[w].batch = tx[w].batch
       /\ ContractsOK(tx'[w], calls) /\ NetworkOK(tx'[w], Stamps(w), counted, addrs, active)
       /\ SendersOK(tx'[w], addrs) /\ CountOK(tx'[w], addrs) /\ TodoOK(tx'[w])
       /\ tx[w].at # 0
       /\ \A x \in DOMAIN tx'[w].wrote : x \in DOMAIN tx[w].wrote \/ ~LockedByOther(w, x)
  BY <1>1, <1>3, <1>9, <1>12, <1>14, <1>15, <1>16 DEF t, u
<1> QED
  BY <1>1, <1>9, <1>17, OwnStepUnderWay

\* One sender: there already, or inserted now.
LEMMA InsertAddressInv ==
  ASSUME TxInv, DBAssumption, NEW w \in Writer, InsertAddress(w) PROVE TxInv'
<1> DEFINE t == tx[w]
           u == tx'[w]
<1>1. t.at = 3 /\ UNCHANGED dbVars
  BY StatementNumber DEF InsertAddress
<1>2. /\ TypedTx(t) /\ t.batch \in Batches(w) /\ t.batch.blocks \subseteq Blocks
      /\ ContractsOK(t, calls) /\ NetworkOK(t, Stamps(w), counted, addrs, active)
      /\ SendersOK(t, addrs) /\ CountOK(t, addrs) /\ TodoOK(t)
  BY <1>1, UnderWay
<1>3. PICK r \in t.todo :
        /\ ~LockedByOther(w, r)
        /\ IF r[3] \in addrs[r[2]] THEN tx' = [tx EXCEPT ![w].todo = @ \ {r}] ELSE Writes(w, r, 1)
  BY DEF InsertAddress
<1>4. PICK d \in Days, a \in Addr : r = AddressRow(d, a) /\ a \in NewSenders(t.batch, d)
  BY <1>1, <1>2, StatementRows, StatementFacts DEF TodoOK
<1>5. r \in AllRows /\ r[2] = d /\ r[3] = a
  BY <1>4, AllRowsFacts, RowFacts
<1>6. t.count = NoCount
  BY <1>1, <1>2 DEF CountOK
<1>7. /\ tx' = [v \in Writer |-> tx'[v]] /\ \A v \in Writer \ {w} : tx'[v] = tx[v]
      /\ TypedTx(u) /\ u.at = t.at /\ u.batch = t.batch /\ u.count = NoCount
      /\ u.todo = t.todo \ {r}
      /\ DOMAIN u.wrote = DOMAIN t.wrote \/ DOMAIN u.wrote = DOMAIN t.wrote \cup {r}
      /\ \A x \in DOMAIN t.wrote : x # r => u.wrote[x] = t.wrote[x]
      /\ a \in addrs[d] \/ r \in DOMAIN u.wrote
  <2>1. CASE a \in addrs[d]
    <3>1. tx' = [tx EXCEPT ![w].todo = @ \ {r}]
      BY <1>3, <1>5, <2>1
    <3>2. tx = [v \in Writer |-> tx[v]] /\ t = [f \in Fields |-> t[f]]
      BY <1>2 DEF TxInv, TypedTx
    <3>3. tx' = [v \in Writer |-> tx'[v]] /\ \A v \in Writer \ {w} : tx'[v] = tx[v]
      BY <3>1, <3>2
    <3>4. /\ u = [f \in Fields |-> u[f]] /\ u.at = t.at /\ u.batch = t.batch /\ u.count = t.count
          /\ u.todo = t.todo \ {r} /\ u.wrote = t.wrote
      BY <3>1, <3>2 DEF Fields
    <3>5. TypedTx(u)
      BY <1>2, <3>4 DEF TypedTx
    <3> QED
      BY <1>6, <2>1, <3>3, <3>4, <3>5
  <2>2. CASE a \notin addrs[d]
    <3>1. Writes(w, r, 1)
      BY <1>3, <1>5, <2>2
    <3> QED
      BY <1>5, <3>1, WritesFacts
  <2> QED
    BY <2>1, <2>2
<1> HIDE DEF t, u
<1>8. /\ \A e \in Days, x \in Contract : ContractRow(e, x) # r
      /\ \A e \in Days : NetworkRow(e) # r
  BY <1>4, RowFacts
<1>9. ContractsOK(u, calls)
  BY <1>1, <1>2, <1>7, <1>8 DEF ContractsOK
<1>10. \A e \in Days : DayRow(u, Stamps(w), e, counted, addrs, active) = DayRow(t, Stamps(w), e, counted, addrs, active)
  BY <1>1, <1>7 DEF DayRow, Stamped, CountOf
<1>11. NetworkOK(u, Stamps(w), counted, addrs, active)
  BY <1>1, <1>2, <1>7, <1>8, <1>10 DEF NetworkOK
<1>12. SendersOK(u, addrs)
  <2> SUFFICES ASSUME NEW e \in Days, NEW x \in Addr
               PROVE LET s == AddressRow(e, x)
                     IN /\ s \in DOMAIN u.wrote => x \in NewSenders(u.batch, e) /\ u.at >= 3
                        /\ u.at >= 3 /\ x \in NewSenders(u.batch, e) =>
                             x \in addrs[e] \/ s \in DOMAIN u.wrote \/ (u.at = 3 /\ s \in u.todo)
    BY DEF SendersOK
  <2> DEFINE s == AddressRow(e, x)
  <2>1. /\ s \in DOMAIN t.wrote => x \in NewSenders(t.batch, e) /\ t.at >= 3
        /\ t.at >= 3 /\ x \in NewSenders(t.batch, e) =>
             x \in addrs[e] \/ s \in DOMAIN t.wrote \/ (t.at = 3 /\ s \in t.todo)
    BY <1>2 DEF SendersOK
  <2>2. s = r => e = d /\ x = a
    BY <1>4, RowFacts
  <2> HIDE DEF s
  <2>3. /\ s \in DOMAIN u.wrote => x \in NewSenders(u.batch, e) /\ u.at >= 3
        /\ u.at >= 3 /\ x \in NewSenders(u.batch, e) =>
             x \in addrs[e] \/ s \in DOMAIN u.wrote \/ (u.at = 3 /\ s \in u.todo)
    BY <1>1, <1>4, <1>7, <2>1, <2>2
  <2> QED
    BY <2>3 DEF s
<1>13. CountOK(u, addrs) /\ TodoOK(u)
  BY <1>2, <1>7 DEF CountOK, TodoOK
<1>14. /\ TypedTx(tx'[w]) /\ tx'[w].at # 0 /\ tx'[w].batch = tx[w].batch
       /\ ContractsOK(tx'[w], calls) /\ NetworkOK(tx'[w], Stamps(w), counted, addrs, active)
       /\ SendersOK(tx'[w], addrs) /\ CountOK(tx'[w], addrs) /\ TodoOK(tx'[w])
       /\ tx[w].at # 0
       /\ \A x \in DOMAIN tx'[w].wrote : x \in DOMAIN tx[w].wrote \/ ~LockedByOther(w, x)
  BY <1>1, <1>3, <1>7, <1>9, <1>11, <1>12, <1>13 DEF t, u
<1> QED
  BY <1>1, <1>7, <1>14, OwnStepUnderWay


\* From the fourth statement on a transaction sees all senders of its batch.
LEMMA SendersSeenFacts ==
  ASSUME TxInv, DBAssumption, NEW w \in Writer, tx[w].at >= 4, NEW d \in Days
  PROVE  /\ SendersSeen(w, d) = addrs[d] \cup NewSenders(tx[w].batch, d)
         /\ CountOf(tx[w], d, addrs) \in Nat
<1>0. tx[w].at # 0
  OBVIOUS
<1>1. SendersOK(tx[w], addrs) /\ tx[w].batch \in Batches(w) /\ tx[w].at \in 0..5
  BY <1>0, UnderWay DEF TypedTx
<1>2. NewSenders(tx[w].batch, d) \subseteq Addr /\ IsFiniteSet(NewSenders(tx[w].batch, d))
  BY <1>1, BatchFacts
<1>3. addrs[d] \subseteq Addr /\ IsFiniteSet(addrs[d])
  BY FS_Subset DEF TxInv, DBTypeOK, DBAssumption
<1>4. \A a \in Addr : /\ AddressRow(d, a) \in DOMAIN tx[w].wrote => a \in NewSenders(tx[w].batch, d)
                      /\ a \in NewSenders(tx[w].batch, d) =>
                           a \in addrs[d] \/ AddressRow(d, a) \in DOMAIN tx[w].wrote
  BY <1>1 DEF SendersOK
<1>5. SendersSeen(w, d) = addrs[d] \cup NewSenders(tx[w].batch, d)
  BY <1>2, <1>4 DEF SendersSeen
<1>6. IsFiniteSet(addrs[d] \cup NewSenders(tx[w].batch, d))
  BY <1>2, <1>3, FS_Union
<1> QED
  BY <1>5, <1>6, FS_CardinalityType DEF CountOf

\* The count is taken of the next day to stamp.
LEMMA CountSendersInv ==
  ASSUME TxInv, DBAssumption, NEW w \in Writer, CountSenders(w) PROVE TxInv'
<1> DEFINE t == tx[w]
           u == tx'[w]
<1>1. t.at = 4 /\ UNCHANGED dbVars
  BY StatementNumber DEF CountSenders
<1>2. /\ TypedTx(t) /\ t.batch \in Batches(w) /\ t.batch.blocks \subseteq Blocks
      /\ ContractsOK(t, calls) /\ NetworkOK(t, Stamps(w), counted, addrs, active)
      /\ SendersOK(t, addrs) /\ TodoOK(t)
  BY <1>1, UnderWay
<1>3. PICK r \in t.todo :
        /\ \A s \in t.todo : r[2] <= s[2]
        /\ tx' = [tx EXCEPT ![w].count = Cardinality(SendersSeen(w, r[2]))]
  BY DEF CountSenders
<1>4. PICK d \in Touched(t.batch) : r = NetworkRow(d)
  BY <1>1, <1>2, StatementRows, StatementFacts DEF TodoOK
<1>5. d \in Days /\ r[2] = d
  BY <1>4, RowFacts DEF Touched
<1>6. Cardinality(SendersSeen(w, r[2])) = CountOf(t, d, addrs) /\ CountOf(t, d, addrs) \in Nat
  <2>1. SendersSeen(w, d) = addrs[d] \cup NewSenders(t.batch, d) /\ CountOf(t, d, addrs) \in Nat
    BY <1>1, <1>5, SendersSeenFacts
  <2> QED
    BY <1>5, <2>1 DEF CountOf
<1>7. tx' = [tx EXCEPT ![w].count = CountOf(t, d, addrs)]
  BY <1>3, <1>6
<1>8. tx = [v \in Writer |-> tx[v]] /\ t = [f \in Fields |-> t[f]]
  BY <1>2 DEF TxInv, TypedTx
<1>9. tx' = [v \in Writer |-> tx'[v]] /\ \A v \in Writer \ {w} : tx'[v] = tx[v]
  BY <1>7, <1>8
<1>10. /\ u = [f \in Fields |-> u[f]] /\ u.at = t.at /\ u.batch = t.batch
       /\ u.count = CountOf(t, d, addrs) /\ u.todo = t.todo /\ u.wrote = t.wrote
  BY <1>7, <1>8 DEF Fields
<1> HIDE DEF t, u
<1>11. TypedTx(u)
  BY <1>2, <1>6, <1>10 DEF TypedTx
<1>12. ContractsOK(u, calls) /\ SendersOK(u, addrs) /\ TodoOK(u)
  BY <1>2, <1>10 DEF ContractsOK, SendersOK, TodoOK
<1>13. \A e \in Days : DayRow(u, Stamps(w), e, counted, addrs, active) = DayRow(t, Stamps(w), e, counted, addrs, active)
  BY <1>10 DEF DayRow, Stamped, CountOf
<1>14. NetworkOK(u, Stamps(w), counted, addrs, active)
  BY <1>1, <1>2, <1>10, <1>13 DEF NetworkOK
<1>15. CountOK(u, addrs)
  BY <1>1, <1>3, <1>4, <1>5, <1>10 DEF CountOK, CountOf
<1>16. /\ TypedTx(tx'[w]) /\ tx'[w].at # 0 /\ tx'[w].batch = tx[w].batch
       /\ ContractsOK(tx'[w], calls) /\ NetworkOK(tx'[w], Stamps(w), counted, addrs, active)
       /\ SendersOK(tx'[w], addrs) /\ CountOK(tx'[w], addrs) /\ TodoOK(tx'[w])
       /\ tx[w].at # 0 /\ DOMAIN tx'[w].wrote = DOMAIN tx[w].wrote
  BY <1>1, <1>10, <1>11, <1>12, <1>14, <1>15 DEF t, u
<1> QED
  BY <1>1, <1>9, <1>16, OwnStepUnderWay

\* The day that was counted is the one that is stamped.
LEMMA StampCountInv ==
  ASSUME TxInv, DBAssumption, NEW w \in Writer, StampCount(w) PROVE TxInv'
<1> DEFINE t == tx[w]
           u == tx'[w]
<1>1. t.at # 0 /\ t.count # NoCount /\ UNCHANGED dbVars
  BY StatementNumber DEF StampCount
<1>2. /\ TypedTx(t) /\ t.batch \in Batches(w) /\ t.batch.blocks \subseteq Blocks
      /\ ContractsOK(t, calls) /\ NetworkOK(t, Stamps(w), counted, addrs, active)
      /\ SendersOK(t, addrs) /\ CountOK(t, addrs) /\ TodoOK(t)
  BY <1>1, UnderWay
<1> DEFINE stamps(r) == w \in LiveWriter \/ r[2] \notin RawDays
<1>3. PICK r \in t.todo :
        /\ \A s \in t.todo : r[2] <= s[2]
        /\ ~LockedByOther(w, r)
        /\ Writes(w, r, [NetworkSeen(w, r[2]) EXCEPT !.active = IF stamps(r) THEN t.count ELSE @])
  BY DEF StampCount
<1>4. t.at = 4
  BY <1>1, <1>2 DEF CountOK
<1>5. PICK d \in Touched(t.batch) : r = NetworkRow(d)
  BY <1>2, <1>4, StatementRows, StatementFacts DEF TodoOK
<1>6. d \in Days /\ r[2] = d /\ r \in AllRows
  BY <1>5, RowFacts, AllRowsFacts DEF Touched
<1>7. t.count = CountOf(t, d, addrs)
  <2>1. PICK e \in Touched(t.batch) :
          /\ NetworkRow(e) \in t.todo /\ t.count = CountOf(t, e, addrs) /\ \A s \in t.todo : e <= s[2]
    BY <1>1, <1>2 DEF CountOK
  <2>2. e \in Days /\ NetworkRow(e)[2] = e
    BY RowFacts DEF Touched
  <2>3. e <= d /\ d <= e
    BY <1>3, <1>6, <2>1, <2>2
  <2>4. d = e
    BY <1>6, <2>2, <2>3 DEF Days
  <2> QED
    BY <2>1, <2>4
<1>8. HasBlocks(t.batch, d)
  BY <1>2, <1>5, <1>6, BatchFacts
<1>9. r \in DOMAIN t.wrote /\ t.wrote[r] = DayRow(t, Stamps(w), d, counted, addrs, active)
  BY <1>2, <1>4, <1>5, <1>6, <1>8 DEF NetworkOK
<1> DEFINE blocks == [b \in OnDay(d) |-> counted[b] + (IF b \in t.batch.blocks THEN 1 ELSE 0)]
           value == [counted |-> blocks,
                     active |-> IF d \in Stamps(w) THEN CountOf(t, d, addrs) ELSE active[d]]
<1>10. NetworkSeen(w, d) = [counted |-> blocks, active |-> active[d]]
  <2>1. ~Stamped(t, Stamps(w), d)
    BY <1>4, <1>5 DEF Stamped
  <2>2. DayRow(t, Stamps(w), d, counted, addrs, active) = [counted |-> blocks, active |-> active[d]]
    BY <2>1 DEF DayRow
  <2> QED
    BY <1>5, <1>9, <2>2 DEF NetworkSeen
<1>11. Writes(w, r, value)
  <2>1. stamps(r) <=> d \in Stamps(w)
    BY <1>6 DEF Stamps
  <2>2. [NetworkSeen(w, d) EXCEPT !.active = IF stamps(r) THEN t.count ELSE @] = value
    <3> HIDE DEF blocks, stamps
    <3> QED
      BY <1>7, <1>10, <2>1
  <2> QED
    BY <1>3, <1>6, <2>2
<1>12. /\ tx' = [v \in Writer |-> tx'[v]] /\ \A v \in Writer \ {w} : tx'[v] = tx[v]
      /\ TypedTx(u) /\ u.at = t.at /\ u.batch = t.batch /\ u.count = NoCount
      /\ u.todo = t.todo \ {r}
      /\ DOMAIN u.wrote = DOMAIN t.wrote \cup {r} /\ u.wrote[r] = value
      /\ \A x \in DOMAIN t.wrote : x # r => u.wrote[x] = t.wrote[x]
  <2> HIDE DEF value
  <2> QED
    BY <1>6, <1>11, WritesFacts
<1> HIDE DEF t, u
<1>13. DayRow(u, Stamps(w), d, counted, addrs, active) = value
  BY <1>4, <1>5, <1>12 DEF DayRow, Stamped, CountOf
<1>14. ASSUME NEW e \in Days, e # d
       PROVE  DayRow(u, Stamps(w), e, counted, addrs, active) = DayRow(t, Stamps(w), e, counted, addrs, active)
  <2>1. NetworkRow(e) # r
    BY <1>5, <1>14, RowFacts
  <2>2. Stamped(u, Stamps(w), e) <=> Stamped(t, Stamps(w), e)
    BY <1>12, <2>1 DEF Stamped
  <2>3. u.batch = t.batch
    BY <1>12
  <2> QED
    BY <2>2, <2>3 DEF DayRow, CountOf
<1>15. NetworkOK(u, Stamps(w), counted, addrs, active)
  <2> SUFFICES ASSUME NEW e \in Days
               PROVE LET s == NetworkRow(e)
                     IN /\ s \in DOMAIN u.wrote => u.wrote[s] = DayRow(u, Stamps(w), e, counted, addrs, active)
                        /\ HasBlocks(u.batch, e) =>
                             s \in DOMAIN u.wrote \/ u.at = 1 \/ (u.at = 2 /\ s \in u.todo)
                        /\ u.at = 1 \/ (u.at = 2 /\ s \in u.todo) => s \notin DOMAIN u.wrote
    BY DEF NetworkOK
  <2> DEFINE s == NetworkRow(e)
  <2>1. /\ s \in DOMAIN t.wrote => t.wrote[s] = DayRow(t, Stamps(w), e, counted, addrs, active)
        /\ HasBlocks(t.batch, e) => s \in DOMAIN t.wrote \/ t.at = 1 \/ (t.at = 2 /\ s \in t.todo)
    BY <1>2 DEF NetworkOK
  <2>2. (s = r <=> e = d)
    BY <1>5, RowFacts
  <2> HIDE DEF s, value
  <2>3. /\ s \in DOMAIN u.wrote => u.wrote[s] = DayRow(u, Stamps(w), e, counted, addrs, active)
        /\ HasBlocks(u.batch, e) => s \in DOMAIN u.wrote \/ u.at = 1 \/ (u.at = 2 /\ s \in u.todo)
        /\ u.at = 1 \/ (u.at = 2 /\ s \in u.todo) => s \notin DOMAIN u.wrote
    BY <1>4, <1>12, <1>13, <1>14, <2>1, <2>2
  <2> QED
    BY <2>3 DEF s
<1> HIDE DEF value
<1>16. /\ \A e \in Days, x \in Contract : ContractRow(e, x) # r
       /\ \A e \in Days, a \in Addr : AddressRow(e, a) # r
  BY <1>5, RowFacts
<1>17. ContractsOK(u, calls)
  BY <1>4, <1>2, <1>12, <1>16 DEF ContractsOK
<1>18. SendersOK(u, addrs)
  BY <1>4, <1>2, <1>12, <1>16 DEF SendersOK
<1>19. CountOK(u, addrs) /\ TodoOK(u)
  BY <1>2, <1>12 DEF CountOK, TodoOK
<1>20. /\ TypedTx(tx'[w]) /\ tx'[w].at # 0 /\ tx'[w].batch = tx[w].batch
       /\ ContractsOK(tx'[w], calls) /\ NetworkOK(tx'[w], Stamps(w), counted, addrs, active)
       /\ SendersOK(tx'[w], addrs) /\ CountOK(tx'[w], addrs) /\ TodoOK(tx'[w])
       /\ tx[w].at # 0
       /\ \A x \in DOMAIN tx'[w].wrote : x \in DOMAIN tx[w].wrote \/ ~LockedByOther(w, x)
  BY <1>4, <1>3, <1>12, <1>15, <1>17, <1>18, <1>19 DEF t, u
<1> QED
  BY <1>1, <1>12, <1>20, OwnStepUnderWay


-----------------------------------------------------------------------------
(* The commit.                                                               *)

\* What a transaction at its end sees of a day: its own version, or that it adds nothing.
LEMMA DaySeen ==
  ASSUME TxInv, DBAssumption, NEW w \in Writer, tx[w].at = Done, NEW d \in Days
  PROVE  LET q == tx[w].batch
             stamped == d \in Touched(q) \cap Stamps(w)
         IN /\ \A b \in OnDay(d) :
                 NetworkSeen(w, d).counted[b] = counted[b] + (IF b \in q.blocks THEN 1 ELSE 0)
            /\ NetworkSeen(w, d).active = IF stamped THEN CountOf(tx[w], d, addrs) ELSE active[d]
            /\ NetworkRow(d) \notin DOMAIN tx[w].wrote => ~HasBlocks(q, d)
<1> DEFINE t == tx[w]
<1>1. t.at = 5
  BY StatementFacts
<1>2. t.batch \in Batches(w) /\ NetworkOK(t, Stamps(w), counted, addrs, active)
  BY <1>1, UnderWay
<1>3. DBTypeOK
  BY DEF TxInv
<1>4. NetworkRow(d) \notin DOMAIN t.wrote => ~HasBlocks(t.batch, d)
  BY <1>1, <1>2 DEF NetworkOK
<1>5. CASE NetworkRow(d) \in DOMAIN t.wrote
  <2>1. NetworkSeen(w, d) = DayRow(t, Stamps(w), d, counted, addrs, active)
    BY <1>2, <1>5 DEF NetworkOK, NetworkSeen
  <2>2. Stamped(t, Stamps(w), d) <=> d \in Touched(t.batch) \cap Stamps(w)
    BY <1>1 DEF Stamped
  <2> HIDE DEF t
  <2>3. /\ \A b \in OnDay(d) :
             NetworkSeen(w, d).counted[b] = counted[b] + (IF b \in t.batch.blocks THEN 1 ELSE 0)
        /\ NetworkSeen(w, d).active =
             IF d \in Touched(t.batch) \cap Stamps(w) THEN CountOf(t, d, addrs) ELSE active[d]
    BY <2>1, <2>2 DEF DayRow
  <2> QED
    BY <1>4, <2>3 DEF t
<1>6. CASE NetworkRow(d) \notin DOMAIN t.wrote
  <2>1. NetworkSeen(w, d) = [counted |-> [b \in OnDay(d) |-> counted[b]], active |-> active[d]]
    BY <1>6 DEF NetworkSeen
  <2>2. d \notin Touched(t.batch) /\ \A b \in OnDay(d) : b \notin t.batch.blocks
    BY <1>2, <1>4, <1>6, BatchFacts DEF HasBlocks, OnDay
  <2>3. \A b \in OnDay(d) : counted[b] \in Nat
    BY <1>3 DEF DBTypeOK, OnDay
  <2> HIDE DEF t
  <2>4. /\ \A b \in OnDay(d) :
             NetworkSeen(w, d).counted[b] = counted[b] + (IF b \in t.batch.blocks THEN 1 ELSE 0)
        /\ NetworkSeen(w, d).active =
             IF d \in Touched(t.batch) \cap Stamps(w) THEN CountOf(t, d, addrs) ELSE active[d]
    BY <2>1, <2>2, <2>3
  <2> QED
    BY <1>4, <2>4 DEF t
<1> QED
  BY <1>5, <1>6

\* And of a row of a contract.
LEMMA CallsSeenFacts ==
  ASSUME TxInv, DBAssumption, NEW w \in Writer, tx[w].at = Done, NEW d \in Days, NEW c \in Contract
  PROVE  CallsSeen(w, d, c) = calls[d][c] + NewCalls(tx[w].batch, d, c)
<1> DEFINE t == tx[w]
<1>1. t.at = 5
  BY StatementFacts
<1>2. t.batch \in Batches(w) /\ ContractsOK(t, calls)
  BY <1>1, UnderWay
<1>3. calls[d][c] \in Nat
  BY DEF TxInv, DBTypeOK
<1>4. NewCalls(t.batch, d, c) \in Nat
  BY <1>2, BatchFacts
<1>5. /\ ContractRow(d, c) \in DOMAIN t.wrote =>
           t.wrote[ContractRow(d, c)] = calls[d][c] + NewCalls(t.batch, d, c)
      /\ NewCalls(t.batch, d, c) > 0 => ContractRow(d, c) \in DOMAIN t.wrote
  BY <1>1, <1>2 DEF ContractsOK
<1>6. CASE ContractRow(d, c) \in DOMAIN t.wrote
  BY <1>5, <1>6 DEF CallsSeen
<1>7. CASE ContractRow(d, c) \notin DOMAIN t.wrote
  <2>1. NewCalls(t.batch, d, c) = 0
    BY <1>4, <1>5, <1>7
  <2> QED
    BY <1>3, <1>7, <2>1 DEF CallsSeen
<1> QED
  BY <1>6, <1>7

\* What a transaction commits is the whole batch, added to the tables as they are.
LEMMA CommitAdds ==
  ASSUME TxInv, DBAssumption, NEW w \in Writer, Commit(w)
  PROVE  AddBatch(tx[w].batch, Stamps(w))
<1> DEFINE q == tx[w].batch
<1>1. tx[w].at = 5 /\ tx[w].at = Done
  BY StatementFacts DEF Commit
<1>2. \A b \in Blocks : DayOf[b] \in Days /\ b \in OnDay(DayOf[b])
  BY DEF DBAssumption, OnDay
<1>3. counted' = [b \in Blocks |-> counted[b] + (IF b \in q.blocks THEN 1 ELSE 0)]
  <2>1. counted' = [b \in Blocks |-> NetworkSeen(w, DayOf[b]).counted[b]]
    BY DEF Commit
  <2>2. \A b \in Blocks : NetworkSeen(w, DayOf[b]).counted[b] = counted[b] + (IF b \in q.blocks THEN 1 ELSE 0)
    BY <1>1, <1>2, DaySeen
  <2> QED
    BY <2>1, <2>2
<1>4. calls' = [d \in Days |-> [c \in Contract |-> calls[d][c] + NewCalls(q, d, c)]]
  <2>1. calls' = [d \in Days |-> [c \in Contract |-> CallsSeen(w, d, c)]]
    BY DEF Commit
  <2>2. \A d \in Days, c \in Contract : CallsSeen(w, d, c) = calls[d][c] + NewCalls(q, d, c)
    BY <1>1, CallsSeenFacts
  <2> HIDE DEF q
  <2> QED
    BY <2>1, <2>2
<1>5. addrs' = [d \in Days |-> addrs[d] \cup NewSenders(q, d)]
  <2>1. addrs' = [d \in Days |-> SendersSeen(w, d)]
    BY DEF Commit
  <2>2. \A d \in Days : SendersSeen(w, d) = addrs[d] \cup NewSenders(q, d)
    BY <1>1, SendersSeenFacts
  <2> HIDE DEF q
  <2> QED
    BY <2>1, <2>2
<1>6. active' = [d \in Days |-> IF d \in Touched(q) \cap Stamps(w) THEN Cardinality(addrs'[d]) ELSE active[d]]
  <2>1. active' = [d \in Days |-> NetworkSeen(w, d).active]
    BY DEF Commit
  <2>2. \A d \in Days : NetworkSeen(w, d).active =
          IF d \in Touched(q) \cap Stamps(w) THEN CountOf(tx[w], d, addrs) ELSE active[d]
    BY <1>1, DaySeen
  <2>3. \A d \in Days : CountOf(tx[w], d, addrs) = Cardinality(addrs'[d])
    BY <1>5 DEF CountOf
  <2> HIDE DEF q
  <2> QED
    BY <2>1, <2>2, <2>3
<1> QED
  BY <1>3, <1>4, <1>5, <1>6 DEF AddBatch

\* A batch has a newest day, that of its last block.
LEMMA NewestDayType ==
  ASSUME DBAssumption, NEW w \in Writer, NEW q \in Batches(w)
  PROVE  NewestDay(q) \in Days
<1>1. /\ q.last \in q.blocks /\ q.blocks = q.first..q.last /\ q.blocks \subseteq Blocks
  BY BatchFacts
<1>2. \A b \in q.blocks : b <= q.last
  BY <1>1 DEF Blocks
<1>3. DayOf[q.last] \in Days /\ \A b \in q.blocks : DayOf[b] <= DayOf[q.last]
  BY <1>1, <1>2 DEF DBAssumption
<1>4. \E d \in Days : (\E b \in q.blocks : DayOf[b] = d) /\ \A b \in q.blocks : DayOf[b] <= d
  BY <1>1, <1>3
<1> QED
  BY <1>4 DEF NewestDay

\* The tables keep their types.
LEMMA CommitTypes ==
  ASSUME TxInv, DBAssumption, NEW w \in Writer, Commit(w)
  PROVE  DBTypeOK'
<1> DEFINE q == tx[w].batch
<1>1. AddBatch(q, Stamps(w))
  BY CommitAdds
<1>2. tx[w].at # 0
  BY StatementFacts DEF Commit
<1>3. q \in Batches(w) /\ Accepted(w, q) /\ DBTypeOK
  BY <1>2, UnderWay DEF TxInv
<1>4. /\ q.first \in Blocks /\ q.last \in Blocks /\ q.first <= q.last
      /\ \A d \in Days, c \in Contract : NewCalls(q, d, c) \in Nat
      /\ \A d \in Days : NewSenders(q, d) \subseteq Addr
  BY <1>3, BatchFacts
<1>5. sync' \in NoRow..MaxBlock /\ through' \in Days \cup {Unknown}
  BY <1>3, <1>4, NewestDayType DEF Commit, DBTypeOK, Blocks, NoRow, DBAssumption
<1>6. next' \in RangeStart..(RangeEnd + 1)
  <2>1. CASE w \in LiveWriter
    BY <1>3, <2>1 DEF Commit, DBTypeOK
  <2>2. CASE w \notin LiveWriter
    <3>1. next' = q.last + 1 /\ next = q.first /\ q.last <= RangeEnd
      BY <1>3, <2>2 DEF Commit, Accepted, BackfillAccepts
    <3>2. next \in RangeStart..(RangeEnd + 1) /\ RangeStart \in Int /\ RangeEnd \in Int /\ q.last \in Int
      BY <1>3, <1>4 DEF DBTypeOK, DBAssumption, Blocks
    <3> HIDE DEF q
    <3> QED
      BY <1>4, <3>1, <3>2 DEF Blocks
  <2> QED
    BY <2>1, <2>2
<1> HIDE DEF q
<1>7. counted' \in [Blocks -> Nat]
  BY <1>1, <1>3 DEF AddBatch, DBTypeOK
<1>8. addrs' \in [Days -> SUBSET Addr]
  BY <1>1, <1>3, <1>4 DEF AddBatch, DBTypeOK
<1>9. calls' \in [Days -> [Contract -> Nat]]
  BY <1>1, <1>3, <1>4 DEF AddBatch, DBTypeOK
<1>10. active' \in [Days -> Nat \cup {Unknown}]
  <2>1. \A d \in Days : Cardinality(addrs'[d]) \in Nat
    BY <1>8, FS_Subset, FS_CardinalityType DEF DBAssumption
  <2> QED
    BY <1>1, <1>3, <2>1 DEF AddBatch, DBTypeOK
<1> QED
  BY <1>5, <1>6, <1>7, <1>8, <1>9, <1>10 DEF DBTypeOK


\* Whoever commits leaves alone what others have written and counted: a day whose row
\* another holds is no day of the batch.
LEMMA CommitKeepsOthers ==
  ASSUME TxInv, DBAssumption, NEW w \in Writer, Commit(w), NEW u \in Writer, u # w, tx[u].at # 0
  PROVE  TxOK(u)'
<1> DEFINE q == tx[w].batch
           t == tx[u]
<1>1. tx[w].at = 5 /\ tx[w].at = Done /\ tx[w].at # 0
  BY StatementFacts DEF Commit
<1>2. /\ q \in Batches(w) /\ q.blocks \subseteq Blocks
      /\ ContractsOK(tx[w], calls) /\ NetworkOK(tx[w], Stamps(w), counted, addrs, active)
  BY <1>1, UnderWay
<1>3. /\ t.batch \in Batches(u) /\ Accepted(u, t.batch) /\ TypedTx(t)
      /\ ContractsOK(t, calls) /\ NetworkOK(t, Stamps(u), counted, addrs, active)
      /\ SendersOK(t, addrs) /\ CountOK(t, addrs) /\ TodoOK(t)
  BY UnderWay
<1>4. tx'[u] = tx[u]
  <2>1. tx' = [tx EXCEPT ![w] = NoTx] /\ tx = [v \in Writer |-> tx[v]]
    BY DEF TxInv, Commit
  <2> QED
    BY <2>1, OneTx
<1>5. DOMAIN t.wrote \cap DOMAIN tx[w].wrote = {}
  BY DEF TxInv, TxApart
<1>6. AddBatch(q, Stamps(w))
  BY CommitAdds
<1>7. DBTypeOK
  BY DEF TxInv
<1>8. ASSUME NEW d \in Days, NetworkRow(d) \in DOMAIN t.wrote
      PROVE  addrs'[d] = addrs[d] /\ active'[d] = active[d] /\ \A b \in OnDay(d) : counted'[b] = counted[b]
  <2>1. NetworkRow(d) \notin DOMAIN tx[w].wrote
    BY <1>5, <1>8
  <2>2. ~HasBlocks(q, d)
    BY <1>1, <2>1, DaySeen
  <2>3. NewSenders(q, d) = {} /\ d \notin Touched(q)
    BY <1>2, <2>2, BatchFacts
  <2>4. \A b \in OnDay(d) : b \in Blocks /\ b \notin q.blocks /\ counted[b] \in Nat
    BY <1>7, <2>2 DEF HasBlocks, OnDay, DBTypeOK
  <2> HIDE DEF q
  <2> QED
    BY <1>6, <1>7, <2>3, <2>4 DEF AddBatch, DBTypeOK
<1>9. ASSUME NEW d \in Days, NEW c \in Contract, ContractRow(d, c) \in DOMAIN t.wrote
      PROVE  calls'[d][c] = calls[d][c]
  <2>1. ContractRow(d, c) \notin DOMAIN tx[w].wrote
    BY <1>5, <1>9
  <2>2. CallsSeen(w, d, c) = calls[d][c]
    BY <2>1 DEF CallsSeen
  <2>3. calls' = [e \in Days |-> [x \in Contract |-> CallsSeen(w, e, x)]]
    BY DEF Commit
  <2> QED
    BY <2>2, <2>3
<1>10. \A d \in Days : addrs[d] \subseteq addrs'[d]
  BY <1>6 DEF AddBatch
<1>11. Accepted(u, t.batch)'
  <2>1. ~(u \in LiveWriter <=> w \in LiveWriter)
    BY <1>1 DEF TxInv, TxApart
  <2>2. IF u \in LiveWriter THEN sync' = sync ELSE next' = next
    BY <2>1 DEF Commit
  <2> QED
    BY <1>3, <1>4, <2>2 DEF Accepted, IngestAccepts, BackfillAccepts
<1> HIDE DEF t, q
<1>12. ContractsOK(t, calls')
  BY <1>3, <1>9 DEF ContractsOK
<1>13. ASSUME NEW d \in Days, NetworkRow(d) \in DOMAIN t.wrote
       PROVE  DayRow(t, Stamps(u), d, counted', addrs', active') = DayRow(t, Stamps(u), d, counted, addrs, active)
  <2>1. CountOf(t, d, addrs') = CountOf(t, d, addrs)
    BY <1>8, <1>13 DEF CountOf
  <2>2. [b \in OnDay(d) |-> counted'[b] + (IF b \in t.batch.blocks THEN 1 ELSE 0)]
          = [b \in OnDay(d) |-> counted[b] + (IF b \in t.batch.blocks THEN 1 ELSE 0)]
    BY <1>8, <1>13
  <2>3. active'[d] = active[d]
    BY <1>8, <1>13
  <2> QED
    BY <2>1, <2>2, <2>3 DEF DayRow
<1>14. NetworkOK(t, Stamps(u), counted', addrs', active')
  BY <1>3, <1>13 DEF NetworkOK
<1>15. SendersOK(t, addrs')
  BY <1>3, <1>10 DEF SendersOK
<1>16. CountOK(t, addrs')
  <2>1. ASSUME NEW d \in Touched(t.batch), t.at = 4 PROVE CountOf(t, d, addrs') = CountOf(t, d, addrs)
    <3>1. d \in Days /\ HasBlocks(t.batch, d)
      BY <1>3, BatchFacts
    <3>2. NetworkRow(d) \in DOMAIN t.wrote
      BY <1>3, <2>1, <3>1 DEF NetworkOK
    <3> QED
      BY <1>8, <3>1, <3>2 DEF CountOf
  <2> QED
    BY <1>3, <2>1 DEF CountOK
<1>17. /\ tx'[u].batch \in Batches(u) /\ Accepted(u, tx[u].batch)'
       /\ ContractsOK(tx'[u], calls') /\ NetworkOK(tx'[u], Stamps(u), counted', addrs', active')
       /\ SendersOK(tx'[u], addrs') /\ CountOK(tx'[u], addrs') /\ TodoOK(tx'[u])
  BY <1>3, <1>4, <1>11, <1>12, <1>14, <1>15, <1>16 DEF t
<1> QED
  BY <1>17 DEF TxOK

\* A commit keeps the invariant.
LEMMA CommitInv == ASSUME TxInv, DBAssumption, NEW w \in Writer, Commit(w) PROVE TxInv'
<1>1. tx = [v \in Writer |-> tx[v]] /\ tx' = [tx EXCEPT ![w] = NoTx]
  BY DEF TxInv, Commit
<1>2. tx' = [v \in Writer |-> tx'[v]] /\ tx'[w] = NoTx /\ \A u \in Writer \ {w} : tx'[u] = tx[u]
  BY <1>1, OneTx
<1>3. (TypedTx(tx[w]))' /\ TxOK(w)' /\ IdleOK(w)'
  BY <1>2, NoTxFacts DEF TxOK, IdleOK
<1>4. ASSUME NEW u \in Writer, u # w PROVE (TypedTx(tx[u]))' /\ TxOK(u)' /\ IdleOK(u)'
  <2>1. tx'[u] = tx[u] /\ TypedTx(tx[u]) /\ IdleOK(u)
    BY <1>2, <1>4 DEF TxInv
  <2>2. CASE tx[u].at = 0
    BY <2>1, <2>2 DEF TxOK, IdleOK
  <2>3. CASE tx[u].at # 0
    BY <1>4, <2>1, <2>3, CommitKeepsOthers DEF IdleOK
  <2> QED
    BY <2>2, <2>3
<1>5. TxApart'
  <2> SUFFICES ASSUME NEW u \in Writer, NEW v \in Writer, u # v
               PROVE  /\ DOMAIN tx'[u].wrote \cap DOMAIN tx'[v].wrote = {}
                      /\ (u \in LiveWriter <=> v \in LiveWriter) => tx'[u].at = 0 \/ tx'[v].at = 0
    BY DEF TxApart
  <2>1. CASE u = w
    BY <1>2, <2>1, NoTxFacts
  <2>2. CASE v = w
    BY <1>2, <2>2, NoTxFacts
  <2>3. CASE u # w /\ v # w
    BY <1>2, <2>3 DEF TxInv, TxApart
  <2> QED
    BY <2>1, <2>2, <2>3
<1> QED
  BY <1>2, <1>3, <1>4, <1>5, CommitTypes DEF TxInv

\* Initially nobody has begun.
LEMMA InitTxInv == DBAssumption /\ TxInit => TxInv
<1> SUFFICES ASSUME DBAssumption, TxInit PROVE TxInv
  OBVIOUS
<1>1. DBTypeOK
  BY DEF TxInit, DBInit, DBTypeOK, DBAssumption, NoRow, Unknown, Blocks, Days
<1>2. \A w \in Writer : tx[w] = NoTx
  BY DEF TxInit
<1>3. tx = [w \in Writer |-> tx[w]]
  BY DEF TxInit
<1>4. TxApart
  BY <1>2, NoTxFacts DEF TxApart
<1>5. \A w \in Writer : TypedTx(tx[w]) /\ TxOK(w) /\ IdleOK(w)
  BY <1>2, NoTxFacts DEF TxOK, IdleOK
<1> QED
  BY <1>1, <1>3, <1>4, <1>5 DEF TxInv

\* Every step keeps the invariant.
LEMMA NextTxInv == TxInv /\ [TxNext]_txVars => TxInv'
<1> SUFFICES ASSUME TxInv, [TxNext]_txVars PROVE TxInv'
  OBVIOUS
<1>0. DBAssumption
  BY DBAssumption
<1>1. CASE UNCHANGED txVars
  <2>1. tx' = tx /\ UNCHANGED dbVars
    BY <1>1 DEF txVars
  <2>2. DBTypeOK' /\ TxApart' /\ (tx = [v \in Writer |-> tx[v]])'
    BY <2>1 DEF TxInv, DBTypeOK, dbVars, TxApart
  <2>3. ASSUME NEW u \in Writer PROVE (TypedTx(tx[u]))' /\ TxOK(u)' /\ IdleOK(u)'
    <3>1. UNCHANGED <<sync, next, calls, counted, addrs, active>>
      BY <2>1 DEF dbVars
    <3>2. TypedTx(tx[u]) /\ TxOK(u) /\ IdleOK(u)
      BY DEF TxInv
    <3>3. Accepted(u, tx[u].batch)' <=> Accepted(u, tx[u].batch)
      BY <2>1, <3>1 DEF Accepted, IngestAccepts, BackfillAccepts
    <3> QED
      BY <2>1, <3>1, <3>2, <3>3 DEF TxOK, IdleOK
  <2> QED
    BY <2>2, <2>3 DEF TxInv
<1>2. CASE TxNext
  <2>1. PICK w \in Writer :
          \/ Begin(w) \/ Refuse(w) \/ NextStatement(w)
          \/ UpsertContract(w) \/ UpsertNetwork(w) \/ InsertAddress(w)
          \/ CountSenders(w) \/ StampCount(w) \/ Commit(w) \/ Rollback(w)
    BY <1>2 DEF TxNext
  <2>2. CASE Refuse(w)
    BY <1>1, <2>2 DEF Refuse
  <2> QED
    BY <1>0, <2>1, <2>2, BeginInv, NextStatementInv, UpsertContractInv, UpsertNetworkInv,
       InsertAddressInv, CountSendersInv, StampCountInv, CommitInv, RollbackInv
<1> QED
  BY <1>1, <1>2

\* The rows a transaction has written are the committed ones and its own batch, its count
\* is right, its checkpoint is where it found it, and no row is written by two.
THEOREM TxInvariance == TxSpec => []TxInv
<1>1. TxInit => TxInv
  BY InitTxInv, DBAssumption
<1> QED
  BY <1>1, NextTxInv, PTL DEF TxSpec

\* Whatever a transaction saw of others half-way, what it commits is one whole step of
\* IngestDB on the tables as they are then.
THEOREM CommitsAtOnce == TxSpec => AppliedAtOnce
<1>1. ASSUME TxInv, [TxNext]_txVars, ~UNCHANGED dbVars
      PROVE  \E w \in Writer :
               LET q == tx[w].batch
               IN /\ tx[w].at = Done /\ Accepted(w, q)
                  /\ IF w \in LiveWriter THEN ApplyIngestBatch(q) ELSE ApplyBackfillBatch(q)
  <2>1. PICK w \in Writer : Commit(w)
    BY <1>1 DEF TxNext, txVars, Begin, Refuse, NextStatement, UpsertContract, UpsertNetwork,
       InsertAddress, CountSenders, StampCount, Rollback
  <2> DEFINE q == tx[w].batch
  <2>2. tx[w].at = Done /\ tx[w].at # 0
    BY <2>1, StatementFacts DEF Commit
  <2>3. Accepted(w, q)
    BY <1>1, <2>2, UnderWay, DBAssumption
  <2>4. AddBatch(q, Stamps(w))
    BY <1>1, <2>1, CommitAdds, DBAssumption
  <2>5. CASE w \in LiveWriter
    <3>1. AddBatch(q, Days)
      BY <2>4, <2>5 DEF Stamps
    <3>2. ApplyIngestBatch(q)
      BY <2>1, <2>5, <3>1 DEF ApplyIngestBatch, Commit
    <3> QED
      BY <2>2, <2>3, <2>5, <3>2
  <2>6. CASE w \notin LiveWriter
    <3>1. AddBatch(q, Days \ RawDays)
      BY <2>4, <2>6 DEF Stamps
    <3>2. ApplyBackfillBatch(q)
      BY <2>1, <2>6, <3>1 DEF ApplyBackfillBatch, Commit
    <3> QED
      BY <2>2, <2>3, <2>6, <3>2
  <2> QED
    BY <2>5, <2>6
<1> QED
  BY <1>1, TxInvariance, PTL DEF TxSpec, AppliedAtOnce


\* Types, for any writers, blocks, contracts and senders.
THEOREM TxTyping == TxSpec => []TxTypeOK
<1>1. TxInv => TxTypeOK
  BY StatementFacts DEF TxInv, TxTypeOK, TypedTx
<1> QED
  BY <1>1, TxInvariance, PTL


=============================================================================
