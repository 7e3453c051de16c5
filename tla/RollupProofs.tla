---------------------------- MODULE RollupProofs ----------------------------
(***************************************************************************)
(* Proofs about Rollup, for any number of overlapping runs, any block      *)
(* range, batch size, number of deaths and assignment of blocks to days.   *)
(*                                                                         *)
(* ExactlyOnce alone is not inductive: an apply request carries its blocks *)
(* for a while before the database executes it.  The invariant Inv adds    *)
(* what is true of every run and of its request in the meantime.           *)
(***************************************************************************)
EXTENDS Rollup, FiniteSetTheorems, TLAPS

\* What holds of a run in state s whose slot holds request q.
SlotOK(r, s, q) ==
  /\ s.latest <= MaxBlock
  /\ s.pc \in {"tip", "loop", "fetch", "wait"} => s.cursor >= 1
  /\ s.pc # "idle" => s.cursor - 1 <= Committed(r)
  /\ s.pc \in {"fetch", "wait"} => s.cursor <= s.bend /\ s.bend <= MaxBlock
  /\ q.status # "none" =>
       /\ 1 <= q.first /\ q.first <= q.last /\ q.last <= MaxBlock
       /\ q.blocks = q.first..q.last
  /\ s.pc = "wait" => q.status # "none" /\ q.last = s.bend
  /\ q.status \in {"applied", "raised"} => s.pc = "wait"
  /\ q.status = "applied" => q.last <= Committed(r)

Frontiers ==
  /\ sync # NoRow => Start <= sync
  /\ through # Unknown => Start < sync /\ through = DayOf[sync]
  /\ fillDone => next = RangeEnd + 1

Inv ==
  /\ TypeOK
  /\ ExactlyOnce
  /\ Frontiers
  /\ \A r \in Runs : SlotOK(r, run[r], req[r])

-----------------------------------------------------------------------------
(* Facts about the data.                                                    *)

LEMMA FiniteBlocks == IsFiniteSet(Blocks)
  BY DBAssumption, FS_Interval DEF Blocks

LEMMA IdleType == Idle \in RunState /\ NoReq \in Request
  BY DEF Idle, NoReq, RunState, Request

\* The number of calls a batch adds to a row is a natural number.
LEMMA NewCallsType ==
  ASSUME NEW q \in Request, NEW d \in Days, NEW c \in Contract
  PROVE  NewCalls(q, d, c) \in Nat
<1> DEFINE S == {b \in q.blocks : DayOf[b] = d /\ c \in Calls[b]}
<1>1. S \subseteq Blocks
  BY DEF Request
<1>2. IsFiniteSet(S)
  BY <1>1, FiniteBlocks, FS_Subset
<1>3. Cardinality(S) \in Nat
  BY <1>2, FS_CardinalityType
<1> QED
  BY <1>3 DEF NewCalls

LEMMA NewSendersType ==
  ASSUME NEW q \in Request, NEW d \in Days
  PROVE  NewSenders(q, d) \subseteq Addr
  BY DBAssumption DEF NewSenders, Request

\* The data through which a batch is fresh is the day of its last block.
LEMMA NewestDayOfBatch ==
  ASSUME NEW q \in Request, 1 <= q.first, q.first <= q.last, q.last <= MaxBlock,
         q.blocks = q.first..q.last
  PROVE  NewestDay(q) = DayOf[q.last]
<1>1. q.last \in q.blocks /\ q.last \in Blocks /\ q.blocks \subseteq Blocks
  BY DBAssumption DEF Request, Blocks
<1>2. DayOf[q.last] \in Days
  BY <1>1, DBAssumption
<1>3. \A b \in q.blocks : DayOf[b] <= DayOf[q.last]
  <2> TAKE b \in q.blocks
  <2>1. b \in Blocks /\ b <= q.last
    BY <1>1 DEF Request
  <2> QED
    BY <2>1, <1>1, DBAssumption
<1> DEFINE P(d) == (\E b \in q.blocks : DayOf[b] = d) /\ (\A b \in q.blocks : DayOf[b] <= d)
<1>4. P(DayOf[q.last])
  BY <1>1, <1>3
<1>5. ASSUME NEW d \in Days, P(d)
      PROVE  d = DayOf[q.last]
  <2>1. d <= DayOf[q.last] /\ DayOf[q.last] <= d
    BY <1>5, <1>1, <1>3
  <2> QED
    BY <2>1, <1>2, DBAssumption DEF Days
<1>6. NewestDay(q) = CHOOSE d \in Days : P(d)
  BY DEF NewestDay
<1> HIDE DEF P
<1>7. (CHOOSE d \in Days : P(d)) = DayOf[q.last]
  BY <1>2, <1>4, <1>5
<1> QED
  BY <1>6, <1>7

-----------------------------------------------------------------------------
(* Steps that leave the database alone change one slot.                     *)

LEMMA InitInv == Init => Inv
<1> SUFFICES ASSUME Init PROVE Inv
  OBVIOUS
<1>0. run = [r \in Runs |-> Idle] /\ req = [r \in Runs |-> NoReq]
  BY DEF Init
<1>1. TypeOK
  <2>1. DBTypeOK
    <3>1. sync \in NoRow..MaxBlock /\ next \in RangeStart..(RangeEnd + 1)
      BY DBAssumption DEF Init, DBInit, NoRow
    <3>2. through \in Days \cup {Unknown} /\ counted \in [Blocks -> Nat]
      BY DEF Init, DBInit
    <3>3. addrs \in [Days -> SUBSET Addr] /\ active \in [Days -> Nat \cup {Unknown}]
      BY DEF Init, DBInit
    <3>4. calls \in [Days -> [Contract -> Nat]]
      BY DEF Init, DBInit
    <3> QED
      BY <3>1, <3>2, <3>3, <3>4 DEF DBTypeOK
  <2>2. tip \in 0..MaxBlock /\ today \in Days
    BY DBAssumption DEF Init, Blocks, Days
  <2>3. run \in [Runs -> RunState] /\ req \in [Runs -> Request]
    BY <1>0, IdleType
  <2>4. fillDone \in BOOLEAN
    BY DEF Init
  <2>5. faults \in 0..MaxFaults
    BY RunAssumption DEF Init
  <2> QED
    BY <2>1, <2>2, <2>3, <2>4, <2>5 DEF TypeOK
<1>2. ExactlyOnce
  <2> SUFFICES ASSUME NEW b \in Blocks
               PROVE  counted[b] = 0 /\ ~LiveCounted(b) /\ ~FillCounted(b)
    BY DEF ExactlyOnce
  <2> QED
    BY DBAssumption DEF Init, DBInit, LiveCounted, FillCounted, LastSynced, NoRow, Blocks
<1>3. Frontiers
  BY DBAssumption DEF Init, DBInit, Frontiers, NoRow, Unknown
<1>4. ASSUME NEW r \in Runs PROVE SlotOK(r, Idle, NoReq)
  BY DBAssumption DEF SlotOK, Idle, NoReq
<1> QED
  BY <1>0, <1>1, <1>2, <1>3, <1>4 DEF Inv

LEMMA SlotUpdate ==
  ASSUME Inv, UNCHANGED dbVars,
         NEW r \in Runs, NEW s \in RunState, NEW q \in Request,
         run' = [run EXCEPT ![r] = s], req' = [req EXCEPT ![r] = q],
         SlotOK(r, s, q),
         tip' = tip, today' = today, faults' \in 0..MaxFaults,
         fillDone' \in BOOLEAN, fillDone' => next = RangeEnd + 1
  PROVE  Inv'
<1>1. TypeOK'
  <2>1. DBTypeOK'
    BY DEF Inv, TypeOK, DBTypeOK, dbVars
  <2>2. run' \in [Runs -> RunState] /\ req' \in [Runs -> Request]
    BY DEF Inv, TypeOK
  <2> QED
    BY <2>1, <2>2 DEF Inv, TypeOK
<1>2. ExactlyOnce' /\ Frontiers'
  BY DEF Inv, ExactlyOnce, Frontiers, LiveCounted, FillCounted, LastSynced, dbVars
<1>3. ASSUME NEW p \in Runs PROVE SlotOK(p, run[p], req[p])' 
  <2>1. LastSynced' = LastSynced /\ next' = next
    BY DEF LastSynced, dbVars
  <2>2. CASE p = r
    <3>1. run'[p] = s /\ req'[p] = q
      BY <2>2 DEF Inv, TypeOK
    <3> QED
      BY <3>1, <2>1, <2>2 DEF SlotOK, Committed
  <2>3. CASE p # r
    <3>1. run'[p] = run[p] /\ req'[p] = req[p]
      BY <2>3 DEF Inv, TypeOK
    <3>2. SlotOK(p, run[p], req[p])
      BY DEF Inv
    <3> QED
      BY <3>1, <3>2, <2>1 DEF SlotOK, Committed
  <2> QED
    BY <2>2, <2>3
<1> QED
  BY <1>1, <1>2, <1>3 DEF Inv

\* What the steps need to know about the slot they change.
LEMMA SlotTypes ==
  ASSUME Inv, NEW r \in Runs
  PROVE  /\ run[r] \in RunState /\ req[r] \in Request
         /\ SlotOK(r, run[r], req[r])
         /\ LastSynced \in Nat /\ LastSynced <= MaxBlock
         /\ next \in Nat /\ next >= 1 /\ next <= RangeEnd + 1 /\ next - 1 <= MaxBlock
         /\ Committed(r) \in Nat
         /\ tip \in Nat /\ tip <= MaxBlock
         /\ MaxBlock \in Nat
<1>1. run[r] \in RunState /\ req[r] \in Request /\ SlotOK(r, run[r], req[r])
  BY DEF Inv, TypeOK
<1>2. sync \in NoRow..MaxBlock /\ next \in RangeStart..(RangeEnd + 1) /\ tip \in 0..MaxBlock
  BY DEF Inv, TypeOK, DBTypeOK
<1>3. LastSynced \in Nat /\ LastSynced <= MaxBlock
  BY <1>2, DBAssumption DEF LastSynced, NoRow
<1>4. /\ next \in Nat /\ next >= 1 /\ next <= RangeEnd + 1 /\ next - 1 <= MaxBlock
      /\ tip \in Nat /\ tip <= MaxBlock /\ MaxBlock \in Nat
  BY <1>2, DBAssumption
<1>5. Committed(r) \in Nat
  BY <1>3, <1>4 DEF Committed
<1> QED
  BY <1>1, <1>3, <1>4, <1>5

LEMMA FillDoneType == Inv => fillDone \in BOOLEAN /\ (fillDone => next = RangeEnd + 1)
  BY DEF Inv, TypeOK, Frontiers

LEMMA FaultsType == Inv => faults \in 0..MaxFaults
  BY DEF Inv, TypeOK

\* A slot's request is unchanged when the function is.
LEMMA KeepReq ==
  ASSUME Inv, NEW r \in Runs, req' = req
  PROVE  req' = [req EXCEPT ![r] = req[r]]
  BY DEF Inv, TypeOK

LEMMA StartLiveInv ==
  ASSUME Inv, NEW r \in Runs, StartLive(r)
  PROVE  Inv'
<1> DEFINE s == [Idle EXCEPT !.pc = "tip", !.cursor = LastSynced + 1]
<1>0. LastSynced + 1 \in Nat
  BY SlotTypes
<1>1. s \in RunState
  BY <1>0 DEF RunState, Idle
<1>2. SlotOK(r, s, req[r])
  BY SlotTypes DEF SlotOK, StartLive, Idle, NoReq, Committed
<1>3. run' = [run EXCEPT ![r] = s]
  BY DEF StartLive, Became
<1> HIDE DEF s
<1> QED
  BY <1>1, <1>2, <1>3, SlotUpdate, SlotTypes, KeepReq, FillDoneType, FaultsType
     DEF StartLive, Became

LEMMA ReadTipInv ==
  ASSUME Inv, NEW r \in Runs, ReadTip(r)
  PROVE  Inv'
<1>1. PICK t \in TipReads :
        Became(r, IF run[r].cursor - 1 >= t /\ ~FollowTip THEN Idle
                  ELSE [run[r] EXCEPT !.pc = "loop", !.latest = t,
                                      !.cap = run[r].cursor - 1 + MaxBlocks])
  BY DEF ReadTip
<1> DEFINE s == IF run[r].cursor - 1 >= t /\ ~FollowTip THEN Idle
                ELSE [run[r] EXCEPT !.pc = "loop", !.latest = t,
                                    !.cap = run[r].cursor - 1 + MaxBlocks]
<1>2. t \in Nat /\ t <= MaxBlock
  BY SlotTypes DEF TipReads
<1>3. run[r].pc = "tip" /\ run[r].cursor \in Nat /\ run[r].cursor >= 1
  BY SlotTypes DEF ReadTip, RunState, SlotOK
<1>4. s \in RunState
  <2>1. run[r] \in RunState
    BY SlotTypes
  <2>2. run[r].cursor - 1 + MaxBlocks \in Nat
    BY <1>3, RunAssumption
  <2>3. [run[r] EXCEPT !.pc = "loop", !.latest = t,
                       !.cap = run[r].cursor - 1 + MaxBlocks] \in RunState
    BY <1>2, <2>1, <2>2 DEF RunState
  <2> QED
    BY <2>3, IdleType
<1>5. SlotOK(r, s, req[r])
  BY <1>2, <1>3, SlotTypes DEF SlotOK, Idle, RunState
<1>6. run' = [run EXCEPT ![r] = s]
  BY <1>1 DEF Became
<1> HIDE DEF s
<1> QED
  BY <1>1, <1>4, <1>5, <1>6, SlotUpdate, SlotTypes, KeepReq, FillDoneType, FaultsType
     DEF ReadTip, Became

LEMMA StartBackInv ==
  ASSUME Inv, NEW r \in Runs, StartBack(r)
  PROVE  Inv'
<1>1. CASE next > RangeEnd /\ fillDone' = TRUE /\ UNCHANGED <<run, tip, today, faults>>
  <2>1. run' = [run EXCEPT ![r] = run[r]]
    BY <1>1 DEF Inv, TypeOK
  <2>2. next = RangeEnd + 1
    BY <1>1, SlotTypes, DBAssumption
  <2>3. fillDone' \in BOOLEAN
    BY <1>1
  <2> QED
    BY <1>1, <2>1, <2>2, <2>3, SlotUpdate, SlotTypes, KeepReq, FaultsType DEF StartBack
<1>2. CASE next <= RangeEnd
  <2> DEFINE s == [Idle EXCEPT !.pc = "loop", !.cursor = next, !.latest = RangeEnd,
                     !.cap = RangeEnd, !.minDay = OldestDay]
  <2>1. OldestDay \in Nat
    BY RunAssumption, DBAssumption DEF OldestDay, Inv, TypeOK, Days
  <2>2. s \in RunState
    <3>1. next \in Nat /\ RangeEnd \in Nat
      BY SlotTypes, DBAssumption
    <3> QED
      BY <2>1, <3>1 DEF RunState, Idle
  <2>3. r \notin Live
    BY RunAssumption DEF StartBack
  <2>4. SlotOK(r, s, req[r])
    BY <2>3, SlotTypes, DBAssumption DEF SlotOK, StartBack, Idle, NoReq, Committed
  <2>5. Became(r, s) /\ fillDone' = fillDone
    BY <1>2, SlotTypes, DBAssumption DEF StartBack
  <2> HIDE DEF s
  <2> QED
    BY <2>2, <2>4, <2>5, SlotUpdate, SlotTypes, KeepReq, FillDoneType, FaultsType
       DEF StartBack, Became
<1> QED
  BY <1>1, <1>2 DEF StartBack

LEMMA TimeUpInv ==
  ASSUME Inv, NEW r \in Runs, TimeUp(r)
  PROVE  Inv'
<1> DEFINE s == [run[r] EXCEPT !.over = TRUE]
<1>1. s \in RunState
  BY SlotTypes DEF RunState
<1>2. SlotOK(r, s, req[r])
  BY SlotTypes DEF SlotOK, RunState
<1>3. run' = [run EXCEPT ![r] = s]
  BY DEF TimeUp, Became
<1> HIDE DEF s
<1> QED
  BY <1>1, <1>2, <1>3, SlotUpdate, SlotTypes, KeepReq, FillDoneType, FaultsType
     DEF TimeUp, Became

LEMMA PollTipInv ==
  ASSUME Inv, NEW r \in Runs, PollTip(r)
  PROVE  Inv'
<1>1. PICK t \in TipReads : Became(r, [run[r] EXCEPT !.latest = t])
  BY DEF PollTip
<1> DEFINE s == [run[r] EXCEPT !.latest = t]
<1>2. t \in Nat /\ t <= MaxBlock
  BY SlotTypes DEF TipReads
<1>3. s \in RunState
  BY <1>2, SlotTypes DEF RunState
<1>4. SlotOK(r, s, req[r])
  BY <1>2, SlotTypes DEF SlotOK, RunState
<1> HIDE DEF s
<1>5. Became(r, s)
  BY <1>1 DEF s
<1> QED
  BY <1>3, <1>4, <1>5, SlotUpdate, SlotTypes, KeepReq, FillDoneType, FaultsType
     DEF PollTip, Became

\* A backfill run that reports done has a cursor beyond the range, and its
\* cursor is never ahead of next_block.
LEMMA FinishInv ==
  ASSUME Inv, NEW r \in Runs, Finish(r)
  PROVE  Inv'
<1>1. CASE r \in Live /\ Became(r, [Idle EXCEPT !.pc = "prune"]) /\ UNCHANGED fillDone
  <2> DEFINE s == [Idle EXCEPT !.pc = "prune"]
  <2>1. s \in RunState
    BY DEF RunState, Idle
  <2>2. SlotOK(r, s, req[r])
    BY SlotTypes DEF SlotOK, Finish, Idle
  <2> HIDE DEF s
  <2>3. Became(r, s)
    BY <1>1 DEF s
  <2> QED
    BY <1>1, <2>1, <2>2, <2>3, SlotUpdate, SlotTypes, KeepReq, FillDoneType, FaultsType
       DEF Finish, Became
<1>2. CASE /\ r \in Back /\ Became(r, Idle)
           /\ fillDone' = (fillDone \/ run[r].cursor - 1 >= RangeEnd)
  <2>1. SlotOK(r, Idle, req[r])
    BY SlotTypes DEF SlotOK, Finish, Idle
  <2>2. r \notin Live
    BY <1>2, RunAssumption
  <2>3. run[r].cursor - 1 <= next - 1 /\ run[r].cursor \in Nat
    BY <2>2, SlotTypes DEF SlotOK, Finish, Committed, RunState
  <2>4. run[r].cursor - 1 >= RangeEnd => next = RangeEnd + 1
    BY <2>3, SlotTypes, DBAssumption
  <2>5. fillDone' => next = RangeEnd + 1
    BY <1>2, <2>4, FillDoneType
  <2>6. fillDone' \in BOOLEAN
    BY <1>2
  <2> QED
    BY <1>2, <2>1, <2>5, <2>6, SlotUpdate, SlotTypes, IdleType, KeepReq, FaultsType
       DEF Finish, Became
<1> QED
  BY <1>1, <1>2 DEF Finish

LEMMA BeginBatchInv ==
  ASSUME Inv, NEW r \in Runs, BeginBatch(r)
  PROVE  Inv'
<1> DEFINE e == Least(run[r].cursor + Batch - 1, EndBlock(r))
           s == [run[r] EXCEPT !.pc = "fetch", !.acc = {}, !.bend = e]
<1>1. /\ run[r] \in RunState /\ run[r].pc = "loop"
      /\ run[r].cursor \in Nat /\ run[r].latest \in Nat /\ run[r].cap \in Nat
      /\ run[r].cursor >= 1 /\ run[r].latest <= MaxBlock
  BY SlotTypes DEF BeginBatch, SlotOK, RunState
<1>2. run[r].cursor <= EndBlock(r) /\ EndBlock(r) \in Nat /\ EndBlock(r) <= MaxBlock
  BY <1>1, SlotTypes DEF BeginBatch, CaughtUp, EndBlock, Least
<1>3. e \in Nat /\ run[r].cursor <= e /\ e <= MaxBlock
  BY <1>1, <1>2, SlotTypes, RunAssumption DEF Least
<1>4. run' = [run EXCEPT ![r] = s]
  BY DEF BeginBatch, Became
<1> HIDE DEF e
<1>5. s \in RunState
  BY <1>1, <1>3 DEF RunState
<1>6. SlotOK(r, s, req[r])
  BY <1>1, <1>3, SlotTypes DEF SlotOK, RunState
<1> HIDE DEF s
<1> QED
  BY <1>4, <1>5, <1>6, SlotUpdate, SlotTypes, KeepReq, FillDoneType, FaultsType
     DEF BeginBatch, Became

LEMMA FetchBlockInv ==
  ASSUME Inv, NEW r \in Runs, NEW b \in Blocks, FetchBlock(r, b)
  PROVE  Inv'
<1> DEFINE s == [run[r] EXCEPT !.acc = @ \cup {b}]
<1>1. s \in RunState
  BY SlotTypes DEF RunState
<1>2. SlotOK(r, s, req[r])
  BY SlotTypes DEF SlotOK, RunState
<1>3. run' = [run EXCEPT ![r] = s]
  BY DEF FetchBlock, Became
<1> HIDE DEF s
<1> QED
  BY <1>1, <1>2, <1>3, SlotUpdate, SlotTypes, KeepReq, FillDoneType, FaultsType
     DEF FetchBlock, Became

\* Nothing is sent before every block of the batch is in.
LEMMA SendInv ==
  ASSUME Inv, NEW r \in Runs, Send(r)
  PROVE  Inv'
<1> DEFINE s == [run[r] EXCEPT !.pc = "wait", !.acc = {}]
           q == [first |-> run[r].cursor, last |-> run[r].bend, blocks |-> run[r].acc,
                 minDay |-> run[r].minDay, status |-> "sent"]
<1>1. /\ run[r] \in RunState /\ run[r].pc = "fetch"
      /\ run[r].cursor >= 1 /\ run[r].cursor <= run[r].bend /\ run[r].bend <= MaxBlock
      /\ run[r].acc = run[r].cursor..run[r].bend
  BY SlotTypes DEF Send, SlotOK
<1>2. s \in RunState /\ q \in Request
  BY <1>1 DEF RunState, Request
<1>3. SlotOK(r, s, q)
  BY <1>1, SlotTypes DEF SlotOK, RunState
<1>4. run' = [run EXCEPT ![r] = s] /\ req' = [req EXCEPT ![r] = q]
  BY DEF Send, Became
<1> HIDE DEF s, q
<1> QED
  BY <1>2, <1>3, <1>4, SlotUpdate, SlotTypes, FillDoneType, FaultsType DEF Send, Became

LEMMA RaiseInv ==
  ASSUME Inv, NEW r \in Runs, Raise(r)
  PROVE  Inv'
<1> DEFINE q == IF run[r].pc = "wait" THEN [req[r] EXCEPT !.status = "raised"] ELSE NoReq
<1>1. q \in Request
  BY SlotTypes, IdleType DEF Request
<1>2. SlotOK(r, run[r], q)
  BY SlotTypes DEF SlotOK, NoReq, Request, Raise
<1>3. req' = [req EXCEPT ![r] = q] /\ run' = [run EXCEPT ![r] = run[r]]
  BY DEF Raise, Answered, Inv, TypeOK
<1> HIDE DEF q
<1> QED
  BY <1>1, <1>2, <1>3, SlotUpdate, SlotTypes, FillDoneType, FaultsType DEF Raise

LEMMA LoseInv ==
  ASSUME Inv, NEW r \in Runs, Lose(r)
  PROVE  Inv'
<1>1. SlotOK(r, run[r], NoReq)
  BY SlotTypes DEF SlotOK, NoReq, Lose
<1>2. req' = [req EXCEPT ![r] = NoReq] /\ run' = [run EXCEPT ![r] = run[r]]
  BY DEF Lose, Inv, TypeOK
<1> QED
  BY <1>1, <1>2, SlotUpdate, SlotTypes, IdleType, FillDoneType, FaultsType DEF Lose

LEMMA ReplyInv ==
  ASSUME Inv, NEW r \in Runs, Reply(r)
  PROVE  Inv'
<1>1. CASE /\ req[r].status = "applied"
           /\ Became(r, [run[r] EXCEPT !.pc = "loop", !.some = TRUE,
                           !.cursor = run[r].bend + 1, !.bend = 0])
  <2> DEFINE s == [run[r] EXCEPT !.pc = "loop", !.some = TRUE,
                     !.cursor = run[r].bend + 1, !.bend = 0]
  <2>0. run[r] \in RunState /\ run[r].bend + 1 \in Nat
    BY SlotTypes DEF RunState
  <2>1. s \in RunState
    BY <2>0 DEF RunState
  <2>2. run[r].bend <= Committed(r) /\ run[r].bend \in Nat
    BY <1>1, SlotTypes DEF SlotOK, Reply, RunState
  <2>3. SlotOK(r, s, NoReq)
    BY <2>2, SlotTypes DEF SlotOK, NoReq, RunState
  <2>4. run' = [run EXCEPT ![r] = s]
    BY <1>1 DEF Became
  <2> HIDE DEF s
  <2> QED
    BY <1>1, <2>1, <2>3, <2>4, SlotUpdate, SlotTypes, IdleType, FillDoneType, FaultsType
       DEF Reply, Became
<1>2. CASE Became(r, Idle)
  <2>1. SlotOK(r, Idle, NoReq)
    BY SlotTypes DEF SlotOK, NoReq, Idle
  <2> QED
    BY <1>2, <2>1, SlotUpdate, SlotTypes, IdleType, FillDoneType, FaultsType
       DEF Reply, Became
<1> QED
  BY <1>1, <1>2 DEF Reply

LEMMA DieInv ==
  ASSUME Inv, NEW r \in Runs, Die(r)
  PROVE  Inv'
<1> DEFINE q == IF req[r].status = "sent" THEN req[r] ELSE NoReq
<1>1. q \in Request /\ SlotOK(r, Idle, q)
  BY SlotTypes, IdleType DEF SlotOK, Idle, NoReq
<1>2. run' = [run EXCEPT ![r] = Idle] /\ req' = [req EXCEPT ![r] = q]
  BY DEF Die
<1>3. faults' \in 0..MaxFaults
  BY FaultsType, RunAssumption DEF Die
<1> HIDE DEF q
<1> QED
  BY <1>1, <1>2, <1>3, SlotUpdate, SlotTypes, IdleType, FillDoneType DEF Die

-----------------------------------------------------------------------------
(* The database executes a request.                                         *)

LEMMA AddBatchType ==
  ASSUME Inv, NEW q \in Request, NEW stamped, AddBatch(q, stamped)
  PROVE  /\ counted' \in [Blocks -> Nat]
         /\ addrs' \in [Days -> SUBSET Addr]
         /\ active' \in [Days -> Nat \cup {Unknown}]
         /\ calls' \in [Days -> [Contract -> Nat]]
<1>0. /\ counted \in [Blocks -> Nat] /\ addrs \in [Days -> SUBSET Addr]
      /\ active \in [Days -> Nat \cup {Unknown}] /\ calls \in [Days -> [Contract -> Nat]]
  BY DEF Inv, TypeOK, DBTypeOK
<1>1. counted' \in [Blocks -> Nat]
  BY <1>0 DEF AddBatch
<1>2. addrs' \in [Days -> SUBSET Addr]
  BY <1>0, NewSendersType DEF AddBatch
<1>3. active' \in [Days -> Nat \cup {Unknown}]
  <2>1. ASSUME NEW d \in Days PROVE Cardinality(addrs'[d]) \in Nat
    BY <1>2, DBAssumption, FS_Subset, FS_CardinalityType
  <2> QED
    BY <1>0, <2>1 DEF AddBatch
<1>4. calls' \in [Days -> [Contract -> Nat]]
  <2>1. ASSUME NEW d \in Days, NEW c \in Contract
        PROVE  calls[d][c] + NewCalls(q, d, c) \in Nat
    BY <1>0, NewCallsType
  <2> QED
    BY <2>1 DEF AddBatch
<1> QED
  BY <1>1, <1>2, <1>3, <1>4

\* The slots after a commit: no checkpoint moves back, and the committing
\* slot's own request is behind the checkpoint it moved.
LEMMA SlotsAfterApply ==
  ASSUME Inv, NEW r \in Runs, Answered(r, "applied"), run' = run,
         req[r].status = "sent",
         LastSynced' \in Nat, next' \in Nat, LastSynced <= LastSynced', next <= next',
         req[r].last <= Committed(r)'
  PROVE  /\ req' \in [Runs -> Request]
         /\ \A p \in Runs : SlotOK(p, run[p], req[p])'
<1> DEFINE q == IF run[r].pc = "wait" THEN [req[r] EXCEPT !.status = "applied"] ELSE NoReq
<1>1. q \in Request
  BY SlotTypes, IdleType DEF Request
<1>2. req' = [req EXCEPT ![r] = q]
  BY DEF Answered
<1>3. req' \in [Runs -> Request]
  BY <1>1, <1>2 DEF Inv, TypeOK
<1>4. ASSUME NEW p \in Runs PROVE SlotOK(p, run[p], req[p])'
  <2>1. Committed(p) <= Committed(p)' /\ Committed(p)' \in Int /\ Committed(p) \in Int
    BY SlotTypes DEF Committed
  <2>2. SlotOK(p, run[p], req[p]) /\ run[p] \in RunState /\ req[p] \in Request
    BY SlotTypes
  <2>3. CASE p # r
    <3>1. req'[p] = req[p]
      BY <1>2, <2>3 DEF Inv, TypeOK
    <3>2. run[p].cursor \in Nat /\ req[p].last \in Nat /\ Committed(p) \in Int
      BY <2>1, <2>2 DEF RunState, Request
    <3> QED
      BY <2>1, <2>2, <3>1, <3>2 DEF SlotOK
  <2>4. CASE p = r
    <3>1. req'[p] = q
      BY <1>2, <2>4 DEF Inv, TypeOK
    <3>2. CASE run[r].pc = "wait"
      <4>1. /\ q.first = req[r].first /\ q.last = req[r].last
            /\ q.blocks = req[r].blocks /\ q.status = "applied"
        BY <3>2, <2>2, <2>4 DEF Request
      <4> HIDE DEF q
      <4> QED
        BY <2>1, <2>2, <2>4, <3>1, <3>2, <4>1 DEF SlotOK, RunState, Request
    <3>3. CASE run[r].pc # "wait"
      <4>1. q.status = "none"
        BY <3>3 DEF NoReq
      <4> HIDE DEF q
      <4> QED
        BY <2>1, <2>2, <2>4, <3>1, <3>3, <4>1 DEF SlotOK, RunState, Request
    <3> QED
      BY <3>2, <3>3
  <2> QED
    BY <2>3, <2>4
<1> QED
  BY <1>3, <1>4

LEMMA ApplyLiveInv ==
  ASSUME Inv, NEW r \in Runs, Apply(r), r \in Live
  PROVE  Inv'
<1> DEFINE q == req[r]
<1>1. /\ q \in Request /\ q.status = "sent"
      /\ 1 <= q.first /\ q.first <= q.last /\ q.last <= MaxBlock
      /\ q.blocks = q.first..q.last
  BY SlotTypes DEF Apply, SlotOK
<1>2. /\ sync # NoRow /\ sync = q.first - 1 /\ Start <= sync
      /\ AddBatch(q, Days) /\ sync' = q.last /\ through' = NewestDay(q)
      /\ next' = next /\ Answered(r, "applied")
      /\ UNCHANGED <<tip, today, run, fillDone, faults>>
  BY DEF Apply, Accepts, IngestAccepts, ApplyIngestBatch, Inv, Frontiers
<1>3. q.first \in Nat /\ q.last \in Nat /\ MaxBlock \in Nat /\ Start \in Nat
  BY <1>1, DBAssumption DEF Request
<1>4. through' = DayOf[q.last] /\ DayOf[q.last] \in Days
  BY <1>1, <1>2, <1>3, NewestDayOfBatch, DBAssumption DEF Blocks
<1>5. LastSynced = q.first - 1 /\ LastSynced' = q.last
  BY <1>1, <1>2, <1>3 DEF LastSynced, NoRow
<1> HIDE DEF q
<1>6. DBTypeOK'
  <2>1. sync' \in NoRow..MaxBlock /\ next' \in RangeStart..(RangeEnd + 1)
    BY <1>1, <1>2, <1>3 DEF NoRow, Inv, TypeOK, DBTypeOK
  <2> QED
    BY <1>1, <1>2, <1>4, <2>1, AddBatchType DEF DBTypeOK
<1>7. ExactlyOnce'
  <2> SUFFICES ASSUME NEW b \in Blocks
               PROVE  counted'[b] = IF LiveCounted(b)' \/ FillCounted(b)' THEN 1 ELSE 0
    BY DEF ExactlyOnce
  <2>1. counted'[b] = counted[b] + (IF b \in q.blocks THEN 1 ELSE 0)
    BY <1>2 DEF AddBatch
  <2>2. counted[b] = IF LiveCounted(b) \/ FillCounted(b) THEN 1 ELSE 0
    BY DEF Inv, ExactlyOnce
  <2>3. b \in Nat /\ next \in Nat /\ next <= RangeEnd + 1 /\ RangeEnd \in Nat /\ RangeEnd <= Start
    BY SlotTypes, DBAssumption DEF Blocks
  <2>4. b \in q.blocks <=> q.first <= b /\ b <= q.last
    BY <1>1, <1>3, <2>3
  <2>5. CASE b \in q.blocks
    <3>1. ~LiveCounted(b) /\ ~FillCounted(b) /\ LiveCounted(b)'
      BY <2>5, <1>2, <1>3, <1>5, <2>3, <2>4 DEF LiveCounted, FillCounted
    <3> QED
      BY <2>1, <2>2, <2>5, <3>1
  <2>6. CASE b \notin q.blocks
    <3>1. (LiveCounted(b) <=> LiveCounted(b)') /\ (FillCounted(b) <=> FillCounted(b)')
      BY <2>6, <1>1, <1>2, <1>3, <1>5, <2>3, <2>4 DEF LiveCounted, FillCounted
    <3> QED
      BY <2>1, <2>2, <2>6, <3>1
  <2> QED
    BY <2>5, <2>6
<1>8. Frontiers'
  BY <1>1, <1>2, <1>3, <1>4, DBAssumption DEF Frontiers, Inv
<1>9. req' \in [Runs -> Request] /\ \A p \in Runs : SlotOK(p, run[p], req[p])'
  <2>1. next \in Nat /\ LastSynced <= LastSynced' /\ q.last <= Committed(r)'
    BY <1>1, <1>3, <1>5, SlotTypes DEF Committed
  <2> QED
    BY <1>1, <1>2, <1>3, <1>5, <2>1, SlotsAfterApply DEF q
<1> QED
  BY <1>2, <1>6, <1>7, <1>8, <1>9 DEF Inv, TypeOK

LEMMA ApplyBackInv ==
  ASSUME Inv, NEW r \in Runs, Apply(r), r \notin Live
  PROVE  Inv'
<1> DEFINE q == req[r]
<1>1. /\ q \in Request /\ q.status = "sent"
      /\ 1 <= q.first /\ q.first <= q.last /\ q.last <= MaxBlock
      /\ q.blocks = q.first..q.last
  BY SlotTypes DEF Apply, SlotOK
<1>2. /\ next = q.first /\ q.last <= RangeEnd
      /\ AddBatch(q, Days \ RawDays) /\ next' = q.last + 1
      /\ UNCHANGED <<sync, through>> /\ Answered(r, "applied")
      /\ UNCHANGED <<tip, today, run, fillDone, faults>>
  BY DEF Apply, Accepts, BackfillAccepts, ApplyBackfillBatch
<1>3. /\ q.first \in Nat /\ q.last \in Nat /\ MaxBlock \in Nat /\ Start \in Nat
      /\ RangeStart \in Nat /\ RangeEnd \in Nat /\ RangeEnd <= Start
  BY <1>1, DBAssumption DEF Request
<1>4. LastSynced' = LastSynced /\ LastSynced \in Nat
  BY <1>2, SlotTypes DEF LastSynced
<1>5. next >= RangeStart
  BY <1>3 DEF Inv, TypeOK, DBTypeOK
<1> HIDE DEF q
<1>6. DBTypeOK'
  <2>1. next' \in RangeStart..(RangeEnd + 1)
    BY <1>1, <1>2, <1>3, <1>5
  <2>2. sync' \in NoRow..MaxBlock /\ through' \in Days \cup {Unknown}
    BY <1>2 DEF Inv, TypeOK, DBTypeOK
  <2> QED
    BY <1>1, <1>2, <2>1, <2>2, AddBatchType DEF DBTypeOK
<1>7. ExactlyOnce'
  <2> SUFFICES ASSUME NEW b \in Blocks
               PROVE  counted'[b] = IF LiveCounted(b)' \/ FillCounted(b)' THEN 1 ELSE 0
    BY DEF ExactlyOnce
  <2>1. counted'[b] = counted[b] + (IF b \in q.blocks THEN 1 ELSE 0)
    BY <1>2 DEF AddBatch
  <2>2. counted[b] = IF LiveCounted(b) \/ FillCounted(b) THEN 1 ELSE 0
    BY DEF Inv, ExactlyOnce
  <2>3. b \in Nat
    BY DEF Blocks
  <2>4. b \in q.blocks <=> q.first <= b /\ b <= q.last
    BY <1>1, <1>3, <2>3
  <2>5. CASE b \in q.blocks
    <3>1. ~LiveCounted(b) /\ ~FillCounted(b) /\ FillCounted(b)'
      BY <2>5, <1>2, <1>3, <1>4, <1>5, <2>3, <2>4 DEF LiveCounted, FillCounted
    <3> QED
      BY <2>1, <2>2, <2>5, <3>1
  <2>6. CASE b \notin q.blocks
    <3>1. (LiveCounted(b) <=> LiveCounted(b)') /\ (FillCounted(b) <=> FillCounted(b)')
      BY <2>6, <1>1, <1>2, <1>3, <1>4, <2>3, <2>4 DEF LiveCounted, FillCounted
    <3> QED
      BY <2>1, <2>2, <2>6, <3>1
  <2> QED
    BY <2>5, <2>6
<1>8. Frontiers'
  <2>1. ~fillDone
    BY <1>1, <1>2, <1>3 DEF Inv, Frontiers
  <2> QED
    BY <1>2, <2>1 DEF Frontiers, Inv
<1>9. req' \in [Runs -> Request] /\ \A p \in Runs : SlotOK(p, run[p], req[p])'
  <2>1. next \in Nat /\ next' \in Nat /\ next <= next' /\ q.last <= Committed(r)'
    BY <1>1, <1>2, <1>3 DEF Committed
  <2> QED
    BY <1>1, <1>2, <1>4, <2>1, SlotsAfterApply DEF q
<1> QED
  BY <1>2, <1>6, <1>7, <1>8, <1>9 DEF Inv, TypeOK

-----------------------------------------------------------------------------
(* Maintenance and the environment: checkpoints and counts stay as they are. *)

\* Like SlotUpdate, for a step that prunes rows and keeps the rest of the
\* database and the requests.
LEMMA PruneUpdate ==
  ASSUME Inv, NEW r \in Runs, NEW s \in RunState, Became(r, s), SlotOK(r, s, req[r]),
         UNCHANGED <<sync, through, next, counted, active, req, fillDone>>,
         addrs' \in [Days -> SUBSET Addr], calls' \in [Days -> [Contract -> Nat]]
  PROVE  Inv'
<1>1. TypeOK'
  <2>1. DBTypeOK'
    BY DEF Inv, TypeOK, DBTypeOK
  <2>2. run' \in [Runs -> RunState]
    BY DEF Inv, TypeOK, Became
  <2> QED
    BY <2>1, <2>2 DEF Inv, TypeOK, Became
<1>2. ExactlyOnce' /\ Frontiers'
  BY DEF Inv, ExactlyOnce, Frontiers, LiveCounted, FillCounted, LastSynced
<1>3. ASSUME NEW p \in Runs PROVE SlotOK(p, run[p], req[p])'
  <2>1. LastSynced' = LastSynced
    BY DEF LastSynced
  <2>2. run'[p] = IF p = r THEN s ELSE run[p]
    BY DEF Inv, TypeOK, Became
  <2>3. SlotOK(p, run'[p], req[p])
    BY <2>2 DEF Inv
  <2> QED
    BY <2>1, <2>3 DEF SlotOK, Committed
<1> QED
  BY <1>1, <1>2, <1>3 DEF Inv

LEMMA PruneAddressesInv ==
  ASSUME Inv, NEW r \in Runs, PruneAddresses(r)
  PROVE  Inv'
<1> DEFINE s == [run[r] EXCEPT !.pc = "trim"]
<1>1. s \in RunState
  BY SlotTypes DEF RunState
<1>2. SlotOK(r, s, req[r])
  BY SlotTypes DEF SlotOK, RunState, PruneAddresses
<1>3. Became(r, s)
  BY DEF PruneAddresses
<1> HIDE DEF s
<1>4. addrs \in [Days -> SUBSET Addr] /\ calls \in [Days -> [Contract -> Nat]]
  BY DEF Inv, TypeOK, DBTypeOK
<1>5. CASE PruneRollupAddresses(today)
  <2>1. addrs' \in [Days -> SUBSET Addr]
    BY <1>4, <1>5 DEF PruneRollupAddresses
  <2> QED
    BY <1>1, <1>2, <1>3, <1>4, <1>5, <2>1, PruneUpdate
       DEF PruneAddresses, PruneRollupAddresses
<1>6. CASE UNCHANGED dbVars
  BY <1>1, <1>2, <1>3, <1>4, <1>6, PruneUpdate DEF PruneAddresses, dbVars
<1> QED
  BY <1>5, <1>6 DEF PruneAddresses

LEMMA TrimChunkInv ==
  ASSUME Inv, NEW r \in Runs, TrimChunk(r)
  PROVE  Inv'
<1>1. PICK doomed \in SUBSET LongTail(today) :
        /\ PruneRollupLongTail(doomed)
        /\ Became(r, IF Cardinality(doomed) >= ChunkRows /\ run[r].chunks + 1 < MaxChunks
                     THEN [run[r] EXCEPT !.chunks = @ + 1] ELSE Idle)
  BY DEF TrimChunk
<1> DEFINE s == IF Cardinality(doomed) >= ChunkRows /\ run[r].chunks + 1 < MaxChunks
                THEN [run[r] EXCEPT !.chunks = @ + 1] ELSE Idle
<1>2. s \in RunState
  <2>1. run[r] \in RunState /\ run[r].chunks + 1 \in Nat
    BY SlotTypes DEF RunState
  <2>2. [run[r] EXCEPT !.chunks = @ + 1] \in RunState
    BY <2>1 DEF RunState
  <2> QED
    BY <2>2, IdleType
<1>3. SlotOK(r, s, req[r])
  BY SlotTypes DEF SlotOK, RunState, TrimChunk, Idle
<1>4. addrs \in [Days -> SUBSET Addr] /\ calls \in [Days -> [Contract -> Nat]]
  BY DEF Inv, TypeOK, DBTypeOK
<1>5. calls' \in [Days -> [Contract -> Nat]] /\ addrs' = addrs
  BY <1>1, <1>4 DEF PruneRollupLongTail
<1>6. Became(r, s)
  BY <1>1
<1> HIDE DEF s
<1> QED
  BY <1>1, <1>2, <1>3, <1>4, <1>5, <1>6, PruneUpdate DEF TrimChunk, PruneRollupLongTail

LEMMA TrimFailsInv ==
  ASSUME Inv, NEW r \in Runs, TrimFails(r)
  PROVE  Inv'
<1>1. SlotOK(r, Idle, req[r])
  BY SlotTypes DEF SlotOK, Idle, TrimFails
<1> QED
  BY <1>1, SlotUpdate, SlotTypes, IdleType, KeepReq, FillDoneType, FaultsType
     DEF TrimFails, Became

LEMMA EnvironmentInv == Inv /\ (Mine \/ NewDay) => Inv'
<1> SUFFICES ASSUME Inv, Mine \/ NewDay PROVE Inv'
  OBVIOUS
<1>1. tip' \in 0..MaxBlock /\ today' \in Days
  BY DBAssumption DEF Inv, TypeOK, Mine, NewDay, Days
<1>2. UNCHANGED <<dbVars, run, req, fillDone, faults>>
  BY DEF Mine, NewDay
<1>3. TypeOK'
  BY <1>1, <1>2 DEF Inv, TypeOK, DBTypeOK, dbVars
<1>4. LastSynced' = LastSynced
  BY <1>2 DEF LastSynced, dbVars
<1> QED
  BY <1>2, <1>3, <1>4
     DEF Inv, ExactlyOnce, Frontiers, LiveCounted, FillCounted, SlotOK, Committed, dbVars

LEMMA StepInv ==
  ASSUME Inv, NEW r \in Runs, Step(r)
  PROVE  Inv'
<1>1. CASE Apply(r)
  BY <1>1, ApplyLiveInv, ApplyBackInv
<1>2. CASE \E b \in Blocks : FetchBlock(r, b)
  BY <1>2, FetchBlockInv
<1>3. CASE StartLive(r) \/ ReadTip(r) \/ StartBack(r) \/ TimeUp(r) \/ PollTip(r)
  BY <1>3, StartLiveInv, ReadTipInv, StartBackInv, TimeUpInv, PollTipInv
<1>4. CASE Finish(r) \/ BeginBatch(r) \/ Send(r) \/ Raise(r) \/ Lose(r)
  BY <1>4, FinishInv, BeginBatchInv, SendInv, RaiseInv, LoseInv
<1>5. CASE Reply(r) \/ Die(r) \/ PruneAddresses(r) \/ TrimChunk(r) \/ TrimFails(r)
  BY <1>5, ReplyInv, DieInv, PruneAddressesInv, TrimChunkInv, TrimFailsInv
<1> QED
  BY <1>1, <1>2, <1>3, <1>4, <1>5 DEF Step

LEMMA StutterInv == Inv /\ UNCHANGED vars => Inv'
<1> SUFFICES ASSUME Inv, UNCHANGED vars PROVE Inv'
  OBVIOUS
<1>1. UNCHANGED <<dbVars, tip, today, run, req, fillDone, faults>>
  BY DEF vars, dbVars
<1>2. TypeOK' /\ LastSynced' = LastSynced
  BY <1>1 DEF Inv, TypeOK, DBTypeOK, LastSynced, dbVars
<1> QED
  BY <1>1, <1>2
     DEF Inv, ExactlyOnce, Frontiers, LiveCounted, FillCounted, SlotOK, Committed, dbVars

THEOREM Invariance == Spec => []Inv
<1>1. Inv /\ [Next]_vars => Inv'
  BY StepInv, EnvironmentInv, StutterInv DEF Next
<1> QED
  BY <1>1, InitInv, PTL DEF Spec

-----------------------------------------------------------------------------
(* What follows.                                                            *)

\* Every variable keeps its type: in particular no checkpoint leaves its range.
THEOREM TypeCorrect == Spec => []TypeOK
<1>1. Inv => TypeOK
  BY DEF Inv
<1> QED
  BY <1>1, Invariance, PTL

\* Exactly-once ingestion (rollup.py:17-19), for any overlap of runs.
THEOREM ExactlyOnceAlways == Spec => []ExactlyOnce
<1>1. Inv => ExactlyOnce
  BY DEF Inv
<1> QED
  BY <1>1, Invariance, PTL

\* No run is ever ahead of what the database has committed.
THEOREM RunsStayBehind == Spec => []RunBehindCheckpoint
<1>1. Inv => RunBehindCheckpoint
  BY DEF Inv, SlotOK, RunBehindCheckpoint
<1> QED
  BY <1>1, Invariance, PTL

\* done=true is reported only when the whole gap is in the totals.
THEOREM DoneIsComplete == Spec => []FillDoneComplete
<1>1. Inv => FillDoneComplete
  <2> SUFFICES ASSUME Inv, fillDone, NEW b \in RangeStart..RangeEnd
               PROVE  counted[b] = 1
    BY DEF FillDoneComplete
  <2>1. b \in Blocks /\ FillCounted(b)
    BY DBAssumption DEF Inv, Frontiers, FillCounted, Blocks
  <2> QED
    BY <2>1 DEF Inv, ExactlyOnce
<1> QED
  BY <1>1, Invariance, PTL

\* A day before the date of data_through has all its live blocks.
THEOREM ReportedDaysAreComplete == Spec => []ReportedDayComplete
<1>1. Inv => ReportedDayComplete
  <2> SUFFICES ASSUME Inv, NEW b \in Blocks, b > Start, DayOf[b] < through
               PROVE  counted[b] = 1
    BY DEF ReportedDayComplete
  <2>1. b \in Nat /\ DayOf[b] \in Nat /\ sync \in NoRow..MaxBlock
    BY DBAssumption DEF Blocks, Days, Inv, TypeOK, DBTypeOK
  <2>2. through # Unknown
    BY <2>1 DEF Unknown
  <2>3. sync \in Blocks /\ Start < sync /\ through = DayOf[sync]
    BY <2>1, <2>2, DBAssumption DEF Inv, Frontiers, Blocks, NoRow
  <2>4. b <= sync
    <3>1. SUFFICES ASSUME sync <= b PROVE FALSE
      BY <2>1, <2>3, <3>1 DEF Blocks
    <3>2. DayOf[sync] <= DayOf[b] /\ DayOf[sync] \in Nat
      BY <2>3, <3>1, DBAssumption DEF Days
    <3> QED
      BY <2>1, <2>3, <3>2
  <2>5. LiveCounted(b)
    BY <2>1, <2>3, <2>4 DEF LiveCounted, LastSynced, NoRow, Blocks
  <2> QED
    BY <2>5 DEF Inv, ExactlyOnce
<1> QED
  BY <1>1, Invariance, PTL

-----------------------------------------------------------------------------
(* The refinement: a commit is one step of the ledger, every other step a   *)
(* stutter.                                                                 *)

LEMMA LiveCommitAdvances ==
  ASSUME Inv, NEW r \in Runs, Apply(r), r \in Live
  PROVE  \E to \in Blocks : LedgerOfRuns!AdvanceLive(to)
<1> DEFINE q == req[r]
<1>1. /\ 1 <= q.first /\ q.first <= q.last /\ q.last <= MaxBlock
      /\ q.blocks = q.first..q.last /\ q \in Request
  BY SlotTypes DEF Apply, SlotOK
<1>2. /\ sync # NoRow /\ sync = q.first - 1 /\ sync' = q.last /\ next' = next
      /\ counted' = [b \in Blocks |-> counted[b] + (IF b \in q.blocks THEN 1 ELSE 0)]
  BY DEF Apply, Accepts, IngestAccepts, ApplyIngestBatch, AddBatch
<1>3. q.first \in Nat /\ q.last \in Nat /\ MaxBlock \in Nat
  BY <1>1, DBAssumption DEF Request
<1>4. LastSynced = q.first - 1 /\ LastSynced' = q.last
  BY <1>1, <1>2, <1>3 DEF LastSynced, NoRow
<1> HIDE DEF q
<1>5. q.blocks = (LastSynced + 1)..q.last
  BY <1>1, <1>3, <1>4
<1>6. counted \in [Blocks -> Nat]
  BY DEF Inv, TypeOK, DBTypeOK
<1>7. counted' = [b \in LedgerOfRuns!Blocks |->
                    IF b \in (LastSynced + 1)..q.last THEN counted[b] + 1 ELSE counted[b]]
  BY <1>2, <1>5, <1>6 DEF LedgerOfRuns!Blocks, Blocks
<1>8. LedgerOfRuns!AdvanceLive(q.last)
  BY <1>1, <1>2, <1>3, <1>4, <1>7 DEF LedgerOfRuns!AdvanceLive, LedgerOfRuns!CountUp
<1> QED
  BY <1>1, <1>3, <1>8 DEF Blocks

LEMMA FillCommitAdvances ==
  ASSUME Inv, NEW r \in Runs, Apply(r), r \notin Live
  PROVE  \E to \in Blocks : LedgerOfRuns!AdvanceFill(to)
<1> DEFINE q == req[r]
<1>1. /\ 1 <= q.first /\ q.first <= q.last /\ q.last <= MaxBlock
      /\ q.blocks = q.first..q.last /\ q \in Request
  BY SlotTypes DEF Apply, SlotOK
<1>2. /\ next = q.first /\ q.last <= RangeEnd /\ next' = q.last + 1 /\ sync' = sync
      /\ counted' = [b \in Blocks |-> counted[b] + (IF b \in q.blocks THEN 1 ELSE 0)]
  BY DEF Apply, Accepts, BackfillAccepts, ApplyBackfillBatch, AddBatch
<1>3. q.first \in Nat /\ q.last \in Nat /\ MaxBlock \in Nat
  BY <1>1, DBAssumption DEF Request
<1>4. LastSynced' = LastSynced
  BY <1>2 DEF LastSynced
<1> HIDE DEF q
<1>5. q.blocks = (next - 1 + 1)..q.last
  BY <1>1, <1>2, <1>3
<1>6. counted \in [Blocks -> Nat]
  BY DEF Inv, TypeOK, DBTypeOK
<1>7. counted' = [b \in LedgerOfRuns!Blocks |->
                    IF b \in (next - 1 + 1)..q.last THEN counted[b] + 1 ELSE counted[b]]
  BY <1>2, <1>5, <1>6 DEF LedgerOfRuns!Blocks, Blocks
<1>8. next - 1 < q.last /\ next' - 1 = q.last
  BY <1>1, <1>2, <1>3
<1>9. LedgerOfRuns!AdvanceFill(q.last)
  BY <1>2, <1>4, <1>7, <1>8 DEF LedgerOfRuns!AdvanceFill, LedgerOfRuns!CountUp
<1> QED
  BY <1>1, <1>3, <1>9 DEF Blocks

LEMMA OthersStutter ==
  ASSUME [Next]_vars, ~\E r \in Runs : Apply(r)
  PROVE  counted' = counted /\ LastSynced' = LastSynced /\ next' - 1 = next - 1
<1>1. UNCHANGED <<sync, next, counted>>
  <2>1. CASE Mine \/ NewDay \/ UNCHANGED vars
    BY <2>1 DEF Mine, NewDay, vars, dbVars
  <2>2. CASE \E r \in Runs : Step(r)
    <3>1. PICK r \in Runs : Step(r) /\ ~Apply(r)
      BY <2>2
    <3>2. CASE \/ StartLive(r) \/ ReadTip(r) \/ StartBack(r) \/ TimeUp(r) \/ PollTip(r)
               \/ Finish(r) \/ BeginBatch(r) \/ Send(r) \/ Raise(r) \/ Lose(r) \/ Reply(r)
               \/ Die(r) \/ TrimFails(r)
      BY <3>2 DEF StartLive, ReadTip, StartBack, TimeUp, PollTip, Finish, BeginBatch, Send,
                  Raise, Lose, Reply, Die, TrimFails, dbVars
    <3>3. CASE \E b \in Blocks : FetchBlock(r, b)
      BY <3>3 DEF FetchBlock, dbVars
    <3>4. CASE PruneAddresses(r) \/ TrimChunk(r)
      BY <3>4 DEF PruneAddresses, TrimChunk, PruneRollupAddresses, PruneRollupLongTail, dbVars
    <3> QED
      BY <3>1, <3>2, <3>3, <3>4 DEF Step
  <2> QED
    BY <2>1, <2>2 DEF Next
<1> QED
  BY <1>1 DEF LastSynced

\* The ingestion jobs implement the ledger: commits only ever extend a
\* frontier, over exactly the blocks they count.
THEOREM RunsImplementLedger == Spec => ImplementsLedger
<1>1. Init => LedgerOfRuns!Init
  <2> SUFFICES ASSUME Init PROVE LedgerOfRuns!Init
    OBVIOUS
  <2>1. counted = [b \in LedgerOfRuns!Blocks |-> 0]
    BY DEF Init, DBInit, Blocks, LedgerOfRuns!Blocks
  <2>2. LastSynced = Start /\ next - 1 = RangeStart - 1
    BY DEF Init, DBInit, LastSynced
  <2> QED
    BY <2>1, <2>2 DEF LedgerOfRuns!Init
<1>2. Inv /\ [Next]_vars => [LedgerOfRuns!Next]_<<counted, LastSynced, next - 1>>
  <2> SUFFICES ASSUME Inv, [Next]_vars
               PROVE  [LedgerOfRuns!Next]_<<counted, LastSynced, next - 1>>
    OBVIOUS
  <2>1. CASE \E r \in Runs : Apply(r)
    <3>1. PICK r \in Runs : Apply(r)
      BY <2>1
    <3>2. \E to \in Blocks : LedgerOfRuns!AdvanceLive(to) \/ LedgerOfRuns!AdvanceFill(to)
      BY <3>1, LiveCommitAdvances, FillCommitAdvances
    <3> QED
      BY <3>2 DEF LedgerOfRuns!Next, LedgerOfRuns!Blocks, Blocks
  <2>2. CASE ~\E r \in Runs : Apply(r)
    BY <2>2, OthersStutter
  <2> QED
    BY <2>1, <2>2
<1> QED
  BY <1>1, <1>2, Invariance, PTL DEF Spec, ImplementsLedger, LedgerOfRuns!Spec

-----------------------------------------------------------------------------
(* The rows Rollup also prunes: the senders and their number within the      *)
(* retention window, and the per-contract rows.  That a batch is counted     *)
(* once is above; here it is used to show that the batch's rows add up, and  *)
(* that neither pruning nor a backfill that started on an earlier day        *)
(* reaches into the window.                                                  *)

\* A lower bound on the recorded days that leaves the window of a day whole.
BelowWindow(m, day) == m = 0 \/ m <= day - Window

\* A run and its request keep the bound of the day the run started on; days
\* only pass, so the bound stays below the window.
Bounds ==
  \A r \in Runs : BelowWindow(run[r].minDay, today) /\ BelowWindow(req[r].minDay, today)

RowInv ==
  /\ WindowExact
  /\ ContractRowsBounded
  /\ Bounds

-----------------------------------------------------------------------------
(* The bounds of the slots.                                                 *)

LEMMA DayTypes ==
  ASSUME Inv
  PROVE  /\ today \in Nat /\ Window \in Nat /\ KeepDays \in Nat /\ KeepFullDays \in Nat
         /\ Window <= KeepDays
         /\ \A r \in Runs : run[r].minDay \in Nat /\ req[r].minDay \in Nat
         /\ \A d \in Days : d \in Nat
  BY DBAssumption, RunAssumption DEF Inv, TypeOK, Days, RunState, Request

\* A step that leaves the day alone changes one slot, to bounds that are
\* below the window.
LEMMA SlotBounds ==
  ASSUME Inv, Bounds, NEW r \in Runs, NEW s, NEW q,
         run' = [run EXCEPT ![r] = s], req' = [req EXCEPT ![r] = q], today' = today,
         BelowWindow(s.minDay, today), BelowWindow(q.minDay, today)
  PROVE  Bounds'
<1> SUFFICES ASSUME NEW p \in Runs
             PROVE  BelowWindow(run'[p].minDay, today) /\ BelowWindow(req'[p].minDay, today)
  BY DEF Bounds
<1>1. /\ run'[p] = IF p = r THEN s ELSE run[p]
      /\ req'[p] = IF p = r THEN q ELSE req[p]
  BY DEF Inv, TypeOK
<1> QED
  BY <1>1 DEF Bounds

LEMMA IdleBounds == Idle.minDay = 0 /\ NoReq.minDay = 0
  BY DEF Idle, NoReq

\* What a run state keeps of its bound through the updates of the actions.
LEMMA KeptBounds ==
  ASSUME Inv, Bounds, NEW r \in Runs, NEW s,
         s.minDay = run[r].minDay \/ s.minDay = 0,
         run' = [run EXCEPT ![r] = s],
         req' = req \/ (\E q : /\ req' = [req EXCEPT ![r] = q]
                              /\ q.minDay \in {0, run[r].minDay, req[r].minDay}),
         today' = today
  PROVE  Bounds'
<1>1. BelowWindow(s.minDay, today)
  BY DEF BelowWindow, Bounds
<1>2. CASE req' = req
  <2>1. req' = [req EXCEPT ![r] = req[r]]
    BY <1>2, KeepReq
  <2> QED
    BY <1>1, <2>1, SlotBounds DEF Bounds
<1>3. ASSUME NEW q, req' = [req EXCEPT ![r] = q],
             q.minDay \in {0, run[r].minDay, req[r].minDay}
      PROVE  Bounds'
  <2>1. BelowWindow(q.minDay, today)
    BY <1>3 DEF BelowWindow, Bounds
  <2> QED
    BY <1>1, <1>3, <2>1, SlotBounds
<1> QED
  BY <1>2, <1>3

LEMMA RunBounds ==
  ASSUME Inv, Bounds, NEW r \in Runs,
         \/ StartLive(r) \/ ReadTip(r) \/ TimeUp(r) \/ PollTip(r) \/ Finish(r)
         \/ BeginBatch(r) \/ \E b \in Blocks : FetchBlock(r, b)
  PROVE  Bounds'
<1>0. run[r] \in RunState
  BY SlotTypes
<1>1. CASE StartLive(r)
  <2> DEFINE s == [Idle EXCEPT !.pc = "tip", !.cursor = LastSynced + 1]
  <2>1. s.minDay = 0
    BY DEF Idle
  <2>2. run' = [run EXCEPT ![r] = s] /\ req' = req /\ today' = today
    BY <1>1 DEF StartLive, Became
  <2> HIDE DEF s
  <2> QED
    BY <2>1, <2>2, KeptBounds
<1>2. CASE ReadTip(r)
  <2>1. PICK t \in TipReads :
          Became(r, IF run[r].cursor - 1 >= t /\ ~FollowTip THEN Idle
                    ELSE [run[r] EXCEPT !.pc = "loop", !.latest = t,
                                        !.cap = run[r].cursor - 1 + MaxBlocks])
    BY <1>2 DEF ReadTip
  <2> DEFINE s == IF run[r].cursor - 1 >= t /\ ~FollowTip THEN Idle
                  ELSE [run[r] EXCEPT !.pc = "loop", !.latest = t,
                                      !.cap = run[r].cursor - 1 + MaxBlocks]
  <2>2. s.minDay = run[r].minDay \/ s.minDay = 0
    BY <1>0, IdleBounds DEF RunState
  <2>3. run' = [run EXCEPT ![r] = s] /\ req' = req /\ today' = today
    BY <1>2, <2>1 DEF ReadTip, Became
  <2> HIDE DEF s
  <2> QED
    BY <2>2, <2>3, KeptBounds
<1>3. CASE TimeUp(r)
  <2> DEFINE s == [run[r] EXCEPT !.over = TRUE]
  <2>1. s.minDay = run[r].minDay
    BY <1>0 DEF RunState
  <2>2. run' = [run EXCEPT ![r] = s] /\ req' = req /\ today' = today
    BY <1>3 DEF TimeUp, Became
  <2> HIDE DEF s
  <2> QED
    BY <2>1, <2>2, KeptBounds
<1>4. CASE PollTip(r)
  <2>1. PICK t \in TipReads : Became(r, [run[r] EXCEPT !.latest = t])
    BY <1>4 DEF PollTip
  <2> DEFINE s == [run[r] EXCEPT !.latest = t]
  <2>2. s.minDay = run[r].minDay
    BY <1>0 DEF RunState
  <2>3. run' = [run EXCEPT ![r] = s] /\ req' = req /\ today' = today
    BY <1>4, <2>1 DEF PollTip, Became
  <2> HIDE DEF s
  <2> QED
    BY <2>2, <2>3, KeptBounds
<1>5. CASE Finish(r)
  <2> DEFINE s == IF r \in Live THEN [Idle EXCEPT !.pc = "prune"] ELSE Idle
  <2>1. s.minDay = 0
    BY DEF Idle
  <2>2. run' = [run EXCEPT ![r] = s] /\ req' = req /\ today' = today
    BY <1>5, RunAssumption DEF Finish, Became
  <2> HIDE DEF s
  <2> QED
    BY <2>1, <2>2, KeptBounds
<1>6. CASE BeginBatch(r)
  <2> DEFINE s == [run[r] EXCEPT !.pc = "fetch", !.acc = {},
                     !.bend = Least(run[r].cursor + Batch - 1, EndBlock(r))]
  <2>1. s.minDay = run[r].minDay
    BY <1>0 DEF RunState
  <2>2. run' = [run EXCEPT ![r] = s] /\ req' = req /\ today' = today
    BY <1>6 DEF BeginBatch, Became
  <2> HIDE DEF s
  <2> QED
    BY <2>1, <2>2, KeptBounds
<1>7. ASSUME NEW b \in Blocks, FetchBlock(r, b) PROVE Bounds'
  <2> DEFINE s == [run[r] EXCEPT !.acc = @ \cup {b}]
  <2>1. s.minDay = run[r].minDay
    BY <1>0 DEF RunState
  <2>2. run' = [run EXCEPT ![r] = s] /\ req' = req /\ today' = today
    BY <1>7 DEF FetchBlock, Became
  <2> HIDE DEF s
  <2> QED
    BY <2>1, <2>2, KeptBounds
<1> QED
  BY <1>1, <1>2, <1>3, <1>4, <1>5, <1>6, <1>7

\* A backfill takes its bound from the day it starts on.
LEMMA StartBackBounds ==
  ASSUME Inv, Bounds, NEW r \in Runs, StartBack(r)
  PROVE  Bounds'
<1>1. CASE UNCHANGED <<run, tip, today, faults>>
  BY <1>1 DEF Bounds, StartBack
<1>2. CASE ~UNCHANGED <<run, tip, today, faults>>
  <2> DEFINE s == [Idle EXCEPT !.pc = "loop", !.cursor = next, !.latest = RangeEnd,
                     !.cap = RangeEnd, !.minDay = OldestDay]
  <2>1. s.minDay = OldestDay
    BY DEF Idle
  <2>2. BelowWindow(OldestDay, today)
    BY DayTypes DEF BelowWindow, OldestDay
  <2>3. run' = [run EXCEPT ![r] = s] /\ req' = req /\ today' = today
    BY <1>2 DEF StartBack, Became
  <2>4. req' = [req EXCEPT ![r] = req[r]]
    BY <2>3, KeepReq
  <2> HIDE DEF s
  <2> QED
    BY <2>1, <2>2, <2>3, <2>4, SlotBounds DEF Bounds
<1> QED
  BY <1>1, <1>2

LEMMA RequestBounds ==
  ASSUME Inv, Bounds, NEW r \in Runs,
         Send(r) \/ Reply(r) \/ Die(r) \/ Apply(r) \/ Raise(r) \/ Lose(r)
  PROVE  Bounds'
<1>0. run[r] \in RunState /\ req[r] \in Request /\ run = [run EXCEPT ![r] = run[r]]
  BY SlotTypes DEF Inv, TypeOK
<1>1. CASE Send(r)
  <2> DEFINE s == [run[r] EXCEPT !.pc = "wait", !.acc = {}]
             q == [first |-> run[r].cursor, last |-> run[r].bend, blocks |-> run[r].acc,
                   minDay |-> run[r].minDay, status |-> "sent"]
  <2>1. s.minDay = run[r].minDay /\ q.minDay = run[r].minDay
    BY <1>0 DEF RunState
  <2>2. run' = [run EXCEPT ![r] = s] /\ req' = [req EXCEPT ![r] = q] /\ today' = today
    BY <1>1 DEF Send, Became
  <2> HIDE DEF s, q
  <2> QED
    BY <2>1, <2>2, KeptBounds
<1>2. CASE Reply(r)
  <2> DEFINE on == [run[r] EXCEPT !.pc = "loop", !.some = TRUE,
                      !.cursor = run[r].bend + 1, !.bend = 0]
             s == IF req[r].status = "applied" THEN on ELSE Idle
  <2>1. s.minDay = run[r].minDay \/ s.minDay = 0
    BY <1>0, IdleBounds DEF RunState
  <2>2. run' = [run EXCEPT ![r] = s] /\ req' = [req EXCEPT ![r] = NoReq] /\ today' = today
    BY <1>2 DEF Reply, Became
  <2> HIDE DEF s
  <2> QED
    BY <2>1, <2>2, KeptBounds, IdleBounds
<1>3. CASE Die(r)
  <2> DEFINE q == IF req[r].status = "sent" THEN req[r] ELSE NoReq
  <2>1. q.minDay \in {0, req[r].minDay}
    BY IdleBounds
  <2>2. run' = [run EXCEPT ![r] = Idle] /\ req' = [req EXCEPT ![r] = q] /\ today' = today
    BY <1>3 DEF Die
  <2> HIDE DEF q
  <2> QED
    BY <2>1, <2>2, KeptBounds, IdleBounds
<1>4. ASSUME NEW status, Answered(r, status), run' = run, today' = today PROVE Bounds'
  <2> DEFINE q == IF run[r].pc = "wait" THEN [req[r] EXCEPT !.status = status] ELSE NoReq
  <2>1. q.minDay \in {0, req[r].minDay}
    BY <1>0, IdleBounds DEF Request
  <2>2. run' = [run EXCEPT ![r] = run[r]] /\ req' = [req EXCEPT ![r] = q]
    BY <1>0, <1>4 DEF Answered
  <2> HIDE DEF q
  <2> QED
    BY <1>4, <2>1, <2>2, KeptBounds
<1>5. CASE Apply(r)
  BY <1>4, <1>5 DEF Apply
<1>6. CASE Raise(r)
  BY <1>4, <1>6 DEF Raise
<1>7. CASE Lose(r)
  BY <1>0, <1>7, KeptBounds, IdleBounds DEF Lose
<1> QED
  BY <1>1, <1>2, <1>3, <1>5, <1>6, <1>7

LEMMA UpkeepBounds ==
  ASSUME Inv, Bounds, NEW r \in Runs, PruneAddresses(r) \/ TrimChunk(r) \/ TrimFails(r)
  PROVE  Bounds'
<1>0. run[r] \in RunState
  BY SlotTypes
<1>1. ASSUME NEW s, Became(r, s), req' = req, s.minDay = run[r].minDay \/ s.minDay = 0
      PROVE  Bounds'
  BY <1>1, KeptBounds DEF Became
<1>2. CASE PruneAddresses(r)
  <2> DEFINE s == [run[r] EXCEPT !.pc = "trim"]
  <2>1. s.minDay = run[r].minDay
    BY <1>0 DEF RunState
  <2>2. Became(r, s) /\ req' = req
    BY <1>2 DEF PruneAddresses
  <2> HIDE DEF s
  <2> QED
    BY <1>1, <2>1, <2>2
<1>3. CASE TrimChunk(r)
  <2>1. PICK doomed \in SUBSET LongTail(today) :
          Became(r, IF Cardinality(doomed) >= ChunkRows /\ run[r].chunks + 1 < MaxChunks
                    THEN [run[r] EXCEPT !.chunks = @ + 1] ELSE Idle)
    BY <1>3 DEF TrimChunk
  <2> DEFINE s == IF Cardinality(doomed) >= ChunkRows /\ run[r].chunks + 1 < MaxChunks
                  THEN [run[r] EXCEPT !.chunks = @ + 1] ELSE Idle
  <2>2. s.minDay = run[r].minDay \/ s.minDay = 0
    BY <1>0, IdleBounds DEF RunState
  <2>3. Became(r, s) /\ req' = req
    BY <1>3, <2>1 DEF TrimChunk
  <2> HIDE DEF s
  <2> QED
    BY <1>1, <2>2, <2>3
<1>4. CASE TrimFails(r)
  BY <1>1, <1>4, IdleBounds DEF TrimFails
<1> QED
  BY <1>2, <1>3, <1>4

\* A day that passes moves the window up, never below a bound.
LEMMA EnvironmentBounds ==
  ASSUME Inv, Bounds, Mine \/ NewDay
  PROVE  Bounds'
<1>1. run' = run /\ req' = req /\ (today' = today \/ today' = today + 1)
  BY DEF Mine, NewDay
<1>2. \A m \in Nat : BelowWindow(m, today) => BelowWindow(m, today')
  BY <1>1, DayTypes DEF BelowWindow
<1> QED
  BY <1>1, <1>2, DayTypes DEF Bounds

LEMMA BoundsKept ==
  ASSUME Inv, Bounds, [Next]_vars
  PROVE  Bounds'
<1>1. ASSUME NEW r \in Runs, Step(r) PROVE Bounds'
  BY <1>1, RunBounds, StartBackBounds, RequestBounds, UpkeepBounds DEF Step
<1>2. CASE UNCHANGED vars
  BY <1>2 DEF vars, Bounds
<1> QED
  BY <1>1, <1>2, EnvironmentBounds DEF Next

-----------------------------------------------------------------------------
(* A batch the database accepts.                                            *)

\* No block of it is in the totals yet, and its procedure stamps every day
\* that is not a raw backfill's.
LEMMA AcceptedBatch ==
  ASSUME Inv, NEW r \in Runs, Apply(r)
  PROVE  /\ req[r] \in Request
         /\ \A b \in req[r].blocks : counted[b] = 0
         /\ \E stamped \in SUBSET Days : Days \ RawDays \subseteq stamped /\ AddBatch(req[r], stamped)
         /\ today' = today
<1> DEFINE q == req[r]
<1>1. /\ q \in Request /\ 1 <= q.first /\ q.first <= q.last /\ q.last <= MaxBlock
      /\ q.blocks = q.first..q.last
  BY SlotTypes DEF Apply, SlotOK
<1>2. /\ q.first \in Nat /\ q.last \in Nat /\ next \in Nat /\ next <= RangeEnd + 1
      /\ Start \in Nat /\ RangeEnd \in Nat /\ RangeEnd <= Start /\ RangeStart <= next
  BY <1>1, SlotTypes, DBAssumption DEF Request, Inv, TypeOK, DBTypeOK
<1>3. \A b \in q.blocks : /\ b \in Blocks /\ q.first <= b /\ b <= q.last
                          /\ counted[b] = IF LiveCounted(b) \/ FillCounted(b) THEN 1 ELSE 0
  BY <1>1, <1>2 DEF Inv, ExactlyOnce, Request
<1>4. CASE r \in Live
  <2>1. sync # NoRow /\ sync = q.first - 1 /\ Start <= sync /\ AddBatch(q, Days)
    BY <1>4 DEF Apply, Accepts, IngestAccepts, ApplyIngestBatch, Inv, Frontiers
  <2>2. LastSynced = q.first - 1
    BY <2>1 DEF LastSynced
  <2>3. \A b \in q.blocks : ~LiveCounted(b) /\ ~FillCounted(b)
    BY <1>2, <1>3, <2>1, <2>2 DEF LiveCounted, FillCounted, Blocks
  <2> QED
    BY <1>1, <1>3, <2>1, <2>3 DEF Apply
<1>5. CASE r \notin Live
  <2>1. next = q.first /\ q.last <= RangeEnd /\ AddBatch(q, Days \ RawDays)
    BY <1>5 DEF Apply, Accepts, BackfillAccepts, ApplyBackfillBatch
  <2>2. \A b \in q.blocks : ~LiveCounted(b) /\ ~FillCounted(b)
    BY <1>2, <1>3, <2>1 DEF LiveCounted, FillCounted, Blocks
  <2> QED
    BY <1>1, <1>3, <2>1, <2>2 DEF Apply
<1> QED
  BY <1>4, <1>5

\* The counted blocks of a day grow by the batch's blocks of that day.
LEMMA CountedGrows ==
  ASSUME Inv, NEW q \in Request, NEW stamped, AddBatch(q, stamped), NEW d \in Days
  PROVE  CountedOn(d)' = CountedOn(d) \cup {b \in q.blocks : DayOf[b] = d}
<1>1. \A b \in Blocks : /\ counted[b] \in Nat
                        /\ counted'[b] = counted[b] + (IF b \in q.blocks THEN 1 ELSE 0)
  BY DEF Inv, TypeOK, DBTypeOK, AddBatch
<1>2. \A b \in Blocks : counted'[b] > 0 <=> (counted[b] > 0 \/ b \in q.blocks)
  BY <1>1
<1>3. q.blocks \subseteq Blocks
  BY DEF Request
<1> QED
  BY <1>2, <1>3 DEF CountedOn

\* The row of a contract grows by as many calls as its day's blocks make.
LEMMA CallsGrow ==
  ASSUME Inv, NEW q \in Request, NEW stamped, AddBatch(q, stamped),
         \A b \in q.blocks : counted[b] = 0,
         NEW d \in Days, NEW c \in Contract
  PROVE  CallsOn(d, c)' = CallsOn(d, c) + NewCalls(q, d, c) /\ CallsOn(d, c) \in Nat
<1> DEFINE Old == {b \in CountedOn(d) : c \in Calls[b]}
           New == {b \in q.blocks : DayOf[b] = d /\ c \in Calls[b]}
<1>1. q.blocks \subseteq Blocks
  BY DEF Request
<1>2. IsFiniteSet(Old) /\ IsFiniteSet(New)
  BY <1>1, FiniteBlocks, FS_Subset DEF CountedOn
<1>3. Old \cap New = {}
  BY DEF CountedOn
<1>4. {b \in CountedOn(d)' : c \in Calls[b]} = Old \cup New
  BY CountedGrows
<1>5. Cardinality(Old \cup New) = Cardinality(Old) + Cardinality(New) - Cardinality(Old \cap New)
  BY <1>2, FS_Union
<1>6. Cardinality(Old) \in Nat /\ Cardinality(New) \in Nat /\ Cardinality({}) = 0
  BY <1>2, FS_CardinalityType, FS_EmptySet
<1>7. /\ CallsOn(d, c)' = Cardinality(Old \cup New)
      /\ CallsOn(d, c) = Cardinality(Old) /\ NewCalls(q, d, c) = Cardinality(New)
  BY <1>4 DEF CallsOn, NewCalls
<1> HIDE DEF Old, New
<1>8. Cardinality(Old \cap New) = 0
  BY <1>3, <1>6
<1>9. Cardinality(Old \cup New) = Cardinality(Old) + Cardinality(New)
  BY <1>5, <1>6, <1>8
<1> QED
  BY <1>6, <1>7, <1>9

LEMMA ApplyKeepsCalls ==
  ASSUME Inv, ContractRowsBounded, NEW r \in Runs, Apply(r)
  PROVE  ContractRowsBounded'
<1>1. PICK stamped \in SUBSET Days : AddBatch(req[r], stamped)
  BY AcceptedBatch
<1>2. /\ req[r] \in Request /\ today' = today /\ \A b \in req[r].blocks : counted[b] = 0
  BY AcceptedBatch
<1> SUFFICES ASSUME NEW d \in Days, NEW c \in Contract
             PROVE  /\ calls'[d][c] <= CallsOn(d, c)'
                    /\ d >= today - KeepFullDays => calls'[d][c] = CallsOn(d, c)'
  BY <1>2 DEF ContractRowsBounded
<1>3. CallsOn(d, c)' = CallsOn(d, c) + NewCalls(req[r], d, c) /\ CallsOn(d, c) \in Nat
  BY <1>1, <1>2, CallsGrow
<1>4. calls'[d][c] = calls[d][c] + NewCalls(req[r], d, c)
  BY <1>1 DEF AddBatch
<1>5. calls[d][c] \in Nat /\ NewCalls(req[r], d, c) \in Nat
  BY <1>2, NewCallsType DEF Inv, TypeOK, DBTypeOK
<1>6. /\ calls[d][c] <= CallsOn(d, c)
      /\ d >= today - KeepFullDays => calls[d][c] = CallsOn(d, c)
  BY DEF ContractRowsBounded
<1> QED
  BY <1>3, <1>4, <1>5, <1>6

LEMMA ApplyKeepsWindow ==
  ASSUME Inv, WindowExact, Bounds, NEW r \in Runs, Apply(r)
  PROVE  WindowExact'
<1> DEFINE q == req[r]
<1>1. PICK stamped \in SUBSET Days : Days \ RawDays \subseteq stamped /\ AddBatch(q, stamped)
  BY AcceptedBatch
<1>2. q \in Request /\ today' = today /\ BelowWindow(q.minDay, today)
  BY AcceptedBatch DEF Bounds
<1> HIDE DEF q
<1> SUFFICES ASSUME NEW d \in Days \ RawDays, d >= today - Window
             PROVE  /\ addrs'[d] = UNION {Senders[b] : b \in CountedOn(d)'}
                    /\ active'[d] \in {Cardinality(addrs'[d])}
                                      \cup (IF addrs'[d] = {} THEN {Unknown} ELSE {})
  BY <1>2 DEF WindowExact
<1> DEFINE New == UNION {Senders[b] : b \in {x \in q.blocks : DayOf[x] = d}}
<1>3. d >= q.minDay
  <2>1. q.minDay \in Nat /\ d \in Nat /\ today \in Nat /\ Window \in Nat
    BY <1>2, DayTypes DEF Request
  <2> QED
    BY <1>2, <2>1 DEF BelowWindow
<1>4. NewSenders(q, d) = New
  BY <1>3 DEF NewSenders
<1>5. /\ addrs[d] = UNION {Senders[b] : b \in CountedOn(d)}
      /\ active[d] \in {Cardinality(addrs[d])} \cup (IF addrs[d] = {} THEN {Unknown} ELSE {})
  BY DEF WindowExact
<1>6. addrs'[d] = addrs[d] \cup New
  BY <1>1, <1>4 DEF AddBatch
<1>7. CountedOn(d)' = CountedOn(d) \cup {b \in q.blocks : DayOf[b] = d}
  BY <1>1, <1>2, CountedGrows
<1>8. addrs'[d] = UNION {Senders[b] : b \in CountedOn(d)'}
  BY <1>5, <1>6, <1>7
<1>9. active'[d] = IF d \in Touched(q) \cap stamped THEN Cardinality(addrs'[d]) ELSE active[d]
  BY <1>1 DEF AddBatch
<1>10. d \in stamped /\ (d \in Touched(q) <=> New # {})
  BY <1>1, <1>4 DEF Touched
<1> HIDE DEF New
<1>11. CASE New # {}
  BY <1>8, <1>9, <1>10, <1>11
<1>12. CASE New = {}
  <2>1. addrs'[d] = addrs[d] /\ active'[d] = active[d]
    BY <1>6, <1>9, <1>10, <1>12
  <2> QED
    BY <1>5, <1>8, <2>1
<1> QED
  BY <1>11, <1>12

-----------------------------------------------------------------------------
(* Pruning, and the steps that leave the rows alone.                        *)

LEMMA PruneKeepsRows ==
  ASSUME Inv, WindowExact, ContractRowsBounded, NEW r \in Runs, PruneAddresses(r),
         PruneRollupAddresses(today)
  PROVE  WindowExact' /\ ContractRowsBounded'
<1>1. UNCHANGED <<counted, active, calls, today>>
  BY DEF PruneAddresses, PruneRollupAddresses, Became
<1>2. ASSUME NEW d \in Days, d >= today - Window PROVE addrs'[d] = addrs[d]
  <2>1. ~(d < today - KeepDays)
    BY <1>2, DayTypes
  <2> QED
    BY <2>1 DEF PruneRollupAddresses
<1>3. \A d \in Days : CountedOn(d)' = CountedOn(d)
  BY <1>1 DEF CountedOn
<1>4. \A d \in Days, c \in Contract : CallsOn(d, c)' = CallsOn(d, c)
  BY <1>3 DEF CallsOn
<1>5. WindowExact'
  BY <1>1, <1>2, <1>3 DEF WindowExact
<1>6. ContractRowsBounded'
  BY <1>1, <1>4 DEF ContractRowsBounded
<1> QED
  BY <1>5, <1>6

LEMMA TrimKeepsRows ==
  ASSUME Inv, WindowExact, ContractRowsBounded, NEW r \in Runs, TrimChunk(r)
  PROVE  WindowExact' /\ ContractRowsBounded'
<1>1. PICK doomed \in SUBSET LongTail(today) : PruneRollupLongTail(doomed)
  BY DEF TrimChunk
<1>2. UNCHANGED <<counted, addrs, active>> /\ today' = today
  BY <1>1 DEF PruneRollupLongTail, TrimChunk, Became
<1>3. \A d \in Days : CountedOn(d)' = CountedOn(d)
  BY <1>2 DEF CountedOn
<1>4. \A d \in Days, c \in Contract : CallsOn(d, c)' = CallsOn(d, c)
  BY <1>3 DEF CallsOn
<1>5. WindowExact'
  BY <1>2, <1>3 DEF WindowExact
<1>6. ASSUME NEW d \in Days, NEW c \in Contract
      PROVE  /\ calls'[d][c] <= CallsOn(d, c)
             /\ d >= today - KeepFullDays => calls'[d][c] = CallsOn(d, c)
  <2>1. calls'[d][c] = IF <<d, c>> \in doomed THEN 0 ELSE calls[d][c]
    BY <1>1 DEF PruneRollupLongTail
  <2>2. <<d, c>> \in doomed => d < today - KeepFullDays
    BY DEF LongTail
  <2>3. /\ calls[d][c] <= CallsOn(d, c)
        /\ d >= today - KeepFullDays => calls[d][c] = CallsOn(d, c)
    BY DEF ContractRowsBounded
  <2>4. calls[d][c] \in Nat /\ d \in Nat /\ today \in Nat /\ KeepFullDays \in Nat
    BY DayTypes DEF Inv, TypeOK, DBTypeOK
  <2>5. CallsOn(d, c) \in Nat
    BY FiniteBlocks, FS_Subset, FS_CardinalityType DEF CallsOn, CountedOn
  <2> QED
    BY <2>1, <2>2, <2>3, <2>4, <2>5
<1>7. ContractRowsBounded'
  BY <1>2, <1>4, <1>6 DEF ContractRowsBounded
<1> QED
  BY <1>5, <1>7

LEMMA RowsUntouched ==
  ASSUME Inv, WindowExact, ContractRowsBounded, UNCHANGED dbVars,
         today' = today \/ today' = today + 1
  PROVE  WindowExact' /\ ContractRowsBounded'
<1>1. UNCHANGED <<counted, addrs, active, calls>>
  BY DEF dbVars
<1>2. \A d \in Days : CountedOn(d)' = CountedOn(d)
  BY <1>1 DEF CountedOn
<1>3. \A d \in Days, c \in Contract : CallsOn(d, c)' = CallsOn(d, c)
  BY <1>2 DEF CallsOn
<1>4. ASSUME NEW d \in Days
      PROVE  /\ d >= today' - Window => d >= today - Window
             /\ d >= today' - KeepFullDays => d >= today - KeepFullDays
  BY DayTypes
<1>5. WindowExact'
  BY <1>1, <1>2, <1>4 DEF WindowExact
<1>6. ContractRowsBounded'
  BY <1>1, <1>3, <1>4 DEF ContractRowsBounded
<1> QED
  BY <1>5, <1>6

LEMMA RowsKept ==
  ASSUME Inv, RowInv, [Next]_vars
  PROVE  WindowExact' /\ ContractRowsBounded'
<1>1. ASSUME NEW r \in Runs, Step(r) PROVE WindowExact' /\ ContractRowsBounded'
  <2>1. CASE Apply(r)
    BY <2>1, ApplyKeepsCalls, ApplyKeepsWindow DEF RowInv
  <2>2. CASE TrimChunk(r)
    BY <2>2, TrimKeepsRows DEF RowInv
  <2>3. CASE PruneAddresses(r)
    <3>1. CASE PruneRollupAddresses(today)
      BY <2>3, <3>1, PruneKeepsRows DEF RowInv
    <3>2. CASE UNCHANGED dbVars
      BY <2>3, <3>2, RowsUntouched DEF RowInv, PruneAddresses, Became
    <3> QED
      BY <2>3, <3>1, <3>2 DEF PruneAddresses
  <2>4. CASE \/ StartLive(r) \/ ReadTip(r) \/ StartBack(r) \/ TimeUp(r) \/ PollTip(r)
             \/ Finish(r) \/ BeginBatch(r) \/ (\E b \in Blocks : FetchBlock(r, b))
             \/ Send(r) \/ Raise(r) \/ Lose(r) \/ Reply(r) \/ Die(r) \/ TrimFails(r)
    <3>1. UNCHANGED dbVars /\ today' = today
      BY <2>4 DEF StartLive, ReadTip, StartBack, TimeUp, PollTip, Finish, BeginBatch,
                  FetchBlock, Send, Raise, Lose, Reply, Die, TrimFails, Became
    <3> QED
      BY <3>1, RowsUntouched DEF RowInv
  <2> QED
    BY <1>1, <2>1, <2>2, <2>3, <2>4 DEF Step
<1>2. CASE Mine \/ NewDay \/ UNCHANGED vars
  <2>1. UNCHANGED dbVars /\ (today' = today \/ today' = today + 1)
    BY <1>2 DEF Mine, NewDay, vars, dbVars
  <2> QED
    BY <2>1, RowsUntouched DEF RowInv
<1> QED
  BY <1>1, <1>2 DEF Next

LEMMA InitRows == Init => RowInv
<1> SUFFICES ASSUME Init PROVE RowInv
  OBVIOUS
<1>1. \A d \in Days : CountedOn(d) = {}
  BY DEF Init, DBInit, CountedOn
<1>2. Cardinality({}) = 0
  BY FS_EmptySet
<1>3. WindowExact
  BY <1>1, <1>2 DEF WindowExact, Init, DBInit
<1>4. \A d \in Days, c \in Contract : CallsOn(d, c) = 0
  BY <1>1, <1>2 DEF CallsOn
<1>5. ContractRowsBounded
  BY <1>4 DEF ContractRowsBounded, Init, DBInit
<1>6. Bounds
  BY IdleBounds DEF Bounds, BelowWindow, Init
<1> QED
  BY <1>3, <1>5, <1>6 DEF RowInv

THEOREM RowInvariance == Spec => []RowInv
<1>1. Inv /\ RowInv /\ [Next]_vars => RowInv'
  BY BoundsKept, RowsKept DEF RowInv
<1> QED
  BY <1>1, InitRows, Invariance, PTL DEF Spec

-----------------------------------------------------------------------------
(* What follows.                                                            *)

\* Within the retention window the stored senders of a day are those of its
\* counted blocks and active_addresses is their number, whatever jobs, late
\* requests and pruning do to these rows (apply_ingest_batch,
\* apply_backfill_batch and prune_rollup_addresses).
THEOREM WindowAlwaysExact == Spec => []WindowExact
<1>1. RowInv => WindowExact
  BY DEF RowInv
<1> QED
  BY <1>1, RowInvariance, PTL

\* A contract's row never exceeds the calls of the counted blocks, and is
\* exactly that number until its day may be trimmed (prune_rollup_long_tail).
THEOREM ContractRowsAlwaysBounded == Spec => []ContractRowsBounded
<1>1. RowInv => ContractRowsBounded
  BY DEF RowInv
<1> QED
  BY <1>1, RowInvariance, PTL

=============================================================================
