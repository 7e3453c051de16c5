---------------------------- MODULE UpkeepProofs ----------------------------
(***************************************************************************)
(* Proofs about the jobs around the rollup: the endpoint pool and the      *)
(* batch of BlockFetch, the chaining of Workflow, the daily series of      *)
(* Freshness, Scores and the scan of Venues. They share no state; each has *)
(* an invariant of its own.                                                *)
(***************************************************************************)
EXTENDS BlockFetch, Venues, Workflow, Freshness, Scores, QueueProofs, FiniteSetTheorems

-----------------------------------------------------------------------------
(* The endpoint pool, for any number of endpoints, threads, attempts and     *)
(* blocks.  A call remembers the position its rotation started from, so what *)
(* other threads do to the shared index does not matter to it: after k       *)
(* endpoints it has tried the k positions that follow its start, and after   *)
(* Size of them every one.                                                   *)

Call == [at: {"rest", "call", "between", "exhausted", "raised"}, kind: {"raw", "eth"},
         block: Job \cup {NoBlock}, part: {"header", "receipts"},
         start: Nat, offset: Nat, attempt: Nat, tried: SUBSET Nat]

\* The positions that k tries from s on visit in a pool of n endpoints.
Visited(s, k, n) == {(s + i) % n : i \in 0..(k - 1)}

\* The call c has tried exactly what it has passed.
Rotates(c) ==
  /\ c.at # "rest" => Size > 0
  /\ c.at = "call" => /\ c.start < Size /\ c.offset < Size
                      /\ c.tried = Visited(c.start, c.offset, Size)
  /\ c.at = "exhausted" => c.tried = 0..(Size - 1)

PoolInv ==
  /\ pool \in Seq(Endpoint) /\ sticky \in Nat
  /\ rpc \in [Thread -> Call]
  /\ waiting \subseteq Job
  /\ phase = "connect" => \A t \in Thread : rpc[t].at = "rest"
  /\ phase \in {"tip", "batch"} => Size > 0
  /\ waiting # {} => phase = "batch"
  /\ \A t \in Thread : Rotates(rpc[t])

-----------------------------------------------------------------------------
(* Rotations.                                                                *)

LEMMA Remainder ==
  ASSUME NEW n \in Nat, n > 0, NEW x \in 0..(n - 1)
  PROVE  x % n = x /\ (x + n) % n = x
  OBVIOUS

LEMMA RemainderRange == \A n \in Nat : n > 0 => \A x \in Nat : x % n \in 0..(n - 1)
  OBVIOUS

\* Size tries in a row visit every position, wherever they start.
LEMMA VisitedAll ==
  ASSUME NEW n \in Nat, n > 0, NEW s \in 0..(n - 1)
  PROVE  Visited(s, n, n) = 0..(n - 1)
<1>1. Visited(s, n, n) \subseteq 0..(n - 1)
  BY RemainderRange DEF Visited
<1>2. ASSUME NEW p \in 0..(n - 1) PROVE p \in Visited(s, n, n)
  <2>1. CASE p >= s
    <3>1. p - s \in 0..(n - 1) /\ (s + (p - s)) % n = p
      BY <2>1, Remainder
    <3> QED
      BY <3>1 DEF Visited
  <2>2. CASE p < s
    <3>1. s + (p - s + n) = p + n
      OBVIOUS
    <3>2. p - s + n \in 0..(n - 1) /\ (s + (p - s + n)) % n = p
      BY <2>2, <3>1, Remainder
    <3> QED
      BY <3>2 DEF Visited
  <2> QED
    BY <2>1, <2>2
<1> QED
  BY <1>1, <1>2

\* One more try visits one more position.
LEMMA VisitedNext ==
  \A s, k, n \in Nat : Visited(s, k + 1, n) = Visited(s, k, n) \cup {(s + k) % n}
<1> SUFFICES ASSUME NEW s \in Nat, NEW k \in Nat, NEW n \in Nat
             PROVE  Visited(s, k + 1, n) = Visited(s, k, n) \cup {(s + k) % n}
  OBVIOUS
<1>1. 0..((k + 1) - 1) = (0..(k - 1)) \cup {k}
  OBVIOUS
<1> QED
  BY <1>1 DEF Visited

\* Fewer than n tries in a row visit a position once.
LEMMA VisitedNew ==
  ASSUME NEW n \in Nat, NEW s \in 0..(n - 1), NEW k \in 0..(n - 1)
  PROVE  (s + k) % n \notin Visited(s, k, n)
<1>1. ASSUME NEW i \in 0..(n - 1) PROVE (s + i) % n = IF s + i < n THEN s + i ELSE s + i - n
  <2>1. CASE s + i < n
    BY <2>1, Remainder
  <2>2. CASE ~(s + i < n)
    <3>1. s + i - n \in 0..(n - 1) /\ (s + i - n) + n = s + i
      BY <2>2
    <3> QED
      BY <2>2, <3>1, Remainder
  <2> QED
    BY <2>1, <2>2
<1>2. ASSUME NEW i \in 0..(k - 1) PROVE (s + i) % n # (s + k) % n
  BY <1>1, i \in 0..(n - 1), i < k
<1> QED
  BY <1>2 DEF Visited

LEMMA VisitedNone == \A s, n : Visited(s, 0, n) = {}
<1>1. 0..(0 - 1) = {}
  OBVIOUS
<1> QED
  BY <1>1 DEF Visited

-----------------------------------------------------------------------------
(* Calls.                                                                    *)

LEMMA RestCall == Rest \in Call /\ Rest.at = "rest" /\ Rotates(Rest)
  BY DEF Rest, Call, NoBlock, Rotates

LEMMA OneCall ==
  ASSUME NEW t \in Thread, NEW c \in Call, rpc \in [Thread -> Call], Sets(t, c)
  PROVE  /\ rpc' \in [Thread -> Call] /\ rpc'[t] = c
         /\ \A u \in Thread : u # t => rpc'[u] = rpc[u]
  BY DEF Sets

\* A step of a thread while the pool stays as it is.
LEMMA CallKeeps ==
  ASSUME PoolInv, NEW t \in Thread, NEW c \in Call, Sets(t, c), Rotates(c), pool' = pool,
         sticky' \in Nat, waiting' \subseteq Job, phase # "connect", phase' # "connect",
         phase' \in {"tip", "batch"} => Size > 0, waiting' # {} => phase' = "batch"
  PROVE  PoolInv'
<1>1. /\ rpc' \in [Thread -> Call] /\ rpc'[t] = c
      /\ \A u \in Thread : u # t => rpc'[u] = rpc[u]
  BY OneCall DEF PoolInv
<1>2. Size' = Size
  BY DEF Size
<1>3. ASSUME NEW u \in Thread PROVE Rotates(rpc[u])'
  <2>1. Rotates(rpc'[u])
    BY <1>1 DEF PoolInv
  <2> QED
    BY <1>2, <2>1 DEF Rotates
<1> QED
  BY <1>1, <1>2, <1>3 DEF PoolInv

\* What a call becomes when it gives an endpoint up.
Passed(t) == IF rpc[t].offset + 1 < Size
             THEN [Tried(t) EXCEPT !.offset = @ + 1, !.attempt = 0]
             ELSE [Tried(t) EXCEPT !.at = "exhausted"]

LEMMA TriedCall ==
  ASSUME PoolInv, NEW t \in Thread, rpc[t].at = "call"
  PROVE  /\ Size \in Nat /\ Size > 0 /\ Position(t) \in 0..(Size - 1)
         /\ rpc[t] \in Call /\ rpc[t].start \in 0..(Size - 1) /\ rpc[t].offset \in 0..(Size - 1)
         /\ Tried(t) = [rpc[t] EXCEPT !.tried = Visited(rpc[t].start, rpc[t].offset + 1, Size)]
         /\ Visited(rpc[t].start, rpc[t].offset + 1, Size) \in SUBSET Nat
<1>1. Size \in Nat /\ Size > 0 /\ rpc[t] \in Call
  BY DEF PoolInv, Rotates, Size
<1>2. rpc[t].start \in 0..(Size - 1) /\ rpc[t].offset \in 0..(Size - 1)
      /\ rpc[t].tried = Visited(rpc[t].start, rpc[t].offset, Size)
  BY <1>1 DEF PoolInv, Rotates, Call
<1>3. Position(t) \in 0..(Size - 1)
  BY <1>1, <1>2, RemainderRange DEF Position
<1>4. Visited(rpc[t].start, rpc[t].offset + 1, Size) = rpc[t].tried \cup {Position(t)}
  <2> DEFINE s == rpc[t].start
             k == rpc[t].offset
  <2>1. s \in Nat /\ k \in Nat /\ Size \in Nat
    BY <1>1, <1>2
  <2> HIDE DEF s, k
  <2>2. Visited(s, k + 1, Size) = Visited(s, k, Size) \cup {(s + k) % Size}
    BY <2>1, VisitedNext
  <2> QED
    BY <1>2, <2>2 DEF Position, s, k
<1>5. rpc[t].tried \cup {Position(t)} \in SUBSET Nat
  BY <1>1, <1>3 DEF Call
<1> QED
  BY <1>1, <1>2, <1>3, <1>4, <1>5 DEF Tried

\* The fields of a call that goes on to the next endpoint, and of one that is over.
Moved(c, v, o) == [c EXCEPT !.tried = v, !.offset = o, !.attempt = 0]
LEMMA MovedOn ==
  \A c \in Call, v \in SUBSET Nat, o \in Nat :
    /\ Moved(c, v, o) \in Call /\ Moved(c, v, o).at = c.at /\ Moved(c, v, o).start = c.start
    /\ Moved(c, v, o).offset = o /\ Moved(c, v, o).tried = v
  BY DEF Moved, Call

LEMMA PassedRotates ==
  ASSUME PoolInv, NEW t \in Thread, rpc[t].at = "call"
  PROVE  Passed(t) \in Call /\ Rotates(Passed(t))
<1> DEFINE v == Visited(rpc[t].start, rpc[t].offset + 1, Size)
<1>1. /\ Size \in Nat /\ Size > 0 /\ rpc[t] \in Call
      /\ rpc[t].start \in 0..(Size - 1) /\ rpc[t].offset \in 0..(Size - 1)
      /\ Tried(t) = [rpc[t] EXCEPT !.tried = v] /\ v \in SUBSET Nat
  BY TriedCall
<1>2. CASE rpc[t].offset + 1 < Size
  <2>1. Passed(t) = [rpc[t] EXCEPT !.tried = v, !.offset = rpc[t].offset + 1, !.attempt = 0]
    BY <1>1, <1>2 DEF Passed, Call
  <2> HIDE DEF v
  <2>5. rpc[t].offset + 1 \in Nat
    BY <1>1
  <2>2. /\ Passed(t) \in Call /\ Passed(t).at = rpc[t].at /\ Passed(t).start = rpc[t].start
        /\ Passed(t).offset = rpc[t].offset + 1 /\ Passed(t).tried = v
    <3> DEFINE c == rpc[t]
               o == rpc[t].offset + 1
    <3>1. c \in Call /\ v \in SUBSET Nat /\ o \in Nat
      BY <1>1, <2>5
    <3>2. Passed(t) = Moved(c, v, o)
      BY <2>1 DEF Moved
    <3> HIDE DEF c, o
    <3>3. /\ Passed(t) \in Call /\ Passed(t).at = c.at /\ Passed(t).start = c.start
          /\ Passed(t).offset = o /\ Passed(t).tried = v
      BY <3>1, <3>2, MovedOn
    <3> QED
      BY <3>3 DEF c, o
  <2>3. /\ Passed(t).start = rpc[t].start /\ Passed(t).offset = rpc[t].offset + 1
        /\ Passed(t).tried = v /\ Passed(t).at = "call"
    BY <2>2
  <2>4. v = Visited(Passed(t).start, Passed(t).offset, Size)
    BY <2>3 DEF v
  <2> QED
    BY <1>1, <1>2, <2>2, <2>3, <2>4 DEF Rotates
<1>3. CASE ~(rpc[t].offset + 1 < Size)
  <2>1. Passed(t) = [rpc[t] EXCEPT !.tried = v, !.at = "exhausted"]
    BY <1>1, <1>3 DEF Passed, Call
  <2>2. v = 0..(Size - 1)
    <3>1. rpc[t].offset + 1 = Size
      BY <1>1, <1>3
    <3> QED
      BY <1>1, <3>1, VisitedAll
  <2> HIDE DEF v
  <2> QED
    BY <1>1, <2>1, <2>2 DEF Call, Rotates
<1> QED
  BY <1>2, <1>3

\* A call starts from a position of the pool and has tried nothing.
LEMMA CallingRotates ==
  ASSUME Size \in Nat, Size > 0, sticky \in Nat, NEW b \in Job \cup {NoBlock},
         NEW part \in {"header", "receipts"}
  PROVE  Calling("raw", b, part) \in Call /\ Rotates(Calling("raw", b, part))
<1>1. sticky % Size \in 0..(Size - 1)
  BY RemainderRange
<1>2. Calling("raw", b, part) = [at |-> "call", kind |-> "raw", block |-> b, part |-> part,
         start |-> sticky % Size, offset |-> 0, attempt |-> 0, tried |-> {}]
  BY DEF Calling
<1>3. Calling("raw", b, part) \in Call
  BY <1>1, <1>2 DEF Call
<1>4. Visited(sticky % Size, 0, Size) = {}
  BY VisitedNone
<1> QED
  <2> DEFINE c == Calling("raw", b, part)
  <2>1. /\ c.at = "call" /\ c.start < Size /\ c.offset = 0
        /\ c.tried = Visited(c.start, c.offset, Size)
    BY <1>1, <1>2, <1>4
  <2>2. c \in Call
    BY <1>3
  <2> HIDE DEF c
  <2>3. Rotates(c)
    BY <2>1 DEF Rotates
  <2> QED
    BY <2>2, <2>3 DEF c

-----------------------------------------------------------------------------
(* The invariant.                                                            *)

LEMMA FetchStart == FetchInit => PoolInv
  BY RestCall DEF FetchInit, PoolInv, Size

\* A pool of no endpoint is the only one without a first.
LEMMA PoolSeq == ASSUME NEW q \in Pools PROVE q \in Seq(Endpoint) /\ (q # <<>> => Len(q) > 0)
<1>1. PICK n \in 0..Cardinality(Endpoint) : q \in [1..n -> Endpoint]
  BY DEF Pools
<1>2. q \in Seq(Endpoint)
  <2>1. n \in Nat
    OBVIOUS
  <2> QED
    BY <1>1, <2>1
<1> QED
  BY <1>2

LEMMA ConnectKeeps == ASSUME PoolInv, Connect PROVE PoolInv'
<1>1. PICK q \in Pools :
        /\ pool' = q
        /\ IF q = <<>> THEN phase' = "failed" /\ UNCHANGED rpc
           ELSE phase' = "tip" /\ Sets(Main, [Rest EXCEPT !.at = "call", !.kind = "eth"])
  BY DEF Connect
<1>2. phase = "connect" /\ sticky' = sticky /\ waiting' = waiting /\ waiting = {}
      /\ \A t \in Thread : rpc[t].at = "rest"
  BY DEF Connect, PoolInv
<1>3. q \in Seq(Endpoint) /\ Main \in Thread
  BY PoolSeq DEF Thread
<1>4. CASE q = <<>>
  BY <1>1, <1>2, <1>3, <1>4 DEF PoolInv, Rotates
<1>5. CASE q # <<>>
  <2>1. Size' = Len(q) /\ Size' > 0 /\ Size' \in Nat
    BY <1>1, <1>3, <1>5, PoolSeq DEF Size
  <2> DEFINE c == [Rest EXCEPT !.at = "call", !.kind = "eth"]
  <2>2. c \in Call /\ c.at = "call" /\ c.start = 0 /\ c.offset = 0 /\ c.tried = {}
    BY DEF Rest, Call, NoBlock
  <2> HIDE DEF c
  <2>3. rpc' \in [Thread -> Call] /\ rpc'[Main] = c
        /\ \A t \in Thread : t # Main => rpc'[t] = rpc[t]
    BY <1>1, <1>3, <1>5, <2>2, OneCall DEF PoolInv, c
  <2>4. Rotates(c)'
    <3>1. {} = Visited(0, 0, Size')
      BY VisitedNone
    <3> QED
      BY <2>1, <2>2, <3>1 DEF Rotates
  <2>5. ASSUME NEW t \in Thread PROVE Rotates(rpc[t])'
    BY <1>2, <2>3, <2>4, <2>5 DEF Rotates
  <2> QED
    BY <1>1, <1>2, <1>3, <1>5, <2>1, <2>3, <2>5 DEF PoolInv
<1> QED
  BY <1>4, <1>5

LEMMA CallSteps ==
  ASSUME PoolInv, NEW t \in Thread,
         Busy(t) \/ Refused(t) \/ Unreachable(t) \/ Garbled(t) \/ Answers(t) \/ AskReceipts(t) \/ Take(t)
  PROVE  PoolInv'
<1>1. rpc[t] \in Call /\ rpc \in [Thread -> Call] /\ Size \in Nat /\ sticky \in Nat
      /\ Rotates(rpc[t]) /\ pool' = pool
  BY DEF PoolInv, Size, Busy, Refused, Unreachable, Garbled, Answers, AskReceipts, Take
<1>2. ASSUME rpc[t].at # "rest" PROVE phase # "connect"
  BY <1>2 DEF PoolInv
<1>3. ASSUME rpc[t].at = "call", NextEndpoint(t), UNCHANGED <<phase, sticky, waiting>> PROVE PoolInv'
  <2>1. Sets(t, Passed(t))
    BY <1>3 DEF NextEndpoint, Passed
  <2> QED
    BY <1>1, <1>2, <1>3, <2>1, PassedRotates, CallKeeps DEF PoolInv
<1>4. CASE Busy(t)
  <2>1. CASE rpc[t].attempt + 1 < Attempts
    <3> DEFINE c == [rpc[t] EXCEPT !.attempt = rpc[t].attempt + 1]
    <3>1. c \in Call /\ c.at = rpc[t].at /\ c.start = rpc[t].start /\ c.offset = rpc[t].offset
          /\ c.tried = rpc[t].tried /\ c.kind = rpc[t].kind
      BY <1>1 DEF Call
    <3>2. Sets(t, c)
      BY <1>4, <2>1 DEF Busy
    <3> HIDE DEF c
    <3>3. Rotates(c)
      BY <1>1, <3>1 DEF Rotates
    <3> QED
      BY <1>1, <1>2, <1>4, <3>1, <3>2, <3>3, CallKeeps DEF Busy, PoolInv
  <2>2. CASE ~(rpc[t].attempt + 1 < Attempts)
    BY <1>3, <1>4, <2>2 DEF Busy
  <2> QED
    BY <2>1, <2>2
<1>5. CASE Refused(t)
  BY <1>3, <1>5 DEF Refused
<1>3a. ASSUME rpc[t].at = "call", Raises(t), UNCHANGED <<phase, sticky, waiting>> PROVE PoolInv'
  <2> DEFINE v == Visited(rpc[t].start, rpc[t].offset + 1, Size)
  <2>1. Tried(t) = [rpc[t] EXCEPT !.tried = v] /\ v \in SUBSET Nat /\ Size > 0
    BY <1>3a, TriedCall
  <2> HIDE DEF v
  <2> DEFINE c == [Tried(t) EXCEPT !.at = "raised"]
  <2>2. c \in Call /\ c.at = "raised"
    BY <1>1, <2>1 DEF Call
  <2>3. Sets(t, c)
    BY <1>3a DEF Raises
  <2> HIDE DEF c
  <2>4. Rotates(c)
    BY <2>1, <2>2 DEF Rotates
  <2> QED
    BY <1>1, <1>2, <1>3a, <2>2, <2>3, <2>4, CallKeeps DEF PoolInv
<1>6. CASE Unreachable(t) \/ Garbled(t)
  BY <1>3, <1>6, <1>3a DEF Unreachable, Garbled
<1>7. CASE Answers(t)
  <2>1. Position(t) \in Nat /\ Size > 0 /\ sticky' = Position(t) /\ phase # "connect"
    BY <1>2, <1>7, TriedCall DEF Answers
  <2>2. CASE rpc[t].kind = "eth"
    <3>1. phase' = "batch" /\ waiting' = Job /\ Sets(t, Rest)
      BY <1>7, <2>2 DEF Answers
    <3> QED
      BY <1>1, <2>1, <3>1, RestCall, CallKeeps
  <2>3. CASE rpc[t].kind # "eth" /\ rpc[t].part = "header"
    <3> DEFINE c == [Rest EXCEPT !.at = "between", !.block = rpc[t].block]
    <3>1. Sets(t, c) /\ phase' = phase /\ waiting' = waiting
      BY <1>1, <1>7, <2>3 DEF Answers, Call
    <3>2. c \in Call /\ c.at = "between"
      BY <1>1 DEF Rest, Call
    <3> HIDE DEF c
    <3>3. Rotates(c)
      BY <2>1, <3>2 DEF Rotates
    <3> QED
      BY <1>1, <2>1, <3>1, <3>2, <3>3, CallKeeps DEF PoolInv
  <2>4. CASE rpc[t].kind # "eth" /\ rpc[t].part # "header"
    <3>1. Sets(t, Rest) /\ phase' = phase /\ waiting' = waiting
      BY <1>1, <1>7, <2>4 DEF Answers, Call
    <3> QED
      BY <1>1, <2>1, <3>1, RestCall, CallKeeps DEF PoolInv
  <2> QED
    BY <2>2, <2>3, <2>4
<1>8. CASE AskReceipts(t)
  <2>1. Size > 0 /\ rpc[t].block \in Job \cup {NoBlock} /\ phase # "connect"
    BY <1>1, <1>2, <1>8 DEF AskReceipts, Rotates, Call
  <2> DEFINE c == Calling("raw", rpc[t].block, "receipts")
  <2>2. c \in Call /\ Rotates(c)
    BY <1>1, <2>1, CallingRotates
  <2>3. Sets(t, c) /\ UNCHANGED <<phase, sticky, waiting>>
    BY <1>8 DEF AskReceipts
  <2> HIDE DEF c
  <2> QED
    BY <1>1, <2>1, <2>2, <2>3, CallKeeps DEF PoolInv
<1>9. CASE Take(t)
  <2>1. Size > 0 /\ phase = "batch" /\ waiting' \subseteq Job /\ waiting # {}
    BY <1>9 DEF Take, PoolInv
  <2>2. PICK b \in waiting : waiting' = waiting \ {b} /\ Sets(t, Calling("raw", b, "header"))
    BY <1>9 DEF Take
  <2> DEFINE c == Calling("raw", b, "header")
  <2>3. b \in Job \cup {NoBlock}
    BY DEF PoolInv
  <2>4. c \in Call /\ Rotates(c)
    BY <1>1, <2>1, <2>3, CallingRotates
  <2>5. Sets(t, c) /\ UNCHANGED <<phase, sticky>>
    BY <1>9, <2>2 DEF Take
  <2> HIDE DEF c
  <2> QED
    BY <1>1, <2>1, <2>4, <2>5, CallKeeps
<1> QED
  BY <1>4, <1>5, <1>6, <1>7, <1>8, <1>9

LEMMA PoolStep == ASSUME PoolInv, [FetchNext]_fvars PROVE PoolInv'
<1>1. CASE NextRun
  <2>1. \A t \in Thread : rpc'[t] = Rest
    BY <1>1 DEF NextRun
  <2>2. rpc' \in [Thread -> Call]
    BY <1>1, RestCall DEF NextRun
  <2>3. ASSUME NEW t \in Thread PROVE Rotates(rpc[t])'
    BY <2>1, RestCall DEF Rotates
  <2> QED
    BY <1>1, <2>1, <2>2, <2>3, RestCall DEF NextRun, PoolInv
<1>2. CASE Abort \/ AddReady \/ SendBatch
  <2>1. /\ UNCHANGED <<pool, sticky, rpc>> /\ phase \in {"tip", "batch"}
        /\ waiting' = {} \/ (waiting' = waiting /\ phase' = phase)
        /\ phase' = phase \/ phase' \in {"applied", "failed"}
    BY <1>2 DEF Abort, AddReady, SendBatch, AllAdded
  <2>2. Size' = Size
    BY <2>1 DEF Size
  <2>3. ASSUME NEW t \in Thread PROVE Rotates(rpc[t])'
    BY <2>1, <2>2 DEF PoolInv, Rotates
  <2> QED
    BY <2>1, <2>2, <2>3 DEF PoolInv
<1>3. CASE UNCHANGED fvars
  BY <1>3 DEF fvars, PoolInv, Rotates, Size
<1> QED
  BY <1>1, <1>2, <1>3, ConnectKeeps, CallSteps DEF FetchNext

\* A call asks no endpoint that it has given up, and one that ends on the last endpoint's
\* error has tried the whole pool, whatever other threads did to the shared index
\* meanwhile (worker.py:286-351, rollup.py:96-121).
THEOREM WholePoolTried == FetchSpec => []EveryEndpointTried
<1>1. PoolInv => EveryEndpointTried
  <2> SUFFICES ASSUME PoolInv, NEW t \in Thread
               PROVE  /\ rpc[t].at = "call" => Position(t) \notin rpc[t].tried
                      /\ rpc[t].at = "exhausted" => rpc[t].tried = 0..(Size - 1)
    BY DEF EveryEndpointTried
  <2>1. Rotates(rpc[t])
    BY DEF PoolInv
  <2>2. ASSUME rpc[t].at = "call" PROVE Position(t) \notin rpc[t].tried
    <3>1. Size \in Nat /\ rpc[t].start \in 0..(Size - 1) /\ rpc[t].offset \in 0..(Size - 1)
      BY <2>2, TriedCall
    <3>2. (rpc[t].start + rpc[t].offset) % Size \notin Visited(rpc[t].start, rpc[t].offset, Size)
      BY <3>1, VisitedNew
    <3> QED
      BY <2>1, <2>2, <3>2 DEF Rotates, Position
  <2> QED
    BY <2>1, <2>2 DEF Rotates
<1> QED
  BY <1>1, FetchStart, PoolStep, PTL DEF FetchSpec

-----------------------------------------------------------------------------
(* One batch, for any blocks, transactions and threads.  What the            *)
(* accumulator holds is exact for the blocks that were added, and a block    *)
(* waits, is fetched by one thread, is ready, or was added.                  *)

\* The logs of the transaction at a place that a counter counts.
LogsAt(k, p) == {log \in LogsOf(TxAt(p)) : Counted(log) /\ k \in LogCounters(DayOn(p), log)}

\* What adds one to a counter, among some blocks S and some transactions P.
BlocksFor(k, S) == {b \in S : k = <<"blocks", DayOfBlock[b]>>}
TxsFor(k, P) == {p \in P : k \in TxCounters(DayOn(p), TxAt(p))}
LogsFor(k, P) == UNION {{p} \X LogsAt(k, p) : p \in P}

SendersOf(P) == {<<DayOn(p), TxAt(p).from>> : p \in {q \in P : Recorded(DayOn(q), TxAt(q))}}
UsersOf(P) == {<<DayOn(p), TxAt(p).to, TxAt(p).from>> :
                 p \in {q \in P : Recorded(DayOn(q), TxAt(q)) /\ TxAt(q).to \in Tracked}}

\* An accumulator to which exactly the blocks S and the transactions P were added.
Exact(a, S, P) ==
  /\ IsABag(a.counts)
  /\ \A k : /\ IsFiniteSet(LogsFor(k, P))
            /\ Copies(k, a.counts) =
                 Cardinality(BlocksFor(k, S)) + Cardinality(TxsFor(k, P)) + Cardinality(LogsFor(k, P))
  /\ a.senders = SendersOf(P) /\ a.users = UsersOf(P)

PlacedIn(S) == UNION {{b} \X DOMAIN Txs[b] : b \in S}

-----------------------------------------------------------------------------
(* Bags.                                                                     *)

LEMMA CopiesAdd ==
  ASSUME NEW A, NEW B, IsABag(A), IsABag(B)
  PROVE  /\ IsABag(A (+) B)
         /\ \A k : /\ Copies(k, A (+) B) = Copies(k, A) + Copies(k, B)
                   /\ Copies(k, A) \in Nat
  BY DEF IsABag, Copies, BagIn, BagToSet, (+)

LEMMA CopiesSet ==
  ASSUME NEW S
  PROVE  /\ IsABag(SetToBag(S))
         /\ \A k : Copies(k, SetToBag(S)) = IF k \in S THEN 1 ELSE 0
  BY DEF IsABag, SetToBag, Copies, BagIn, BagToSet

LEMMA NoCopies == \A k : Copies(k, EmptyBag) = 0
  BY DEF EmptyBag, SetToBag, Copies, BagIn, BagToSet

-----------------------------------------------------------------------------
(* One transaction.                                                          *)

LEMMA BatchFacts ==
  /\ IsFiniteSet(Job) /\ Job \subseteq Nat \ {0}
  /\ \A b \in Job : /\ Txs[b] \in Seq(Receipt) /\ DayOfBlock[b] \in Int
                    /\ Len(Txs[b]) \in Nat /\ DOMAIN Txs[b] = 1..Len(Txs[b])
  BY FetchAssumption

LEMMA PlacedFacts ==
  ASSUME NEW p \in Placed
  PROVE  /\ p[1] \in Job /\ p[2] \in DOMAIN Txs[p[1]] /\ p = <<p[1], p[2]>>
         /\ TxAt(p) \in Receipt /\ DayOn(p) \in Int
  BY BatchFacts DEF Placed, TxAt, DayOn

LEMMA LogsFinite == \A tx \in Receipt : IsFiniteSet(LogsOf(tx))
<1> SUFFICES ASSUME NEW tx \in Receipt PROVE IsFiniteSet(LogsOf(tx))
  OBVIOUS
<1> DEFINE n == Len(tx.moves)
           kinds == {"usdc", "eurc", "usyc", "native", "mint", "other", "system", "erc20"}
<1>1. tx.moves \in Seq(Move) /\ n \in Nat /\ DOMAIN tx.moves = 1..n
  BY DEF Receipt
<1>2. \A i \in 1..n : tx.moves[i] \in kinds
  BY <1>1 DEF Move, Token
<1>3. LogsOf(tx) \subseteq (1..n) \X kinds
  BY <1>1, <1>2 DEF LogsOf
<1>4. IsFiniteSet(1..n)
  <2>1. 1 \in Int /\ n \in Int
    BY <1>1
  <2> QED
    BY <2>1, FS_Interval
<1>5. IsFiniteSet(kinds)
  <2>1. \A x, y : IsFiniteSet({x, y})
    <3>1. \A x : IsFiniteSet({x})
      BY FS_Singleton
    <3>2. \A x, y : IsFiniteSet({x} \cup {y})
      BY <3>1, FS_AddElement
    <3> SUFFICES ASSUME NEW x, NEW y PROVE IsFiniteSet({x, y})
      OBVIOUS
    <3>3. {x, y} = {x} \cup {y}
      OBVIOUS
    <3>4. IsFiniteSet({x} \cup {y})
      BY <3>2
    <3> QED
      BY <3>3, <3>4
  <2>2. \A S, T : IsFiniteSet(S) /\ IsFiniteSet(T) => IsFiniteSet(S \cup T)
    BY FS_Union
  <2>3. kinds = ({"usdc", "eurc"} \cup {"usyc", "native"}) \cup ({"mint", "other"} \cup {"system", "erc20"})
    OBVIOUS
  <2>4. IsFiniteSet({"usdc", "eurc"} \cup {"usyc", "native"}) /\ IsFiniteSet({"mint", "other"} \cup {"system", "erc20"})
    BY <2>1, <2>2
  <2> HIDE DEF kinds
  <2> QED
    BY <2>2, <2>3, <2>4
<1> HIDE DEF n, kinds
<1> QED
  BY <1>3, <1>4, <1>5, FS_Product, FS_Subset

LEMMA CountsOfOne ==
  ASSUME NEW p \in Placed
  PROVE  /\ IsABag(CountsOf(DayOn(p), TxAt(p)))
         /\ \A k : /\ IsFiniteSet(LogsAt(k, p)) /\ Cardinality(LogsAt(k, p)) \in Nat
                   /\ Copies(k, CountsOf(DayOn(p), TxAt(p))) =
                        (IF k \in TxCounters(DayOn(p), TxAt(p)) THEN 1 ELSE 0) + Cardinality(LogsAt(k, p))
<1> DEFINE d == DayOn(p)
           tx == TxAt(p)
           counted == {l \in LogsOf(tx) : Counted(l)}
           keys == UNION {LogCounters(d, log) : log \in counted}
           bag == [key \in keys |-> Cardinality(LogsAt(key, p))]
<1>1. IsFiniteSet(LogsOf(tx))
  BY LogsFinite, PlacedFacts
<1>2. \A k : IsFiniteSet(LogsAt(k, p)) /\ Cardinality(LogsAt(k, p)) \in Nat
  BY <1>1, FS_Subset, FS_CardinalityType DEF LogsAt
<1>3. \A k \in keys : LogsAt(k, p) # {}
  BY DEF LogsAt
<1>4. \A k : k \notin keys => LogsAt(k, p) = {}
  BY DEF LogsAt
<1>5. CountsOf(d, tx) = SetToBag(TxCounters(d, tx)) (+) bag
  BY DEF CountsOf, LogsAt
<1>6. \A k \in keys : Cardinality(LogsAt(k, p)) \in Nat /\ Cardinality(LogsAt(k, p)) > 0
  BY <1>2, <1>3, FS_EmptySet
<1> HIDE DEF keys
<1>7. IsABag(bag) /\ \A k : Copies(k, bag) = Cardinality(LogsAt(k, p))
  <2>1. IsABag(bag)
    BY <1>6 DEF IsABag
  <2>2. \A k : k \notin keys => Cardinality(LogsAt(k, p)) = 0
    BY <1>4, FS_EmptySet
  <2> QED
    BY <2>1, <2>2 DEF Copies, BagIn, BagToSet
<1> HIDE DEF bag, d, tx
<1>8. IsABag(SetToBag(TxCounters(d, tx)))
  BY CopiesSet
<1>9. /\ IsABag(CountsOf(d, tx))
      /\ \A k : Copies(k, CountsOf(d, tx)) = Copies(k, SetToBag(TxCounters(d, tx))) + Copies(k, bag)
  BY <1>5, <1>7, <1>8, CopiesAdd
<1> QED
  BY <1>2, <1>7, <1>9, CopiesSet DEF d, tx

\* A transaction that was not added yet.
LEMMA AddsReceipt ==
  ASSUME NEW S \in SUBSET Job, NEW P \in SUBSET Placed, NEW p \in Placed \ P, IsFiniteSet(P),
         NEW a, Exact(a, S, P)
  PROVE  Exact(AddReceipt(a, DayOn(p), TxAt(p)), S, P \cup {p})
<1> DEFINE d == DayOn(p)
           tx == TxAt(p)
           b == AddReceipt(a, d, tx)
           Q == P \cup {p}
<1>1. /\ b.counts = a.counts (+) CountsOf(d, tx)
      /\ b.senders = a.senders \cup (IF Recorded(d, tx) THEN {<<d, tx.from>>} ELSE {})
      /\ b.users = a.users \cup (IF Recorded(d, tx) /\ tx.to \in Tracked
                                 THEN {<<d, tx.to, tx.from>>} ELSE {})
  BY DEF AddReceipt
<1>2. IsABag(a.counts) /\ IsABag(CountsOf(d, tx))
  BY CountsOfOne DEF Exact
<1>3. IsABag(b.counts) /\ \A k : Copies(k, b.counts) = Copies(k, a.counts) + Copies(k, CountsOf(d, tx))
  BY <1>1, <1>2, CopiesAdd
<1>4. b.senders = SendersOf(Q)
  BY <1>1 DEF Exact, SendersOf
<1>5. b.users = UsersOf(Q)
  BY <1>1 DEF Exact, UsersOf
<1>6. ASSUME NEW k
      PROVE  /\ IsFiniteSet(LogsFor(k, Q))
             /\ Copies(k, b.counts) =
                  Cardinality(BlocksFor(k, S)) + Cardinality(TxsFor(k, Q)) + Cardinality(LogsFor(k, Q))
  <2>1. IsFiniteSet(TxsFor(k, P)) /\ p \notin TxsFor(k, P)
    BY FS_Subset DEF TxsFor
  <2>2. Cardinality(TxsFor(k, P)) \in Nat
    BY <2>1, FS_CardinalityType
  <2>3. Cardinality(TxsFor(k, Q)) = Cardinality(TxsFor(k, P)) + (IF k \in TxCounters(d, tx) THEN 1 ELSE 0)
    <3>1. CASE k \in TxCounters(d, tx)
      <4>1. TxsFor(k, Q) = TxsFor(k, P) \cup {p}
        BY <3>1 DEF TxsFor
      <4> QED
        BY <2>1, <3>1, <4>1, FS_AddElement
    <3>2. CASE k \notin TxCounters(d, tx)
      <4>1. TxsFor(k, Q) = TxsFor(k, P)
        BY <3>2 DEF TxsFor
      <4> QED
        BY <2>2, <3>2, <4>1
    <3> QED
      BY <3>1, <3>2
  <2>4. IsFiniteSet(LogsFor(k, P)) /\ Cardinality(LogsFor(k, P)) \in Nat
    BY FS_CardinalityType DEF Exact
  <2>5. /\ IsFiniteSet(LogsFor(k, Q))
        /\ Cardinality(LogsFor(k, Q)) = Cardinality(LogsFor(k, P)) + Cardinality(LogsAt(k, p))
    <3> DEFINE mine == {p} \X LogsAt(k, p)
    <3>1. LogsFor(k, Q) = LogsFor(k, P) \cup mine
      BY DEF LogsFor
    <3>2. LogsFor(k, P) \cap mine = {}
      BY DEF LogsFor
    <3>3. IsFiniteSet({p}) /\ Cardinality({p}) = 1
      BY FS_Singleton
    <3>4. IsFiniteSet(mine) /\ Cardinality(mine) = 1 * Cardinality(LogsAt(k, p))
      BY <3>3, CountsOfOne, FS_Product
    <3>5. Cardinality(LogsAt(k, p)) \in Nat
      BY CountsOfOne
    <3> HIDE DEF mine
    <3>6. Cardinality(LogsFor(k, P) \cap mine) = 0
      BY <3>2, FS_EmptySet
    <3>7. /\ IsFiniteSet(LogsFor(k, P) \cup mine)
          /\ Cardinality(LogsFor(k, P) \cup mine) =
               Cardinality(LogsFor(k, P)) + Cardinality(mine) - Cardinality(LogsFor(k, P) \cap mine)
      BY <2>4, <3>4, FS_Union
    <3>8. Cardinality(mine) = Cardinality(LogsAt(k, p))
      BY <3>4, <3>5
    <3>9. IsFiniteSet(LogsFor(k, Q)) /\ LogsFor(k, Q) = LogsFor(k, P) \cup mine
      BY <3>1, <3>7
    <3> HIDE DEF Q
    <3> QED
      BY <2>4, <3>5, <3>6, <3>7, <3>8, <3>9
  <2>6. Copies(k, CountsOf(d, tx)) = (IF k \in TxCounters(d, tx) THEN 1 ELSE 0) + Cardinality(LogsAt(k, p))
        /\ Cardinality(LogsAt(k, p)) \in Nat
    BY CountsOfOne
  <2>7. Copies(k, a.counts) =
          Cardinality(BlocksFor(k, S)) + Cardinality(TxsFor(k, P)) + Cardinality(LogsFor(k, P))
    BY DEF Exact
  <2>8. Cardinality(BlocksFor(k, S)) \in Nat
    <3>1. IsFiniteSet(BlocksFor(k, S))
      BY BatchFacts, FS_Subset DEF BlocksFor
    <3> QED
      BY <3>1, FS_CardinalityType
  <2>9. Copies(k, b.counts) = Copies(k, a.counts) + Copies(k, CountsOf(d, tx))
    BY <1>3
  <2> HIDE DEF b, d, tx, Q
  <2> QED
    BY <2>2, <2>3, <2>4, <2>5, <2>6, <2>7, <2>8, <2>9
<1> HIDE DEF b, Q
<1>7. Exact(b, S, Q)
  BY <1>3, <1>4, <1>5, <1>6 DEF Exact
<1> QED
  BY <1>7 DEF b, Q

-----------------------------------------------------------------------------
(* One block.                                                                *)

LEMMA PlacedInFacts ==
  ASSUME NEW S \in SUBSET Job
  PROVE  PlacedIn(S) \subseteq Placed /\ IsFiniteSet(PlacedIn(S))
         /\ \A p \in PlacedIn(S) : p[1] \in S
<1>1. PlacedIn(S) \subseteq Placed /\ \A p \in PlacedIn(S) : p[1] \in S
  BY DEF PlacedIn, Placed
<1>2. \A b \in Job : IsFiniteSet({b} \X DOMAIN Txs[b])
  <2> SUFFICES ASSUME NEW b \in Job PROVE IsFiniteSet({b} \X DOMAIN Txs[b])
    OBVIOUS
  <2>1. Len(Txs[b]) \in Int /\ 1 \in Int /\ DOMAIN Txs[b] = 1..Len(Txs[b])
    BY BatchFacts
  <2>2. IsFiniteSet(DOMAIN Txs[b])
    BY <2>1, FS_Interval
  <2> QED
    BY <2>2, FS_Singleton, FS_Product
<1>3. IsFiniteSet({{b} \X DOMAIN Txs[b] : b \in S})
  <2> DEFINE T == {{b} \X DOMAIN Txs[b] : b \in S}
             f == [b \in S |-> {b} \X DOMAIN Txs[b]]
  <2>1. IsFiniteSet(S)
    BY BatchFacts, FS_Subset
  <2>2. f \in Surjection(S, T)
    BY DEF Surjection
  <2> HIDE DEF T, f
  <2>3. IsFiniteSet(T)
    BY <2>1, <2>2, FS_Surjection
  <2> QED
    BY <2>3 DEF T
<1>4. \A T \in {{b} \X DOMAIN Txs[b] : b \in S} : IsFiniteSet(T)
  BY <1>2
<1>5. IsFiniteSet(PlacedIn(S))
  BY <1>3, <1>4, FS_UNION DEF PlacedIn
<1> QED
  BY <1>1, <1>5

\* The recursion over the receipts of a block has a value.
Adding(f, m, s, d, t) == f = [n \in 0..m |-> IF n = 0 THEN s ELSE AddReceipt(f[n - 1], d, t[n])]
LEMMA ReceiptsAdded == \A s, d, t : \A m \in Nat : \E f : Adding(f, m, s, d, t)
<1> SUFFICES ASSUME NEW s, NEW d, NEW t PROVE \A m \in Nat : \E f : Adding(f, m, s, d, t)
  OBVIOUS
<1> USE DEF Adding
<1> DEFINE Has(m) == \E f : Adding(f, m, s, d, t)
           U == {m \in Nat : ~Has(m)}
<1> SUFFICES ASSUME U # {} PROVE FALSE
  OBVIOUS
<1>1. PICK m \in U : \A k \in U : m <= k
  <2>1. U \subseteq Nat
    OBVIOUS
  <2> HIDE DEF U
  <2> QED
    BY <2>1, LeastNumber
<1>2. CASE m = 0
  <2> DEFINE f == [n \in 0..0 |-> s]
  <2>1. f = [n \in 0..0 |-> IF n = 0 THEN s ELSE AddReceipt(f[n - 1], d, t[n])]
    OBVIOUS
  <2> QED
    BY <1>1, <1>2, <2>1
<1>3. CASE m # 0
  <2>1. m \in Nat /\ m - 1 \in Nat /\ m - 1 \notin U
    BY <1>1, <1>3
  <2>2. PICK f : f = [n \in 0..(m - 1) |-> IF n = 0 THEN s ELSE AddReceipt(f[n - 1], d, t[n])]
    BY <2>1
  <2> DEFINE g == [n \in 0..m |-> IF n = m THEN AddReceipt(f[m - 1], d, t[m]) ELSE f[n]]
             h == [n \in 0..m |-> IF n = 0 THEN s ELSE AddReceipt(g[n - 1], d, t[n])]
  <2>3. ASSUME NEW n \in 0..m PROVE g[n] = h[n]
    <3>1. CASE n = m
      <4>1. g[m - 1] = f[m - 1]
        BY <2>1
      <4> QED
        BY <1>3, <2>1, <3>1, <4>1
    <3>2. CASE n # m /\ n = 0
      BY <2>1, <2>2, <3>2
    <3>3. CASE n # m /\ n # 0
      <4>1. n \in 0..(m - 1) /\ n - 1 \in 0..m /\ n - 1 # m
        BY <2>1, <3>3
      <4>2. g[n] = f[n] /\ g[n - 1] = f[n - 1]
        BY <3>3, <4>1
      <4>3. f[n] = AddReceipt(f[n - 1], d, t[n])
        BY <2>2, <3>3, <4>1
      <4> QED
        BY <3>3, <4>2, <4>3
    <3> QED
      BY <3>1, <3>2, <3>3
  <2>4. g = h
    BY <2>3
  <2>5. Has(m)
    BY <2>4
  <2> QED
    BY <1>1, <2>5
<1> QED
  BY <1>2, <1>3

\* A block that was not added yet.
LEMMA AddsBlock ==
  ASSUME NEW S \in SUBSET Job, NEW b \in Job \ S, NEW a, Exact(a, S, PlacedIn(S))
  PROVE  Exact(AddBlock(a, b), S \cup {b}, PlacedIn(S \cup {b}))
<1> DEFINE d == DayOfBlock[b]
           m == Len(Txs[b])
           P == PlacedIn(S)
           first == [counts |-> a.counts (+) SetToBag({<<"blocks", d>>}),
                     senders |-> a.senders, users |-> a.users]
           Fold(f) == [n \in 0..m |-> IF n = 0 THEN first ELSE AddReceipt(f[n - 1], d, Txs[b][n])]
           after == CHOOSE f : f = Fold(f)
           Till(n) == P \cup ({b} \X (1..n))
<1>1. AddBlock(a, b) = after[m]
  BY DEF AddBlock
<1>2. m \in Nat /\ DOMAIN Txs[b] = 1..m
  BY BatchFacts
<1>3. after = Fold(after)
  <2>1. \E f : f = Fold(f)
    <3> HIDE DEF first, d, m
    <3>1. PICK f : Adding(f, m, first, d, Txs[b])
      BY <1>2, ReceiptsAdded
    <3> QED
      BY <3>1 DEF Adding
  <2> QED
    BY <2>1
<1> HIDE DEF after
<1>4. after[0] = first
  BY <1>2, <1>3
<1>5. \A n \in 1..m : after[n] = AddReceipt(after[n - 1], d, Txs[b][n])
  BY <1>2, <1>3
<1>6. Exact(first, S \cup {b}, P)
  <2>1. IsABag(a.counts) /\ IsABag(SetToBag({<<"blocks", d>>}))
    BY CopiesSet DEF Exact
  <2>2. /\ IsABag(first.counts)
        /\ \A k : Copies(k, first.counts) = Copies(k, a.counts) + (IF k = <<"blocks", d>> THEN 1 ELSE 0)
    BY <2>1, CopiesAdd, CopiesSet
  <2>3. ASSUME NEW k
        PROVE  /\ Cardinality(BlocksFor(k, S \cup {b})) =
                    Cardinality(BlocksFor(k, S)) + (IF k = <<"blocks", d>> THEN 1 ELSE 0)
               /\ Cardinality(BlocksFor(k, S)) \in Nat
    <3>1. IsFiniteSet(BlocksFor(k, S)) /\ b \notin BlocksFor(k, S)
      BY BatchFacts, FS_Subset DEF BlocksFor
    <3>2. Cardinality(BlocksFor(k, S)) \in Nat
      BY <3>1, FS_CardinalityType
    <3>3. BlocksFor(k, S \cup {b}) = BlocksFor(k, S) \cup (IF k = <<"blocks", d>> THEN {b} ELSE {})
      BY DEF BlocksFor
    <3> HIDE DEF d
    <3>4. CASE k = <<"blocks", d>>
      <4>1. BlocksFor(k, S \cup {b}) = BlocksFor(k, S) \cup {b}
        BY <3>3, <3>4
      <4>2. Cardinality(BlocksFor(k, S) \cup {b}) = Cardinality(BlocksFor(k, S)) + 1
        BY <3>1, FS_AddElement
      <4> QED
        BY <3>2, <3>4, <4>1, <4>2
    <3>5. CASE k # <<"blocks", d>>
      <4>1. BlocksFor(k, S \cup {b}) = BlocksFor(k, S)
        BY <3>3, <3>5
      <4> QED
        BY <3>2, <3>5, <4>1
    <3> QED
      BY <3>2, <3>4, <3>5
  <2>4. ASSUME NEW k
        PROVE  /\ IsFiniteSet(LogsFor(k, P))
               /\ Copies(k, first.counts) =
                    Cardinality(BlocksFor(k, S \cup {b})) + Cardinality(TxsFor(k, P)) + Cardinality(LogsFor(k, P))
    <3>1. /\ IsFiniteSet(LogsFor(k, P))
          /\ Copies(k, a.counts) =
               Cardinality(BlocksFor(k, S)) + Cardinality(TxsFor(k, P)) + Cardinality(LogsFor(k, P))
      BY DEF Exact
    <3>2. Copies(k, first.counts) = Copies(k, a.counts) + (IF k = <<"blocks", d>> THEN 1 ELSE 0)
      BY <2>2
    <3>3. Cardinality(TxsFor(k, P)) \in Nat /\ Cardinality(LogsFor(k, P)) \in Nat
      <4>1. IsFiniteSet(TxsFor(k, P))
        BY PlacedInFacts, FS_Subset DEF TxsFor
      <4> QED
        BY <3>1, <4>1, FS_CardinalityType
    <3>4. /\ Cardinality(BlocksFor(k, S \cup {b})) =
               Cardinality(BlocksFor(k, S)) + (IF k = <<"blocks", d>> THEN 1 ELSE 0)
          /\ Cardinality(BlocksFor(k, S)) \in Nat
      BY <2>3
    <3> HIDE DEF first, P, d
    <3>5. Copies(k, first.counts) =
            Cardinality(BlocksFor(k, S \cup {b})) + Cardinality(TxsFor(k, P)) + Cardinality(LogsFor(k, P))
      BY <3>1, <3>2, <3>3, <3>4
    <3> QED
      BY <3>1, <3>5
  <2>5. first.senders = SendersOf(P) /\ first.users = UsersOf(P)
    BY DEF Exact
  <2> HIDE DEF first, P
  <2> QED
    BY <2>2, <2>4, <2>5 DEF Exact
<1>7. \A n \in 0..m : Exact(after[n], S \cup {b}, Till(n))
  <2> DEFINE U == {n \in 0..m : ~Exact(after[n], S \cup {b}, Till(n))}
  <2> SUFFICES ASSUME U # {} PROVE FALSE
    OBVIOUS
  <2>1. PICK n \in U : \A k \in U : n <= k
    <3>1. U \subseteq Nat
      BY <1>2
    <3> HIDE DEF U
    <3> QED
      BY <3>1, LeastNumber
  <2>2. n # 0
    <3>1. Till(0) = P
      <4>1. 1..0 = {}
        OBVIOUS
      <4> HIDE DEF P
      <4> QED
        BY <4>1
    <3>2. Exact(after[0], S \cup {b}, Till(0))
      BY <1>4, <1>6, <3>1
    <3> HIDE DEF Till
    <3> QED
      BY <2>1, <3>2
  <2>3. n \in 1..m /\ n - 1 \in 0..m
    BY <1>2, <2>1, <2>2
  <2>4. Exact(after[n - 1], S \cup {b}, Till(n - 1))
    <3>1. n - 1 \notin U
      <4> HIDE DEF U
      <4>1. n \in Nat /\ n - 1 \in Nat /\ ~(n <= n - 1)
        BY <1>2, <2>3
      <4> QED
        BY <2>1, <4>1
    <3> HIDE DEF Till
    <3> QED
      BY <2>3, <3>1
  <2> DEFINE p == <<b, n>>
  <2>5. p \in Placed /\ DayOn(p) = d /\ TxAt(p) = Txs[b][n]
    BY <1>2, <2>3 DEF Placed, DayOn, TxAt
  <2>6. p \notin P /\ P \subseteq Placed /\ IsFiniteSet(P)
    BY PlacedInFacts
  <2>7. p \notin Till(n - 1) /\ Till(n) = Till(n - 1) \cup {p}
    <3> HIDE DEF P
    <3>1. 1..n = (1..(n - 1)) \cup {n} /\ n \notin 1..(n - 1)
      BY <1>2, <2>3
    <3> QED
      BY <2>6, <3>1
  <2>8. Till(n - 1) \in SUBSET Placed /\ IsFiniteSet(Till(n - 1))
    <3>1. {b} \X (1..(n - 1)) \subseteq Placed
      BY <1>2, <2>3 DEF Placed
    <3>2. n - 1 \in Int /\ 1 \in Int
      BY <1>2, <2>3
    <3>3. IsFiniteSet({b} \X (1..(n - 1)))
      BY <3>2, FS_Interval, FS_Singleton, FS_Product
    <3> HIDE DEF P
    <3> QED
      BY <2>6, <3>1, <3>3, FS_Union
  <2>9. S \cup {b} \in SUBSET Job /\ p \in Placed \ Till(n - 1)
    BY <2>5, <2>7
  <2> HIDE DEF p, Till
  <2>10. Exact(AddReceipt(after[n - 1], DayOn(p), TxAt(p)), S \cup {b}, Till(n - 1) \cup {p})
    BY <2>4, <2>8, <2>9, AddsReceipt
  <2>11. AddReceipt(after[n - 1], DayOn(p), TxAt(p)) = after[n]
    BY <1>5, <2>3, <2>5
  <2> QED
    BY <2>1, <2>7, <2>10, <2>11
<1>8. Till(m) = PlacedIn(S \cup {b})
  BY <1>2 DEF PlacedIn
<1>9. m \in 0..m
  BY <1>2
<1> HIDE DEF Till
<1> QED
  BY <1>1, <1>7, <1>8, <1>9

-----------------------------------------------------------------------------
(* The totals of the whole batch.                                            *)

\* The log that stands for a move: the system log of a USDC one.
MainLog(tx, i) == <<i, IF tx.moves[i] \in {"usdc", "native"} THEN "system" ELSE tx.moves[i]>>

LEMMA MainLogs ==
  ASSUME NEW tx \in Receipt
  PROVE  /\ \A i \in DOMAIN tx.moves : MainLog(tx, i) \in LogsOf(tx) /\ MainLog(tx, i)[1] = i
         /\ \A log \in LogsOf(tx) : Counted(log) => \E i \in DOMAIN tx.moves : log = MainLog(tx, i)
         /\ \A i \in DOMAIN tx.moves :
              /\ Counted(MainLog(tx, i)) <=> tx.moves[i] \in Token \cup {"native"}
              /\ tx.moves[i] \in Token \cup {"native"} =>
                   TokenOf(MainLog(tx, i)) = IF tx.moves[i] = "native" THEN "usdc" ELSE tx.moves[i]
<1>1. \A i \in DOMAIN tx.moves : tx.moves[i] \in Move
  BY DEF Receipt
<1>2. \A i \in DOMAIN tx.moves : MainLog(tx, i) \in LogsOf(tx) /\ MainLog(tx, i)[1] = i
  BY DEF LogsOf, MainLog
<1>3. ASSUME NEW log \in LogsOf(tx), Counted(log) PROVE \E i \in DOMAIN tx.moves : log = MainLog(tx, i)
  <2>1. PICK i \in DOMAIN tx.moves :
          log \in (CASE tx.moves[i] = "usdc"   -> {<<i, "system">>, <<i, "erc20">>}
                     [] tx.moves[i] = "native" -> {<<i, "system">>}
                     [] OTHER                  -> {<<i, tx.moves[i]>>})
    BY DEF LogsOf
  <2>2. log # <<i, "erc20">>
    BY <1>3 DEF Counted
  <2> QED
    BY <2>1, <2>2 DEF MainLog
<1>4. \A i \in DOMAIN tx.moves :
        /\ Counted(MainLog(tx, i)) <=> tx.moves[i] \in Token \cup {"native"}
        /\ tx.moves[i] \in Token \cup {"native"} =>
             TokenOf(MainLog(tx, i)) = IF tx.moves[i] = "native" THEN "usdc" ELSE tx.moves[i]
  BY <1>1 DEF MainLog, Counted, TokenOf, Token, Move
<1> QED
  BY <1>2, <1>3, <1>4

\* A counter that counts the moves of some kinds on a day counts each of them once.
LEMMA MovesCounted ==
  ASSUME NEW k, NEW d, NEW K,
         \A p \in Placed : \A i \in DOMAIN TxAt(p).moves :
           LET log == MainLog(TxAt(p), i)
           IN Counted(log) /\ k \in LogCounters(DayOn(p), log) <=> DayOn(p) = d /\ TxAt(p).moves[i] \in K,
         IsFiniteSet(LogsFor(k, Placed))
  PROVE  Cardinality(LogsFor(k, Placed)) = Cardinality(MovesOn(d, K))
<1> DEFINE T == LogsFor(k, Placed)
           M == MovesOn(d, K)
           f == [m \in M |-> <<m[1], MainLog(TxAt(m[1]), m[2])>>]
<1>1. \A m \in M : /\ m = <<m[1], m[2]>> /\ m[1] \in Placed /\ DayOn(m[1]) = d
                   /\ m[2] \in DOMAIN TxAt(m[1]).moves /\ TxAt(m[1]).moves[m[2]] \in K
  BY DEF MovesOn
<1>2. \A p \in Placed : \A i \in DOMAIN TxAt(p).moves :
        DayOn(p) = d /\ TxAt(p).moves[i] \in K => <<p, i>> \in M
  BY DEF MovesOn
<1>3. \A p \in Placed : \A log : log \in LogsAt(k, p) => <<p, log>> \in T
  BY DEF LogsFor
<1>4. \A x \in T : x = <<x[1], x[2]>> /\ x[1] \in Placed /\ x[2] \in LogsAt(k, x[1])
  BY DEF LogsFor
<1>5. \A p \in Placed : \A i \in DOMAIN TxAt(p).moves :
        DayOn(p) = d /\ TxAt(p).moves[i] \in K => MainLog(TxAt(p), i) \in LogsAt(k, p)
  BY PlacedFacts, MainLogs DEF LogsAt
<1>6. \A p \in Placed : \A log \in LogsAt(k, p) : \E i \in DOMAIN TxAt(p).moves :
        log = MainLog(TxAt(p), i) /\ DayOn(p) = d /\ TxAt(p).moves[i] \in K
  <2> SUFFICES ASSUME NEW p \in Placed, NEW log \in LogsAt(k, p)
               PROVE  \E i \in DOMAIN TxAt(p).moves :
                        log = MainLog(TxAt(p), i) /\ DayOn(p) = d /\ TxAt(p).moves[i] \in K
    OBVIOUS
  <2>1. log \in LogsOf(TxAt(p)) /\ Counted(log) /\ k \in LogCounters(DayOn(p), log)
    BY DEF LogsAt
  <2>2. PICK i \in DOMAIN TxAt(p).moves : log = MainLog(TxAt(p), i)
    BY <2>1, PlacedFacts, MainLogs
  <2> QED
    BY <2>1, <2>2
<1> HIDE DEF M, T
<1>7. f \in [M -> T]
  BY <1>1, <1>3, <1>5
<1>8. \A m, n \in M : f[m] = f[n] => m = n
  <2> SUFFICES ASSUME NEW m \in M, NEW n \in M, f[m] = f[n] PROVE m = n
    OBVIOUS
  <2>1. m[1] = n[1] /\ MainLog(TxAt(m[1]), m[2]) = MainLog(TxAt(n[1]), n[2])
    OBVIOUS
  <2>2. MainLog(TxAt(m[1]), m[2])[1] = m[2] /\ MainLog(TxAt(n[1]), n[2])[1] = n[2]
    BY <1>1, PlacedFacts, MainLogs
  <2> QED
    BY <1>1, <2>1, <2>2
<1>9. \A x \in T : \E m \in M : f[m] = x
  <2> SUFFICES ASSUME NEW x \in T PROVE \E m \in M : f[m] = x
    OBVIOUS
  <2>1. PICK i \in DOMAIN TxAt(x[1]).moves :
          x[2] = MainLog(TxAt(x[1]), i) /\ DayOn(x[1]) = d /\ TxAt(x[1]).moves[i] \in K
    BY <1>4, <1>6
  <2>2. <<x[1], i>> \in M
    BY <1>2, <1>4, <2>1
  <2>3. f[<<x[1], i>>] = x
    BY <1>4, <2>1, <2>2
  <2> QED
    BY <2>2, <2>3
<1> HIDE DEF f
<1>10. f \in Injection(M, T) /\ f \in Surjection(M, T)
  BY <1>7, <1>8, <1>9 DEF Injection, Surjection, IsInjective
<1>11. IsFiniteSet(T)
  BY DEF T
<1>12. Cardinality(M) = Cardinality(T)
  BY <1>10, <1>11, FS_Injection
<1> QED
  BY <1>12 DEF M, T

\* The keys of different counters differ.
LEMMA Counters ==
  ASSUME NEW d, NEW e, NEW tx
  PROVE  /\ <<"blocks", d>> \notin TxCounters(e, tx)
         /\ <<"tx", d>> \in TxCounters(e, tx) <=> e = d
         /\ <<"transfers", d>> \notin TxCounters(e, tx)
         /\ \A c : <<"token", d, c>> \notin TxCounters(e, tx)
         /\ \A c : c \notin {Creation, Sentinel} =>
              /\ <<"calls", d, c>> \in TxCounters(e, tx) <=> e = d /\ tx.to = c
              /\ <<"failures", d, c>> \in TxCounters(e, tx) <=> e = d /\ tx.to = c /\ tx.failed
<1>1. /\ <<"blocks", d>> \notin TxCounters(e, tx)
      /\ <<"transfers", d>> \notin TxCounters(e, tx)
      /\ \A c : <<"token", d, c>> \notin TxCounters(e, tx)
  BY DEF TxCounters
<1>2. <<"tx", d>> \in TxCounters(e, tx) <=> e = d
  BY DEF TxCounters
<1>3. ASSUME NEW c, c \notin {Creation, Sentinel}
      PROVE  /\ <<"calls", d, c>> \in TxCounters(e, tx) <=> e = d /\ tx.to = c
             /\ <<"failures", d, c>> \in TxCounters(e, tx) <=> e = d /\ tx.to = c /\ tx.failed
  BY <1>3 DEF TxCounters
<1> QED
  BY <1>1, <1>2, <1>3

LEMMA KeysOfLogs ==
  ASSUME NEW d, NEW e, NEW log
  PROVE  /\ <<"blocks", d>> \notin LogCounters(e, log) /\ <<"tx", d>> \notin LogCounters(e, log)
         /\ \A c : <<"calls", d, c>> \notin LogCounters(e, log) /\ <<"failures", d, c>> \notin LogCounters(e, log)
         /\ <<"transfers", d>> \in LogCounters(e, log) <=> e = d
         /\ \A c : <<"token", d, c>> \in LogCounters(e, log) <=> e = d /\ TokenOf(log) = c
  BY DEF LogCounters

\* A counter of transactions, of blocks, or of moves.
LEMMA OneKind ==
  ASSUME NEW a, Exact(a, Job, Placed), NEW k
  PROVE  /\ (\A p \in Placed : k \notin TxCounters(DayOn(p), TxAt(p))) /\ (\A p \in Placed : LogsAt(k, p) = {})
              => Copies(k, a.counts) = Cardinality(BlocksFor(k, Job))
         /\ (\A b \in Job : k # <<"blocks", DayOfBlock[b]>>) /\ (\A p \in Placed : LogsAt(k, p) = {})
              => Copies(k, a.counts) = Cardinality(TxsFor(k, Placed))
         /\ (\A b \in Job : k # <<"blocks", DayOfBlock[b]>>)
              /\ (\A p \in Placed : k \notin TxCounters(DayOn(p), TxAt(p)))
              => Copies(k, a.counts) = Cardinality(LogsFor(k, Placed))
<1>1. Copies(k, a.counts) =
        Cardinality(BlocksFor(k, Job)) + Cardinality(TxsFor(k, Placed)) + Cardinality(LogsFor(k, Placed))
      /\ IsFiniteSet(LogsFor(k, Placed))
  BY DEF Exact
<1>2. IsFiniteSet(Placed)
  <2>1. Placed = PlacedIn(Job)
    BY DEF Placed, PlacedIn
  <2> QED
    BY <2>1, PlacedInFacts
<1>3. IsFiniteSet(BlocksFor(k, Job)) /\ IsFiniteSet(TxsFor(k, Placed))
  BY <1>2, BatchFacts, FS_Subset DEF BlocksFor, TxsFor
<1>4. /\ Cardinality(BlocksFor(k, Job)) \in Nat /\ Cardinality(TxsFor(k, Placed)) \in Nat
      /\ Cardinality(LogsFor(k, Placed)) \in Nat
  BY <1>1, <1>3, FS_CardinalityType
<1>5. (\A b \in Job : k # <<"blocks", DayOfBlock[b]>>) => Cardinality(BlocksFor(k, Job)) = 0
  <2>1. (\A b \in Job : k # <<"blocks", DayOfBlock[b]>>) => BlocksFor(k, Job) = {}
    BY DEF BlocksFor
  <2> QED
    BY <2>1, FS_EmptySet
<1>6. (\A p \in Placed : k \notin TxCounters(DayOn(p), TxAt(p))) => Cardinality(TxsFor(k, Placed)) = 0
  <2>1. (\A p \in Placed : k \notin TxCounters(DayOn(p), TxAt(p))) => TxsFor(k, Placed) = {}
    BY DEF TxsFor
  <2> QED
    BY <2>1, FS_EmptySet
<1>7. (\A p \in Placed : LogsAt(k, p) = {}) => Cardinality(LogsFor(k, Placed)) = 0
  <2>1. (\A p \in Placed : LogsAt(k, p) = {}) => LogsFor(k, Placed) = {}
    BY DEF LogsFor
  <2> QED
    BY <2>1, FS_EmptySet
<1> QED
  BY <1>1, <1>4, <1>5, <1>6, <1>7

\* The counters of a day are those of the whole batch.
DayRight(counts, d) ==
  /\ Copies(<<"blocks", d>>, counts) = Cardinality({b \in Job : DayOfBlock[b] = d})
  /\ Copies(<<"tx", d>>, counts) = Cardinality({p \in Placed : DayOn(p) = d})
  /\ \A c \in Tracked \ {Sentinel} :
       /\ Copies(<<"calls", d, c>>, counts) = Cardinality({p \in Placed : DayOn(p) = d /\ TxAt(p).to = c})
       /\ Copies(<<"failures", d, c>>, counts) =
            Cardinality({p \in Placed : DayOn(p) = d /\ TxAt(p).to = c /\ TxAt(p).failed})
  /\ Copies(<<"transfers", d>>, counts) = Cardinality(MovesOn(d, Token \cup {"native"}))
  /\ Copies(<<"token", d, "usdc">>, counts) = Cardinality(MovesOn(d, {"usdc", "native"}))
  /\ \A c \in Token \ {"usdc"} : Copies(<<"token", d, c>>, counts) = Cardinality(MovesOn(d, {c}))

LEMMA CountsExact ==
  ASSUME NEW a, Exact(a, Job, Placed), NEW d
  PROVE  DayRight(a.counts, d)
<1>1. Copies(<<"blocks", d>>, a.counts) = Cardinality({b \in Job : DayOfBlock[b] = d})
  <2> DEFINE k == <<"blocks", d>>
  <2>1. BlocksFor(k, Job) = {b \in Job : DayOfBlock[b] = d}
    BY DEF BlocksFor
  <2>2. /\ \A p \in Placed : k \notin TxCounters(DayOn(p), TxAt(p))
        /\ \A p \in Placed : LogsAt(k, p) = {}
    <3>1. \A p \in Placed : k \notin TxCounters(DayOn(p), TxAt(p))
      BY Counters
    <3>2. \A p \in Placed : \A log : k \notin LogCounters(DayOn(p), log)
      BY KeysOfLogs
    <3> QED
      BY <3>1, <3>2 DEF LogsAt
  <2> HIDE DEF k
  <2>3. Copies(k, a.counts) = Cardinality(BlocksFor(k, Job))
    BY <2>2, OneKind
  <2> QED
    BY <2>1, <2>3 DEF k
<1>2. Copies(<<"tx", d>>, a.counts) = Cardinality({p \in Placed : DayOn(p) = d})
  <2> DEFINE k == <<"tx", d>>
  <2>1. TxsFor(k, Placed) = {p \in Placed : DayOn(p) = d}
    <3>1. \A p \in Placed : k \in TxCounters(DayOn(p), TxAt(p)) <=> DayOn(p) = d
      BY Counters
    <3> QED
      BY <3>1 DEF TxsFor
  <2>2. (\A b \in Job : k # <<"blocks", DayOfBlock[b]>>) /\ \A p \in Placed : LogsAt(k, p) = {}
    <3>1. \A p \in Placed : \A log : k \notin LogCounters(DayOn(p), log)
      BY KeysOfLogs
    <3>2. \A b \in Job : k # <<"blocks", DayOfBlock[b]>>
      OBVIOUS
    <3> QED
      BY <3>1, <3>2 DEF LogsAt
  <2> HIDE DEF k
  <2>3. Copies(k, a.counts) = Cardinality(TxsFor(k, Placed))
    BY <2>2, OneKind
  <2> QED
    BY <2>1, <2>3 DEF k
<1>3. ASSUME NEW c \in Tracked \ {Sentinel}
      PROVE  Copies(<<"calls", d, c>>, a.counts) = Cardinality({p \in Placed : DayOn(p) = d /\ TxAt(p).to = c})
  <2> DEFINE k == <<"calls", d, c>>
  <2>1. TxsFor(k, Placed) = {p \in Placed : DayOn(p) = d /\ TxAt(p).to = c}
    <3>1. \A p \in Placed : k \in TxCounters(DayOn(p), TxAt(p)) <=> DayOn(p) = d /\ TxAt(p).to = c
      <4>1. c \notin {Creation, Sentinel}
        BY FetchAssumption
      <4> QED
        BY <4>1, Counters
    <3> QED
      BY <3>1 DEF TxsFor
  <2>2. (\A b \in Job : k # <<"blocks", DayOfBlock[b]>>) /\ \A p \in Placed : LogsAt(k, p) = {}
    <3>1. \A p \in Placed : \A log : k \notin LogCounters(DayOn(p), log)
      BY KeysOfLogs
    <3>2. \A b \in Job : k # <<"blocks", DayOfBlock[b]>>
      OBVIOUS
    <3> QED
      BY <3>1, <3>2 DEF LogsAt
  <2> HIDE DEF k
  <2>3. Copies(k, a.counts) = Cardinality(TxsFor(k, Placed))
    BY <2>2, OneKind
  <2> QED
    BY <2>1, <2>3 DEF k
<1>4. ASSUME NEW c \in Tracked \ {Sentinel}
      PROVE  Copies(<<"failures", d, c>>, a.counts) =
               Cardinality({p \in Placed : DayOn(p) = d /\ TxAt(p).to = c /\ TxAt(p).failed})
  <2> DEFINE k == <<"failures", d, c>>
  <2>1. TxsFor(k, Placed) = {p \in Placed : DayOn(p) = d /\ TxAt(p).to = c /\ TxAt(p).failed}
    <3>1. \A p \in Placed : k \in TxCounters(DayOn(p), TxAt(p)) <=> DayOn(p) = d /\ TxAt(p).to = c /\ TxAt(p).failed
      <4>1. c \notin {Creation, Sentinel}
        BY FetchAssumption
      <4> QED
        BY <4>1, Counters
    <3> QED
      BY <3>1 DEF TxsFor
  <2>2. (\A b \in Job : k # <<"blocks", DayOfBlock[b]>>) /\ \A p \in Placed : LogsAt(k, p) = {}
    <3>1. \A p \in Placed : \A log : k \notin LogCounters(DayOn(p), log)
      BY KeysOfLogs
    <3>2. \A b \in Job : k # <<"blocks", DayOfBlock[b]>>
      OBVIOUS
    <3> QED
      BY <3>1, <3>2 DEF LogsAt
  <2> HIDE DEF k
  <2>3. Copies(k, a.counts) = Cardinality(TxsFor(k, Placed))
    BY <2>2, OneKind
  <2> QED
    BY <2>1, <2>3 DEF k
<1>5. ASSUME NEW k, NEW K, \A b \in Job : k # <<"blocks", DayOfBlock[b]>>,
             \A p \in Placed : k \notin TxCounters(DayOn(p), TxAt(p)),
             \A p \in Placed : \A i \in DOMAIN TxAt(p).moves :
               LET log == MainLog(TxAt(p), i)
               IN Counted(log) /\ k \in LogCounters(DayOn(p), log) <=> DayOn(p) = d /\ TxAt(p).moves[i] \in K
      PROVE  Copies(k, a.counts) = Cardinality(MovesOn(d, K))
  <2>1. Copies(k, a.counts) = Cardinality(LogsFor(k, Placed))
    BY <1>5, OneKind
  <2>2. IsFiniteSet(LogsFor(k, Placed))
    BY DEF Exact
  <2>3. Cardinality(LogsFor(k, Placed)) = Cardinality(MovesOn(d, K))
    BY <1>5, <2>2, MovesCounted
  <2> QED
    BY <2>1, <2>3
<1>6. Copies(<<"transfers", d>>, a.counts) = Cardinality(MovesOn(d, Token \cup {"native"}))
  <2> DEFINE k == <<"transfers", d>>
             K == Token \cup {"native"}
  <2>1. (\A b \in Job : k # <<"blocks", DayOfBlock[b]>>)
        /\ \A p \in Placed : k \notin TxCounters(DayOn(p), TxAt(p))
    BY Counters
  <2>2. \A p \in Placed : \A i \in DOMAIN TxAt(p).moves :
          LET log == MainLog(TxAt(p), i)
          IN Counted(log) /\ k \in LogCounters(DayOn(p), log) <=> DayOn(p) = d /\ TxAt(p).moves[i] \in K
    BY PlacedFacts, MainLogs, KeysOfLogs
  <2> HIDE DEF k, K
  <2>3. Copies(k, a.counts) = Cardinality(MovesOn(d, K))
    BY <1>5, <2>1, <2>2
  <2> QED
    BY <2>3 DEF k, K
<1>7. ASSUME NEW c \in Token, NEW K, K = IF c = "usdc" THEN {"usdc", "native"} ELSE {c}
      PROVE  Copies(<<"token", d, c>>, a.counts) = Cardinality(MovesOn(d, K))
  <2> DEFINE k == <<"token", d, c>>
  <2>1. (\A b \in Job : k # <<"blocks", DayOfBlock[b]>>)
        /\ \A p \in Placed : k \notin TxCounters(DayOn(p), TxAt(p))
    BY Counters
  <2>2. ASSUME NEW p \in Placed, NEW i \in DOMAIN TxAt(p).moves
        PROVE  LET log == MainLog(TxAt(p), i)
               IN Counted(log) /\ k \in LogCounters(DayOn(p), log) <=> DayOn(p) = d /\ TxAt(p).moves[i] \in K
    <3> DEFINE log == MainLog(TxAt(p), i)
               kind == TxAt(p).moves[i]
    <3>1. /\ Counted(log) <=> kind \in Token \cup {"native"}
          /\ kind \in Token \cup {"native"} => TokenOf(log) = IF kind = "native" THEN "usdc" ELSE kind
      BY PlacedFacts, MainLogs
    <3>2. k \in LogCounters(DayOn(p), log) <=> DayOn(p) = d /\ TokenOf(log) = c
      BY KeysOfLogs
    <3> HIDE DEF log, kind, k
    <3>3. kind \in K <=> kind \in Token \cup {"native"} /\ (IF kind = "native" THEN "usdc" ELSE kind) = c
      BY <1>7 DEF Token
    <3>4. Counted(log) /\ k \in LogCounters(DayOn(p), log) <=> DayOn(p) = d /\ kind \in K
      BY <3>1, <3>2, <3>3
    <3> QED
      BY <3>4 DEF log, kind
  <2> HIDE DEF k
  <2>3. Copies(k, a.counts) = Cardinality(MovesOn(d, K))
    BY <1>5, <2>1, <2>2
  <2> QED
    BY <2>3 DEF k
<1>8. Copies(<<"token", d, "usdc">>, a.counts) = Cardinality(MovesOn(d, {"usdc", "native"}))
  BY <1>7 DEF Token
<1>9. \A c \in Token \ {"usdc"} : Copies(<<"token", d, c>>, a.counts) = Cardinality(MovesOn(d, {c}))
  BY <1>7
<1> QED
  BY <1>1, <1>2, <1>3, <1>4, <1>6, <1>8, <1>9 DEF DayRight

-----------------------------------------------------------------------------
(* Where the blocks of a batch are.                                          *)

InFlight(c) == {c[t].block : t \in {u \in Fetcher : c[u].at # "rest"}}
AddedTo(c, w, r) == Job \ (w \cup r \cup InFlight(c))

\* While nothing has failed: the calls c, the blocks w that wait, the ready ones r and
\* the accumulator a share the batch out.
SharedOut(c, w, r, a) ==
  /\ c[Main].at = "rest"
  /\ w \subseteq Job /\ r \subseteq Job /\ w \cap r = {}
  /\ \A t \in Fetcher : c[t].at # "rest" =>
       /\ c[t].at \in {"call", "between"}
       /\ c[t].block \in Job /\ c[t].block \notin w /\ c[t].block \notin r
  /\ \A t, u \in Fetcher :
       t # u /\ c[t].at # "rest" /\ c[u].at # "rest" => c[t].block # c[u].block
  /\ Exact(a, AddedTo(c, w, r), PlacedIn(AddedTo(c, w, r)))

CallersOK(c, ph, br) ==
  /\ c \in [Thread -> Call]
  /\ \A t \in Fetcher : c[t].kind = "raw" /\ (ph \in {"connect", "tip"} => c[t].at = "rest")
  /\ c[Main].at # "between"
  /\ c[Main].at = "call" => c[Main].kind = "eth" /\ ph = "tip" /\ ~br

BatchInv ==
  /\ CallersOK(rpc, phase, broken) /\ broken \in BOOLEAN
  /\ phase \in {"connect", "tip"} => acc = EmptyAcc /\ ready = {} /\ waiting = {}
  /\ phase = "connect" => rpc[Main].at = "rest" /\ ~broken
  /\ phase \in {"batch", "applied"} /\ ~broken => SharedOut(rpc, waiting, ready, acc)
  /\ phase = "applied" => AllAdded

LEMMA Threads == Main \in Thread /\ Main \notin Fetcher /\ Fetcher \subseteq Thread
                 /\ \A t \in Thread : t = Main \/ t \in Fetcher
  BY FetchAssumption DEF Thread

\* Nothing was added yet.
LEMMA EmptyExact == Exact(EmptyAcc, {}, PlacedIn({}))
<1>1. PlacedIn({}) = {}
  BY DEF PlacedIn
<1>2. IsABag(EmptyBag)
  BY CopiesSet DEF EmptyBag
<1>3. \A k : LogsFor(k, {}) = {} /\ TxsFor(k, {}) = {} /\ BlocksFor(k, {}) = {}
  BY DEF LogsFor, TxsFor, BlocksFor
<1>4. SendersOf({}) = {} /\ UsersOf({}) = {}
  BY DEF SendersOf, UsersOf
<1>5. IsFiniteSet({}) /\ Cardinality({}) = 0
  BY FS_EmptySet
<1>6. \A k : Copies(k, EmptyBag) = 0
  BY NoCopies
<1> QED
  BY <1>1, <1>2, <1>3, <1>4, <1>5, <1>6 DEF Exact, EmptyAcc

\* A fetcher that goes on with its block.
LEMMA SameBlock ==
  ASSUME NEW c, NEW w, NEW r, NEW a, SharedOut(c, w, r, a), NEW t \in Fetcher, c[t].at # "rest",
         NEW d, d[Main] = c[Main], d[t].at \in {"call", "between"}, d[t].block = c[t].block,
         \A u \in Fetcher : u # t => d[u] = c[u]
  PROVE  SharedOut(d, w, r, a)
<1>1. \A u \in Fetcher : (d[u].at # "rest" <=> c[u].at # "rest") /\ d[u].block = c[u].block
  OBVIOUS
<1>2. InFlight(d) = InFlight(c)
  BY <1>1 DEF InFlight
<1>3. \A u \in Fetcher : d[u].at # "rest" => d[u].at \in {"call", "between"}
  BY DEF SharedOut
<1> QED
  BY <1>1, <1>2, <1>3 DEF SharedOut, AddedTo

\* A fetcher that takes a block.
LEMMA TakesBlock ==
  ASSUME NEW c, NEW w, NEW r, NEW a, SharedOut(c, w, r, a), NEW t \in Fetcher, c[t].at = "rest",
         NEW b \in w, NEW d, d[Main] = c[Main], d[t].at = "call", d[t].block = b,
         \A u \in Fetcher : u # t => d[u] = c[u]
  PROVE  SharedOut(d, w \ {b}, r, a)
<1>1. InFlight(d) = InFlight(c) \cup {b}
  BY DEF InFlight
<1>2. AddedTo(d, w \ {b}, r) = AddedTo(c, w, r)
  BY <1>1 DEF AddedTo
<1>3. b \in Job /\ b \notin r
  BY DEF SharedOut
<1>4. \A u \in Fetcher : c[u].at # "rest" => c[u].block # b
  BY DEF SharedOut
<1> QED
  BY <1>2, <1>3, <1>4 DEF SharedOut

\* A fetcher that hands its block over.
LEMMA HandsOver ==
  ASSUME NEW c, NEW w, NEW r, NEW a, SharedOut(c, w, r, a), NEW t \in Fetcher, c[t].at # "rest",
         NEW d, d[Main] = c[Main], d[t].at = "rest", \A u \in Fetcher : u # t => d[u] = c[u]
  PROVE  SharedOut(d, w, r \cup {c[t].block}, a)
<1> DEFINE b == c[t].block
<1>1. b \in Job /\ b \notin w /\ b \notin r
  BY DEF SharedOut
<1>2. \A u \in Fetcher : u # t /\ c[u].at # "rest" => c[u].block # b
  BY DEF SharedOut
<1>3. InFlight(c) = InFlight(d) \cup {b}
  BY DEF InFlight
<1>4. AddedTo(d, w, r \cup {b}) = AddedTo(c, w, r)
  BY <1>3 DEF AddedTo
<1> HIDE DEF b
<1>5. SharedOut(d, w, r \cup {b}, a)
  BY <1>1, <1>2, <1>4 DEF SharedOut
<1> QED
  BY <1>5 DEF b

\* A ready block that is added.
LEMMA AddsReady ==
  ASSUME NEW c, NEW w, NEW r, NEW a, SharedOut(c, w, r, a), NEW b \in r
  PROVE  SharedOut(c, w, r \ {b}, AddBlock(a, b))
<1> DEFINE S == AddedTo(c, w, r)
<1>1. b \in Job /\ b \notin w /\ b \notin InFlight(c)
  BY DEF SharedOut, InFlight
<1>2. AddedTo(c, w, r \ {b}) = S \cup {b}
  BY <1>1 DEF AddedTo
<1>3. S \in SUBSET Job /\ b \in Job \ S /\ Exact(a, S, PlacedIn(S))
  BY <1>1 DEF AddedTo, SharedOut
<1> HIDE DEF S
<1>4. Exact(AddBlock(a, b), S \cup {b}, PlacedIn(S \cup {b}))
  BY <1>3, AddsBlock
<1> QED
  BY <1>2, <1>4 DEF SharedOut

-----------------------------------------------------------------------------
(* The invariant of the batch.                                               *)

\* A call that goes on to another attempt or endpoint, or ends with its error.
LEMMA CallGoesOn ==
  ASSUME BatchInv, NEW t \in Thread, rpc[t].at = "call", NEW c \in Call, Sets(t, c),
         c.kind = rpc[t].kind, c.block = rpc[t].block,
         \/ c.at = "call" /\ broken' = broken
         \/ c.at \in {"exhausted", "raised"} /\ broken' = TRUE,
         UNCHANGED <<phase, waiting, ready, acc>>
  PROVE  BatchInv'
<1>1. rpc' \in [Thread -> Call] /\ rpc'[t] = c /\ \A u \in Thread : u # t => rpc'[u] = rpc[u]
  BY OneCall DEF BatchInv, CallersOK
<1>2. CallersOK(rpc', phase', broken') /\ broken' \in BOOLEAN
  <2>1. broken' \in BOOLEAN
    BY DEF BatchInv
  <2>2. ASSUME NEW u \in Fetcher
        PROVE  rpc'[u].kind = "raw" /\ (phase' \in {"connect", "tip"} => rpc'[u].at = "rest")
    BY <1>1, <2>2, Threads DEF BatchInv, CallersOK
  <2>3. CASE t = Main
    BY <1>1, <2>1, <2>2, <2>3 DEF BatchInv, CallersOK
  <2>4. CASE t \in Fetcher
    <3>1. rpc'[Main] = rpc[Main] /\ phase \notin {"connect", "tip"}
      BY <1>1, <2>4, Threads DEF BatchInv, CallersOK
    <3> QED
      BY <1>1, <2>1, <2>2, <3>1 DEF BatchInv, CallersOK
  <2> QED
    BY <2>3, <2>4, Threads
<1>3. ASSUME t = Main PROVE phase = "tip"
  BY <1>3 DEF BatchInv, CallersOK
<1>4. ASSUME phase \in {"batch", "applied"}, ~broken' PROVE SharedOut(rpc', waiting, ready, acc)
  <2>1. t \in Fetcher /\ rpc'[Main] = rpc[Main] /\ SharedOut(rpc, waiting, ready, acc)
    BY <1>1, <1>3, <1>4, Threads DEF BatchInv
  <2>2. rpc'[t].at \in {"call", "between"} /\ rpc'[t].block = rpc[t].block /\ rpc[t].at # "rest"
    BY <1>1, <1>4
  <2>3. \A u \in Fetcher : u # t => rpc'[u] = rpc[u]
    BY <1>1, Threads
  <2> QED
    BY <2>1, <2>2, <2>3, SameBlock
<1>5. phase # "applied" /\ phase # "connect"
  <2>1. ASSUME phase = "applied" PROVE FALSE
    BY <1>3, <2>1, Threads DEF BatchInv, AllAdded
  <2>2. ASSUME phase = "connect" PROVE FALSE
    BY <1>3, <2>2, Threads DEF BatchInv, CallersOK
  <2> QED
    BY <2>1, <2>2
<1> QED
  BY <1>2, <1>4, <1>5 DEF BatchInv

LEMMA EndpointGivenUp ==
  ASSUME PoolInv, BatchInv, NEW t \in Thread, rpc[t].at = "call", NextEndpoint(t),
         UNCHANGED <<phase, waiting, ready, acc>>
  PROVE  BatchInv'
<1>1. Sets(t, Passed(t)) /\ broken' = (broken \/ rpc[t].offset + 1 = Size)
  BY DEF NextEndpoint, Passed
<1>2. Passed(t) \in Call /\ rpc[t] \in Call /\ rpc[t].offset \in 0..(Size - 1) /\ Size \in Nat
  BY PassedRotates, TriedCall
<1>3. CASE rpc[t].offset + 1 < Size
  <2>1. Passed(t).at = "call" /\ Passed(t).kind = rpc[t].kind /\ Passed(t).block = rpc[t].block
    BY <1>2, <1>3 DEF Passed, Tried, Call
  <2>2. broken' = broken
    BY <1>1, <1>2, <1>3 DEF BatchInv
  <2> QED
    BY <1>1, <1>2, <2>1, <2>2, CallGoesOn
<1>4. CASE ~(rpc[t].offset + 1 < Size)
  <2>1. Passed(t).at = "exhausted" /\ Passed(t).kind = rpc[t].kind /\ Passed(t).block = rpc[t].block
    BY <1>2, <1>4 DEF Passed, Tried, Call
  <2>2. broken' = TRUE
    <3>1. rpc[t].offset + 1 = Size
      BY <1>2, <1>4
    <3> QED
      BY <1>1, <3>1
  <2> QED
    BY <1>1, <1>2, <2>1, <2>2, CallGoesOn
<1> QED
  BY <1>3, <1>4

LEMMA CallStepsBatch ==
  ASSUME PoolInv, BatchInv, NEW t \in Thread, Busy(t) \/ Refused(t) \/ Unreachable(t) \/ Garbled(t)
  PROVE  BatchInv'
<1>1. rpc[t].at = "call" /\ rpc[t] \in Call /\ UNCHANGED <<phase, waiting, ready, acc>>
  BY DEF Busy, Refused, Unreachable, Garbled, BatchInv, CallersOK
<1>2. CASE Busy(t) /\ rpc[t].attempt + 1 < Attempts
  <2> DEFINE c == [rpc[t] EXCEPT !.attempt = rpc[t].attempt + 1]
  <2>1. c \in Call /\ c.at = "call" /\ c.kind = rpc[t].kind /\ c.block = rpc[t].block
    BY <1>1 DEF Call
  <2>2. Sets(t, c) /\ broken' = broken
    BY <1>2 DEF Busy
  <2> HIDE DEF c
  <2> QED
    BY <1>1, <2>1, <2>2, CallGoesOn
<1>3. CASE Busy(t) /\ ~(rpc[t].attempt + 1 < Attempts)
  BY <1>1, <1>3, EndpointGivenUp DEF Busy
<1>4. CASE Refused(t)
  BY <1>1, <1>4, EndpointGivenUp DEF Refused
<1>5. CASE Unreachable(t) /\ rpc[t].kind = "raw"
  BY <1>1, <1>5, EndpointGivenUp DEF Unreachable
<1>6. CASE Garbled(t) \/ (Unreachable(t) /\ rpc[t].kind # "raw")
  <2> DEFINE c == [Tried(t) EXCEPT !.at = "raised"]
  <2>1. PICK v \in SUBSET Nat : Tried(t) = [rpc[t] EXCEPT !.tried = v]
    BY <1>1, TriedCall
  <2>2. c \in Call /\ c.at = "raised" /\ c.kind = rpc[t].kind /\ c.block = rpc[t].block
    BY <1>1, <2>1 DEF Call
  <2>3. Sets(t, c) /\ broken' = TRUE
    BY <1>6 DEF Unreachable, Garbled, Raises
  <2> HIDE DEF c
  <2> QED
    BY <1>1, <2>2, <2>3, CallGoesOn
<1> QED
  BY <1>2, <1>3, <1>4, <1>5, <1>6

\* The tip is known: the batch is shared out.
LEMMA AnswersBatch == ASSUME BatchInv, NEW t \in Thread, Answers(t) PROVE BatchInv'
<1>1. rpc[t].at = "call" /\ rpc[t] \in Call /\ broken' = broken /\ acc' = acc /\ rpc \in [Thread -> Call]
  BY DEF Answers, BatchInv, CallersOK
<1>2. CASE rpc[t].kind = "eth"
  <2>1. t = Main /\ phase = "tip" /\ ~broken /\ acc = EmptyAcc /\ ready = {}
    BY <1>1, <1>2, Threads DEF BatchInv, CallersOK
  <2>2. phase' = "batch" /\ waiting' = Job /\ Sets(t, Rest) /\ ready' = ready
    BY <1>2 DEF Answers
  <2>3. /\ rpc' \in [Thread -> Call] /\ rpc'[Main].at = "rest"
        /\ \A u \in Fetcher : rpc'[u].at = "rest" /\ rpc'[u].kind = "raw"
    BY <1>1, <2>1, <2>2, RestCall, OneCall, Threads DEF BatchInv, CallersOK
  <2>4. InFlight(rpc') = {} /\ AddedTo(rpc', Job, {}) = {}
    BY <2>3 DEF InFlight, AddedTo
  <2>5. SharedOut(rpc', Job, {}, EmptyAcc)
    BY <2>3, <2>4, EmptyExact DEF SharedOut
  <2> QED
    BY <1>1, <2>1, <2>2, <2>3, <2>5 DEF BatchInv, CallersOK
<1>3. CASE rpc[t].kind # "eth" /\ rpc[t].part = "header"
  <2> DEFINE c == [Rest EXCEPT !.at = "between", !.block = rpc[t].block]
  <2>1. Sets(t, c) /\ UNCHANGED <<phase, waiting, ready>>
    BY <1>1, <1>3 DEF Answers, Call
  <2>2. c \in Call /\ c.at = "between" /\ c.block = rpc[t].block /\ c.kind = "raw"
    BY <1>1 DEF Rest, Call
  <2> HIDE DEF c
  <2>3. t \in Fetcher /\ phase \notin {"connect", "tip"}
    BY <1>1, <1>3, Threads DEF BatchInv, CallersOK
  <2>4. rpc' \in [Thread -> Call] /\ rpc'[t] = c /\ \A u \in Thread : u # t => rpc'[u] = rpc[u]
    BY <1>1, <2>1, <2>2, OneCall
  <2>5. rpc'[Main] = rpc[Main] /\ CallersOK(rpc', phase', broken')
    BY <1>1, <2>1, <2>2, <2>3, <2>4, Threads DEF BatchInv, CallersOK
  <2>6. ASSUME phase \in {"batch", "applied"}, ~broken PROVE SharedOut(rpc', waiting, ready, acc)
    <3>1. SharedOut(rpc, waiting, ready, acc) /\ rpc[t].at # "rest"
      BY <1>1, <2>6 DEF BatchInv
    <3>2. rpc'[t].at \in {"call", "between"} /\ rpc'[t].block = rpc[t].block
          /\ \A u \in Fetcher : u # t => rpc'[u] = rpc[u]
      BY <2>2, <2>4, Threads
    <3> QED
      BY <2>3, <2>5, <3>1, <3>2, SameBlock
  <2>7. phase # "applied"
    BY <1>1, <2>3 DEF BatchInv, AllAdded
  <2> QED
    BY <1>1, <2>1, <2>3, <2>5, <2>6, <2>7 DEF BatchInv
<1>4. CASE rpc[t].kind # "eth" /\ rpc[t].part # "header"
  <2>1. Sets(t, Rest) /\ UNCHANGED <<phase, waiting>> /\ ready' = ready \cup {rpc[t].block}
    BY <1>1, <1>4 DEF Answers, Call
  <2>2. t \in Fetcher /\ phase \notin {"connect", "tip"}
    BY <1>1, <1>4, Threads DEF BatchInv, CallersOK
  <2>3. rpc' \in [Thread -> Call] /\ rpc'[t] = Rest /\ \A u \in Thread : u # t => rpc'[u] = rpc[u]
    BY <1>1, <2>1, RestCall, OneCall
  <2>4. rpc'[Main] = rpc[Main] /\ CallersOK(rpc', phase', broken')
    <3>1. Rest.kind = "raw"
      BY DEF Rest
    <3> QED
      BY <1>1, <2>1, <2>2, <2>3, <3>1, Threads DEF BatchInv, CallersOK
  <2>5. ASSUME phase \in {"batch", "applied"}, ~broken PROVE SharedOut(rpc', waiting, ready', acc)
    <3>1. SharedOut(rpc, waiting, ready, acc) /\ rpc[t].at # "rest"
      BY <1>1, <2>5 DEF BatchInv
    <3>2. rpc'[t].at = "rest" /\ \A u \in Fetcher : u # t => rpc'[u] = rpc[u]
      BY <2>3, RestCall, Threads
    <3> QED
      BY <2>1, <2>2, <2>4, <3>1, <3>2, HandsOver
  <2>6. phase # "applied"
    BY <1>1, <2>2 DEF BatchInv, AllAdded
  <2> QED
    BY <1>1, <2>1, <2>2, <2>4, <2>5, <2>6 DEF BatchInv
<1> QED
  BY <1>2, <1>3, <1>4

LEMMA AskReceiptsBatch ==
  ASSUME BatchInv, NEW t \in Thread, AskReceipts(t), rpc' \in [Thread -> Call]
  PROVE  BatchInv'
<1> DEFINE c == Calling("raw", rpc[t].block, "receipts")
<1>1. /\ rpc[t].at = "between" /\ Sets(t, c) /\ UNCHANGED <<phase, waiting, ready, broken, acc>>
      /\ rpc \in [Thread -> Call]
  BY DEF AskReceipts, BatchInv, CallersOK
<1>2. c.at = "call" /\ c.block = rpc[t].block /\ c.kind = "raw"
  BY DEF Calling
<1>3. t \in Fetcher /\ phase \notin {"connect", "tip", "applied"}
  BY <1>1, Threads DEF BatchInv, CallersOK, AllAdded
<1> HIDE DEF c
<1>4. rpc'[t] = c /\ \A u \in Thread : u # t => rpc'[u] = rpc[u]
  BY <1>1 DEF Sets
<1>5. rpc'[Main] = rpc[Main] /\ \A u \in Fetcher : u # t => rpc'[u] = rpc[u]
  BY <1>3, <1>4, Threads
<1>6. ASSUME phase \in {"batch", "applied"}, ~broken PROVE SharedOut(rpc', waiting, ready, acc)
  <2>1. SharedOut(rpc, waiting, ready, acc) /\ rpc[t].at # "rest"
    BY <1>1, <1>6 DEF BatchInv
  <2>2. rpc'[t].at \in {"call", "between"} /\ rpc'[t].block = rpc[t].block
    BY <1>2, <1>4
  <2> QED
    BY <1>3, <1>5, <2>1, <2>2, SameBlock
<1>7. CallersOK(rpc', phase', broken')
  BY <1>1, <1>2, <1>3, <1>4, <1>5 DEF BatchInv, CallersOK
<1> QED
  BY <1>1, <1>3, <1>6, <1>7 DEF BatchInv

LEMMA TakeBatch ==
  ASSUME BatchInv, NEW t \in Thread, Take(t), rpc' \in [Thread -> Call]
  PROVE  BatchInv'
<1>1. PICK b \in waiting : waiting' = waiting \ {b} /\ Sets(t, Calling("raw", b, "header"))
  BY DEF Take
<1>2. /\ phase = "batch" /\ t \in Fetcher /\ rpc[t].at \notin {"call", "between"}
      /\ UNCHANGED <<phase, ready, broken, acc>> /\ rpc \in [Thread -> Call]
  BY DEF Take, BatchInv, CallersOK
<1> DEFINE c == Calling("raw", b, "header")
<1>3. c.at = "call" /\ c.block = b /\ c.kind = "raw" /\ Sets(t, c)
  BY <1>1 DEF Calling
<1> HIDE DEF c
<1>4. rpc'[t] = c /\ \A u \in Thread : u # t => rpc'[u] = rpc[u]
  BY <1>2, <1>3 DEF Sets
<1>5. rpc'[Main] = rpc[Main] /\ \A u \in Fetcher : u # t => rpc'[u] = rpc[u]
  BY <1>2, <1>4, Threads
<1>6. ASSUME ~broken PROVE SharedOut(rpc', waiting', ready, acc)
  <2>1. SharedOut(rpc, waiting, ready, acc)
    BY <1>2, <1>6 DEF BatchInv
  <2>2. rpc[t].at = "rest"
    BY <1>2, <2>1 DEF SharedOut
  <2>3. rpc'[t].at = "call" /\ rpc'[t].block = b
    BY <1>3, <1>4
  <2>4. SharedOut(rpc', waiting \ {b}, ready, acc)
    BY <1>2, <1>5, <2>1, <2>2, <2>3, TakesBlock
  <2> QED
    BY <1>1, <2>4
<1>7. CallersOK(rpc', phase', broken')
  BY <1>2, <1>3, <1>4, <1>5 DEF BatchInv, CallersOK
<1> QED
  BY <1>2, <1>6, <1>7 DEF BatchInv

LEMMA ConnectBatch ==
  ASSUME BatchInv, Connect, rpc' \in [Thread -> Call]
  PROVE  BatchInv'
<1>1. /\ phase = "connect" /\ UNCHANGED <<waiting, ready, broken, acc>> /\ ~broken
      /\ acc = EmptyAcc /\ ready = {} /\ waiting = {} /\ rpc \in [Thread -> Call]
      /\ rpc[Main].at = "rest" /\ \A t \in Fetcher : rpc[t].at = "rest" /\ rpc[t].kind = "raw"
  BY DEF Connect, BatchInv, CallersOK
<1>2. \/ phase' = "failed" /\ rpc' = rpc
      \/ phase' = "tip" /\ Sets(Main, [Rest EXCEPT !.at = "call", !.kind = "eth"])
  BY DEF Connect
<1>3. CASE phase' = "failed" /\ rpc' = rpc
  BY <1>1, <1>3 DEF BatchInv, CallersOK
<1>4. CASE phase' = "tip" /\ Sets(Main, [Rest EXCEPT !.at = "call", !.kind = "eth"])
  <2>1. rpc'[Main].at = "call" /\ rpc'[Main].kind = "eth" /\ \A t \in Fetcher : rpc'[t] = rpc[t]
    BY <1>1, <1>4, Threads DEF Sets, Rest
  <2> QED
    BY <1>1, <1>4, <2>1 DEF BatchInv, CallersOK
<1> QED
  BY <1>2, <1>3, <1>4

LEMMA AddReadyBatch == ASSUME BatchInv, AddReady PROVE BatchInv'
<1>1. phase = "batch" /\ UNCHANGED <<rpc, broken>>
  BY DEF AddReady
<1>2. PICK b \in ready :
        /\ ready' = ready \ {b}
        /\ \/ acc' = AddBlock(acc, b) /\ UNCHANGED <<phase, waiting>>
           \/ phase' = "failed" /\ waiting' = {} /\ UNCHANGED acc
  BY DEF AddReady
<1>3. CASE acc' = AddBlock(acc, b) /\ UNCHANGED <<phase, waiting>>
  <2>1. ASSUME ~broken PROVE SharedOut(rpc, waiting, ready', acc')
    <3>1. SharedOut(rpc, waiting, ready, acc)
      BY <1>1, <2>1 DEF BatchInv
    <3>2. SharedOut(rpc, waiting, ready \ {b}, AddBlock(acc, b))
      BY <3>1, AddsReady
    <3> QED
      BY <1>2, <1>3, <3>2
  <2> QED
    BY <1>1, <1>3, <2>1 DEF BatchInv, CallersOK
<1>4. CASE phase' = "failed"
  BY <1>1, <1>4 DEF BatchInv, CallersOK
<1> QED
  BY <1>2, <1>3, <1>4

LEMMA BatchStep == ASSUME PoolInv, PoolInv', BatchInv, [FetchNext]_fvars PROVE BatchInv'
<1>1. rpc' \in [Thread -> Call]
  BY DEF PoolInv
<1>2. CASE NextRun
  <2>1. rpc'[Main] = Rest /\ \A t \in Fetcher : rpc'[t] = Rest
    BY <1>2, Threads DEF NextRun
  <2>2. Rest.at = "rest" /\ Rest.kind = "raw"
    BY DEF Rest
  <2> QED
    BY <1>1, <1>2, <2>1, <2>2 DEF NextRun, BatchInv, CallersOK
<1>3. CASE Abort
  <2>1. phase' = "failed" /\ UNCHANGED <<rpc, broken>> /\ broken
    BY <1>3 DEF Abort
  <2> QED
    BY <2>1 DEF BatchInv, CallersOK
<1>4. CASE SendBatch
  <2>1. phase = "batch" /\ AllAdded /\ phase' = "applied" /\ UNCHANGED <<rpc, waiting, ready, broken, acc>>
    BY <1>4 DEF SendBatch
  <2>2. AllAdded'
    BY <2>1 DEF AllAdded
  <2> QED
    BY <2>1, <2>2 DEF BatchInv, CallersOK
<1>5. CASE UNCHANGED fvars
  <2>1. UNCHANGED <<phase, rpc, waiting, ready, broken, acc>>
    BY <1>5 DEF fvars
  <2>2. AllAdded' <=> AllAdded
    BY <2>1 DEF AllAdded
  <2> QED
    BY <2>1, <2>2 DEF BatchInv
<1> QED
  BY <1>1, <1>2, <1>3, <1>4, <1>5, ConnectBatch, AddReadyBatch, CallStepsBatch, AnswersBatch,
     AskReceiptsBatch, TakeBatch DEF FetchNext

LEMMA BatchStart == FetchInit => BatchInv
<1> SUFFICES ASSUME FetchInit PROVE BatchInv
  OBVIOUS
<1>1. rpc[Main] = Rest /\ (\A t \in Fetcher : rpc[t] = Rest) /\ rpc \in [Thread -> Call]
  BY RestCall, Threads DEF FetchInit
<1>2. Rest.at = "rest" /\ Rest.kind = "raw"
  BY DEF Rest
<1> QED
  BY <1>1, <1>2 DEF FetchInit, BatchInv, CallersOK

\* A batch that is sent holds exactly its blocks, whatever order they finished in.
LEMMA SentExact == ASSUME BatchInv PROVE BatchExact
<1> SUFFICES ASSUME phase = "applied" PROVE BatchExact
  BY DEF BatchExact
<1>1. AllAdded /\ SharedOut(rpc, waiting, ready, acc)
  BY DEF BatchInv, AllAdded
<1>2. InFlight(rpc) = {} /\ waiting = {} /\ ready = {}
  BY <1>1 DEF AllAdded, InFlight
<1>3. AddedTo(rpc, waiting, ready) = Job /\ PlacedIn(Job) = Placed
  BY <1>2 DEF AddedTo, PlacedIn, Placed
<1>4. Exact(acc, Job, Placed)
  BY <1>1, <1>3 DEF SharedOut
<1>5. {q \in Placed : Recorded(DayOn(q), TxAt(q))} = KeptDays
  BY DEF Recorded, KeptDays
<1>6. {q \in Placed : Recorded(DayOn(q), TxAt(q)) /\ TxAt(q).to \in Tracked}
        = {q \in KeptDays : TxAt(q).to \in Tracked}
  BY DEF Recorded, KeptDays
<1>7. /\ acc.senders = {<<DayOn(p), TxAt(p).from>> : p \in KeptDays}
      /\ acc.users = {<<DayOn(p), TxAt(p).to, TxAt(p).from>> : p \in {q \in KeptDays : TxAt(q).to \in Tracked}}
  BY <1>4, <1>5, <1>6 DEF Exact, SendersOf, UsersOf
<1>8. \A d : DayRight(acc.counts, d)
  BY <1>4, CountsExact
<1> QED
  BY <1>7, <1>8 DEF BatchExact, DayRight, Total

\* What the threads of a batch do together is one batch: while nothing fails a block waits,
\* is fetched by one thread, is ready or was added, and the accumulator holds the added
\* ones exactly (rollup.py:131-276).
THEOREM BatchInvariance == FetchSpec => []BatchInv
<1>1. FetchInit => PoolInv /\ BatchInv
  BY FetchStart, BatchStart
<1>2. PoolInv /\ BatchInv /\ [FetchNext]_fvars => PoolInv' /\ BatchInv'
  BY PoolStep, BatchStep
<1> QED
  BY <1>1, <1>2, PTL DEF FetchSpec

\* The payload of a batch counts every block, transaction, call and move of a token once
\* and names the senders of the days that are kept, in whatever order the blocks finished.
THEOREM SentWhole == FetchSpec => []BatchExact
<1>1. BatchInv => BatchExact
  BY SentExact
<1> QED
  BY <1>1, BatchInvariance, PTL

-----------------------------------------------------------------------------
(* The workflows, for any number of attempts of the chain steps and any      *)
(* number of runs of the gap backfill.                                       *)

LEMMA Steps == Places = {"none", "ingest", "discovery", "chain", "backoff",
                         "market", "holders", "venues", "socials"}
               /\ DOMAIN Upkeep = 1..4
<1>1. DOMAIN Upkeep = 1..4
  BY DEF Upkeep
<1> QED
  BY <1>1 DEF Places, Upkeep

Flows == [at: Places, failed: BOOLEAN, long: BOOLEAN, tries: Nat]
LEMMA NoJobTyped == NoJob \in Flows
  BY Steps DEF NoJob, Flows

\* What a step makes of the running job of a workflow.
LEMMA JobGoes ==
  ASSUME NEW f \in Flow, NEW j \in Flows, job \in [Flow -> Flows], Goes(f, j)
  PROVE  job' \in [Flow -> Flows] /\ job'[f] = j /\ \A g \in Flow : g # f => job'[g] = job[g]
  BY DEF Goes

\* A failed ingestion run goes on to the back-off or ends.
LEMMA RedJob == ASSUME NEW j \in Flows
                PROVE  Red(j) \in Flows /\ Red(j).failed = j.failed
                       /\ (Red(j).at = "none" => ~j.long)
  BY Steps DEF Red, Flows

\* The types of the state (worker.py: main; the two workflow files).
THEOREM WorkflowTypes == WorkflowSpec => []WorkflowTypeOK
<1>1. WorkflowInit => WorkflowTypeOK
  BY NoJobTyped, WorkflowAssumption DEF WorkflowInit, WorkflowTypeOK, Reasons, Flows
<1>2. WorkflowTypeOK /\ [WorkflowNext]_wvars => WorkflowTypeOK'
  <2> SUFFICES ASSUME WorkflowTypeOK, [WorkflowNext]_wvars PROVE WorkflowTypeOK'
    OBVIOUS
  <2> USE DEF Flows
  <2>1. job \in [Flow -> Flows] /\ waits \in [Flow -> BOOLEAN] /\ fillLeft \in 0..FillRuns
        /\ stopped \in [Flow -> Reasons] /\ "ingest" \in Flow /\ "backfill" \in Flow
    BY DEF WorkflowTypeOK, Flow
  <2>2. ASSUME NEW f \in Flow, NEW why \in Reasons, Ends(f, why)
        PROVE  job' \in [Flow -> Flows] /\ stopped' \in [Flow -> Reasons]
    BY <2>1, <2>2, NoJobTyped, JobGoes DEF Ends
  <2>3. CASE Schedule \/ Dispatch
    BY <2>1, <2>3 DEF Schedule, Dispatch, WorkflowTypeOK
  <2>4. ASSUME NEW f \in Flow, StartJob(f) PROVE WorkflowTypeOK'
    <3>1. [NoJob EXCEPT !.at = "ingest"] \in Flows
      BY Steps DEF NoJob
    <3> QED
      BY <2>1, <2>4, <3>1, JobGoes DEF StartJob, WorkflowTypeOK, Reasons
  <2>5. ASSUME NEW f \in Flow, TimesOut(f) PROVE WorkflowTypeOK'
    BY <2>1, <2>2, <2>5 DEF TimesOut, WorkflowTypeOK, Reasons
  <2>6. CASE IngestEnds
    <3>1. PICK failed, long \in BOOLEAN :
            Goes("ingest", [job["ingest"] EXCEPT !.at = "discovery", !.failed = failed, !.long = long])
      BY <2>6 DEF IngestEnds
    <3>2. [job["ingest"] EXCEPT !.at = "discovery", !.failed = failed, !.long = long] \in Flows
      BY <2>1, Steps
    <3> QED
      BY <2>1, <2>6, <3>1, <3>2, JobGoes DEF IngestEnds, WorkflowTypeOK
  <2>7. CASE DiscoveryEnds
    <3>1. PICK j \in AfterDiscovery(job["ingest"]) :
            IF j.at = "none" THEN Ends("ingest", "early failure")
                             ELSE Goes("ingest", j) /\ UNCHANGED stopped
      BY <2>7 DEF DiscoveryEnds
    <3>2. j \in Flows
      <4>1. [job["ingest"] EXCEPT !.at = Upkeep[1]] \in Flows
        BY <2>1, Steps DEF Upkeep
      <4>2. j = IF job["ingest"].failed THEN Red(job["ingest"])
                                        ELSE [job["ingest"] EXCEPT !.at = Upkeep[1]]
        BY <3>1 DEF AfterDiscovery
      <4>3. Red(job["ingest"]) \in Flows
        BY <2>1, RedJob
      <4> QED
        BY <4>1, <4>2, <4>3
    <3> QED
      BY <2>1, <2>2, <2>7, <3>1, <3>2, JobGoes DEF DiscoveryEnds, WorkflowTypeOK, Reasons
  <2>8. CASE UpkeepEnds
    <3>1. PICK i \in DOMAIN Upkeep :
            Goes("ingest", [job["ingest"] EXCEPT
                              !.at = IF i + 1 \in DOMAIN Upkeep THEN Upkeep[i + 1] ELSE "chain"])
      BY <2>8 DEF UpkeepEnds
    <3>2. (IF i + 1 \in DOMAIN Upkeep THEN Upkeep[i + 1] ELSE "chain") \in Places
      BY DEF Places
    <3>3. [job["ingest"] EXCEPT
             !.at = IF i + 1 \in DOMAIN Upkeep THEN Upkeep[i + 1] ELSE "chain"] \in Flows
      BY <2>1, <3>2
    <3> QED
      BY <2>1, <2>8, <3>1, <3>3, JobGoes DEF UpkeepEnds, WorkflowTypeOK
  <2>9. CASE BackoffEnds
    <3>1. [job["ingest"] EXCEPT !.at = "chain"] \in Flows
      BY <2>1, Steps
    <3> QED
      BY <2>1, <2>9, <3>1, JobGoes DEF BackoffEnds, WorkflowTypeOK
  <2>10. CASE FillEnds
    <3>1. [job["backfill"] EXCEPT !.at = "chain"] \in Flows
      BY <2>1, Steps
    <3>2. fillLeft' \in 0..FillRuns
      <4>1. (fillLeft > 1 /\ fillLeft' = fillLeft - 1) \/ fillLeft' = 0 \/ fillLeft' = fillLeft
        BY <2>10 DEF FillEnds
      <4> QED
        BY <2>1, <4>1, WorkflowAssumption
    <3>3. job' \in [Flow -> Flows] /\ stopped' \in [Flow -> Reasons]
      BY <2>1, <2>2, <2>10, <3>1, JobGoes DEF FillEnds, Reasons
    <3> QED
      BY <2>1, <2>10, <3>2, <3>3 DEF FillEnds, WorkflowTypeOK
  <2>11. ASSUME NEW f \in Flow, Chained(f) PROVE WorkflowTypeOK'
    BY <2>1, <2>2, <2>11 DEF Chained, WorkflowTypeOK, Reasons
  <2>12. ASSUME NEW f \in Flow, ChainRefused(f) PROVE WorkflowTypeOK'
    <3>1. (job[f].tries + 1) % Tries[f] \in Nat
      BY <2>1, WorkflowAssumption
    <3>2. [job[f] EXCEPT !.tries = (job[f].tries + 1) % Tries[f]] \in Flows
      BY <2>1, <3>1
    <3> QED
      BY <2>1, <2>2, <2>12, <3>2, JobGoes DEF ChainRefused, WorkflowTypeOK, Reasons
  <2>13. CASE UNCHANGED wvars
    BY <2>13 DEF wvars, WorkflowTypeOK
  <2> QED
    BY <2>3, <2>4, <2>5, <2>6, <2>7, <2>8, <2>9, <2>10, <2>11, <2>12, <2>13 DEF WorkflowNext
<1> QED
  BY <1>1, <1>2, PTL DEF WorkflowSpec

\* The chain of ingestion jobs never breaks because discovery or a refresh failed
\* (worker.py:715-755, ingestion-cron.yml: each is caught and logged).
THEOREM ChainHolds == WorkflowSpec => ChainBreaksForReason
<1>1. ASSUME WorkflowTypeOK, [WorkflowNext]_wvars,
             job["ingest"].at # "none", job'["ingest"].at = "none", ~waits'["ingest"]
      PROVE  \/ stopped'["ingest"] \in {"cancelled", "refused"}
             \/ job["ingest"].failed /\ ~job["ingest"].long
  <2>1. job \in [Flow -> Flows] /\ waits \in [Flow -> BOOLEAN]
        /\ stopped \in [Flow -> Reasons] /\ "ingest" \in Flow /\ "backfill" \in Flow
    BY <1>1 DEF WorkflowTypeOK, Flow, Flows
  <2>2. job[ "ingest"] \in Flows /\ job["ingest"].at \in Places
    BY <2>1 DEF Flows
  <2>3. ASSUME NEW j \in Flows, Goes("ingest", j) PROVE j.at = "none"
    BY <1>1, <2>1, <2>3, JobGoes
  <2>4. ASSUME NEW f \in Flow, NEW why, Ends(f, why) PROVE f = "ingest" /\ stopped'["ingest"] = why
    BY <1>1, <2>1, <2>4, NoJobTyped, JobGoes DEF Ends
  <2>5. CASE Schedule \/ Dispatch \/ UNCHANGED wvars
    BY <1>1, <2>5 DEF Schedule, Dispatch, wvars
  <2>6. ASSUME NEW f \in Flow, StartJob(f) PROVE FALSE
    <3>1. [NoJob EXCEPT !.at = "ingest"] \in Flows
      BY Steps DEF NoJob, Flows
    <3> QED
      BY <1>1, <2>1, <2>6, <3>1, JobGoes DEF StartJob, NoJob
  <2>7. ASSUME NEW f \in Flow, TimesOut(f) PROVE stopped'["ingest"] = "cancelled"
    BY <2>4, <2>7 DEF TimesOut
  <2>8. CASE IngestEnds
    <3>1. PICK failed, long \in BOOLEAN :
            Goes("ingest", [job["ingest"] EXCEPT !.at = "discovery", !.failed = failed, !.long = long])
      BY <2>8 DEF IngestEnds
    <3>2. [job["ingest"] EXCEPT !.at = "discovery", !.failed = failed, !.long = long] \in Flows
      BY <2>2, Steps DEF Flows
    <3>3. [job["ingest"] EXCEPT !.at = "discovery", !.failed = failed, !.long = long].at = "none"
      BY <2>3, <3>1, <3>2
    <3> QED
      BY <2>2, <3>3 DEF Flows
  <2>9. CASE DiscoveryEnds
    <3>1. PICK j \in AfterDiscovery(job["ingest"]) :
            IF j.at = "none" THEN Ends("ingest", "early failure")
                             ELSE Goes("ingest", j) /\ UNCHANGED stopped
      BY <2>9 DEF DiscoveryEnds
    <3>2. j \in Flows /\ (j.at = "none" => job["ingest"].failed /\ ~job["ingest"].long)
      <4> DEFINE up == [job["ingest"] EXCEPT !.at = Upkeep[1]]
      <4>1. j = IF job["ingest"].failed THEN Red(job["ingest"]) ELSE up
        BY <3>1 DEF AfterDiscovery
      <4>2. up \in Flows /\ up.at # "none"
        BY <2>2, Steps DEF Flows, Upkeep
      <4>3. CASE job["ingest"].failed
        <5>1. /\ Red(job["ingest"]) \in Flows
              /\ Red(job["ingest"]).at = "none" => ~job["ingest"].long
          BY <2>2, RedJob
        <5> QED
          BY <4>1, <4>3, <5>1
      <4>4. CASE ~job["ingest"].failed
        BY <4>1, <4>2, <4>4
      <4> QED
        BY <4>3, <4>4
    <3> QED
      BY <2>3, <3>1, <3>2
  <2>10. CASE UpkeepEnds
    <3>1. PICK i \in DOMAIN Upkeep :
            Goes("ingest", [job["ingest"] EXCEPT
                              !.at = IF i + 1 \in DOMAIN Upkeep THEN Upkeep[i + 1] ELSE "chain"])
      BY <2>10 DEF UpkeepEnds
    <3> DEFINE next == IF i + 1 \in DOMAIN Upkeep THEN Upkeep[i + 1] ELSE "chain"
    <3>2. next \in Places /\ next # "none"
      BY Steps DEF Places, Upkeep
    <3>3. Goes("ingest", [job["ingest"] EXCEPT !.at = next])
      BY <3>1
    <3> HIDE DEF next
    <3>4. [job["ingest"] EXCEPT !.at = next] \in Flows
      BY <2>2, <3>2 DEF Flows
    <3>5. [job["ingest"] EXCEPT !.at = next].at = "none"
      BY <2>3, <3>3, <3>4
    <3> QED
      BY <2>2, <3>2, <3>5 DEF Flows
  <2>11. CASE BackoffEnds
    BY <2>2, <2>3, <2>11, Steps DEF BackoffEnds, Flows
  <2>12. CASE FillEnds
    <3>1. [job["backfill"] EXCEPT !.at = "chain"] \in Flows
      BY <2>1, Steps DEF Flows
    <3> QED
      BY <1>1, <2>1, <2>4, <2>12, <3>1, JobGoes DEF FillEnds
  <2>13. ASSUME NEW f \in Flow, Chained(f) PROVE FALSE
    BY <1>1, <2>1, <2>4, <2>13 DEF Chained
  <2>14. ASSUME NEW f \in Flow, ChainRefused(f) PROVE stopped'["ingest"] = "refused"
    <3>1. CASE Ends(f, "refused")
      BY <2>4, <3>1
    <3>2. CASE Goes(f, [job[f] EXCEPT !.tries = (job[f].tries + 1) % Tries[f]])
      <4>1. (job[f].tries + 1) % Tries[f] \in Nat
        BY <2>1, WorkflowAssumption DEF Flows
      <4>2. [job[f] EXCEPT !.tries = (job[f].tries + 1) % Tries[f]] \in Flows
        BY <2>1, <4>1 DEF Flows
      <4> QED
        BY <1>1, <2>1, <2>14, <3>2, <4>2, JobGoes DEF ChainRefused, Flows
    <3> QED
      BY <2>14, <3>1, <3>2 DEF ChainRefused
  <2> QED
    BY <1>1, <2>5, <2>6, <2>7, <2>8, <2>9, <2>10, <2>11, <2>12, <2>13, <2>14 DEF WorkflowNext
<1>2. WorkflowTypeOK /\ [WorkflowNext]_wvars =>
        [job["ingest"].at # "none" /\ job'["ingest"].at = "none" /\ ~waits'["ingest"] =>
           \/ stopped'["ingest"] \in {"cancelled", "refused"}
           \/ job["ingest"].failed /\ ~job["ingest"].long]_wvars
  BY <1>1
<1> QED
  BY <1>2, WorkflowTypes, PTL DEF WorkflowSpec, ChainBreaksForReason

-----------------------------------------------------------------------------
(* The daily series, for any number of days and any length of a day and of a *)
(* batch: what the flag of a served day may be relied on for.                *)

\* The stamp, and a boundary taken from it, lie at a day whose first block is applied.
StampReached == stamp # 0 => applied > (stamp - 1) * DayBlocks
BoundaryReached ==
  "known" \in reading => /\ "status" \in reading
                         /\ boundary # 0 /\ applied > (boundary - 1) * DayBlocks

FreshInv == FreshnessTypeOK /\ StampReached /\ BoundaryReached

-----------------------------------------------------------------------------
(* Arithmetic of days and blocks.                                            *)

LEMMA Constants == LastUtcDay \in Nat /\ DayBlocks \in Nat /\ GapDays \in Nat /\ FreshBatch \in Nat
                   /\ LastUtcDay > 0 /\ DayBlocks > 0 /\ GapDays < LastUtcDay /\ GapEnd \in Nat
  BY FreshnessAssumption DEF GapEnd

LEMMA LeastOf == \A a, b \in Int : Least(a, b) \in Int /\ Least(a, b) <= a /\ Least(a, b) <= b
                                   /\ (Least(a, b) = a \/ Least(a, b) = b)
  BY DEF Least

\* A block lies in its day.
LEMMA BlockInDay ==
  ASSUME NEW n \in Nat, n > 0
  PROVE  /\ DayAt(n) \in Nat /\ DayAt(n) > 0
         /\ (DayAt(n) - 1) * DayBlocks < n /\ n <= DayAt(n) * DayBlocks
<1> DEFINE q == (n - 1) \div DayBlocks
<1>1. n - 1 \in Nat
  OBVIOUS
<1>2. q \in Nat /\ q * DayBlocks <= n - 1 /\ n - 1 < (q + 1) * DayBlocks
  BY <1>1, Constants
<1>3. DayAt(n) = q + 1
  BY DEF DayAt
<1> QED
  BY <1>2, <1>3, Constants

\* What a count of blocks holds of a day is at most the day.
LEMMA WithinDay == ASSUME NEW d \in Days, NEW n \in Nat PROVE Within(d, n) \in 0..DayBlocks
<1>1. (d - 1) * DayBlocks \in Nat
  BY Constants DEF Days
<1> DEFINE rest == n - (d - 1) * DayBlocks
<1>2. CASE rest <= 0
  BY <1>1, <1>2, Constants DEF Within
<1>3. CASE rest > 0
  <2>1. Within(d, n) = Least(rest, DayBlocks) /\ rest \in Nat
    BY <1>1, <1>3 DEF Within
  <2> HIDE DEF rest
  <2> QED
    BY <2>1, <1>3, Constants DEF Least
<1> QED
  BY <1>1, <1>2, <1>3 DEF Days

\* A day that ends before a later day's first block is whole.
LEMMA WholeDay ==
  ASSUME NEW d \in Days, NEW n \in Nat, NEW b \in Nat, d < b, n > (b - 1) * DayBlocks
  PROVE  Within(d, n) = DayBlocks
<1> DEFINE past == (d - 1) * DayBlocks
<1>1. past \in Nat
  BY Constants DEF Days
<1>2. past + DayBlocks = d * DayBlocks
  BY Constants DEF Days
<1>3. d * DayBlocks <= (b - 1) * DayBlocks
  BY Constants DEF Days
<1>4. n > past + DayBlocks
  BY <1>1, <1>2, <1>3, Constants DEF Days
<1> QED
  BY <1>1, <1>4, Constants DEF Within, Least

-----------------------------------------------------------------------------
(* The invariant.                                                            *)

LEMMA FreshInit == FreshnessInit => FreshInv
<1>1. GapEnd <= LastUtcDay * DayBlocks
  BY Constants DEF GapEnd
<1> QED
  BY <1>1, Constants DEF FreshnessInit, FreshInv, FreshnessTypeOK, StampReached, BoundaryReached,
    NoSeries, Days

\* Batches only add blocks, so a day that was reached stays reached.
LEMMA FreshLive == ASSUME FreshInv, ApplyLive PROVE FreshInv'
<1>1. PICK n \in (applied + 1)..(applied + FreshBatch) :
        DayAt(n) <= today /\ applied' = n /\ stamp' \in {DayAt(n), stamp}
  BY DEF ApplyLive
<1>2. applied \in Nat /\ n \in Nat /\ n > applied /\ today \in Days /\ stamp \in Nat /\ boundary \in Nat
  BY <1>1, Constants DEF FreshInv, FreshnessTypeOK, Days
<1>3. DayAt(n) \in Nat /\ DayAt(n) > 0 /\ (DayAt(n) - 1) * DayBlocks < n /\ n <= DayAt(n) * DayBlocks
  BY <1>2, BlockInDay
<1>4. DayAt(n) * DayBlocks <= LastUtcDay * DayBlocks
  BY <1>1, <1>2, <1>3, Constants DEF Days
<1>5. FreshnessTypeOK'
  <2>1. n \in GapEnd..(LastUtcDay * DayBlocks)
    BY <1>2, <1>3, <1>4, Constants DEF FreshInv, FreshnessTypeOK
  <2>2. stamp' \in 0..LastUtcDay
    BY <1>1, <1>2, <1>3, Constants DEF FreshInv, FreshnessTypeOK, Days
  <2> QED
    BY <1>1, <2>1, <2>2 DEF FreshInv, FreshnessTypeOK, ApplyLive, Days
<1>6. StampReached'
  <2>1. CASE stamp' = DayAt(n)
    BY <1>1, <1>3, <2>1 DEF StampReached
  <2>2. CASE stamp' = stamp
    <3>1. (stamp - 1) * DayBlocks \in Int
      BY <1>2, Constants
    <3> QED
      BY <1>1, <1>2, <2>2, <3>1 DEF FreshInv, StampReached
  <2> QED
    BY <1>1, <2>1, <2>2
<1>7. BoundaryReached'
  <2>1. (boundary - 1) * DayBlocks \in Int
    BY <1>2, Constants
  <2> QED
    BY <1>1, <1>2, <2>1 DEF FreshInv, BoundaryReached, ApplyLive
<1> QED
  BY <1>5, <1>6, <1>7 DEF FreshInv

LEMMA FreshRows == ASSUME FreshInv, ReadRows PROVE FreshInv'
<1>1. \A d \in Days : InRows(d) \in 0..DayBlocks
  <2>1. filled \in Nat /\ applied \in Nat
    BY Constants DEF FreshInv, FreshnessTypeOK
  <2> QED
    BY <2>1, WithinDay DEF InRows
<1>2. UNCHANGED <<today, applied, filled, stamp>>
  BY DEF ReadRows
<1>3. CASE reading' = reading \cup {"rows"} /\ series' = [d \in Days |-> InRows(d)] /\ UNCHANGED boundary
  BY <1>1, <1>2, <1>3 DEF FreshInv, FreshnessTypeOK, StampReached, BoundaryReached
<1>4. CASE reading' = {} /\ series' = NoSeries /\ boundary' = 0
  BY <1>2, <1>4, Constants DEF FreshInv, FreshnessTypeOK, StampReached, BoundaryReached, NoSeries
<1> QED
  BY <1>3, <1>4 DEF ReadRows

LEMMA FreshStatus == ASSUME FreshInv, ReadStatus PROVE FreshInv'
<1>1. UNCHANGED <<today, applied, filled, stamp, series>>
  BY DEF ReadStatus
<1>2. "known" \notin reading
  BY DEF ReadStatus, FreshInv, BoundaryReached
<1>3. CASE /\ reading' = reading \cup {"status"} \cup (IF stamp = 0 THEN {} ELSE {"known"})
           /\ boundary' = Boundary
  BY <1>1, <1>2, <1>3, Constants
  DEF FreshInv, FreshnessTypeOK, StampReached, BoundaryReached, Boundary, Days
<1>4. CASE reading' = reading \cup {"status"} /\ boundary' = today
  BY <1>1, <1>2, <1>4, Constants DEF FreshInv, FreshnessTypeOK, StampReached, BoundaryReached, Days
<1> QED
  BY <1>3, <1>4 DEF ReadStatus

LEMMA FreshStep == ASSUME FreshInv, [FreshnessNext]_dvars PROVE FreshInv'
<1>1. CASE Midnight
  BY <1>1, Constants DEF FreshInv, FreshnessTypeOK, StampReached, BoundaryReached, Midnight, Days
<1>2. CASE ApplyGap
  <2>1. filled' \in 0..GapEnd
    BY <1>2, Constants, LeastOf DEF FreshInv, FreshnessTypeOK, ApplyGap
  <2> QED
    BY <1>2, <2>1 DEF FreshInv, FreshnessTypeOK, StampReached, BoundaryReached, ApplyGap
<1>3. CASE BeginRequest
  BY <1>3 DEF FreshInv, FreshnessTypeOK, StampReached, BoundaryReached, BeginRequest
<1>4. CASE Serve
  BY <1>4, Constants DEF FreshInv, FreshnessTypeOK, StampReached, BoundaryReached, Serve, NoSeries
<1>5. CASE UNCHANGED dvars
  BY <1>5 DEF FreshInv, FreshnessTypeOK, StampReached, BoundaryReached, dvars
<1> QED
  BY <1>1, <1>2, <1>3, <1>4, <1>5, FreshLive, FreshRows, FreshStatus DEF FreshnessNext

\* The types of the state, and that the days a stamp or a boundary names were reached
\* (schema.sql, apply_ingest_batch: the checkpoint and its timestamp move together).
THEOREM FreshInvariant == FreshnessSpec => []FreshInv
  BY FreshInit, FreshStep, PTL DEF FreshnessSpec

\* A day after the gap that is served as complete is complete by then
\* (aggregate.py:392-426, metrics.py:65-78): its row may be older than its last batch,
\* the reader's next list is right.
THEOREM ServedComplete == FreshnessSpec => []CompleteWhenServed
<1>1. FreshInv => CompleteWhenServed
  <2> SUFFICES ASSUME FreshInv, Ready,
                      NEW d \in (GapDays + 1)..LastUtcDay, ~Partial(d)
               PROVE  Complete(d)
    BY DEF CompleteWhenServed
  <2>1. d \in Days /\ d > GapDays /\ applied \in Nat /\ boundary \in Nat
    BY Constants DEF FreshInv, FreshnessTypeOK, Days
  <2>2. boundary # 0 /\ applied > (boundary - 1) * DayBlocks /\ d < boundary
    BY <2>1 DEF FreshInv, BoundaryReached, Ready, Partial, Days
  <2>3. Within(d, applied) = DayBlocks
    BY <2>1, <2>2, WholeDay
  <2> QED
    BY <2>1, <2>3, Constants DEF Complete, InRows, Days
<1> QED
  BY <1>1, FreshInvariant, PTL

-----------------------------------------------------------------------------
(* The scoring job and the list of projects, for any number of projects,     *)
(* jobs and pages of any size.  A reading in the order of keys has no gap    *)
(* (QueueProofs!ReadOnFacts), so whoever stays in a table while it is read   *)
(* is read once.                                                             *)

\* A row of project_scores; what its score is does not matter to where it goes.
ScoredRow == [project: Project, now: 1..MaxScorings, found: Found, score: Int]

\* A scoring job has a number of its own once it is under way, and has read in order.
JobOK(j, n) ==
  /\ j \in [at: {"idle", "stats", "projects", "insert"}, now: 0..MaxScorings, read: Seq(Project)]
  /\ j.at # "idle" => j.now \in 1..n
  /\ Increasing(j.read)

\* The two readers of a list under construction have read in order.
LoadOK(l) ==
  /\ l \in [at: {"idle", "both", "projects", "scores", "join"}, read: Seq(Project), latest: Seq(ScoredRow)]
  /\ Increasing(l.read) /\ Increasing(ProjectsOf(l.latest))

\* The reader of projects, once it is done or past the key of somebody who has to be in
\* the list, has read them.
ReadOf(p, at, names) ==
  at \in {"scores", "join"} \/ p <= LastKey(names) => \E i \in 1..Len(names) : names[i] = p

\* So has the reader of scores, and a row no older than "since".
ScoreOf(p, at, latest, since) ==
  since > 0 /\ (at \in {"projects", "join"} \/ p <= LastKey(ProjectsOf(latest)))
    => \E i \in 1..Len(latest) : latest[i].project = p /\ latest[i].now >= since

\* The newest rows of a project, and their time.
NewestIn(q, p) ==
  {r \in ToSet(q) : r.project = p /\ \A s \in ToSet(q) : s.project = p => s.now <= r.now}
AtIn(q, p) == IF NewestIn(q, p) = {} THEN 0 ELSE Max({r.now : r \in NewestIn(q, p)})

\* Whoever has to be in the list is still in the table, and so is a score no older than
\* the one of the beginning.
OwedOK(o, there, q) ==
  /\ o \in [present: SUBSET there, since: [Project -> 0..MaxScorings]]
  /\ \A p \in o.present : AtIn(q, p) >= o.since[p]

ServedOK(l, o) ==
  \A p \in o.present : ReadOf(p, l.at, l.read) /\ ScoreOf(p, l.at, l.latest, o.since[p])

JobsOK(f, n) == f = [s \in Scorer |-> f[s]] /\ \A s \in Scorer : JobOK(f[s], n)

ScoresInv ==
  /\ projects \subseteq Project /\ leaving \subseteq projects
  /\ begun \in 0..MaxScorings
  /\ scores \in Seq(ScoredRow)
  /\ JobsOK(scorer, begun)
  /\ LoadOK(load)
  /\ OwedOK(owed, projects \ leaving, scores)
  /\ ServedOK(load, owed)

-----------------------------------------------------------------------------
(* The newest score of a project.                                            *)

LEMMA AtIsAtIn == \A p : At(p) = AtIn(scores, p) /\ At(p)' = AtIn(scores', p)
                         /\ Latest(p) = NewestIn(scores, p)
  BY DEF At, AtIn, Latest, NewestIn

LEMMA ProjectNumbers == Project \subseteq Nat \ {0} /\ IsFiniteSet(Project) /\ MaxScorings \in Nat
<1>1. Project = 1..Cardinality(Project) /\ Cardinality(Project) \in Nat
  BY ScoreAssumption, FS_CardinalityType
<1> QED
  BY <1>1, ScoreAssumption

\* A set of numbers with a bound has a greatest element.
LEMMA GreatestNumber ==
  ASSUME NEW T, T \subseteq Nat, T # {}, NEW b \in Nat, \A x \in T : x <= b
  PROVE  \E x \in T : \A y \in T : y <= x
<1> DEFINE U == {n \in Nat : \A x \in T : x <= n}
<1>1. PICK n \in U : \A m \in U : n <= m
  <2>1. U # {} /\ U \subseteq Nat
    OBVIOUS
  <2> HIDE DEF U
  <2> QED
    BY <2>1, LeastNumber
<1>2. ASSUME n \notin T PROVE FALSE
  <2>1. PICK x \in T : TRUE
    OBVIOUS
  <2>2. n \in Nat /\ n - 1 \in Nat
    BY <1>2, <2>1
  <2>3. n - 1 \in U
    BY <1>2, <2>2
  <2> QED
    BY <1>1, <2>2, <2>3
<1> QED
  BY <1>1, <1>2

\* A project with a row has a newest one.
LEMMA AtInFacts ==
  ASSUME NEW q \in Seq(ScoredRow), NEW p
  PROVE  /\ AtIn(q, p) \in 0..MaxScorings
         /\ \A r \in ToSet(q) : r \in ScoredRow /\ (r.project = p => r.now <= AtIn(q, p))
         /\ AtIn(q, p) > 0 => NewestIn(q, p) # {}
         /\ \A r \in NewestIn(q, p) : r \in ToSet(q) /\ r.project = p /\ r.now = AtIn(q, p)
         /\ NewestIn(q, p) = {} => \A r \in ToSet(q) : r.project # p
<1> DEFINE mine == {r \in ToSet(q) : r.project = p}
           times == {r.now : r \in mine}
           new == NewestIn(q, p)
<1>1. MaxScorings \in Nat /\ \A r \in ToSet(q) : r \in ScoredRow
  BY ProjectNumbers, ElementOfSeq, LenProperties DEF ToSet
<1>2. \A r \in mine : r.now \in 1..MaxScorings
  BY <1>1 DEF ScoredRow
<1>3. CASE mine = {}
  BY <1>1, <1>3 DEF AtIn, NewestIn
<1>4. CASE mine # {}
  <2>1. times \subseteq Nat /\ times # {} /\ \A x \in times : x <= MaxScorings
    BY <1>1, <1>2, <1>4
  <2>2. PICK t \in times : \A x \in times : x <= t
    <3> HIDE DEF times
    <3> QED
      BY <1>1, <2>1, GreatestNumber
  <2>3. PICK r \in mine : r.now = t
    BY <2>2
  <2>4. r \in new
    BY <2>2, <2>3 DEF NewestIn
  <2>5. \A s \in new : s \in mine /\ s.now = t
    <3> SUFFICES ASSUME NEW s \in new PROVE s \in mine /\ s.now = t
      OBVIOUS
    <3>1. s \in mine /\ r.now <= s.now
      BY <2>3 DEF NewestIn
    <3>2. s.now <= t /\ s.now \in Nat /\ t \in Nat
      BY <2>1, <2>2, <3>1
    <3> QED
      BY <2>3, <3>1, <3>2
  <2>6. {s.now : s \in new} = {t}
    BY <2>4, <2>5
  <2>7. Max({t}) = t
    BY <2>1, <2>2 DEF Max
  <2>8. AtIn(q, p) = t
    BY <2>4, <2>6, <2>7 DEF AtIn
  <2>9. t \in 1..MaxScorings
    BY <1>2, <2>3
  <2> QED
    BY <1>1, <2>2, <2>4, <2>5, <2>8, <2>9
<1> QED
  BY <1>3, <1>4

\* As long as a project keeps its rows, its newest score does not get older.
LEMMA AtInGrows ==
  ASSUME NEW q \in Seq(ScoredRow), NEW r \in Seq(ScoredRow), NEW p,
         \A s \in ToSet(q) : s.project = p => s \in ToSet(r)
  PROVE  AtIn(q, p) <= AtIn(r, p)
<1>1. AtIn(q, p) \in 0..MaxScorings /\ AtIn(r, p) \in 0..MaxScorings /\ MaxScorings \in Nat
  BY AtInFacts, ProjectNumbers
<1>2. CASE AtIn(q, p) > 0
  <2>1. PICK s \in NewestIn(q, p) : s \in ToSet(q) /\ s.project = p /\ s.now = AtIn(q, p)
    BY <1>2, AtInFacts
  <2>2. s \in ToSet(r)
    BY <2>1
  <2> QED
    BY <2>1, <2>2, AtInFacts
<1>3. CASE ~(AtIn(q, p) > 0)
  BY <1>1, <1>3
<1> QED
  BY <1>2, <1>3

-----------------------------------------------------------------------------
(* What a run inserts.                                                       *)

\* A score is a number of equal parts of Unit.
LEMMA ExactShare ==
  ASSUME NEW n \in Nat \ {0}, NEW k \in Nat, NEW a \in Nat
  PROVE  (a * (n * k)) \div n = a * k
<1>1. a * k \in Nat /\ a * (n * k) = (a * k) * n
  OBVIOUS
<1>2. ASSUME NEW x \in Nat PROVE (x * n) \div n = x
  OBVIOUS
<1> QED
  BY <1>1, <1>2

LEMMA Divides ==
  ASSUME NEW n \in Nat \ {0}, Unit \in Nat \ {0}, Unit % n = 0
  PROVE  \E k \in Nat \ {0} : Unit = n * k
<1>1. Unit = n * (Unit \div n) + (Unit % n) /\ Unit \div n \in Nat
  OBVIOUS
<1>2. Unit = n * (Unit \div n) /\ Unit \div n # 0
  BY <1>1
<1> QED
  BY <1>1, <1>2

LEMMA UnitDivides ==
  ASSUME NEW n \in 1..TopUse
  PROVE  \E k \in Nat \ {0} : Unit = n * k
<1>1. Unit \in Nat \ {0} /\ TopUse \in Nat /\ Unit % n = 0
  BY ScoreAssumption
<1>2. n \in Nat \ {0}
  BY <1>1
<1> QED
  BY <1>1, <1>2, Divides

\* An older project has no smaller bonus, however the clocks are.
LEMMA AgeBonusGrows ==
  /\ \A d \in Int : AgeBonus(d) \in Int
  /\ \A d, e \in Int : d <= e => AgeBonus(d) <= AgeBonus(e)
<1>1. AgeCap \in Nat \ {0} /\ Unit \in Nat \ {0} /\ Unit % AgeCap = 0
  BY ScoreAssumption
<1>2. PICK k \in Nat \ {0} : Unit = AgeCap * k
  BY <1>1, Divides
<1>3. ASSUME NEW d \in Int, 0 <= d, d <= AgeCap PROVE AgeBonus(d) = d * k
  <2>1. d \in Nat /\ ~(d < 0) /\ ~(d > AgeCap)
    BY <1>1, <1>3
  <2>2. (d * (AgeCap * k)) \div AgeCap = d * k
    BY <1>1, <2>1, ExactShare
  <2> QED
    BY <1>2, <2>1, <2>2 DEF AgeBonus
<1>4. \A d \in Int : d < 0 => AgeBonus(d) = 0
  BY DEF AgeBonus
<1>5. \A d \in Int : d > AgeCap => AgeBonus(d) = AgeCap * k
  BY <1>1, <1>2 DEF AgeBonus
<1>6. \A a, b \in Nat : a <= b => a * k \in Nat /\ a * k <= b * k
  BY <1>2
<1> HIDE DEF AgeBonus
<1>7. ASSUME NEW d \in Int PROVE AgeBonus(d) \in Nat
  <2>1. CASE 0 <= d /\ d <= AgeCap
    <3>1. d \in Nat
      BY <2>1
    <3> QED
      BY <1>3, <1>6, <2>1, <3>1
  <2>2. CASE d > AgeCap
    BY <1>1, <1>5, <1>6, <2>2
  <2> QED
    BY <1>1, <1>4, <2>1, <2>2
<1>8. ASSUME NEW d \in Int, NEW e \in Int, d <= e PROVE AgeBonus(d) <= AgeBonus(e)
  <2>1. CASE d < 0
    BY <1>4, <1>7, <2>1
  <2>2. CASE ~(d < 0) /\ ~(e > AgeCap)
    <3>1. d \in Nat /\ e \in Nat /\ 0 <= d /\ d <= AgeCap /\ 0 <= e /\ e <= AgeCap
      BY <1>1, <1>8, <2>2
    <3>2. AgeBonus(d) = d * k /\ AgeBonus(e) = e * k
      BY <1>3, <3>1
    <3> QED
      BY <1>6, <1>8, <3>1, <3>2
  <2>3. CASE ~(d < 0) /\ e > AgeCap /\ ~(d > AgeCap)
    <3>1. d \in Nat /\ 0 <= d /\ d <= AgeCap
      BY <1>1, <2>3
    <3>2. AgeBonus(d) = d * k /\ AgeBonus(e) = AgeCap * k
      BY <1>3, <1>5, <2>3, <3>1
    <3> QED
      BY <1>1, <1>6, <3>1, <3>2
  <2>4. CASE d > AgeCap
    <3>1. e > AgeCap
      BY <1>1, <1>8, <2>4
    <3>2. AgeBonus(d) = AgeBonus(e)
      BY <1>5, <2>4, <3>1
    <3> QED
      BY <1>7, <3>2
  <2> QED
    BY <1>1, <2>1, <2>2, <2>3, <2>4
<1> QED
  BY <1>7, <1>8

\* Normalising keeps the order, and stretches it from 0 to Unit.
LEMMA NormalizedFacts ==
  ASSUME NEW all, all \subseteq 0..TopUse, NEW v \in all
  PROVE  /\ Normalized(v, all) \in Int
         /\ \A w \in all : v < w => Normalized(v, all) < Normalized(w, all)
         /\ (\A x \in all : v <= x) => Normalized(v, all) = 0
         /\ (\A x \in all : x <= v) /\ (\E x \in all : x < v) => Normalized(v, all) = Unit
<1> DEFINE lo == Min(all)
           hi == Max(all)
<1>1. TopUse \in Nat /\ Unit \in Nat \ {0} /\ \A x \in all : x \in 0..TopUse
  BY ScoreAssumption
<1>2. lo \in all /\ \A x \in all : lo <= x
  <2>1. PICK x \in all : \A y \in all : x <= y
    <3>1. all \subseteq Nat /\ all # {}
      BY <1>1
    <3> QED
      BY <3>1, LeastNumber
  <2> QED
    BY <2>1 DEF Min
<1>3. hi \in all /\ \A x \in all : hi >= x
  <2>1. PICK x \in all : \A y \in all : y <= x
    <3>1. all \subseteq Nat /\ all # {} /\ \A x \in all : x <= TopUse
      BY <1>1
    <3> QED
      BY <1>1, <3>1, GreatestNumber
  <2>2. \A y \in all : x >= y
    BY <1>1, <2>1
  <2> QED
    BY <2>2 DEF Max
<1>4. \A x \in all : Normalized(x, all) = IF lo = hi THEN 0 ELSE ((x - lo) * Unit) \div (hi - lo)
  BY DEF Normalized
<1> HIDE DEF lo, hi
<1>5. CASE lo = hi
  <2>1. \A x \in all : x = lo
    BY <1>1, <1>2, <1>3, <1>5
  <2> QED
    BY <1>1, <1>2, <1>4, <1>5, <2>1
<1>6. CASE lo # hi
  <2>1. hi - lo \in 1..TopUse /\ hi - lo \in Nat \ {0} /\ lo \in Nat /\ hi \in Nat
    BY <1>1, <1>2, <1>3, <1>6
  <2>2. PICK k \in Nat \ {0} : Unit = (hi - lo) * k
    BY <2>1, UnitDivides
  <2>3. ASSUME NEW x \in all PROVE x - lo \in Nat /\ Normalized(x, all) = (x - lo) * k
    <3>1. x - lo \in Nat
      BY <1>1, <1>2, <2>1
    <3>2. ((x - lo) * ((hi - lo) * k)) \div (hi - lo) = (x - lo) * k
      BY <2>1, <3>1, ExactShare
    <3> QED
      BY <1>4, <1>6, <2>2, <3>1, <3>2
  <2>4. Normalized(v, all) = (v - lo) * k /\ v - lo \in Nat
    BY <2>3
  <2>5. ASSUME NEW w \in all, v < w PROVE Normalized(v, all) < Normalized(w, all)
    <3>1. Normalized(w, all) = (w - lo) * k /\ w - lo \in Nat /\ v - lo < w - lo
      BY <1>1, <2>1, <2>3, <2>5
    <3>2. \A a, b \in Nat : a < b => a * k < b * k
      OBVIOUS
    <3> QED
      BY <2>4, <3>1, <3>2
  <2>6. (\A x \in all : v <= x) => v = lo
    BY <1>1, <1>2
  <2>7. (\A x \in all : x <= v) => v = hi
    BY <1>1, <1>3
  <2>8. (lo - lo) * k = 0
    BY <2>1
  <2> QED
    BY <2>2, <2>4, <2>5, <2>6, <2>7, <2>8
<1> QED
  BY <1>5, <1>6

\* What ScoredAmongPeers says of the rows of a run.
AmongPeers(rows) ==
  LET added == ToSet(rows)
      peers == {q \in added : q.project \in Defi}
  IN /\ \A i, j \in DOMAIN rows : i < j => rows[i].project # rows[j].project
     /\ \A r \in added \ peers : r.score = NoScore
     /\ \A r, q \in peers : NotBehind(r, q) =>
          /\ q.score <= r.score
          /\ (\E k \in Measure : q.found.use[k] < r.found.use[k]) => q.score < r.score
     /\ \A r \in peers :
          /\ (\A q \in peers, k \in Measure : r.found.use[k] <= q.found.use[k])
               => r.score = AgeBonus(r.found.days)
          /\ (\A k \in Measure : /\ \A q \in peers : q.found.use[k] <= r.found.use[k]
                                 /\ \E q \in peers : q.found.use[k] < r.found.use[k])
               => r.score = 3 * Unit + AgeBonus(r.found.days)

\* One measure: all(k) is what the peers have of it.
Part(r, k, all) == Normalized(r.found.use[k], all[k])

\* A composite of parts that are each normalised among the same peers.
LEMMA Composed ==
  ASSUME NEW peers, NEW all \in [Measure -> SUBSET (0..TopUse)],
         \A r \in peers : /\ r.found \in Found /\ \A k \in Measure : r.found.use[k] \in all[k]
                          /\ r.score = Part(r, "gas", all) + Part(r, "users", all)
                                         + Part(r, "tvl", all) + AgeBonus(r.found.days),
         \A k \in Measure : \A x \in all[k] : \E q \in peers : q.found.use[k] = x
  PROVE  /\ \A r \in peers : r.score \in Int
         /\ \A r, q \in peers : NotBehind(r, q) =>
              /\ q.score <= r.score
              /\ (\E k \in Measure : q.found.use[k] < r.found.use[k]) => q.score < r.score
         /\ \A r \in peers :
              /\ (\A q \in peers, k \in Measure : r.found.use[k] <= q.found.use[k])
                   => r.score = AgeBonus(r.found.days)
              /\ (\A k \in Measure : /\ \A q \in peers : q.found.use[k] <= r.found.use[k]
                                     /\ \E q \in peers : q.found.use[k] < r.found.use[k])
                   => r.score = 3 * Unit + AgeBonus(r.found.days)
<1>1. TopUse \in Nat /\ Unit \in Nat
  BY ScoreAssumption
<1>2. ASSUME NEW r \in peers, NEW k \in Measure
      PROVE  /\ r.found.use[k] \in all[k] /\ all[k] \subseteq 0..TopUse /\ r.found.use[k] \in Nat
             /\ Part(r, k, all) \in Int
             /\ \A w \in all[k] : r.found.use[k] < w => Part(r, k, all) < Normalized(w, all[k])
             /\ (\A x \in all[k] : r.found.use[k] <= x) => Part(r, k, all) = 0
             /\ (\A x \in all[k] : x <= r.found.use[k]) /\ (\E x \in all[k] : x < r.found.use[k])
                  => Part(r, k, all) = Unit
  <2>1. r.found.use[k] \in all[k] /\ all[k] \subseteq 0..TopUse
    OBVIOUS
  <2>2. r.found.use[k] \in Nat
    BY <1>1, <2>1
  <2> QED
    BY <2>1, <2>2, NormalizedFacts DEF Part
<1>3. ASSUME NEW r \in peers, NEW q \in peers, NEW k \in Measure, q.found.use[k] <= r.found.use[k]
      PROVE  /\ Part(q, k, all) <= Part(r, k, all)
             /\ q.found.use[k] < r.found.use[k] => Part(q, k, all) < Part(r, k, all)
  <2>1. q.found.use[k] < r.found.use[k] => Part(q, k, all) < Part(r, k, all)
    <3>1. r.found.use[k] \in all[k] /\ Part(r, k, all) = Normalized(r.found.use[k], all[k])
      BY <1>2 DEF Part
    <3> QED
      BY <1>2, <3>1
  <2>2. q.found.use[k] = r.found.use[k] => Part(q, k, all) = Part(r, k, all)
    BY DEF Part
  <2>3. /\ Part(q, k, all) \in Int /\ Part(r, k, all) \in Int
        /\ q.found.use[k] \in Nat /\ r.found.use[k] \in Nat
    BY <1>2
  <2>4. CASE q.found.use[k] < r.found.use[k]
    BY <2>1, <2>3, <2>4
  <2>5. CASE q.found.use[k] = r.found.use[k]
    <3>1. Part(q, k, all) = Part(r, k, all) /\ ~(q.found.use[k] < r.found.use[k])
      BY <2>2, <2>3, <2>5
    <3> QED
      BY <2>3, <3>1
  <2>6. q.found.use[k] < r.found.use[k] \/ q.found.use[k] = r.found.use[k]
    <3>1. \A x, y \in Nat : y <= x => y < x \/ y = x
      OBVIOUS
    <3>2. q.found.use[k] <= r.found.use[k]
      BY <1>3
    <3> HIDE <1>3
    <3> QED
      BY <2>3, <3>1, <3>2
  <2> QED
    BY <2>4, <2>5, <2>6
<1>4. "gas" \in Measure /\ "users" \in Measure /\ "tvl" \in Measure
      /\ \A k \in Measure : k = "gas" \/ k = "users" \/ k = "tvl"
  BY DEF Measure
<1>5. ASSUME NEW r \in peers
      PROVE  /\ AgeBonus(r.found.days) \in Int /\ r.found.days \in Int
             /\ Part(r, "gas", all) \in Int /\ Part(r, "users", all) \in Int /\ Part(r, "tvl", all) \in Int
             /\ r.score = Part(r, "gas", all) + Part(r, "users", all)
                            + Part(r, "tvl", all) + AgeBonus(r.found.days)
  <2>1. r.found.days \in Int
    BY DEF Found
  <2> QED
    BY <1>2, <1>4, <2>1, AgeBonusGrows
<1>6. ASSUME NEW r \in peers, NEW q \in peers, NotBehind(r, q)
      PROVE  /\ q.score <= r.score
             /\ (\E k \in Measure : q.found.use[k] < r.found.use[k]) => q.score < r.score
  <2>1. \A k \in Measure : q.found.use[k] <= r.found.use[k]
    BY <1>6 DEF NotBehind
  <2>2. AgeBonus(q.found.days) <= AgeBonus(r.found.days)
    BY <1>5, <1>6, AgeBonusGrows DEF NotBehind
  <2>3. /\ Part(q, "gas", all) <= Part(r, "gas", all) /\ Part(q, "users", all) <= Part(r, "users", all)
        /\ Part(q, "tvl", all) <= Part(r, "tvl", all)
    BY <1>3, <1>4, <2>1
  <2>4. q.score <= r.score
    BY <1>5, <2>2, <2>3
  <2>5. ASSUME NEW k \in Measure, q.found.use[k] < r.found.use[k] PROVE q.score < r.score
    <3>1. Part(q, k, all) < Part(r, k, all)
      BY <1>3, <2>1, <2>5
    <3>2. CASE k = "gas"
      BY <1>5, <2>2, <2>3, <3>1, <3>2
    <3>3. CASE k = "users"
      BY <1>5, <2>2, <2>3, <3>1, <3>3
    <3>4. CASE k = "tvl"
      BY <1>5, <2>2, <2>3, <3>1, <3>4
    <3> QED
      BY <1>4, <3>2, <3>3, <3>4
  <2> QED
    BY <2>4, <2>5
<1>7. ASSUME NEW r \in peers, \A q \in peers, k \in Measure : r.found.use[k] <= q.found.use[k]
      PROVE  r.score = AgeBonus(r.found.days)
  <2>1. ASSUME NEW k \in Measure PROVE Part(r, k, all) = 0
    <3>1. \A x \in all[k] : r.found.use[k] <= x
      BY <1>7
    <3> QED
      BY <1>2, <3>1
  <2>2. Part(r, "gas", all) = 0 /\ Part(r, "users", all) = 0 /\ Part(r, "tvl", all) = 0
    BY <1>4, <2>1
  <2> QED
    BY <1>5, <2>2
<1>8. ASSUME NEW r \in peers,
             \A k \in Measure : /\ \A q \in peers : q.found.use[k] <= r.found.use[k]
                                /\ \E q \in peers : q.found.use[k] < r.found.use[k]
      PROVE  r.score = 3 * Unit + AgeBonus(r.found.days)
  <2>1. ASSUME NEW k \in Measure PROVE Part(r, k, all) = Unit
    <3>1. \A x \in all[k] : x <= r.found.use[k]
      BY <1>8
    <3>2. \E x \in all[k] : x < r.found.use[k]
      BY <1>8
    <3> QED
      BY <1>2, <3>1, <3>2
  <2>2. Part(r, "gas", all) = Unit /\ Part(r, "users", all) = Unit /\ Part(r, "tvl", all) = Unit
    BY <1>4, <2>1
  <2> QED
    BY <1>1, <1>5, <2>2
<1>9. \A r \in peers : r.score \in Int
  BY <1>5
<1> QED
  BY <1>6, <1>7, <1>8, <1>9

\* The rows of projects that were read in order are measured among peers.
LEMMA RowsMeasured ==
  ASSUME NEW ids \in Seq(Project), Increasing(ids), NEW w \in Windows, NEW now \in 1..MaxScorings
  PROVE  /\ RowsOf(ids, w, now) \in Seq(ScoredRow)
         /\ AmongPeers(RowsOf(ids, w, now))
<1> DEFINE rows == RowsOf(ids, w, now)
           all == [k \in Measure |-> Peers(ToSet(ids), w, k)]
           added == ToSet(rows)
           peers == {q \in added : q.project \in Defi}
           Summed(p) == Normalized(w[p].use["gas"], all["gas"]) + Normalized(w[p].use["users"], all["users"])
                         + Normalized(w[p].use["tvl"], all["tvl"]) + AgeBonus(w[p].days)
<1>1. /\ Len(ids) \in Nat /\ DOMAIN ids = 1..Len(ids) /\ \A i \in 1..Len(ids) : ids[i] \in Project
      /\ Project \subseteq Nat \ {0} /\ TopUse \in Nat
  BY LenProperties, ElementOfSeq, ProjectNumbers, ScoreAssumption
<1>2. ToSet(ids) = {ids[i] : i \in 1..Len(ids)} /\ ToSet(ids) \subseteq Project
  BY <1>1 DEF ToSet
<1>3. \A p \in Project : w[p] \in Found /\ w[p].use \in [Measure -> 0..TopUse]
  BY ScoreAssumption DEF Found
<1>4. all \in [Measure -> SUBSET (0..TopUse)]
      /\ \A k \in Measure : all[k] = {w[p].use[k] : p \in ToSet(ids) \cap Defi}
  BY <1>2, <1>3 DEF Peers
<1>5. "gas" \in Measure /\ "users" \in Measure /\ "tvl" \in Measure
  BY DEF Measure
<1>6. \A p : Composite(p, ToSet(ids), w) = Summed(p)
  BY <1>5 DEF Composite
<1>7. /\ DOMAIN rows = 1..Len(ids)
      /\ \A i \in 1..Len(ids) :
           rows[i] = [project |-> ids[i], now |-> now, found |-> w[ids[i]],
                      score |-> IF ids[i] \in Defi THEN Composite(ids[i], ToSet(ids), w) ELSE NoScore]
  BY <1>1 DEF RowsOf
<1>8. rows = [i \in 1..Len(ids) |-> rows[i]]
  BY <1>1 DEF RowsOf
<1> HIDE DEF rows, all, Summed
<1>9. ASSUME NEW i \in 1..Len(ids)
      PROVE  /\ rows[i].project = ids[i] /\ rows[i].now = now /\ rows[i].found = w[ids[i]]
             /\ rows[i].score = IF ids[i] \in Defi THEN Summed(ids[i]) ELSE NoScore
             /\ ids[i] \in ToSet(ids) /\ rows[i].found \in Found
  <2>1. /\ rows[i].project = ids[i] /\ rows[i].now = now /\ rows[i].found = w[ids[i]]
        /\ rows[i].score = IF ids[i] \in Defi THEN Composite(ids[i], ToSet(ids), w) ELSE NoScore
    BY <1>7
  <2>2. ids[i] \in ToSet(ids) /\ w[ids[i]] \in Found
    BY <1>2, <1>3
  <2>3. Composite(ids[i], ToSet(ids), w) = Summed(ids[i])
    BY <1>6
  <2> QED
    BY <2>1, <2>2, <2>3
<1>10. added = {rows[i] : i \in 1..Len(ids)}
  BY <1>7 DEF ToSet
<1>11. ASSUME NEW r \in peers
       PROVE  /\ r.found \in Found /\ \A k \in Measure : r.found.use[k] \in all[k]
              /\ r.score = Part(r, "gas", all) + Part(r, "users", all)
                             + Part(r, "tvl", all) + AgeBonus(r.found.days)
  <2>1. PICK i \in 1..Len(ids) : r = rows[i] /\ rows[i].project \in Defi
    BY <1>10
  <2>2. /\ ids[i] \in ToSet(ids) \cap Defi /\ r.found = w[ids[i]] /\ r.found \in Found
        /\ r.score = Summed(ids[i])
    BY <1>9, <2>1
  <2>3. \A k \in Measure : r.found.use[k] \in all[k]
    BY <1>4, <2>2
  <2> QED
    BY <2>2, <2>3 DEF Summed, Part
<1>12. ASSUME NEW k \in Measure, NEW x \in all[k] PROVE \E q \in peers : q.found.use[k] = x
  <2>1. PICK p \in ToSet(ids) \cap Defi : x = w[p].use[k]
    BY <1>4
  <2>2. PICK i \in 1..Len(ids) : ids[i] = p
    BY <1>2, <2>1
  <2>3. rows[i] \in peers /\ rows[i].found.use[k] = x
    BY <1>9, <1>10, <2>1, <2>2
  <2> QED
    BY <2>3
<1>13. \A i, j \in DOMAIN rows : i < j => rows[i].project # rows[j].project
  <2> SUFFICES ASSUME NEW i \in 1..Len(ids), NEW j \in 1..Len(ids), i < j
               PROVE  rows[i].project # rows[j].project
    BY <1>7
  <2>1. ids[i] < ids[j] /\ ids[i] \in Nat /\ ids[j] \in Nat
    BY <1>1 DEF Increasing
  <2> QED
    BY <1>9, <2>1
<1>14. \A r \in added \ peers : r.score = NoScore
  <2> SUFFICES ASSUME NEW i \in 1..Len(ids), rows[i].project \notin Defi
               PROVE  rows[i].score = NoScore
    BY <1>10
  <2> QED
    BY <1>9
<1>15. ASSUME NEW r \in added PROVE r.score \in Int
  <2>1. CASE r \in peers
    <3> HIDE DEF peers
    <3> QED
      BY <1>4, <1>11, <1>12, <2>1, Composed
  <2>2. CASE r \notin peers
    BY <1>14, <2>2 DEF NoScore
  <2> QED
    BY <2>1, <2>2
<1>16. rows \in Seq(ScoredRow)
  <2>1. ASSUME NEW i \in 1..Len(ids) PROVE rows[i] \in ScoredRow
    <3>1. rows[i].score \in Int
      BY <1>10, <1>15
    <3>2. /\ rows[i] = [project |-> rows[i].project, now |-> rows[i].now, found |-> rows[i].found,
                        score |-> rows[i].score]
          /\ rows[i].project \in Project /\ rows[i].now \in 1..MaxScorings /\ rows[i].found \in Found
      BY <1>1, <1>7, <1>9
    <3> QED
      BY <3>1, <3>2 DEF ScoredRow
  <2>2. rows \in [1..Len(ids) -> ScoredRow]
    BY <1>8, <2>1
  <2> QED
    BY <1>1, <2>2, SeqDef
<1> HIDE DEF added, peers
<1>17. AmongPeers(rows)
  <2>1. /\ \A r, q \in peers : NotBehind(r, q) =>
             /\ q.score <= r.score
             /\ (\E k \in Measure : q.found.use[k] < r.found.use[k]) => q.score < r.score
        /\ \A r \in peers :
             /\ (\A q \in peers, k \in Measure : r.found.use[k] <= q.found.use[k])
                  => r.score = AgeBonus(r.found.days)
             /\ (\A k \in Measure : /\ \A q \in peers : q.found.use[k] <= r.found.use[k]
                                    /\ \E q \in peers : q.found.use[k] < r.found.use[k])
                  => r.score = 3 * Unit + AgeBonus(r.found.days)
    BY <1>4, <1>11, <1>12, Composed
  <2> QED
    BY <1>13, <1>14, <2>1 DEF AmongPeers, added, peers
<1> QED
  BY <1>16, <1>17 DEF rows

\* Nothing is inserted when the table does not grow.
LEMMA NothingInserted ==
  ASSUME NEW S, NEW q \in Seq(S), NEW r \in Seq(S), Len(r) <= Len(q)
  PROVE  AmongPeers(SubSeq(r, Len(q) + 1, Len(r)))
<1>1. Len(q) \in Nat /\ Len(r) \in Nat /\ SubSeq(r, Len(q) + 1, Len(r)) = <<>>
  OBVIOUS
<1> QED
  BY <1>1 DEF AmongPeers, ToSet

-----------------------------------------------------------------------------
(* Each step keeps the invariant.                                            *)

LEMMA IncreasingNone == ASSUME NEW S PROVE <<>> \in Seq(S) /\ Increasing(<<>>) /\ LastKey(<<>>) = 0
  BY EmptySeq DEF Increasing, LastKey

LEMMA IdleOK == ASSUME NEW n \in Nat PROVE JobOK(Idle, n)
<1>1. MaxScorings \in Nat
  BY ProjectNumbers
<1> QED
  BY <1>1, IncreasingNone DEF JobOK, Idle

LEMMA NoLoadOK == LoadOK(NoLoad) /\ NoLoad.read = <<>> /\ NoLoad.latest = <<>> /\ ProjectsOf(<<>>) = <<>>
<1>1. ProjectsOf(<<>>) = <<>>
  BY DEF ProjectsOf
<1> QED
  BY <1>1, IncreasingNone DEF LoadOK, NoLoad

LEMMA NoDueOK ==
  ASSUME NEW there, NEW q, NEW l
  PROVE  OwedOK(NoDue, there, q) /\ ServedOK(l, NoDue)
<1>1. MaxScorings \in Nat
  BY ProjectNumbers
<1> QED
  BY <1>1 DEF OwedOK, ServedOK, NoDue

LEMMA ScoresBegin == ScoresInit => ScoresInv
<1> SUFFICES ASSUME ScoresInit PROVE ScoresInv
  OBVIOUS
<1>1. projects \subseteq Project /\ leaving \subseteq projects /\ begun \in 0..MaxScorings
  BY ProjectNumbers DEF ScoresInit
<1>2. scores \in Seq(ScoredRow)
  BY IncreasingNone DEF ScoresInit
<1>3. JobsOK(scorer, begun)
  BY IdleOK DEF ScoresInit, JobsOK
<1>4. LoadOK(load) /\ OwedOK(owed, projects \ leaving, scores) /\ ServedOK(load, owed)
  BY NoLoadOK, NoDueOK DEF ScoresInit
<1> QED
  BY <1>1, <1>2, <1>3, <1>4 DEF ScoresInv

\* The step of one job.
LEMMA JobsStep ==
  ASSUME ScoresInv, NEW s \in Scorer, NEW j, Step(s, j), begun' \in Nat, begun <= begun',
         JobOK(j, begun')
  PROVE  JobsOK(scorer, begun)'
<1>1. begun \in Nat /\ MaxScorings \in Nat
  BY ProjectNumbers DEF ScoresInv
<1>2. ASSUME NEW t \in Scorer PROVE JobOK(scorer'[t], begun')
  <2>1. CASE t = s
    BY <2>1 DEF Step, ScoresInv, JobsOK
  <2>2. CASE t # s
    <3>1. scorer'[t] = scorer[t] /\ JobOK(scorer[t], begun)
      BY <2>2 DEF Step, ScoresInv, JobsOK
    <3> QED
      BY <1>1, <3>1 DEF JobOK
  <2> QED
    BY <2>1, <2>2
<1>3. scorer' = [t \in Scorer |-> scorer'[t]]
  BY DEF Step, ScoresInv, JobsOK
<1> QED
  BY <1>2, <1>3 DEF JobsOK

\* More projects and more rows owe the list no less.
LEMMA OwedStays ==
  ASSUME NEW o, NEW there, NEW more, there \subseteq more, more \subseteq Project,
         NEW q \in Seq(ScoredRow), NEW r \in Seq(ScoredRow), OwedOK(o, there, q),
         \A p \in o.present : \A s \in ToSet(q) : s.project = p => s \in ToSet(r)
  PROVE  OwedOK(o, more, r)
<1>1. o \in [present: SUBSET more, since: [Project -> 0..MaxScorings]]
  BY DEF OwedOK
<1>2. ASSUME NEW p \in o.present PROVE AtIn(r, p) >= o.since[p]
  <2>1. AtIn(q, p) >= o.since[p] /\ AtIn(q, p) <= AtIn(r, p)
    BY AtInGrows DEF OwedOK
  <2>2. AtIn(q, p) \in 0..MaxScorings /\ AtIn(r, p) \in 0..MaxScorings /\ o.since[p] \in 0..MaxScorings
        /\ MaxScorings \in Nat
    BY <1>1, <1>2, AtInFacts, ProjectNumbers
  <2> QED
    BY <2>1, <2>2
<1> QED
  BY <1>1, <1>2 DEF OwedOK

LEMMA PromoteKeeps == ASSUME ScoresInv, NEW p \in Project, Promote(p) PROVE ScoresInv'
<1>1. projects \ leaving \subseteq projects' \ leaving' /\ projects' \subseteq Project
      /\ leaving' \subseteq projects'
  BY DEF Promote, ScoresInv
<1>2. OwedOK(owed, projects \ leaving, scores)'
  <2>1. OwedOK(owed, projects' \ leaving', scores)
    BY <1>1, OwedStays DEF ScoresInv
  <2> QED
    BY <2>1 DEF Promote
<1> QED
  BY <1>1, <1>2 DEF Promote, ScoresInv

LEMMA RetireScoresKeeps ==
  ASSUME ScoresInv, NEW p \in Project, RetireScores(p)
  PROVE  ScoresInv' /\ Len(scores') <= Len(scores)
         /\ \A x \in Project \ {p} : AtIn(scores, x) <= AtIn(scores', x)
<1> DEFINE S == {r \in ToSet(scores) : r.project # p}
<1>1. scores \in Seq(ScoredRow) /\ Len(scores) \in Nat /\ scores' = Only(scores, S)
  BY DEF ScoresInv, RetireScores
<1>2. KeptOK(scores, S, ScoredRow, Len(scores), scores')
  <2> HIDE DEF S
  <2> QED
    BY <1>1, OnlyKeeps
<1>3. /\ scores' \in Seq(ScoredRow) /\ Len(scores') <= Len(scores)
      /\ \A j \in 1..Len(scores) : scores[j] \in S => \E m \in 1..Len(scores') : scores'[m] = scores[j]
  BY <1>2 DEF KeptOK
<1>4. ASSUME NEW r \in ToSet(scores), r.project # p PROVE r \in ToSet(scores')
  <2>1. PICK j \in 1..Len(scores) : scores[j] = r
    BY <1>1, LenProperties DEF ToSet
  <2>2. PICK m \in 1..Len(scores') : scores'[m] = r
    BY <1>3, <1>4, <2>1
  <2> QED
    BY <1>3, <2>2, LenProperties DEF ToSet
<1> DEFINE o == [present |-> owed.present \ {p}, since |-> [owed.since EXCEPT ![p] = 0]]
<1>5. /\ owed \in [present: SUBSET (projects \ leaving), since: [Project -> 0..MaxScorings]]
      /\ MaxScorings \in Nat /\ projects \subseteq Project /\ leaving \subseteq projects
  BY ProjectNumbers DEF ScoresInv, OwedOK
<1>6. /\ owed' = o /\ projects' = projects /\ leaving' = leaving \cup {p} /\ p \in projects
      /\ load' = load /\ begun' = begun /\ scorer' = scorer
  BY DEF RetireScores
<1>7. /\ o \in [present: SUBSET (projects' \ leaving'), since: [Project -> 0..MaxScorings]]
      /\ \A x \in o.present : x \in owed.present /\ x # p /\ x \in Project /\ o.since[x] = owed.since[x]
  BY <1>5, <1>6
<1> HIDE DEF o, S
<1>8. ASSUME NEW x, x # p PROVE AtIn(scores, x) <= AtIn(scores', x)
  BY <1>1, <1>3, <1>4, <1>8, AtInGrows
<1>9. OwedOK(o, projects' \ leaving', scores')
  <2> SUFFICES ASSUME NEW x \in o.present PROVE AtIn(scores', x) >= o.since[x]
    BY <1>7 DEF OwedOK
  <2>1. AtIn(scores, x) >= o.since[x] /\ AtIn(scores, x) <= AtIn(scores', x)
    BY <1>7, <1>8 DEF ScoresInv, OwedOK
  <2>2. AtIn(scores, x) \in 0..MaxScorings /\ AtIn(scores', x) \in 0..MaxScorings
        /\ o.since[x] \in 0..MaxScorings
    BY <1>1, <1>3, <1>7, AtInFacts
  <2> QED
    BY <1>5, <2>1, <2>2
<1>10. ServedOK(load, o)
  BY <1>7 DEF ScoresInv, ServedOK
<1>11. leaving' \subseteq projects'
  BY <1>5, <1>6
<1> QED
  BY <1>3, <1>6, <1>8, <1>9, <1>10, <1>11 DEF ScoresInv

LEMMA RetireProjectKeeps == ASSUME ScoresInv, NEW p \in Project, RetireProject(p) PROVE ScoresInv'
<1>1. /\ projects \ leaving \subseteq projects' \ leaving' /\ projects' \subseteq Project
      /\ leaving' \subseteq projects'
  BY DEF RetireProject, ScoresInv
<1>2. OwedOK(owed, projects \ leaving, scores)'
  <2>1. OwedOK(owed, projects' \ leaving', scores)
    BY <1>1, OwedStays DEF ScoresInv
  <2> QED
    BY <2>1 DEF RetireProject
<1> QED
  BY <1>1, <1>2 DEF RetireProject, ScoresInv

\* The steps of a job that touch no table.
LEMMA StartScoringKeeps == ASSUME ScoresInv, NEW s \in Scorer, StartScoring(s) PROVE ScoresInv'
<1>1. /\ begun \in Nat /\ begun' = begun + 1 /\ begun' \in 0..MaxScorings /\ begun' \in Nat
      /\ MaxScorings \in Nat
  BY ProjectNumbers DEF ScoresInv, StartScoring
<1> DEFINE j == [at |-> "stats", now |-> begun + 1, read |-> <<>>]
<1>2. JobOK(j, begun')
  <2>1. <<>> \in Seq(Project) /\ Increasing(<<>>)
    BY IncreasingNone
  <2>2. begun' \in 1..begun'
    BY <1>1
  <2> QED
    BY <1>1, <2>1, <2>2 DEF JobOK
<1>3. Step(s, j)
  BY DEF StartScoring
<1> HIDE DEF j
<1>4. JobsOK(scorer, begun)'
  BY <1>1, <1>2, <1>3, JobsStep
<1> QED
  BY <1>1, <1>4 DEF ScoresInv, StartScoring

LEMMA WriteStatsKeeps == ASSUME ScoresInv, NEW s \in Scorer, WriteStats(s) PROVE ScoresInv'
<1> DEFINE j == [scorer[s] EXCEPT !.at = "projects"]
<1>1. begun \in Nat /\ begun' = begun /\ Step(s, j) /\ JobOK(scorer[s], begun) /\ scorer[s].at = "stats"
  BY ProjectNumbers DEF ScoresInv, JobsOK, WriteStats
<1>2. JobOK(j, begun')
  BY <1>1 DEF JobOK
<1> HIDE DEF j
<1>3. JobsOK(scorer, begun)'
  BY <1>1, <1>2, JobsStep
<1> QED
  BY <1>1, <1>3 DEF ScoresInv, WriteStats

LEMMA ScoringFailsKeeps == ASSUME ScoresInv, NEW s \in Scorer, ScoringFails(s) PROVE ScoresInv'
<1>1. begun \in Nat /\ begun' = begun /\ Step(s, Idle)
  BY ProjectNumbers DEF ScoresInv, ScoringFails
<1>2. JobsOK(scorer, begun)'
  BY <1>1, IdleOK, JobsStep
<1> QED
  BY <1>1, <1>2 DEF ScoresInv, ScoringFails

LEMMA ReadProjectsKeeps == ASSUME ScoresInv, NEW s \in Scorer, ReadProjects(s) PROVE ScoresInv'
<1> DEFINE old == scorer[s]
           all == ReadOn(projects, old.read, Rows)
           more == [old EXCEPT !.read = all]
           done == [old EXCEPT !.read = all, !.at = "insert"]
<1>1. begun \in Nat /\ begun' = begun /\ JobOK(old, begun) /\ old.at = "projects" /\ projects \subseteq Project
  BY ProjectNumbers DEF ScoresInv, JobsOK, ReadProjects
<1>2. all \in Seq(Project) /\ Increasing(all)
  <2>1. old.read \in Seq(Project) /\ Increasing(old.read) /\ Rows \in Nat
    BY <1>1, ScoreAssumption DEF JobOK
  <2>2. ReadOnOK(Project, projects, old.read, Rows, all)
    BY <1>1, <2>1, ReadOnFacts, ProjectNumbers
  <2> QED
    BY <2>2 DEF ReadOnOK
<1>3. Step(s, more) \/ Step(s, done) \/ Step(s, Idle)
  BY DEF ReadProjects
<1> HIDE DEF all
<1>4. JobOK(more, begun') /\ JobOK(done, begun')
  BY <1>1, <1>2 DEF JobOK
<1> HIDE DEF more, done
<1>5. JobsOK(scorer, begun)'
  BY <1>1, <1>3, <1>4, IdleOK, JobsStep
<1> QED
  BY <1>1, <1>5 DEF ScoresInv, ReadProjects

\* The rows of a run come after those that are there.
LEMMA RowsAppended ==
  ASSUME NEW q \in Seq(ScoredRow), NEW rows \in Seq(ScoredRow)
  PROVE  /\ q \o rows \in Seq(ScoredRow)
         /\ \A r \in ToSet(q) : r \in ToSet(q \o rows)
         /\ SubSeq(q \o rows, Len(q) + 1, Len(q \o rows)) = rows
<1> DEFINE both == q \o rows
           tail == SubSeq(both, Len(q) + 1, Len(both))
<1>1. /\ Len(q) \in Nat /\ Len(rows) \in Nat /\ both \in Seq(ScoredRow) /\ Len(both) = Len(q) + Len(rows)
      /\ \A i \in 1..Len(q) : both[i] = q[i]
      /\ \A i \in 1..Len(rows) : both[Len(q) + i] = rows[i]
  OBVIOUS
<1>2. ASSUME NEW r \in ToSet(q) PROVE r \in ToSet(both)
  <2>1. PICK i \in 1..Len(q) : r = q[i]
    BY LenProperties DEF ToSet
  <2>2. i \in 1..Len(both) /\ both[i] = r
    BY <1>1, <2>1
  <2> QED
    BY <1>1, <2>2, LenProperties DEF ToSet
<1> HIDE DEF both
<1>3. /\ tail \in Seq(ScoredRow) /\ Len(tail) = Len(rows)
      /\ \A i \in 1..Len(rows) : tail[i] = both[Len(q) + i]
  BY <1>1
<1>4. tail = rows
  <2>1. tail = [i \in 1..Len(rows) |-> tail[i]] /\ rows = [i \in 1..Len(rows) |-> rows[i]]
    BY <1>3, LenProperties
  <2>2. \A i \in 1..Len(rows) : tail[i] = rows[i]
    BY <1>1, <1>3
  <2> HIDE DEF tail
  <2> QED
    BY <2>1, <2>2
<1> QED
  BY <1>1, <1>2, <1>4 DEF both

LEMMA InsertScoresKeeps ==
  ASSUME ScoresInv, NEW s \in Scorer, InsertScores(s)
  PROVE  /\ ScoresInv'
         /\ \A p : AtIn(scores, p) <= AtIn(scores', p)
         /\ AmongPeers(SubSeq(scores', Len(scores) + 1, Len(scores')))
<1> DEFINE old == scorer[s]
<1>1. /\ begun \in Nat /\ begun' = begun /\ Step(s, Idle) /\ JobOK(old, begun) /\ old.at = "insert"
      /\ old.now \in 1..MaxScorings /\ old.read \in Seq(Project) /\ Increasing(old.read)
      /\ scores \in Seq(ScoredRow)
  <2>1. begun \in Nat /\ begun <= MaxScorings /\ MaxScorings \in Nat
    BY ProjectNumbers DEF ScoresInv
  <2>2. begun' = begun /\ Step(s, Idle) /\ JobOK(old, begun) /\ old.at = "insert" /\ scores \in Seq(ScoredRow)
    BY DEF ScoresInv, JobsOK, InsertScores
  <2>3. old.now \in 1..begun /\ old.read \in Seq(Project) /\ Increasing(old.read)
    BY <2>2 DEF JobOK
  <2> QED
    BY <2>1, <2>2, <2>3
<1>2. PICK w \in Windows :
        scores' = IF ToSet(old.read) \subseteq projects
                  THEN scores \o RowsOf(old.read, w, old.now) ELSE scores
  BY DEF InsertScores
<1> DEFINE rows == RowsOf(old.read, w, old.now)
<1>3. rows \in Seq(ScoredRow) /\ AmongPeers(rows)
  BY <1>1, RowsMeasured
<1>4. scores' = scores \o rows \/ scores' = scores
  BY <1>2
<1> HIDE DEF rows, old
<1>5. /\ scores' \in Seq(ScoredRow) /\ \A r \in ToSet(scores) : r \in ToSet(scores')
      /\ AmongPeers(SubSeq(scores', Len(scores) + 1, Len(scores')))
  <2>1. CASE scores' = scores \o rows
    BY <1>1, <1>3, <2>1, RowsAppended
  <2>2. CASE scores' = scores
    <3>1. AmongPeers(SubSeq(scores, Len(scores) + 1, Len(scores)))
      BY <1>1, NothingInserted
    <3> QED
      BY <1>1, <2>2, <3>1
  <2> QED
    BY <1>4, <2>1, <2>2
<1>6. JobsOK(scorer, begun)'
  BY <1>1, IdleOK, JobsStep
<1>7. OwedOK(owed, projects \ leaving, scores)'
  <2>1. OwedOK(owed, projects \ leaving, scores')
    BY <1>1, <1>5, OwedStays DEF ScoresInv
  <2> QED
    BY <2>1 DEF InsertScores
<1>8. \A p : AtIn(scores, p) <= AtIn(scores', p)
  BY <1>1, <1>5, AtInGrows
<1> QED
  BY <1>5, <1>6, <1>7, <1>8 DEF ScoresInv, InsertScores

LEMMA StartLoadKeeps == ASSUME ScoresInv, StartLoad PROVE ScoresInv'
<1> DEFINE l == [NoLoad EXCEPT !.at = "both"]
           o == [present |-> projects \ leaving, since |-> [p \in Project |-> At(p)]]
<1>1. load' = l /\ owed' = o
  BY DEF StartLoad
<1>2. /\ l = [at |-> "both", read |-> <<>>, latest |-> <<>>] /\ LoadOK(l)
  <2>1. l = [at |-> "both", read |-> <<>>, latest |-> <<>>] /\ ProjectsOf(<<>>) = <<>>
    BY NoLoadOK DEF NoLoad
  <2>2. <<>> \in Seq(Project) /\ <<>> \in Seq(ScoredRow) /\ Increasing(<<>>)
    BY IncreasingNone
  <2> HIDE DEF l
  <2> QED
    BY <2>1, <2>2 DEF LoadOK
<1>3. scores \in Seq(ScoredRow) /\ projects \subseteq Project /\ \A p : AtIn(scores, p) = At(p)
  BY AtIsAtIn DEF ScoresInv
<1>4. OwedOK(o, projects \ leaving, scores)
  <2>1. \A p \in Project : At(p) \in 0..MaxScorings /\ MaxScorings \in Nat
    BY <1>3, AtInFacts, ProjectNumbers
  <2> QED
    BY <1>3, <2>1 DEF OwedOK
<1>5. ServedOK(l, o)
  <2> SUFFICES ASSUME NEW p \in projects PROVE ReadOf(p, l.at, l.read) /\ ScoreOf(p, l.at, l.latest, At(p))
    BY <1>3 DEF ServedOK
  <2>1. p \in Nat \ {0} /\ LastKey(<<>>) = 0 /\ ProjectsOf(<<>>) = <<>>
    BY <1>3, ProjectNumbers, IncreasingNone, NoLoadOK
  <2> HIDE DEF l
  <2> QED
    BY <1>2, <2>1 DEF ReadOf, ScoreOf
<1> HIDE DEF l, o
<1> QED
  BY <1>1, <1>2, <1>4, <1>5 DEF ScoresInv, StartLoad

LEMMA EndLoadKeeps == ASSUME ScoresInv, Join \/ LoadFails PROVE ScoresInv'
<1>1. load' = NoLoad /\ owed' = NoDue
  BY DEF Join, LoadFails
<1> QED
  BY <1>1, NoLoadOK, NoDueOK DEF ScoresInv, Join, LoadFails

\* A page of projects: nobody who has to be in the list is passed over.
LEMMA LoadProjectsKeeps == ASSUME ScoresInv, LoadProjects PROVE ScoresInv'
<1> DEFINE all == ReadOn(projects, load.read, Rows)
           at == IF IsLast(load.read, all) THEN After("projects") ELSE load.at
           l == [load EXCEPT !.read = all, !.at = at]
<1>1. /\ load.at \in {"both", "projects"} /\ load' = l /\ owed' = owed
      /\ LoadOK(load) /\ projects \subseteq Project /\ Rows \in Nat
      /\ load.read \in Seq(Project) /\ Increasing(load.read)
  BY ScoreAssumption DEF ScoresInv, LoadOK, LoadProjects
<1>2. ReadOnOK(Project, projects, load.read, Rows, all)
  <2> HIDE DEF all
  <2> QED
    BY <1>1, ReadOnFacts, ProjectNumbers DEF all
<1>3. /\ at \in {"both", "projects", "scores", "join"}
      /\ at \in {"projects", "join"} => load.at \in {"projects", "join"}
      /\ at \in {"scores", "join"} => IsLast(load.read, all)
  BY <1>1 DEF After
<1> HIDE DEF all, at
<1>4. /\ l.at = at /\ l.read = all /\ l.latest = load.latest
      /\ l \in [at: {"idle", "both", "projects", "scores", "join"}, read: Seq(Project),
                latest: Seq(ScoredRow)]
  BY <1>1, <1>2, <1>3 DEF LoadOK, ReadOnOK
<1> HIDE DEF l
<1>5. LoadOK(l)
  BY <1>1, <1>2, <1>4 DEF LoadOK, ReadOnOK
<1>6. ServedOK(l, owed)
  <2> SUFFICES ASSUME NEW p \in owed.present
               PROVE  ReadOf(p, at, all) /\ ScoreOf(p, at, load.latest, owed.since[p])
    BY <1>4 DEF ServedOK
  <2>1. p \in projects /\ p \in Nat
    BY <1>1, ProjectNumbers DEF ScoresInv, OwedOK
  <2>2. ReadOf(p, load.at, load.read) /\ ScoreOf(p, load.at, load.latest, owed.since[p])
    BY DEF ScoresInv, ServedOK
  <2>3. ScoreOf(p, at, load.latest, owed.since[p])
    BY <1>3, <2>2 DEF ScoreOf
  <2>4. ReadOf(p, at, all)
    <3> SUFFICES ASSUME at \in {"scores", "join"} \/ p <= LastKey(all)
                 PROVE  \E i \in 1..Len(all) : all[i] = p
      BY DEF ReadOf
    <3>1. p <= LastKey(all)
      BY <1>2, <1>3, <2>1 DEF IsLast, ReadOnOK
    <3>2. CASE p <= LastKey(load.read)
      <4>1. PICK i \in 1..Len(load.read) : load.read[i] = p
        BY <2>2, <3>2 DEF ReadOf
      <4>2. i \in 1..Len(all) /\ all[i] = p
        BY <1>1, <1>2, <4>1 DEF ReadOnOK
      <4> QED
        BY <4>2
    <3>3. CASE ~(p <= LastKey(load.read))
      <4>1. LastKey(load.read) \in Nat
        BY <1>1, ProjectNumbers, SeqMonotonic, LastKeyGreatest
      <4>2. LastKey(load.read) < p
        BY <2>1, <3>3, <4>1
      <4> QED
        BY <1>2, <2>1, <3>1, <4>2 DEF ReadOnOK
    <3> QED
      BY <3>2, <3>3
  <2> QED
    BY <2>3, <2>4
<1> QED
  BY <1>1, <1>5, <1>6 DEF ScoresInv, LoadProjects

\* A page of the view: the row found for a project is the newest it has by then.
LEMMA LoadScoresKeeps == ASSUME ScoresInv, LoadScores PROVE ScoresInv'
<1> DEFINE before == ProjectsOf(load.latest)
           table == {r.project : r \in ToSet(scores)}
           all == ReadOn(table, before, Rows)
           found == [i \in DOMAIN all |-> IF i \in DOMAIN before THEN load.latest[i]
                                         ELSE CHOOSE r \in Latest(all[i]) : TRUE]
           at == IF IsLast(before, all) THEN After("scores") ELSE load.at
           l == [load EXCEPT !.latest = found, !.at = at]
<1>1. /\ load.at \in {"both", "scores"} /\ load' = l /\ owed' = owed /\ LoadOK(load) /\ Rows \in Nat
      /\ load.latest \in Seq(ScoredRow) /\ scores \in Seq(ScoredRow) /\ Increasing(before)
  BY ScoreAssumption DEF ScoresInv, LoadOK, LoadScores
<1>2. /\ Len(load.latest) \in Nat /\ DOMAIN load.latest = 1..Len(load.latest)
      /\ \A i \in 1..Len(load.latest) : load.latest[i] \in ScoredRow
      /\ \A r \in ToSet(scores) : r \in ScoredRow
  BY <1>1, LenProperties, ElementOfSeq DEF ToSet
<1>3. /\ DOMAIN before = 1..Len(load.latest) /\ before \in [1..Len(load.latest) -> Project]
      /\ \A i \in 1..Len(load.latest) : before[i] = load.latest[i].project
  BY <1>2 DEF ProjectsOf, ScoredRow
<1>4. before \in Seq(Project) /\ Len(before) = Len(load.latest)
  <2>1. before \in Seq(Project)
    BY <1>2, <1>3, SeqDef
  <2> HIDE DEF before
  <2> QED
    BY <1>2, <1>3, <2>1, LenProperties
<1>5. table \subseteq Project
  BY <1>2 DEF ScoredRow
<1> HIDE DEF before, table
<1>6. ReadOnOK(Project, table, before, Rows, all)
  BY <1>1, <1>4, <1>5, ReadOnFacts, ProjectNumbers
<1>7. /\ at \in {"both", "projects", "scores", "join"}
      /\ at \in {"scores", "join"} => load.at \in {"scores", "join"}
      /\ at \in {"projects", "join"} => IsLast(before, all)
  BY <1>1 DEF After
<1> HIDE DEF all, at
<1>8. /\ all \in Seq(Project) /\ Increasing(all) /\ Len(all) \in Nat /\ DOMAIN all = 1..Len(all)
      /\ Len(before) <= Len(all) /\ \A i \in 1..Len(before) : all[i] = before[i]
      /\ \A i \in (Len(before) + 1)..Len(all) : all[i] \in table
  BY <1>6, LenProperties DEF ReadOnOK
<1>9. ASSUME NEW i \in (Len(before) + 1)..Len(all)
      PROVE  found[i] \in ScoredRow /\ found[i].project = all[i] /\ found[i].now = AtIn(scores, all[i])
  <2>1. i \in 1..Len(all) /\ i \notin 1..Len(before)
    BY <1>4, <1>8
  <2>2. found[i] = CHOOSE r \in Latest(all[i]) : TRUE
    BY <1>2, <1>3, <1>4, <1>8, <2>1
  <2>3. \E r \in ToSet(scores) : r.project = all[i]
    BY <1>8 DEF table
  <2>4. NewestIn(scores, all[i]) # {} /\ Latest(all[i]) = NewestIn(scores, all[i])
    BY <1>1, <2>3, AtInFacts, AtIsAtIn
  <2> HIDE DEF found
  <2>5. found[i] \in NewestIn(scores, all[i])
    BY <2>2, <2>4
  <2> QED
    BY <1>1, <2>5, AtInFacts
<1>10. ASSUME NEW i \in 1..Len(before)
       PROVE  found[i] = load.latest[i] /\ found[i].project = all[i] /\ found[i] \in ScoredRow
  <2>1. i \in 1..Len(all) /\ i \in DOMAIN before /\ i \in 1..Len(load.latest)
    BY <1>2, <1>3, <1>4, <1>8
  <2>2. found[i] = load.latest[i]
    BY <1>8, <2>1
  <2> QED
    BY <1>2, <1>3, <1>8, <2>1, <2>2
<1>11. found = [i \in 1..Len(all) |-> found[i]]
  BY <1>8
<1> HIDE DEF found
<1>12. \A i \in 1..Len(all) : found[i] \in ScoredRow /\ found[i].project = all[i]
  <2>1. \A i \in 1..Len(all) : i \in 1..Len(before) \/ i \in (Len(before) + 1)..Len(all)
    BY <1>2, <1>4, <1>8
  <2> QED
    BY <1>9, <1>10, <2>1
<1>13. found \in Seq(ScoredRow) /\ Len(found) = Len(all) /\ ProjectsOf(found) = all
  <2>1. found \in [1..Len(all) -> ScoredRow]
    BY <1>11, <1>12
  <2>2. found \in Seq(ScoredRow) /\ DOMAIN found = 1..Len(all)
    BY <1>8, <2>1, SeqDef
  <2>3. Len(found) = Len(all)
    BY <1>8, <2>2, LenProperties
  <2>4. all = [i \in 1..Len(all) |-> all[i]]
    BY <1>8, LenProperties
  <2>5. ProjectsOf(found) = [i \in 1..Len(all) |-> found[i].project]
    BY <2>2 DEF ProjectsOf
  <2>6. ProjectsOf(found) = all
    BY <1>12, <2>4, <2>5
  <2> QED
    BY <2>2, <2>3, <2>6
<1>14. /\ l.at = at /\ l.read = load.read /\ l.latest = found
       /\ l \in [at: {"idle", "both", "projects", "scores", "join"}, read: Seq(Project),
                 latest: Seq(ScoredRow)]
  BY <1>1, <1>7, <1>13 DEF LoadOK
<1> HIDE DEF l
<1>15. LoadOK(l)
  BY <1>1, <1>8, <1>13, <1>14 DEF LoadOK
<1>16. ServedOK(l, owed)
  <2> SUFFICES ASSUME NEW p \in owed.present
               PROVE  ReadOf(p, at, load.read) /\ ScoreOf(p, at, found, owed.since[p])
    BY <1>14 DEF ServedOK
  <2>1. /\ p \in Nat /\ AtIn(scores, p) >= owed.since[p] /\ owed.since[p] \in 0..MaxScorings
        /\ AtIn(scores, p) \in 0..MaxScorings /\ MaxScorings \in Nat
    BY <1>1, ProjectNumbers, AtInFacts DEF ScoresInv, OwedOK
  <2>2. ReadOf(p, load.at, load.read) /\ ScoreOf(p, load.at, load.latest, owed.since[p])
    BY DEF ScoresInv, ServedOK
  <2>3. ReadOf(p, at, load.read)
    BY <1>7, <2>2 DEF ReadOf
  <2>4. ScoreOf(p, at, found, owed.since[p])
    <3> SUFFICES ASSUME owed.since[p] > 0, at \in {"projects", "join"} \/ p <= LastKey(all)
                 PROVE  \E i \in 1..Len(found) : found[i].project = p /\ found[i].now >= owed.since[p]
      BY <1>13 DEF ScoreOf
    <3>1. p \in table
      <4>1. PICK r \in NewestIn(scores, p) : TRUE
        BY <1>1, <2>1, AtInFacts
      <4>2. r \in ToSet(scores) /\ r.project = p
        BY <1>1, AtInFacts
      <4> QED
        BY <4>2 DEF table
    <3>2. p <= LastKey(all)
      BY <1>6, <1>7, <3>1 DEF IsLast, ReadOnOK
    <3>3. CASE p <= LastKey(before)
      <4>1. PICK i \in 1..Len(load.latest) :
              load.latest[i].project = p /\ load.latest[i].now >= owed.since[p]
        BY <2>2, <3>3 DEF ScoreOf, before
      <4>2. i \in 1..Len(before) /\ i \in 1..Len(found)
        BY <1>2, <1>4, <1>8, <1>13
      <4>3. found[i] = load.latest[i]
        BY <1>10, <4>2
      <4> QED
        BY <4>1, <4>2, <4>3
    <3>4. CASE ~(p <= LastKey(before))
      <4>1. LastKey(before) \in Nat /\ \A i \in 1..Len(before) : before[i] <= LastKey(before)
        BY <1>1, <1>4, ProjectNumbers, SeqMonotonic, LastKeyGreatest
      <4>2. LastKey(before) < p
        BY <2>1, <3>4, <4>1
      <4>3. PICK i \in 1..Len(all) : all[i] = p
        BY <1>6, <3>1, <3>2, <4>2 DEF ReadOnOK
      <4>4. i \in (Len(before) + 1)..Len(all)
        <5>1. i \notin 1..Len(before)
          BY <1>8, <3>4, <4>1, <4>3
        <5> QED
          BY <1>2, <1>4, <1>8, <5>1
      <4>5. found[i].project = p /\ found[i].now = AtIn(scores, p)
        BY <1>9, <4>3, <4>4
      <4> QED
        BY <1>13, <2>1, <4>5
    <3> QED
      BY <3>3, <3>4
  <2> QED
    BY <2>3, <2>4
<1> QED
  BY <1>1, <1>15, <1>16 DEF ScoresInv, LoadScores

-----------------------------------------------------------------------------
(* The theorems.                                                             *)

\* What a step does to the scores of a project that keeps them, and what it inserts.
StepOK ==
  /\ \A p \in Project : p \notin leaving' => AtIn(scores, p) <= AtIn(scores', p)
  /\ AmongPeers(SubSeq(scores', Len(scores) + 1, Len(scores')))

LEMMA SameScores == ASSUME ScoresInv, scores' = scores PROVE StepOK
<1>1. scores \in Seq(ScoredRow) /\ Len(scores) \in Nat /\ MaxScorings \in Nat
  BY ProjectNumbers DEF ScoresInv
<1>2. \A p : AtIn(scores, p) \in 0..MaxScorings
  BY <1>1, AtInFacts
<1> QED
  BY <1>1, <1>2, NothingInserted DEF StepOK

LEMMA ScoresStep == ASSUME ScoresInv, [ScoresNext]_svars PROVE ScoresInv' /\ StepOK
<1>1. CASE UNCHANGED svars
  <2>1. ScoresInv'
    BY <1>1 DEF svars, ScoresInv, OwedOK
  <2> QED
    BY <1>1, <2>1, SameScores DEF svars
<1>2. ASSUME NEW p \in Project, Promote(p) PROVE ScoresInv' /\ StepOK
  BY <1>2, PromoteKeeps, SameScores DEF Promote
<1>3. ASSUME NEW p \in Project, RetireScores(p) PROVE ScoresInv' /\ StepOK
  <2>1. /\ ScoresInv' /\ Len(scores') <= Len(scores) /\ p \in leaving'
        /\ \A x \in Project \ {p} : AtIn(scores, x) <= AtIn(scores', x)
    BY <1>3, RetireScoresKeeps DEF RetireScores
  <2>2. scores \in Seq(ScoredRow) /\ scores' \in Seq(ScoredRow)
    BY <2>1 DEF ScoresInv
  <2> QED
    BY <2>1, <2>2, NothingInserted DEF StepOK
<1>4. ASSUME NEW p \in Project, RetireProject(p) PROVE ScoresInv' /\ StepOK
  BY <1>4, RetireProjectKeeps, SameScores DEF RetireProject
<1>5. ASSUME NEW s \in Scorer, StartScoring(s) \/ WriteStats(s) \/ ReadProjects(s) \/ ScoringFails(s)
      PROVE  ScoresInv' /\ StepOK
  <2>1. scores' = scores
    BY <1>5 DEF StartScoring, WriteStats, ReadProjects, ScoringFails
  <2> QED
    BY <1>5, <2>1, SameScores, StartScoringKeeps, WriteStatsKeeps, ReadProjectsKeeps, ScoringFailsKeeps
<1>6. ASSUME NEW s \in Scorer, InsertScores(s) PROVE ScoresInv' /\ StepOK
  BY <1>6, InsertScoresKeeps DEF StepOK
<1>7. CASE StartLoad \/ LoadProjects \/ LoadScores \/ Join \/ LoadFails
  <2>1. scores' = scores
    BY <1>7 DEF StartLoad, LoadProjects, LoadScores, Join, LoadFails
  <2> QED
    BY <1>7, <2>1, SameScores, StartLoadKeeps, LoadProjectsKeeps, LoadScoresKeeps, EndLoadKeeps
<1> QED
  BY <1>1, <1>2, <1>3, <1>4, <1>5, <1>6, <1>7 DEF ScoresNext

\* The invariant of scoring jobs and lists, for any table, page size and number of jobs.
THEOREM ScoresInvariance == ScoresSpec => []ScoresInv
<1>1. ScoresInv /\ [ScoresNext]_svars => ScoresInv'
  BY ScoresStep
<1> QED
  BY ScoresBegin, <1>1, PTL DEF ScoresSpec

\* A project's score never goes back to an older run's, in whatever order runs insert.
THEOREM ScoresForward == ScoresSpec => ScoresMoveForward
<1>1. ScoresInv /\ [ScoresNext]_svars
        => [\A p \in Project : At(p) > 0 /\ p \notin leaving' => At(p)' >= At(p)]_svars
  <2> SUFFICES ASSUME ScoresInv, [ScoresNext]_svars, NEW p \in Project, p \notin leaving'
               PROVE  At(p)' >= At(p)
    OBVIOUS
  <2>1. AtIn(scores, p) <= AtIn(scores', p) /\ At(p) = AtIn(scores, p) /\ At(p)' = AtIn(scores', p)
    BY ScoresStep, AtIsAtIn DEF StepOK
  <2>2. ScoresInv'
    BY ScoresStep
  <2>3. AtIn(scores, p) \in 0..MaxScorings /\ AtIn(scores', p) \in 0..MaxScorings /\ MaxScorings \in Nat
    BY <2>2, AtInFacts, ProjectNumbers DEF ScoresInv
  <2> QED
    BY <2>1, <2>3
<1> QED
  BY ScoresInvariance, <1>1, PTL DEF ScoresSpec, ScoresMoveForward

\* The rows of a run are measured among the DeFi projects it read, each of them once: no
\* project is scored below one it is behind in nothing, the last in everything has its age
\* bonus, the first in everything three quarters more (compute_scores.py:119-154, scoring.py).
THEOREM PeersMeasured == ScoresSpec => ScoredAmongPeers
<1>1. ScoresInv /\ [ScoresNext]_svars => [AmongPeers(SubSeq(scores', Len(scores) + 1, Len(scores')))]_svars
  BY ScoresStep DEF StepOK
<1> QED
  BY ScoresInvariance, <1>1, PTL DEF ScoresSpec, ScoredAmongPeers, AmongPeers

\* A list that is put together holds everybody who was there throughout, once, with a
\* score no older than at the beginning, however pages and changes of the tables mix.
THEOREM ServesWhole == ScoresSpec => []ServedWhole
<1>1. ScoresInv => ServedWhole
  <2> SUFFICES ASSUME ScoresInv, load.at = "join" PROVE ServedWhole
    BY DEF ServedWhole
  <2>1. /\ load.read \in Seq(Project) /\ Increasing(load.read)
        /\ load.latest \in Seq(ScoredRow) /\ Increasing(ProjectsOf(load.latest))
    BY DEF ScoresInv, LoadOK
  <2>2. /\ DOMAIN load.read = 1..Len(load.read) /\ DOMAIN load.latest = 1..Len(load.latest)
        /\ Len(load.latest) \in Nat /\ \A i \in 1..Len(load.read) : load.read[i] \in Nat
        /\ \A i \in 1..Len(load.latest) : load.latest[i] \in ScoredRow
    BY <2>1, ProjectNumbers, LenProperties, ElementOfSeq
  <2>3. \A i, j \in DOMAIN load.read : i < j => load.read[i] # load.read[j]
    BY <2>1, <2>2 DEF Increasing
  <2>4. \A i, j \in DOMAIN load.latest : i < j => load.latest[i].project # load.latest[j].project
    <3> DEFINE q == ProjectsOf(load.latest)
    <3>1. DOMAIN q = 1..Len(load.latest) /\ \A i \in 1..Len(load.latest) : q[i] = load.latest[i].project
          /\ q[i] \in Nat
      BY <2>2, ProjectNumbers DEF ProjectsOf, ScoredRow
    <3>2. Len(q) = Len(load.latest)
      <4>1. q \in [1..Len(load.latest) -> Nat]
        BY <2>2, <3>1 DEF ProjectsOf
      <4>2. q \in Seq(Nat)
        BY <2>2, <4>1, SeqDef
      <4> HIDE DEF q
      <4> QED
        BY <2>2, <3>1, <4>2, LenProperties
    <3> HIDE DEF q
    <3>3. \A i, j \in 1..Len(load.latest) : i < j => q[i] < q[j]
      BY <2>1, <3>2 DEF Increasing, q
    <3> QED
      BY <2>2, <3>1, <3>3
  <2>5. ASSUME NEW p \in owed.present
        PROVE  /\ p \in ToSet(load.read)
               /\ owed.since[p] > 0 => \E r \in ToSet(load.latest) : r.project = p /\ r.now >= owed.since[p]
    <3>1. ReadOf(p, "join", load.read) /\ ScoreOf(p, "join", load.latest, owed.since[p])
      BY DEF ScoresInv, ServedOK
    <3>2. \E i \in 1..Len(load.read) : load.read[i] = p
      BY <3>1 DEF ReadOf
    <3>3. owed.since[p] > 0 => \E i \in 1..Len(load.latest) :
            load.latest[i].project = p /\ load.latest[i].now >= owed.since[p]
      BY <3>1 DEF ScoreOf
    <3> HIDE DEF ServedWhole
    <3> QED
      BY <2>2, <3>2, <3>3 DEF ToSet
  <2> QED
    BY <2>3, <2>4, <2>5 DEF ServedWhole
<1> QED
  BY ScoresInvariance, <1>1, PTL

-----------------------------------------------------------------------------
(* The scan of venues, for any pools, volumes, page sizes and any listing    *)
(* that is in an order.  While no volume of the venue changes the number of  *)
(* pools ahead of a pool is its place in the listing, so k pages hold the    *)
(* pools with fewer than k times PageSize ahead of them, each once.          *)

\* The places that the pages before page k have.
PlacesBefore(k) == (k - 1) * PageSize

\* What has been read of the venue, if nothing moved.
ReadOK ==
  /\ \A x \in read : /\ x \in PoolRead /\ x.pool \in Mine(scan)
                     /\ x.volume = volume[x.pool] /\ Ahead(x.pool) < PlacesBefore(page)
  /\ \A x, y \in read : x.pool = y.pool => x = y
  /\ \A p \in Mine(scan) : Ahead(p) < PlacesBefore(page) => \E x \in read : x.pool = p

RowsOK(rows) == \A v \in DOMAIN rows : ~rows[v].truncated => rows[v].exact

VenuesInv ==
  /\ volume \in [Pool -> 0..TopVolume] /\ sorted \in BOOLEAN /\ steady \in BOOLEAN
  /\ scan \in Venue \cup {0} /\ page \in 1..MaxPages
  /\ RowsOK(finished) /\ RowsOK(venueRow) /\ DOMAIN venueRow = Venue
  /\ scan # 0 /\ steady => ReadOK

\* The constants.
LEMMA VenueFacts ==
  /\ PageSize \in Nat /\ PageSize > 0 /\ MaxPages \in Nat /\ 1 \in 1..MaxPages /\ TopVolume \in Nat
  /\ Venue \subseteq Nat \ {0} /\ (Venue # {} => 1 \in Venue)
  /\ \A v : Mine(v) \subseteq Pool /\ IsFiniteSet(Mine(v)) /\ Mine(v) \subseteq Nat
  /\ \A p \in Pool : VenueOf[p] \in Venue /\ p \in Mine(VenueOf[p])
<1>1. \A v : Mine(v) \subseteq Pool
  BY DEF Mine
<1>2. \A v : IsFiniteSet(Mine(v))
  BY <1>1, FS_Subset, VenueAssumption
<1>3. Venue \subseteq Nat \ {0} /\ (Venue # {} => 1 \in Venue)
  <2> DEFINE n == Cardinality(Venue)
  <2>1. Venue = 1..n /\ n \in Nat
    BY VenueAssumption, FS_CardinalityType
  <2> HIDE DEF n
  <2>2. 1..n \subseteq Nat \ {0}
    OBVIOUS
  <2>3. 1..n # {} => 1 \in 1..n
    BY <2>1
  <2> QED
    BY <2>1, <2>2, <2>3
<1>4. \A v : Mine(v) \subseteq Nat
  BY <1>1, VenueAssumption
<1>5. \A p \in Pool : VenueOf[p] \in Venue /\ p \in Mine(VenueOf[p])
  BY VenueAssumption DEF Mine
<1>6. PageSize \in Nat /\ PageSize > 0 /\ MaxPages \in Nat /\ 1 \in 1..MaxPages /\ TopVolume \in Nat
  BY VenueAssumption
<1> QED
  BY <1>1, <1>2, <1>3, <1>4, <1>5, <1>6

-----------------------------------------------------------------------------
(* The order of a listing.                                                   *)

\* It is a strict one, of all pools.
LEMMA BeforeOrders ==
  ASSUME volume \in [Pool -> 0..TopVolume], NEW p \in Pool, NEW q \in Pool
  PROVE  /\ ~Before(p, p)
         /\ p # q => Before(p, q) \/ Before(q, p)
         /\ \A r \in Pool : Before(p, q) /\ Before(q, r) => Before(p, r)
<1>1. p \in Nat /\ q \in Nat /\ volume[p] \in Nat /\ volume[q] \in Nat
  BY VenueAssumption
<1>2. \A r \in Pool : r \in Nat /\ volume[r] \in Nat
  BY VenueAssumption
<1> QED
  BY <1>1, <1>2 DEF Before

\* A pool that is listed before another has fewer ahead.
LEMMA AheadFollows ==
  ASSUME volume \in [Pool -> 0..TopVolume], NEW p \in Pool, NEW q \in Pool, VenueOf[p] = VenueOf[q]
  PROVE  /\ Ahead(p) \in Nat
         /\ Before(p, q) => Ahead(p) < Ahead(q)
         /\ Ahead(p) = Ahead(q) => p = q
<1> DEFINE A(r) == {s \in Mine(VenueOf[r]) : Before(s, r)}
<1>1. \A r \in Pool : IsFiniteSet(A(r)) /\ Ahead(r) = Cardinality(A(r)) /\ Ahead(r) \in Nat
  <2> SUFFICES ASSUME NEW r \in Pool PROVE IsFiniteSet(A(r)) /\ Cardinality(A(r)) \in Nat
    BY DEF Ahead
  <2>1. IsFiniteSet(A(r))
    BY VenueFacts, FS_Subset
  <2> QED
    BY <2>1, FS_CardinalityType
<1>2. ASSUME NEW x \in Pool, NEW y \in Pool, VenueOf[x] = VenueOf[y], Before(x, y)
      PROVE  Ahead(x) < Ahead(y)
  <2>1. A(x) \subseteq A(y)
    BY <1>2, VenueFacts, BeforeOrders
  <2>2. x \in A(y) /\ x \notin A(x)
    BY <1>2, VenueFacts, BeforeOrders
  <2>3. Cardinality(A(x)) <= Cardinality(A(y)) /\ Cardinality(A(x)) # Cardinality(A(y))
    BY <1>1, <2>1, <2>2, FS_Subset
  <2> QED
    BY <1>1, <2>3
<1>3. Before(p, q) => Ahead(p) < Ahead(q)
  BY <1>2
<1>4. Before(q, p) => Ahead(q) < Ahead(p)
  BY <1>2
<1>5. Ahead(p) \in Nat /\ Ahead(q) \in Nat
  BY <1>1
<1>6. p # q => Before(p, q) \/ Before(q, p)
  BY BeforeOrders
<1> QED
  BY <1>3, <1>4, <1>5, <1>6

\* No place of a listing is empty while a later one is taken.
LEMMA PlacesFilled ==
  ASSUME volume \in [Pool -> 0..TopVolume], NEW v, NEW r \in Nat, NEW p \in Mine(v), Ahead(p) >= r
  PROVE  \E q \in Mine(v) : Ahead(q) = r
<1> DEFINE Later == {q \in Mine(v) : Ahead(q) >= r}
           Taken == {n \in Nat : \E q \in Later : Ahead(q) = n}
<1>1. \A q \in Mine(v) : q \in Pool /\ VenueOf[q] = v /\ Ahead(q) \in Nat
  <2>1. \A q \in Mine(v) : q \in Pool /\ VenueOf[q] = v
    BY DEF Mine
  <2> QED
    BY <2>1, AheadFollows
<1>2. Taken \subseteq Nat /\ Taken # {}
  BY <1>1
<1> HIDE DEF Taken
<1>3. PICK n \in Taken : \A m \in Taken : n <= m
  BY <1>2, LeastNumber
<1> USE DEF Taken
<1>4. PICK q \in Later : Ahead(q) = n
  BY <1>3
<1> DEFINE A == {s \in Mine(v) : Before(s, q)}
<1>5. IsFiniteSet(A) /\ Cardinality(A) = n
  <2>1. Ahead(q) = Cardinality(A)
    BY <1>1, <1>4 DEF Ahead
  <2> QED
    BY <1>4, <2>1, VenueFacts, FS_Subset
<1>6. \A s \in A : Ahead(s) \in 0..(r - 1)
  <2> SUFFICES ASSUME NEW s \in A PROVE Ahead(s) \in 0..(r - 1)
    OBVIOUS
  <2>1. Ahead(s) < n /\ Ahead(s) \in Nat
    BY <1>1, <1>4, AheadFollows
  <2>2. s \notin Later
    BY <1>3, <2>1
  <2>3. ~(Ahead(s) >= r)
    BY <2>2
  <2> QED
    BY <2>1, <2>3
<1>7. n >= r /\ n \in Nat
  BY <1>4, <1>1
<1>8. CASE n > r
  <2> DEFINE f == [s \in A |-> Ahead(s)]
             T == 0..(r - 1)
  <2>1. f \in [A -> T]
    BY <1>6
  <2>2. IsFiniteSet(T) /\ Cardinality(T) = r
    <3>1. IsFiniteSet(T) /\ Cardinality(T) = IF 0 > r - 1 THEN 0 ELSE (r - 1) - 0 + 1
      BY FS_Interval
    <3> QED
      BY <3>1
  <2>3. Cardinality(T) < Cardinality(A)
    BY <1>5, <1>7, <1>8, <2>2
  <2> HIDE DEF T, f, A
  <2>4. PICK s, t \in A : s # t /\ f[s] = f[t]
    BY <1>5, <2>1, <2>2, <2>3, FS_PigeonHole
  <2> USE DEF f, A
  <2>5. Ahead(s) = Ahead(t) /\ s \in Mine(v) /\ t \in Mine(v)
    BY <2>4
  <2> QED
    BY <1>1, <2>4, <2>5, AheadFollows
<1>9. CASE n = r
  BY <1>4, <1>9
<1> QED
  BY <1>7, <1>8, <1>9

\* What is on a page, from one that is not empty its last pool too.
LEMMA PageFacts ==
  ASSUME VenuesInv, scan # 0
  PROVE  /\ PageRead \subseteq PoolRead
         /\ \A x \in PageRead : /\ x.pool \in Mine(scan) /\ x.volume = volume[x.pool]
                                /\ PlacesBefore(page) <= Ahead(x.pool) /\ Ahead(x.pool) < PlacesBefore(page + 1)
         /\ \A x, y \in PageRead : x.pool = y.pool => x = y
         /\ \A p \in Mine(scan) : PlacesBefore(page) <= Ahead(p) /\ Ahead(p) < PlacesBefore(page + 1)
                                    => \E x \in PageRead : x.pool = p
         /\ PageRead # {} => LastOf(PageRead) \in PageRead
<1>1. \A p \in Mine(scan) : p \in Pool /\ VenueOf[p] = scan /\ volume[p] \in 0..TopVolume /\ Ahead(p) \in Nat
  <2>1. \A p \in Mine(scan) : p \in Pool /\ VenueOf[p] = scan
    BY DEF Mine
  <2> QED
    BY <2>1, AheadFollows DEF VenuesInv
<1>2. page \in Nat /\ page + 1 - 1 = page /\ page \in 1..MaxPages
  BY VenueFacts DEF VenuesInv
<1>3. \A p : OnPage(p) <=> PlacesBefore(page) <= Ahead(p) /\ Ahead(p) < PlacesBefore(page + 1)
  BY <1>2 DEF OnPage, PlacesBefore
<1>4. \A x \in PageRead : /\ x = [page |-> page, pool |-> x.pool, volume |-> volume[x.pool]]
                          /\ x.pool \in Mine(scan) /\ OnPage(x.pool)
  BY DEF PageRead
<1>5. PageRead \subseteq PoolRead
  BY <1>1, <1>2, <1>4 DEF PoolRead
<1>6. \A p \in Mine(scan) : OnPage(p) => \E x \in PageRead : x.pool = p
  <2> SUFFICES ASSUME NEW p \in Mine(scan), OnPage(p) PROVE \E x \in PageRead : x.pool = p
    OBVIOUS
  <2>1. [page |-> page, pool |-> p, volume |-> volume[p]] \in PageRead
    BY DEF PageRead
  <2> QED
    BY <2>1
<1>7. ASSUME PageRead # {} PROVE LastOf(PageRead) \in PageRead
  <2> DEFINE T == {n \in Nat : \E x \in PageRead : Ahead(x.pool) = n}
  <2>1. T # {} /\ T \subseteq Nat
    BY <1>1, <1>4, <1>7
  <2>2. PlacesBefore(page + 1) \in Nat /\ \A n \in T : n <= PlacesBefore(page + 1)
    <3>1. PlacesBefore(page + 1) \in Nat
      BY <1>2, VenueFacts DEF PlacesBefore
    <3>2. \A x \in PageRead : Ahead(x.pool) < PlacesBefore(page + 1)
      BY <1>3, <1>4
    <3> QED
      BY <3>1, <3>2
  <2> HIDE DEF T
  <2>3. PICK n \in T : \A m \in T : m <= n
    BY <2>1, <2>2, GreatestNumber
  <2> USE DEF T
  <2>4. PICK x \in PageRead : Ahead(x.pool) = n
    BY <2>3
  <2>5. \A y \in PageRead : y # x => Before(y.pool, x.pool)
    <3> SUFFICES ASSUME NEW y \in PageRead, y # x PROVE Before(y.pool, x.pool)
      OBVIOUS
    <3>1. y.pool # x.pool
      BY <1>4
    <3>2. Ahead(y.pool) <= Ahead(x.pool) /\ Ahead(y.pool) \in Nat /\ Ahead(x.pool) \in Nat
      BY <1>1, <1>4, <2>3, <2>4
    <3>3. x.pool \in Pool /\ y.pool \in Pool /\ VenueOf[x.pool] = VenueOf[y.pool]
      BY <1>1, <1>4
    <3>4. volume \in [Pool -> 0..TopVolume]
      BY DEF VenuesInv
    <3>5. Before(x.pool, y.pool) => Ahead(x.pool) < Ahead(y.pool)
      BY <3>3, <3>4, AheadFollows
    <3>6. Before(x.pool, y.pool) \/ Before(y.pool, x.pool)
      BY <3>1, <3>3, <3>4, BeforeOrders
    <3> QED
      BY <3>2, <3>5, <3>6
  <2> QED
    BY <2>5 DEF LastOf
<1>8. \A x, y \in PageRead : x.pool = y.pool => x = y
  BY <1>4
<1> QED
  BY <1>3, <1>4, <1>5, <1>6, <1>7, <1>8

-----------------------------------------------------------------------------
(* Sums.                                                                     *)

\* Pools with volume that have each been read once, as they are, add up to what they are.
LEMMA UnitsAgree ==
  ASSUME volume \in [Pool -> 0..TopVolume], NEW q, NEW P, P \subseteq Pool,
         \A x \in q : x.pool \in P /\ x.volume = volume[x.pool],
         \A x, y \in q : x.pool = y.pool => x = y,
         \A p \in P : volume[p] > 0 => \E x \in q : x.pool = p
  PROVE  VolumeRead(q) = VolumeOf(P)
<1> DEFINE S == {u \in q \X (1..TopVolume) : u[2] <= u[1].volume}
           T == {u \in P \X (1..TopVolume) : u[2] <= volume[u[1]]}
           f == [u \in S |-> <<u[1].pool, u[2]>>]
<1>1. IsFiniteSet(T)
  <2>1. IsFiniteSet(P) /\ IsFiniteSet(1..TopVolume)
    <3>1. IsFiniteSet(P)
      BY VenueAssumption, FS_Subset
    <3>2. 1 \in Int /\ TopVolume \in Int
      BY VenueAssumption
    <3> QED
      BY <3>1, <3>2, FS_Interval
  <2>2. IsFiniteSet(P \X (1..TopVolume))
    BY <2>1, FS_Product
  <2> QED
    BY <2>2, FS_Subset
<1>2. \A u \in S : u = <<u[1], u[2]>> /\ u[1] \in q /\ u[2] \in 1..TopVolume /\ u[2] <= volume[u[1].pool]
  OBVIOUS
<1>3. f \in [S -> T]
  BY <1>2
<1>4. \A u, w \in S : f[u] = f[w] => u = w
  <2> SUFFICES ASSUME NEW u \in S, NEW w \in S, f[u] = f[w] PROVE u = w
    OBVIOUS
  <2>1. u[1].pool = w[1].pool /\ u[2] = w[2]
    OBVIOUS
  <2> QED
    BY <1>2, <2>1
<1>5. \A t \in T : \E u \in S : f[u] = t
  <2> SUFFICES ASSUME NEW t \in T PROVE \E u \in S : f[u] = t
    OBVIOUS
  <2>1. t = <<t[1], t[2]>> /\ t[1] \in P /\ t[2] \in 1..TopVolume /\ t[2] <= volume[t[1]]
    OBVIOUS
  <2>2. volume[t[1]] > 0
    BY <2>1
  <2>3. PICK x \in q : x.pool = t[1]
    BY <2>1, <2>2
  <2>4. <<x, t[2]>> \in S /\ f[<<x, t[2]>>] = t
    BY <2>1, <2>3
  <2> QED
    BY <2>4
<1>6. f \in Injection(S, T) /\ f \in Surjection(S, T)
  BY <1>3, <1>4, <1>5 DEF Injection, Surjection, IsInjective
<1> HIDE DEF S, T, f
<1>7. Cardinality(S) = Cardinality(T)
  BY <1>1, <1>6, FS_Injection
<1> QED
  BY <1>7 DEF VolumeRead, VolumeOf, S, T

\* What the scan of a venue has read is whole when it ends before its last page is due.
LEMMA ReadWhole ==
  ASSUME VenuesInv, scan # 0, steady, PageRead = {} \/ OnlyDustFollows(PageRead),
         NEW P, P \subseteq Mine(scan),
         NEW q, q = {x \in read \cup PageRead : x.pool \in P}
  PROVE  VolumeRead(q) = VolumeOf(P)
<1>1. ReadOK /\ volume \in [Pool -> 0..TopVolume]
  BY DEF VenuesInv
<1>2. P \subseteq Pool
  BY VenueFacts
<1>3. \A p \in Mine(scan) : p \in Pool /\ VenueOf[p] = scan /\ Ahead(p) \in Nat /\ volume[p] \in Nat
  <2>1. \A p \in Mine(scan) : p \in Pool /\ VenueOf[p] = scan
    BY DEF Mine
  <2> QED
    BY <1>1, <2>1, VenueFacts, AheadFollows
<1>4. PlacesBefore(page) \in Nat /\ PlacesBefore(page + 1) \in Nat
  <2>1. page \in Nat \ {0} /\ PageSize \in Nat
    BY VenueFacts DEF VenuesInv
  <2> QED
    BY <2>1 DEF PlacesBefore
<1>5. \A x \in q : x.pool \in P /\ x.volume = volume[x.pool]
  BY <1>1, PageFacts DEF ReadOK
<1>6. \A x, y \in q : x.pool = y.pool => x = y
  <2> SUFFICES ASSUME NEW x \in q, NEW y \in q, x.pool = y.pool PROVE x = y
    OBVIOUS
  <2>1. x \in read => Ahead(x.pool) < PlacesBefore(page)
    BY <1>1 DEF ReadOK
  <2>2. y \in read => Ahead(y.pool) < PlacesBefore(page)
    BY <1>1 DEF ReadOK
  <2>3. x \in PageRead => PlacesBefore(page) <= Ahead(x.pool)
    BY PageFacts
  <2>4. y \in PageRead => PlacesBefore(page) <= Ahead(y.pool)
    BY PageFacts
  <2>5. x.pool \in Mine(scan) /\ Ahead(x.pool) \in Nat
    BY <1>3
  <2>6. \/ x \in read /\ y \in read
        \/ x \in PageRead /\ y \in PageRead
    BY <1>4, <2>1, <2>2, <2>3, <2>4, <2>5
  <2> QED
    BY <1>1, <2>6, PageFacts DEF ReadOK
<1>7. \A p \in P : volume[p] > 0 => \E x \in q : x.pool = p
  <2> SUFFICES ASSUME NEW p \in P, volume[p] > 0 PROVE \E x \in read \cup PageRead : x.pool = p
    OBVIOUS
  <2>1. p \in Mine(scan) /\ Ahead(p) \in Nat
    BY <1>3
  <2>2. CASE Ahead(p) < PlacesBefore(page)
    BY <1>1, <2>1, <2>2 DEF ReadOK
  <2>3. CASE PlacesBefore(page) <= Ahead(p) /\ Ahead(p) < PlacesBefore(page + 1)
    BY <2>1, <2>3, PageFacts
  <2>4. CASE PageRead = {} /\ PlacesBefore(page) <= Ahead(p)
    <3>1. Ahead(p) >= PlacesBefore(page)
      BY <1>4, <2>1, <2>4
    <3>2. PICK r \in Mine(scan) : Ahead(r) = PlacesBefore(page)
      BY <1>1, <1>4, <2>1, <3>1, PlacesFilled
    <3>3. PlacesBefore(page) < PlacesBefore(page + 1)
      <4>1. page \in Nat \ {0} /\ PageSize \in Nat /\ PageSize > 0
        BY VenueFacts DEF VenuesInv
      <4> QED
        BY <4>1 DEF PlacesBefore
    <3>4. \E x \in PageRead : x.pool = r
      BY <1>4, <3>2, <3>3, PageFacts
    <3> QED
      BY <2>4, <3>4
  <2>5. CASE OnlyDustFollows(PageRead)
    <3> DEFINE l == LastOf(PageRead).pool
    <3>1. sorted /\ PageRead # {} /\ LastOf(PageRead).volume = 0
      BY <2>5 DEF OnlyDustFollows
    <3>2. l \in Mine(scan) /\ volume[l] = 0 /\ Ahead(l) < PlacesBefore(page + 1)
      BY <3>1, PageFacts
    <3> HIDE DEF l
    <3>3. Before(p, l)
      BY <2>1, <1>3, <3>1, <3>2 DEF Before
    <3>4. Ahead(p) < Ahead(l)
      BY <1>1, <1>3, <2>1, <3>2, <3>3, AheadFollows
    <3>5. Ahead(p) < PlacesBefore(page + 1)
      BY <1>3, <1>4, <2>1, <3>2, <3>4
    <3>6. Ahead(p) < PlacesBefore(page) \/ PlacesBefore(page) <= Ahead(p)
      BY <1>4, <2>1
    <3> QED
      BY <2>2, <2>3, <3>5, <3>6
  <2>6. Ahead(p) < PlacesBefore(page) \/ PlacesBefore(page) <= Ahead(p)
    BY <1>4, <2>1
  <2> QED
    BY <2>2, <2>4, <2>5, <2>6
<1> HIDE DEF VolumeRead, VolumeOf
<1> QED
  BY <1>1, <1>2, <1>5, <1>6, <1>7, UnitsAgree

\* What a page without an end to the scan adds.
LEMMA ReadGoesOn ==
  ASSUME VenuesInv, scan # 0, steady,
         read' = read \cup PageRead, page' = page + 1, UNCHANGED <<volume, sorted, scan>>
  PROVE  ReadOK'
<1>1. ReadOK /\ volume \in [Pool -> 0..TopVolume]
  BY DEF VenuesInv
<1>2. \A p : Ahead(p)' = Ahead(p)
  BY DEF Ahead, Before, Mine
<1>3. Mine(scan)' = Mine(scan) /\ PlacesBefore(page)' = PlacesBefore(page + 1)
  BY DEF Mine, PlacesBefore
<1>4. \A p \in Mine(scan) : Ahead(p) \in Nat
  BY <1>1, AheadFollows DEF Mine
<1>5. PlacesBefore(page) \in Nat /\ PlacesBefore(page + 1) \in Nat /\ PlacesBefore(page) <= PlacesBefore(page + 1)
  <2>1. page \in Nat \ {0} /\ PageSize \in Nat
    BY VenueFacts DEF VenuesInv
  <2> QED
    BY <2>1 DEF PlacesBefore
<1>6. \A x \in read \cup PageRead : /\ x \in PoolRead /\ x.pool \in Mine(scan)
                                    /\ x.volume = volume[x.pool] /\ Ahead(x.pool) < PlacesBefore(page + 1)
  <2> SUFFICES ASSUME NEW x \in read \cup PageRead
               PROVE  /\ x \in PoolRead /\ x.pool \in Mine(scan)
                      /\ x.volume = volume[x.pool] /\ Ahead(x.pool) < PlacesBefore(page + 1)
    OBVIOUS
  <2>1. CASE x \in read
    BY <1>1, <1>4, <1>5, <2>1 DEF ReadOK
  <2>2. CASE x \in PageRead
    BY <2>2, PageFacts
  <2> QED
    BY <2>1, <2>2
<1>7. \A x, y \in read \cup PageRead : x.pool = y.pool => x = y
  <2> SUFFICES ASSUME NEW x \in read \cup PageRead, NEW y \in read \cup PageRead, x.pool = y.pool PROVE x = y
    OBVIOUS
  <2>1. /\ x \in read => Ahead(x.pool) < PlacesBefore(page)
        /\ y \in read => Ahead(y.pool) < PlacesBefore(page)
    BY <1>1 DEF ReadOK
  <2>2. /\ x \in PageRead => PlacesBefore(page) <= Ahead(x.pool)
        /\ y \in PageRead => PlacesBefore(page) <= Ahead(y.pool)
    BY PageFacts
  <2>3. Ahead(x.pool) \in Nat
    BY <1>4, <1>6
  <2>4. \/ x \in read /\ y \in read
        \/ x \in PageRead /\ y \in PageRead
    BY <1>5, <2>1, <2>2, <2>3
  <2> QED
    BY <1>1, <2>4, PageFacts DEF ReadOK
<1>8. \A p \in Mine(scan) : Ahead(p) < PlacesBefore(page + 1) => \E x \in read \cup PageRead : x.pool = p
  <2> SUFFICES ASSUME NEW p \in Mine(scan), Ahead(p) < PlacesBefore(page + 1)
               PROVE  \E x \in read \cup PageRead : x.pool = p
    OBVIOUS
  <2>1. Ahead(p) < PlacesBefore(page) \/ PlacesBefore(page) <= Ahead(p)
    BY <1>4, <1>5
  <2> QED
    BY <1>1, <2>1, PageFacts DEF ReadOK
<1> QED
  BY <1>2, <1>3, <1>6, <1>7, <1>8 DEF ReadOK

\* A scan begins.
LEMMA ReadNothing ==
  ASSUME volume' \in [Pool -> 0..TopVolume], read' = {}, page' = 1 PROVE ReadOK'
<1>1. PlacesBefore(page)' = 0
  BY VenueFacts DEF PlacesBefore
<1>2. \A p \in Mine(scan)' : Ahead(p)' \in Nat
  <2> SUFFICES ASSUME NEW p \in Mine(scan)' PROVE Ahead(p)' \in Nat
    OBVIOUS
  <2> DEFINE A == {q \in Mine(VenueOf[p]) : Before(q, p)'}
  <2>1. IsFiniteSet(A)
    BY VenueFacts, FS_Subset
  <2>2. Ahead(p)' = Cardinality(A)
    BY DEF Ahead, Mine
  <2> QED
    BY <2>1, <2>2, FS_CardinalityType
<1> QED
  BY <1>1, <1>2 DEF ReadOK

\* The rows of a scan, and those that are written at its end.
LEMMA NextVenueInv ==
  ASSUME VenuesInv, scan # 0, NEW rows, RowsOK(rows), NextVenue(rows), volume' = volume
  PROVE  VenuesInv'
<1>1. scan' \in Venue \cup {0} /\ page' \in 1..MaxPages /\ steady' \in BOOLEAN /\ sorted' \in BOOLEAN
  BY VenueFacts, VenueAssumption DEF NextVenue
<1>2. RowsOK(finished')
  BY DEF NextVenue
<1>3. RowsOK(venueRow') /\ DOMAIN venueRow' = Venue
  BY DEF NextVenue, VenuesInv, RowsOK
<1>4. ReadOK'
  BY ReadNothing DEF NextVenue, VenuesInv
<1> QED
  BY <1>1, <1>2, <1>3, <1>4 DEF VenuesInv, RowsOK

LEMMA VenueDoneInv ==
  ASSUME VenuesInv, scan # 0, NEW cut \in BOOLEAN, VenueDone(read \cup PageRead, cut),
         cut \/ PageRead = {} \/ OnlyDustFollows(PageRead), volume' = volume
  PROVE  VenuesInv'
<1> DEFINE q == read \cup PageRead
           row == Row(q, cut)
           rows == [v \in DOMAIN finished \cup {scan} |-> IF v = scan THEN row ELSE finished[v]]
<1>1. ~cut => row.exact
  <2> SUFFICES ASSUME ~cut, steady PROVE /\ Kept(q) = VolumeOf(Mine(scan) \cap Sound)
                                         /\ Excluded(q) = VolumeOf(Mine(scan) \ Sound)
    BY DEF Row
  <2>1. \A x \in q : x.pool \in Mine(scan)
    BY PageFacts DEF VenuesInv, ReadOK
  <2>2. {x \in q : x.pool \in Sound} = {x \in read \cup PageRead : x.pool \in Mine(scan) \cap Sound}
    BY <2>1
  <2>3. {x \in q : x.pool \notin Sound} = {x \in read \cup PageRead : x.pool \in Mine(scan) \ Sound}
    BY <2>1
  <2>4. VolumeRead({x \in q : x.pool \in Sound}) = VolumeOf(Mine(scan) \cap Sound)
    BY <2>2, ReadWhole
  <2>5. VolumeRead({x \in q : x.pool \notin Sound}) = VolumeOf(Mine(scan) \ Sound)
    BY <2>3, ReadWhole
  <2> QED
    BY <2>4, <2>5 DEF Kept, Excluded
<1>2. row.truncated = cut
  BY DEF Row
<1> HIDE DEF row
<1>3. RowsOK(rows) /\ RowsOK(finished)
  BY <1>1, <1>2 DEF VenuesInv, RowsOK
<1>4. NextVenue(IF Unfiltered(q) THEN finished ELSE rows)
  BY DEF VenueDone, row
<1> QED
  BY <1>3, <1>4, NextVenueInv

LEMMA ReadPageStep == ASSUME VenuesInv, ReadPage PROVE VenuesInv'
<1> DEFINE over == PageRead = {} \/ OnlyDustFollows(PageRead)
<1>1. scan # 0 /\ UNCHANGED <<volume, trades>>
  BY DEF ReadPage
<1>2. CASE over /\ VenueDone(read \cup PageRead, FALSE)
  BY <1>1, <1>2, VenueDoneInv
<1>3. CASE ~over /\ page = MaxPages /\ VenueDone(read \cup PageRead, CutAt(PageRead))
  <2>1. CutAt(PageRead) = TRUE
    <3>1. LastOf(PageRead).volume \in Nat
      BY <1>1, <1>3, PageFacts, VenueFacts DEF PoolRead
    <3> QED
      BY <1>3, <3>1 DEF CutAt, OnlyDustFollows
  <2> QED
    BY <1>1, <1>3, <2>1, VenueDoneInv
<1>4. CASE /\ ~over /\ page < MaxPages /\ page' = page + 1 /\ read' = read \cup PageRead
           /\ UNCHANGED <<scan, finished, venueRow, steady, sorted>>
  <2>1. page' \in 1..MaxPages
    BY <1>4, VenueFacts DEF VenuesInv
  <2>2. steady => ReadOK'
    BY <1>1, <1>4, ReadGoesOn
  <2> QED
    BY <1>1, <1>4, <2>1, <2>2 DEF VenuesInv, RowsOK
<1> QED
  BY <1>2, <1>3, <1>4 DEF ReadPage

\* A trade on another venue moves nothing here.
LEMMA TradeInv == ASSUME VenuesInv, Trade PROVE VenuesInv'
<1>1. PICK p \in Pool, x \in 0..TopVolume :
        /\ volume' = [volume EXCEPT ![p] = x] /\ steady' = (steady /\ VenueOf[p] # scan)
  BY DEF Trade
<1>2. UNCHANGED <<scan, page, sorted, read, finished, venueRow>>
  BY DEF Trade
<1>3. volume' \in [Pool -> 0..TopVolume] /\ steady' \in BOOLEAN
  BY <1>1 DEF VenuesInv
<1>4. ASSUME scan # 0, steady' PROVE ReadOK'
  <2>1. VenueOf[p] # scan /\ ReadOK
    BY <1>1, <1>4 DEF VenuesInv
  <2>2. \A r \in Mine(scan) : volume'[r] = volume[r] /\ VenueOf[r] = scan
    BY <1>1, <2>1, VenueFacts DEF VenuesInv, Mine
  <2>3. \A r \in Mine(scan) : Ahead(r)' = Ahead(r)
    <3> SUFFICES ASSUME NEW r \in Mine(scan) PROVE Ahead(r)' = Ahead(r)
      OBVIOUS
    <3>1. \A s \in Mine(scan) : Before(s, r)' <=> Before(s, r)
      BY <1>2, <2>2 DEF Before
    <3>2. {s \in Mine(scan) : Before(s, r)'} = {s \in Mine(scan) : Before(s, r)}
      BY <3>1
    <3>3. VenueOf[r] = scan
      BY <2>2
    <3> QED
      BY <3>2, <3>3 DEF Ahead, Mine
  <2>4. Mine(scan)' = Mine(scan) /\ PlacesBefore(page)' = PlacesBefore(page)
    BY <1>2 DEF Mine, PlacesBefore
  <2> QED
    BY <1>2, <2>1, <2>2, <2>3, <2>4 DEF ReadOK
<1> QED
  BY <1>2, <1>3, <1>4 DEF VenuesInv, RowsOK

LEMMA VenuesStep == ASSUME VenuesInv, [VenuesNext]_nvars PROVE VenuesInv'
<1>1. CASE StartScan
  <2>1. /\ scan' \in Venue \cup {0} /\ page' \in 1..MaxPages /\ steady' \in BOOLEAN /\ sorted' \in BOOLEAN
        /\ volume' = volume /\ venueRow' = venueRow
    BY <1>1, VenueFacts DEF StartScan
  <2>2. RowsOK(finished')
    BY <1>1 DEF StartScan, RowsOK
  <2>3. ReadOK'
    BY <1>1, <2>1, ReadNothing DEF StartScan, VenuesInv
  <2> QED
    BY <2>1, <2>2, <2>3 DEF VenuesInv, RowsOK
<1>2. CASE PageFails
  BY <1>2, NextVenueInv DEF PageFails, VenuesInv
<1>3. CASE StopScan
  <2>1. /\ scan' = 0 /\ page' \in 1..MaxPages /\ steady' \in BOOLEAN
        /\ UNCHANGED <<volume, sorted, finished>>
    BY <1>3, VenueFacts DEF StopScan
  <2>2. RowsOK(venueRow') /\ DOMAIN venueRow' = Venue
    BY <1>3 DEF StopScan, VenuesInv, RowsOK
  <2> QED
    BY <2>1, <2>2 DEF VenuesInv, RowsOK
<1>4. CASE UNCHANGED nvars
  <2>1. ReadOK <=> ReadOK'
    BY <1>4 DEF nvars, ReadOK, Ahead, Before, Mine, PlacesBefore
  <2> QED
    BY <1>4, <2>1 DEF nvars, VenuesInv, RowsOK
<1> QED
  BY <1>1, <1>2, <1>3, <1>4, TradeInv, ReadPageStep DEF VenuesNext

\* While no volume of the venue changes, what has been read of it is what its first pages
\* hold, each pool once and as it is; no row ever written is short without saying so.
THEOREM VenuesInvariance == VenuesSpec => []VenuesInv
<1>1. VenuesInit => VenuesInv
  BY VenueFacts DEF VenuesInit, VenuesInv, RowsOK, NoRow
<1>2. VenuesInv /\ [VenuesNext]_nvars => VenuesInv'
  BY VenuesStep
<1> QED
  BY <1>1, <1>2, PTL DEF VenuesSpec

\* A row that is not flagged truncated adds up the whole venue, however many pages it has,
\* sorted or not, unless trades moved pools between them.
THEOREM RowsWhole == VenuesSpec => []VenueRowWhole
<1>1. VenuesInv => VenueRowWhole
  BY DEF VenuesInv, RowsOK, VenueRowWhole
<1> QED
  BY <1>1, VenuesInvariance, PTL

=============================================================================
