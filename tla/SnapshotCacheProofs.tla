------------------------- MODULE SnapshotCacheProofs -------------------------
(***************************************************************************)
(* Proofs about SnapshotCache, for any number of keys, callers and         *)
(* refreshers.  The argument: whoever rebuilds a key holds a lock; a lock  *)
(* is held by one thread; and while a key has not been evicted, every      *)
(* thread that refers to a lock of it refers to the one in the table.      *)
(***************************************************************************)
EXTENDS SnapshotCache, FiniteSetTheorems, TLAPS

Locking == {"try", "acquire", "recheck", "compute", "release"}

\* A thread refers to a lock exactly while it is to acquire or release it, and
\* a thread at work knows its key.
References ==
  \A t \in Thread : /\ thread[t].pc \in Locking <=> thread[t].lock # Nothing
                    /\ thread[t].pc # "idle" => thread[t].key \in Key

\* The lock a thread refers to is the key's own, until the key is evicted.
CurrentLock ==
  \A t \in Thread :
    thread[t].lock # Nothing /\ thread[t].key \notin evicted => thread[t].lock = locks[thread[t].key]

\* Nothing is newer than the clock, and a rebuild newer than what it replaces.
RebuildNewer ==
  /\ \A k \in Key : entries[k].asOf <= clock
  /\ \A t \in Thread : thread[t].asOf <= clock
  /\ \A t \in Thread : At(t, "compute") /\ thread[t].key \notin evicted
                         => entries[thread[t].key].asOf <= thread[t].asOf

CacheInv == CacheTypeOK /\ HeldByOne /\ References /\ CurrentLock /\ RebuildNewer

-----------------------------------------------------------------------------

\* The states that are named in the module have their types.
LEMMA NamedStates ==
  /\ Idle \in ThreadState /\ NoEntry \in Entry \cup {NoEntry}
  /\ Idle.pc = "idle" /\ Idle.lock = Nothing /\ Idle.asOf = 0
  /\ Nothing \notin Lock /\ Nothing \notin Key
  BY CacheAssumption DEF Idle, ThreadState, NoEntry, Time, Lock

\* Initially no thread refers to a lock and none is held.
LEMMA InitCacheInv == CacheInit => CacheInv
<1> SUFFICES ASSUME CacheInit PROVE CacheInv
  OBVIOUS
<1> USE NamedStates, CacheAssumption
<1>1. CacheTypeOK
  BY DEF CacheInit, CacheTypeOK, Time
<1>2. HeldByOne
  BY DEF CacheInit, HeldByOne, Holders
<1>3. References
  BY DEF CacheInit, References, Locking
<1>4. CurrentLock
  BY DEF CacheInit, CurrentLock
<1>5. RebuildNewer
  BY DEF CacheInit, RebuildNewer, NoEntry, At
<1> QED
  BY <1>1, <1>2, <1>3, <1>4, <1>5 DEF CacheInv

-----------------------------------------------------------------------------

Working == {"recheck", "compute", "release"}

\* What a step of one thread does to the array of threads.
LEMMA OneMoves ==
  ASSUME NEW t \in Thread, NEW state \in ThreadState,
         thread \in [Thread -> ThreadState], Becomes(t, state)
  PROVE  /\ thread' \in [Thread -> ThreadState]
         /\ thread'[t] = state
         /\ \A u \in Thread : u # t => thread'[u] = thread[u]
  BY DEF Becomes

\* A thread that neither takes nor gives back a lock leaves HeldByOne as it is.
LEMMA HoldersKept ==
  ASSUME NEW t \in Thread, HeldByOne, locked' = locked,
         \A u \in Thread : u # t => thread'[u] = thread[u],
         thread[t].pc \in Working <=> thread'[t].pc \in Working,
         thread[t].pc \in Working => thread'[t].lock = thread[t].lock
  PROVE  HeldByOne'
<1>1. ASSUME NEW l \in Lock PROVE Holders(l)' = Holders(l)
  BY DEF Holders, Working
<1> QED
  BY <1>1 DEF HeldByOne

\* A lock that is free gets the thread that takes it as its one holder.
LEMMA HolderAdded ==
  ASSUME NEW h \in Thread, NEW l \in Lock, HeldByOne,
         l \notin locked, locked' = locked \cup {l},
         thread'[h].lock = l, thread'[h].pc \in Working, thread[h].pc \notin Working,
         \A u \in Thread : u # h =>
           /\ thread'[u].pc \in Working <=> thread[u].pc \in Working
           /\ thread[u].pc \in Working => thread'[u].lock = thread[u].lock
  PROVE  HeldByOne'
<1>1. Holders(l) = {}
  BY DEF HeldByOne
<1>2. \A u \in Thread : u \in Holders(l)' <=> u = h
  BY <1>1 DEF Holders, Working
<1>3. Holders(l)' = {h}
  BY <1>2 DEF Holders
<1>4. ASSUME NEW x \in Lock, x # l PROVE Holders(x)' = Holders(x)
  BY <1>4 DEF Holders, Working
<1>5. ASSUME NEW x \in Lock
      PROVE  /\ x \in locked' <=> Holders(x)' # {}
             /\ \A s, t \in Holders(x)' : s = t
  <2>1. CASE x = l
    BY <2>1, <1>3
  <2>2. CASE x # l
    BY <2>2, <1>4 DEF HeldByOne
  <2> QED
    BY <2>1, <2>2
<1> QED
  BY <1>5 DEF HeldByOne

\* A lock that its one holder gives back has none.
LEMMA HolderRemoved ==
  ASSUME NEW h \in Thread, NEW l \in Lock, HeldByOne,
         h \in Holders(l), locked' = locked \ {l}, thread'[h].pc \notin Working,
         \A u \in Thread : u # h => thread'[u] = thread[u]
  PROVE  HeldByOne'
<1>1. \A u \in Thread : u \notin Holders(l)'
  BY DEF HeldByOne, Holders, Working
<1>2. Holders(l)' = {}
  BY <1>1 DEF Holders
<1>3. ASSUME NEW x \in Lock, x # l PROVE Holders(x)' = Holders(x)
  BY <1>3 DEF Holders, Working
<1>4. ASSUME NEW x \in Lock
      PROVE  /\ x \in locked' <=> Holders(x)' # {}
             /\ \A s, t \in Holders(x)' : s = t
  <2>1. CASE x = l
    BY <2>1, <1>2
  <2>2. CASE x # l
    BY <2>2, <1>3 DEF HeldByOne
  <2> QED
    BY <2>1, <2>2
<1> QED
  BY <1>4 DEF HeldByOne

\* get keeps the invariant: the thread has a key and no lock.
LEMMA GetStep ==
  ASSUME CacheInv, NEW t \in Thread, NEW k \in Key, Get(t, k)
  PROVE  CacheInv'
<1> DEFINE state == [Idle EXCEPT !.pc = "decide", !.key = k, !.entry = entries[k], !.since = clock]
<1> USE NamedStates DEF CacheInv
<1>1. state \in ThreadState
  BY DEF CacheTypeOK, ThreadState, Idle
<1>2. /\ thread' \in [Thread -> ThreadState]
      /\ thread'[t] = state
      /\ \A u \in Thread : u # t => thread'[u] = thread[u]
  BY <1>1, OneMoves DEF Get, CacheTypeOK
<1>3. /\ state.pc = "decide" /\ state.key = k /\ state.lock = Nothing /\ state.asOf = 0
      /\ thread[t].pc = "idle"
      /\ UNCHANGED <<clock, entries, locks, locked, evicted>>
  BY DEF Get, At, Idle
<1> HIDE DEF state
<1>4. CacheTypeOK'
  BY <1>2, <1>3 DEF CacheTypeOK
<1>5. HeldByOne'
  BY <1>2, <1>3, HoldersKept DEF Working
<1>6. References'
  BY <1>2, <1>3 DEF References, Locking
<1>7. CurrentLock'
  BY <1>2, <1>3 DEF CurrentLock
<1>8. RebuildNewer'
  BY <1>2, <1>3 DEF RebuildNewer, At, CacheTypeOK, Time
<1> QED
  BY <1>4, <1>5, <1>6, <1>7, <1>8

\* So does the decision what to do with the entry that was read.
LEMMA DecideStep ==
  ASSUME CacheInv, NEW t \in Thread, Decide(t)
  PROVE  CacheInv'
<1> DEFINE pc == Path(thread[t].entry)
           state == IF pc = "idle" THEN Idle ELSE [thread[t] EXCEPT !.pc = pc]
<1> USE NamedStates DEF CacheInv
<1>1. pc \in {"idle", "start", "wait"}
  BY DEF Path
<1>2. state \in ThreadState
  BY <1>1 DEF CacheTypeOK, ThreadState
<1>3. /\ thread' \in [Thread -> ThreadState]
      /\ thread'[t] = state
      /\ \A u \in Thread : u # t => thread'[u] = thread[u]
  BY <1>2, OneMoves DEF Decide, CacheTypeOK
<1>4. /\ state.pc \in {"idle", "start", "wait"}
      /\ state.pc # "idle" => state.key = thread[t].key
      /\ state.lock = Nothing /\ state.asOf \in {0, thread[t].asOf}
      /\ thread[t].pc = "decide"
      /\ UNCHANGED <<clock, entries, locks, locked, evicted>>
  BY <1>1 DEF Decide, At, CacheTypeOK, ThreadState, References, Locking
<1> HIDE DEF state
<1>5. CacheTypeOK'
  BY <1>3, <1>4 DEF CacheTypeOK
<1>6. HeldByOne'
  BY <1>3, <1>4, HoldersKept DEF Working
<1>7. References'
  BY <1>3, <1>4 DEF References, Locking
<1>8. CurrentLock'
  BY <1>3, <1>4 DEF CurrentLock
<1>9. RebuildNewer'
  BY <1>3, <1>4 DEF RebuildNewer, At, CacheTypeOK, Time
<1> QED
  BY <1>5, <1>6, <1>7, <1>8, <1>9

\* A reference to a key's lock is to the one in the table.
LEMMA LockForStep ==
  ASSUME CacheInv, NEW t \in Thread, LockFor(t)
  PROVE  CacheInv'
<1> DEFINE k == thread[t].key
<1> USE NamedStates DEF CacheInv
<1>1. PICK l \in LocksFor(k) :
        /\ locks' = [locks EXCEPT ![k] = l]
        /\ Becomes(t, IF At(t, "start")
                        THEN [thread[t] EXCEPT !.lock = l, !.pc = "try"]
                        ELSE [thread[t] EXCEPT !.lock = l, !.pc = "acquire", !.entry = NoEntry])
  BY DEF LockFor
<1>2. k \in Key /\ thread[t].pc \in {"start", "wait"} /\ thread[t].lock = Nothing
      /\ UNCHANGED <<clock, entries, locked, evicted>>
  BY DEF LockFor, References, Locking
<1>3. l \in Lock /\ (locks[k] = Nothing \/ l = locks[k])
  BY <1>1, <1>2 DEF LocksFor, CacheTypeOK, Lock
<1> DEFINE state == IF At(t, "start")
                      THEN [thread[t] EXCEPT !.lock = l, !.pc = "try"]
                      ELSE [thread[t] EXCEPT !.lock = l, !.pc = "acquire", !.entry = NoEntry]
<1>4. state \in ThreadState
  BY <1>3 DEF CacheTypeOK, ThreadState
<1>5. /\ thread' \in [Thread -> ThreadState]
      /\ thread'[t] = state
      /\ \A u \in Thread : u # t => thread'[u] = thread[u]
  BY <1>1, <1>4, OneMoves DEF CacheTypeOK
<1>6. /\ state.pc \in {"try", "acquire"} /\ state.key = k /\ state.lock = l
      /\ state.asOf = thread[t].asOf
  BY DEF CacheTypeOK, ThreadState
<1> HIDE DEF state
<1>7. CacheTypeOK'
  BY <1>1, <1>2, <1>3, <1>5 DEF CacheTypeOK
<1>8. HeldByOne'
  BY <1>2, <1>5, <1>6, HoldersKept DEF Working
<1>9. References'
  BY <1>2, <1>3, <1>5, <1>6 DEF References, Locking
<1>10. CurrentLock'
  <2> SUFFICES ASSUME NEW u \in Thread, thread'[u].lock # Nothing, thread'[u].key \notin evicted
               PROVE  thread'[u].lock = locks'[thread'[u].key]
    BY <1>2 DEF CurrentLock
  <2>1. CASE u = t
    BY <2>1, <1>1, <1>2, <1>5, <1>6 DEF CacheTypeOK
  <2>2. CASE u # t /\ thread[u].key = k
    BY <2>2, <1>1, <1>2, <1>3, <1>5 DEF CacheTypeOK, CurrentLock
  <2>3. CASE u # t /\ thread[u].key # k
    BY <2>3, <1>1, <1>5 DEF CacheTypeOK, CurrentLock
  <2> QED
    BY <2>1, <2>2, <2>3
<1>11. RebuildNewer'
  BY <1>2, <1>5, <1>6 DEF RebuildNewer, At
<1> QED
  BY <1>7, <1>8, <1>9, <1>10, <1>11

\* A free lock has no holder, so the refresher is the only one.
LEMMA TryAcquireStep ==
  ASSUME CacheInv, NEW t \in Thread, TryAcquire(t)
  PROVE  CacheInv'
<1> USE NamedStates DEF CacheInv
<1> DEFINE k == thread[t].key
           l == thread[t].lock
<1>1. k \in Key /\ l \in Lock /\ thread[t].pc = "try"
      /\ UNCHANGED <<clock, entries, locks, evicted>>
  BY DEF TryAcquire, At, References, Locking, CacheTypeOK, ThreadState
<1>2. CASE l \in locked /\ Becomes(t, Idle) /\ UNCHANGED locked
  <2>1. /\ thread' \in [Thread -> ThreadState]
        /\ thread'[t] = Idle
        /\ \A u \in Thread : u # t => thread'[u] = thread[u]
    BY <1>2, OneMoves DEF CacheTypeOK
  <2>2. CacheTypeOK'
    BY <1>1, <1>2, <2>1 DEF CacheTypeOK
  <2>3. HeldByOne'
    BY <1>1, <1>2, <2>1, HoldersKept DEF Working
  <2>4. References'
    BY <2>1 DEF References, Locking
  <2>5. CurrentLock'
    BY <1>1, <2>1 DEF CurrentLock
  <2>6. RebuildNewer'
    BY <1>1, <2>1 DEF RebuildNewer, At, CacheTypeOK, Time
  <2> QED
    BY <2>2, <2>3, <2>4, <2>5, <2>6
<1>3. ASSUME l \notin locked, locked' = locked \cup {l}, NEW r \in Refresher, At(r, "idle"),
             thread' = [thread EXCEPT
               ![r] = [Idle EXCEPT !.pc = "compute", !.key = thread[t].key,
                         !.lock = thread[t].lock, !.asOf = clock],
               ![t] = Idle]
      PROVE  CacheInv'
  <2> DEFINE state == [Idle EXCEPT !.pc = "compute", !.key = k, !.lock = l, !.asOf = clock]
  <2>1. state \in ThreadState
    BY <1>1 DEF CacheTypeOK, ThreadState, Idle
  <2>2. /\ state.pc = "compute" /\ state.key = k /\ state.lock = l /\ state.asOf = clock
        /\ r \in Thread /\ r # t /\ thread[r].pc = "idle"
    BY <1>1, <1>3 DEF Idle, At, Thread
  <2>3. /\ thread' \in [Thread -> ThreadState]
        /\ thread'[t] = Idle /\ thread'[r] = state
        /\ \A u \in Thread : u # t /\ u # r => thread'[u] = thread[u]
    BY <1>3, <2>1, <2>2 DEF CacheTypeOK
  <2> HIDE DEF state
  <2>4. CacheTypeOK'
    BY <1>1, <1>3, <2>3 DEF CacheTypeOK
  <2>5. HeldByOne'
    BY <1>1, <1>3, <2>2, <2>3, HolderAdded DEF Working
  <2>6. References'
    BY <1>1, <2>2, <2>3 DEF References, Locking
  <2>7. CurrentLock'
    BY <1>1, <2>2, <2>3 DEF CurrentLock
  <2>8. RebuildNewer'
    BY <1>1, <2>2, <2>3 DEF RebuildNewer, At, CacheTypeOK, Time
  <2> QED
    BY <2>4, <2>5, <2>6, <2>7, <2>8
<1> QED
  BY <1>2, <1>3 DEF TryAcquire

\* Nor has the lock a waiting caller gets.
LEMMA AcquireStep ==
  ASSUME CacheInv, NEW t \in Thread, Acquire(t)
  PROVE  CacheInv'
<1> USE NamedStates DEF CacheInv
<1> DEFINE l == thread[t].lock
           state == [thread[t] EXCEPT !.pc = "recheck"]
<1>1. l \in Lock /\ thread[t].pc = "acquire" /\ l \notin locked /\ locked' = locked \cup {l}
      /\ thread[t].key \in Key
      /\ UNCHANGED <<clock, entries, locks, evicted>>
  BY DEF Acquire, At, References, Locking, CacheTypeOK, ThreadState
<1>2. state \in ThreadState /\ state.pc = "recheck" /\ state.key = thread[t].key
      /\ state.lock = l /\ state.asOf = thread[t].asOf
  BY DEF CacheTypeOK, ThreadState
<1>3. /\ thread' \in [Thread -> ThreadState]
      /\ thread'[t] = state
      /\ \A u \in Thread : u # t => thread'[u] = thread[u]
  BY <1>2, OneMoves DEF Acquire, Goes, CacheTypeOK
<1> HIDE DEF state
<1>4. CacheTypeOK'
  BY <1>1, <1>3 DEF CacheTypeOK
<1>5. HeldByOne'
  BY <1>1, <1>2, <1>3, HolderAdded DEF Working
<1>6. References'
  BY <1>1, <1>2, <1>3 DEF References, Locking
<1>7. CurrentLock'
  BY <1>1, <1>2, <1>3 DEF CurrentLock
<1>8. RebuildNewer'
  BY <1>1, <1>2, <1>3 DEF RebuildNewer, At
<1> QED
  BY <1>4, <1>5, <1>6, <1>7, <1>8

\* A rebuild starts from the clock, which no entry is ahead of.
LEMMA RecheckStep ==
  ASSUME CacheInv, NEW t \in Thread, Recheck(t)
  PROVE  CacheInv'
<1> USE NamedStates DEF CacheInv
<1> DEFINE e == entries[thread[t].key]
           state == [thread[t] EXCEPT !.entry = e, !.asOf = clock,
                       !.pc = IF e # NoEntry /\ Age(e) < TTL THEN "release" ELSE "compute"]
<1>1. thread[t].pc = "recheck" /\ thread[t].key \in Key /\ e \in Entry \cup {NoEntry}
      /\ UNCHANGED <<clock, entries, locks, locked, evicted>>
  BY DEF Recheck, At, References, CacheTypeOK
<1>2. state \in ThreadState /\ state.pc \in {"release", "compute"} /\ state.key = thread[t].key
      /\ state.lock = thread[t].lock /\ state.asOf = clock
  BY <1>1 DEF CacheTypeOK, ThreadState
<1>3. /\ thread' \in [Thread -> ThreadState]
      /\ thread'[t] = state
      /\ \A u \in Thread : u # t => thread'[u] = thread[u]
  BY <1>2, OneMoves DEF Recheck, CacheTypeOK
<1> HIDE DEF state
<1>4. CacheTypeOK'
  BY <1>1, <1>3 DEF CacheTypeOK
<1>5. HeldByOne'
  BY <1>1, <1>2, <1>3, HoldersKept DEF Working
<1>6. References'
  BY <1>1, <1>2, <1>3 DEF References, Locking
<1>7. CurrentLock'
  BY <1>1, <1>2, <1>3 DEF CurrentLock
<1>8. RebuildNewer'
  BY <1>1, <1>2, <1>3 DEF RebuildNewer, At, CacheTypeOK, Time
<1> QED
  BY <1>4, <1>5, <1>6, <1>7, <1>8

\* A failed rebuild goes on to release the lock.
LEMMA RebuildFailsStep ==
  ASSUME CacheInv, NEW t \in Thread, RebuildFails(t)
  PROVE  CacheInv'
<1> USE NamedStates DEF CacheInv
<1> DEFINE state == [thread[t] EXCEPT !.pc = "release", !.failed = TRUE, !.asOf = 0]
<1>1. thread[t].pc = "compute" /\ UNCHANGED <<clock, entries, locks, locked, evicted>>
  BY DEF RebuildFails, At
<1>2. state \in ThreadState /\ state.pc = "release" /\ state.key = thread[t].key
      /\ state.lock = thread[t].lock /\ state.asOf = 0 /\ 0 <= clock
  <2>1. 0 \in Time /\ 0 <= clock
    BY CacheAssumption DEF CacheTypeOK, Time
  <2> QED
    BY <2>1 DEF CacheTypeOK, ThreadState
<1>3. /\ thread' \in [Thread -> ThreadState]
      /\ thread'[t] = state
      /\ \A u \in Thread : u # t => thread'[u] = thread[u]
  BY <1>2, OneMoves DEF RebuildFails, CacheTypeOK
<1> HIDE DEF state
<1>4. CacheTypeOK'
  BY <1>1, <1>3 DEF CacheTypeOK
<1>5. HeldByOne'
  BY <1>1, <1>2, <1>3, HoldersKept DEF Working
<1>6. References'
  BY <1>1, <1>2, <1>3 DEF References, Locking
<1>7. CurrentLock'
  BY <1>1, <1>2, <1>3 DEF CurrentLock
<1>8. RebuildNewer'
  BY <1>1, <1>2, <1>3 DEF RebuildNewer, At
<1> QED
  BY <1>4, <1>5, <1>6, <1>7, <1>8

\* What a thread stores is no older than what it replaces: nobody else rebuilds
\* the key unless it is evicted.
LEMMA StoreStep ==
  ASSUME CacheInv, NEW t \in Thread, Store(t)
  PROVE  CacheInv'
<1> USE NamedStates DEF CacheInv
<1> DEFINE k == thread[t].key
           e == Stored(t)
           fresh == [asOf |-> thread[t].asOf, stamp |-> clock]
           state == [thread[t] EXCEPT !.pc = "release", !.asOf = 0, !.entry = fresh]
<1>1. /\ thread[t].pc = "compute" /\ k \in Key /\ thread[t].lock # Nothing
      /\ UNCHANGED <<clock, locked>>
  BY DEF Store, At, References, Locking
<1>2. fresh \in Entry /\ fresh.asOf = thread[t].asOf
  BY DEF CacheTypeOK, ThreadState, Entry
<1>3. e \in [Key -> Entry \cup {NoEntry}] /\ e[k] = fresh
      /\ \A j \in Key : j # k => e[j] = entries[j]
  BY <1>1, <1>2 DEF Stored, CacheTypeOK
<1>4. state \in ThreadState /\ state.pc = "release" /\ state.key = k
      /\ state.lock = thread[t].lock /\ state.asOf = 0 /\ 0 <= clock
  <2>1. 0 \in Time /\ 0 <= clock
    BY CacheAssumption DEF CacheTypeOK, Time
  <2> QED
    BY <1>2, <2>1 DEF CacheTypeOK, ThreadState
<1>5. /\ thread' \in [Thread -> ThreadState]
      /\ thread'[t] = state
      /\ \A u \in Thread : u # t => thread'[u] = thread[u]
  BY <1>4, OneMoves DEF Store, CacheTypeOK
<1> DEFINE AtMostEvicted ==
      /\ entries' \in [Key -> Entry \cup {NoEntry}] /\ locks' \in [Key -> Lock \cup {Nothing}]
      /\ evicted \subseteq evicted' /\ evicted' \subseteq Key
      /\ \A j \in Key : j \notin evicted' => entries'[j] = e[j] /\ locks'[j] = locks[j]
      /\ \A j \in Key : entries'[j] \in {e[j], NoEntry}
<1>6. AtMostEvicted
  <2>1. CASE entries' = e /\ UNCHANGED <<locks, evicted>>
    BY <2>1, <1>3 DEF CacheTypeOK
  <2>2. ASSUME NEW old \in Oldest(e),
               entries' = [e EXCEPT ![old] = NoEntry],
               locks' = [locks EXCEPT ![old] = IF @ \in locked THEN @ ELSE Nothing],
               evicted' = evicted \cup {old}
        PROVE  AtMostEvicted
    <3>1. old \in Key
      BY DEF Oldest, Held
    <3> QED
      BY <3>1, <2>2, <1>3 DEF CacheTypeOK
  <2> QED
    BY <2>1, <2>2 DEF Store
<1> HIDE DEF state, fresh, e
<1>7. CacheTypeOK'
  BY <1>1, <1>5, <1>6 DEF CacheTypeOK
<1>8. HeldByOne'
  BY <1>1, <1>4, <1>5, HoldersKept DEF Working
<1>9. References'
  BY <1>1, <1>4, <1>5 DEF References, Locking
<1>10. CurrentLock'
  BY <1>1, <1>4, <1>5, <1>6 DEF CurrentLock, References, Locking
<1>11. RebuildNewer'
  <2>1. \A u \in Thread : thread'[u].asOf <= clock
    BY <1>4, <1>5 DEF RebuildNewer
  <2>2. \A j \in Key : entries'[j].asOf <= clock
    BY <1>2, <1>3, <1>6, <1>1 DEF RebuildNewer, NoEntry, CacheTypeOK, Time
  <2>3. ASSUME NEW u \in Thread, thread'[u].pc = "compute", thread'[u].key \notin evicted'
        PROVE  entries'[thread'[u].key].asOf <= thread'[u].asOf
    <3>1. u # t /\ thread'[u] = thread[u]
      BY <2>3, <1>4, <1>5
    <3>2. thread[u].key \in Key /\ thread[u].key \notin evicted
      BY <3>1, <2>3, <1>6 DEF References
    <3>3. thread[u].key # k
      <4> SUFFICES ASSUME thread[u].key = k PROVE FALSE
        OBVIOUS
      <4>1. thread[u].lock # Nothing /\ thread[u].lock = locks[k] /\ thread[t].lock = locks[k]
        BY <1>1, <3>1, <3>2, <2>3 DEF References, Locking, CurrentLock
      <4>2. locks[k] \in Lock
        BY <4>1, <1>1 DEF CacheTypeOK
      <4>3. t \in Holders(locks[k]) /\ u \in Holders(locks[k])
        BY <4>1, <1>1, <2>3, <3>1 DEF Holders
      <4> QED
        BY <4>2, <4>3, <3>1 DEF HeldByOne
    <3>4. entries'[thread[u].key] = entries[thread[u].key]
      BY <3>1, <3>2, <3>3, <2>3, <1>3, <1>6
    <3> QED
      BY <3>1, <3>2, <3>4, <2>3 DEF RebuildNewer, At
  <2> QED
    BY <2>1, <2>2, <2>3, <1>1 DEF RebuildNewer, At
<1> QED
  BY <1>7, <1>8, <1>9, <1>10, <1>11

\* The lock that is released had this thread as its one holder.
LEMMA ReleaseStep ==
  ASSUME CacheInv, NEW t \in Thread, Release(t)
  PROVE  CacheInv'
<1> USE NamedStates DEF CacheInv
<1> DEFINE l == thread[t].lock
<1>1. thread[t].pc = "release" /\ l \in Lock /\ locked' = locked \ {l}
      /\ UNCHANGED <<clock, entries, locks, evicted>>
  BY DEF Release, At, References, Locking, CacheTypeOK, ThreadState
<1>2. /\ thread' \in [Thread -> ThreadState]
      /\ thread'[t] = Idle
      /\ \A u \in Thread : u # t => thread'[u] = thread[u]
  BY OneMoves DEF Release, CacheTypeOK
<1>3. CacheTypeOK'
  BY <1>1, <1>2 DEF CacheTypeOK
<1>4. HeldByOne'
  BY <1>1, <1>2, HolderRemoved DEF Holders, Working
<1>5. References'
  BY <1>2 DEF References, Locking
<1>6. CurrentLock'
  BY <1>1, <1>2 DEF CurrentLock
<1>7. RebuildNewer'
  BY <1>1, <1>2 DEF RebuildNewer, At, CacheTypeOK, Time
<1> QED
  BY <1>3, <1>4, <1>5, <1>6, <1>7

-----------------------------------------------------------------------------
(* The theorems.                                                            *)

\* Every step keeps the invariant.
LEMMA CacheStep == CacheInv /\ [CacheNext]_cvars => CacheInv'
<1> SUFFICES ASSUME CacheInv, [CacheNext]_cvars PROVE CacheInv'
  OBVIOUS
<1>1. CASE Tick
  <2>1. clock' \in Time /\ clock <= clock'
        /\ UNCHANGED <<entries, locks, locked, thread, evicted>>
    BY <1>1, CacheAssumption DEF Tick, CacheInv, CacheTypeOK, Time
  <2>2. CacheTypeOK'
    BY <2>1 DEF CacheInv, CacheTypeOK
  <2>3. HeldByOne' /\ References' /\ CurrentLock'
    BY <2>1 DEF CacheInv, HeldByOne, Holders, References, CurrentLock
  <2>4. RebuildNewer'
    <3>1. \A k \in Key : entries[k].asOf \in Int
      BY DEF CacheInv, CacheTypeOK, Entry, NoEntry, Time
    <3>2. \A t \in Thread : thread[t].asOf \in Int
      BY DEF CacheInv, CacheTypeOK, ThreadState, Time
    <3> QED
      BY <2>1, <3>1, <3>2 DEF CacheInv, RebuildNewer, At, CacheTypeOK, Time
  <2> QED
    BY <2>2, <2>3, <2>4 DEF CacheInv
<1>2. ASSUME NEW t \in Thread, Proceed(t) PROVE CacheInv'
  BY <1>2, DecideStep, LockForStep, TryAcquireStep, AcquireStep, RecheckStep,
     RebuildFailsStep, StoreStep, ReleaseStep DEF Proceed
<1>3. ASSUME NEW t \in Thread, NEW k \in Key, Get(t, k) PROVE CacheInv'
  BY <1>3, GetStep
<1>4. CASE UNCHANGED cvars
  BY <1>4 DEF cvars, CacheInv, CacheTypeOK, HeldByOne, Holders, References, CurrentLock, RebuildNewer, At
<1> QED
  BY <1>1, <1>2, <1>3, <1>4 DEF CacheNext

\* The inductive invariant of the cache.
THEOREM CacheInvariance == CacheSpec => []CacheInv
  BY InitCacheInv, CacheStep, PTL DEF CacheSpec

\* A held lock has one thread that is to release it (api/cache.py:68, 84-93).
THEOREM LocksHaveHolders == CacheSpec => []HeldByOne
<1>1. CacheInv => HeldByOne
  BY DEF CacheInv
<1> QED
  BY <1>1, CacheInvariance, PTL

\* The rebuilders of a key that was never evicted hold its lock in the table.
LEMMA OneRebuilder == CacheInv => OneRebuild
<1> SUFFICES ASSUME CacheInv, NEW k \in Key, k \notin evicted,
                    NEW s \in Rebuilding(k), NEW t \in Rebuilding(k)
             PROVE  s = t
  BY DEF OneRebuild
<1>1. /\ s \in Thread /\ thread[s].pc = "compute" /\ thread[s].key = k
      /\ t \in Thread /\ thread[t].pc = "compute" /\ thread[t].key = k
  BY DEF Rebuilding, At
<1>2. thread[s].lock # Nothing /\ thread[s].lock = locks[k] /\ thread[t].lock = locks[k]
  BY <1>1 DEF CacheInv, References, Locking, CurrentLock
<1>3. locks[k] \in Lock
  BY <1>2 DEF CacheInv, CacheTypeOK
<1>4. s \in Holders(locks[k]) /\ t \in Holders(locks[k])
  BY <1>1, <1>2 DEF Holders
<1> QED
  BY <1>3, <1>4 DEF CacheInv, HeldByOne

\* One caller does the work, the others wait for it (api/cache.py:13-14), as long
\* as the key is not evicted.
THEOREM OneRebuildAlways == CacheSpec => []OneRebuild
  BY OneRebuilder, CacheInvariance, PTL

\* A step replaces the snapshot of a key by a newer one or evicts it.
LEMMA StepMovesForward ==
  CacheInv /\ [CacheNext]_cvars => [\A k \in Key \ evicted' : entries'[k].asOf >= entries[k].asOf]_cvars
<1> SUFFICES ASSUME CacheInv, CacheNext, NEW k \in Key, k \notin evicted'
             PROVE  entries'[k].asOf >= entries[k].asOf
  OBVIOUS
<1>1. entries[k].asOf \in Int
  BY DEF CacheInv, CacheTypeOK, Entry, NoEntry, Time
<1>2. CASE entries' = entries
  BY <1>1, <1>2
<1>3. ASSUME NEW t \in Thread, Store(t) PROVE entries'[k].asOf >= entries[k].asOf
  <2>1. entries'[k] = Stored(t)[k] /\ k \notin evicted
    BY <1>3 DEF Store, Oldest, Held, Stored, CacheInv, CacheTypeOK
  <2>2. CASE k # thread[t].key
    BY <2>1, <2>2, <1>1 DEF Stored, CacheInv, CacheTypeOK
  <2>3. CASE k = thread[t].key
    <3>1. entries'[k].asOf = thread[t].asOf
      BY <2>1, <2>3 DEF Stored, CacheInv, CacheTypeOK
    <3>2. entries[k].asOf <= thread[t].asOf
      BY <1>3, <2>1, <2>3 DEF Store, CacheInv, RebuildNewer
    <3>3. thread[t].asOf \in Int
      BY DEF CacheInv, CacheTypeOK, ThreadState, Time
    <3> QED
      BY <3>1, <3>2, <3>3, <1>1
  <2> QED
    BY <2>2, <2>3
<1> QED
  BY <1>2, <1>3 DEF CacheNext, Proceed, Tick, Get, Decide, LockFor, TryAcquire, Acquire, Recheck,
     RebuildFails, Release

\* The snapshot of a key never goes back in time (api/cache.py:41-49, 67-93).
THEOREM MovesForwardAlways == CacheSpec => SnapshotsMoveForward
  BY StepMovesForward, CacheInvariance, PTL DEF CacheSpec, SnapshotsMoveForward

-----------------------------------------------------------------------------
(* What callers are served.                                                  *)

Served(x) == x.entry # NoEntry /\ x.since - x.entry.stamp < MaxStale

\* A caller in the state x, at the reading c of the clock, called before and, where it
\* may answer without another look, holds a snapshot that was not too old then.
InTime(x, c) ==
  /\ x.since <= c
  /\ x.pc \in {"start", "try"} => Served(x)
  /\ x.pc = "release" /\ ~x.failed => Served(x)

Serving == \A t \in Caller : InTime(thread[t], clock)
Answers(x) == x.failed \/ Served(x)

\* A step of a thread that leaves the clock and the other callers alone.
LEMMA ServeKept ==
  ASSUME CacheInv, Serving, NEW t \in Thread, NEW x \in ThreadState, clock' = clock,
         \A u \in Caller : u # t => thread'[u] = thread[u],
         thread'[t] = x, t \in Caller => InTime(x, clock)
  PROVE  Serving'
  BY DEF Serving, InTime

\* Arithmetic on the fields of a state and of the snapshot it holds.
LEMMA ServeNumbers ==
  ASSUME CacheInv
  PROVE  /\ clock \in Int /\ TTL \in Int /\ MaxStale \in Int /\ TTL <= MaxStale /\ TTL > 0
         /\ \A t \in Thread : thread[t].since \in Int /\ thread[t].entry.stamp \in Int
         /\ \A k \in Key : entries[k] \in Entry \cup {NoEntry} /\ entries[k].stamp \in Int
  BY CacheAssumption DEF CacheInv, CacheTypeOK, ThreadState, Entry, NoEntry, Time

LEMMA IdleServes == CacheInv => Idle \in ThreadState /\ InTime(Idle, clock)
  BY NamedStates DEF CacheInv, CacheTypeOK, Time, Idle, InTime

\* Where a caller goes from its look at the entry (api/cache.py:53-66).
LEMMA DecideServes ==
  ASSUME CacheInv, Serving, NEW t \in Caller, Decide(t)
  PROVE  Serving' /\ (thread'[t] = Idle => Answers(thread[t]))
<1> DEFINE e == thread[t].entry
<1>1. thread[t] \in ThreadState /\ thread \in [Thread -> ThreadState] /\ t \in Thread
      /\ thread[t].since <= clock
  BY DEF CacheInv, CacheTypeOK, Thread, Serving, InTime
<1>2. Becomes(t, IF Path(e) = "idle" THEN Idle ELSE [thread[t] EXCEPT !.pc = Path(e)])
      /\ clock' = clock
  BY DEF Decide
<1>3. Path(e) \in {"idle", "start"} => Served(thread[t])
  BY <1>1, ServeNumbers DEF Path, Age, Served
<1>4. Path(e) \in {"idle", "start", "wait"}
  BY DEF Path
<1>5. CASE Path(e) = "idle"
  <2>1. thread'[t] = Idle /\ \A u \in Thread : u # t => thread'[u] = thread[u]
    BY <1>1, <1>2, <1>5, IdleServes, OneMoves
  <2> QED
    BY <1>1, <1>2, <1>3, <1>5, <2>1, IdleServes, ServeKept DEF Thread, Answers
<1>6. CASE Path(e) # "idle"
  <2> DEFINE x == [thread[t] EXCEPT !.pc = Path(e)]
  <2>1. x \in ThreadState /\ x.pc = Path(e) /\ x.entry = thread[t].entry
        /\ x.since = thread[t].since /\ x.failed = thread[t].failed
    BY <1>1, <1>4 DEF ThreadState
  <2>2. Becomes(t, x)
    BY <1>2, <1>6
  <2> HIDE DEF x
  <2>3. InTime(x, clock)
    BY <1>1, <1>3, <1>4, <1>6, <2>1 DEF InTime, Served
  <2>4. thread'[t] = x /\ \A u \in Thread : u # t => thread'[u] = thread[u]
    BY <1>1, <2>1, <2>2, OneMoves
  <2>5. thread'[t] # Idle
    BY <1>6, <2>1, <2>4, NamedStates
  <2> QED
    BY <1>1, <1>2, <2>1, <2>3, <2>4, <2>5, ServeKept DEF Thread
<1> QED
  BY <1>5, <1>6

\* A caller that takes or passes the lock, fails, stores or releases
\* (api/cache.py:67-93).
LEMMA WorkServes ==
  ASSUME CacheInv, Serving, NEW t \in Caller,
         LockFor(t) \/ TryAcquire(t) \/ Acquire(t) \/ Recheck(t)
           \/ RebuildFails(t) \/ Store(t) \/ Release(t)
  PROVE  Serving' /\ (thread'[t] = Idle => Answers(thread[t]))
<1>1. thread[t] \in ThreadState /\ thread \in [Thread -> ThreadState] /\ t \in Thread
      /\ InTime(thread[t], clock) /\ clock \in Time
  BY DEF CacheInv, CacheTypeOK, Thread, Serving
<1>2. clock' = clock
  BY DEF LockFor, TryAcquire, Acquire, Recheck, RebuildFails, Store, Release
<1>3. ASSUME NEW x \in ThreadState, Becomes(t, x), InTime(x, clock) PROVE Serving' /\ thread'[t] = x
  BY <1>1, <1>2, <1>3, OneMoves, ServeKept DEF Thread
<1>4. CASE LockFor(t)
  <2>1. CASE At(t, "start")
    <3>1. PICK l \in LocksFor(thread[t].key) : Becomes(t, [thread[t] EXCEPT !.lock = l, !.pc = "try"])
      BY <1>4, <2>1 DEF LockFor
    <3> DEFINE x == [thread[t] EXCEPT !.lock = l, !.pc = "try"]
    <3>2. l \in Lock
      BY <1>1, <1>4 DEF CacheInv, CacheTypeOK, References, LocksFor, Lock, LockFor
    <3>3. x \in ThreadState /\ x.pc = "try" /\ x.entry = thread[t].entry
          /\ x.since = thread[t].since
      BY <1>1, <3>2 DEF ThreadState
    <3> HIDE DEF x
    <3>4. InTime(x, clock)
      BY <1>1, <2>1, <3>3 DEF InTime, Served, At
    <3> QED
      BY <1>3, <3>1, <3>3, <3>4, NamedStates DEF x
  <2>2. CASE ~At(t, "start")
    <3>1. PICK l \in LocksFor(thread[t].key) :
            Becomes(t, [thread[t] EXCEPT !.lock = l, !.pc = "acquire", !.entry = NoEntry])
      BY <1>4, <2>2 DEF LockFor
    <3> DEFINE x == [thread[t] EXCEPT !.lock = l, !.pc = "acquire", !.entry = NoEntry]
    <3>2. l \in Lock
      BY <1>1, <1>4 DEF CacheInv, CacheTypeOK, References, LocksFor, Lock, LockFor
    <3>3. x \in ThreadState /\ x.pc = "acquire" /\ x.since = thread[t].since
      BY <1>1, <3>2, NamedStates DEF ThreadState
    <3> HIDE DEF x
    <3>4. InTime(x, clock)
      BY <1>1, <3>3 DEF InTime
    <3> QED
      BY <1>3, <3>1, <3>3, <3>4, NamedStates DEF x
  <2> QED
    BY <2>1, <2>2
<1>5. CASE TryAcquire(t)
  <2>1. thread'[t] = Idle /\ \A u \in Caller : u # t => thread'[u] = thread[u]
    <3>1. CASE Becomes(t, Idle)
      BY <1>1, <3>1, IdleServes, OneMoves DEF Thread
    <3>2. CASE \E r \in Refresher : thread' = [thread EXCEPT
                 ![r] = [Idle EXCEPT !.pc = "compute", !.key = thread[t].key,
                           !.lock = thread[t].lock, !.asOf = clock],
                 ![t] = Idle]
      BY <1>1, <3>2, CacheAssumption DEF Thread
    <3> QED
      BY <1>5, <3>1, <3>2 DEF TryAcquire
  <2>2. Answers(thread[t])
    BY <1>1, <1>5 DEF TryAcquire, At, InTime, Answers
  <2> QED
    BY <1>1, <1>2, <2>1, <2>2, IdleServes, ServeKept
<1>6. CASE Acquire(t)
  <2> DEFINE x == [thread[t] EXCEPT !.pc = "recheck"]
  <2>1. x \in ThreadState /\ x.pc = "recheck" /\ x.since = thread[t].since
    BY <1>1 DEF ThreadState
  <2>2. Becomes(t, x)
    BY <1>6 DEF Acquire, Goes
  <2> HIDE DEF x
  <2>3. InTime(x, clock)
    BY <1>1, <2>1 DEF InTime
  <2> QED
    BY <1>3, <2>1, <2>2, <2>3, NamedStates
<1>7. CASE Recheck(t)
  <2> DEFINE e == entries[thread[t].key]
             pc == IF e # NoEntry /\ Age(e) < TTL THEN "release" ELSE "compute"
             x == [thread[t] EXCEPT !.entry = e, !.asOf = clock, !.pc = pc]
  <2>1. Becomes(t, x)
    BY <1>7 DEF Recheck
  <2>2. thread[t].key \in Key
    BY <1>1, <1>7 DEF CacheInv, References, Recheck, At
  <2>3. e \in Entry \cup {NoEntry} /\ pc \in {"release", "compute"}
    BY <2>2, ServeNumbers
  <2>4. x \in ThreadState /\ x.pc = pc /\ x.entry = e /\ x.since = thread[t].since
    BY <1>1, <2>3 DEF ThreadState
  <2>5. pc = "release" => e # NoEntry /\ clock - e.stamp < TTL
    BY DEF Age
  <2>6. e.stamp \in Int /\ thread[t].since \in Int
    BY <1>1, <2>2, ServeNumbers
  <2> HIDE DEF x, e, pc
  <2>7. InTime(x, clock)
    <3>1. pc = "release" => thread[t].since - e.stamp < MaxStale
      BY <1>1, <2>5, <2>6, ServeNumbers DEF InTime
    <3> QED
      BY <1>1, <2>3, <2>4, <2>5, <3>1 DEF InTime, Served
  <2> QED
    BY <1>3, <2>1, <2>3, <2>4, <2>7, NamedStates
<1>8. CASE RebuildFails(t)
  <2> DEFINE x == [thread[t] EXCEPT !.pc = "release", !.failed = TRUE, !.asOf = 0]
  <2>1. x \in ThreadState /\ x.pc = "release" /\ x.since = thread[t].since /\ x.failed
    <3>1. 0 \in Time
      BY CacheAssumption DEF Time
    <3> QED
      BY <1>1, <3>1 DEF ThreadState
  <2>2. Becomes(t, x)
    BY <1>8 DEF RebuildFails
  <2> HIDE DEF x
  <2>3. InTime(x, clock)
    BY <1>1, <2>1 DEF InTime
  <2> QED
    BY <1>3, <2>1, <2>2, <2>3, NamedStates
<1>9. CASE Store(t)
  <2> DEFINE e == [asOf |-> thread[t].asOf, stamp |-> clock]
             x == [thread[t] EXCEPT !.pc = "release", !.asOf = 0, !.entry = e]
  <2>1. Becomes(t, x)
    BY <1>9 DEF Store
  <2>2. e \in Entry /\ e.stamp = clock /\ e # NoEntry
    <3>1. e \in Entry /\ e.stamp = clock
      BY <1>1 DEF ThreadState, Entry
    <3>2. NoEntry.stamp = -1 /\ clock # -1
      BY <1>1 DEF NoEntry, Time
    <3> QED
      BY <3>1, <3>2
  <2>3. x \in ThreadState /\ x.pc = "release" /\ x.entry = e /\ x.since = thread[t].since
    <3>1. 0 \in Time
      BY CacheAssumption DEF Time
    <3> QED
      BY <1>1, <2>2, <3>1 DEF ThreadState
  <2> HIDE DEF x, e
  <2>4. InTime(x, clock)
    <3>1. thread[t].since - clock < MaxStale
      BY <1>1, ServeNumbers DEF InTime
    <3> QED
      BY <1>1, <2>2, <2>3, <3>1 DEF InTime, Served
  <2> QED
    BY <1>3, <2>1, <2>3, <2>4, NamedStates
<1>10. CASE Release(t)
  <2>1. Becomes(t, Idle) /\ Answers(thread[t])
    BY <1>1, <1>10 DEF Release, At, InTime, Answers
  <2> QED
    BY <1>3, <2>1, IdleServes
<1> QED
  BY <1>4, <1>5, <1>6, <1>7, <1>8, <1>9, <1>10

\* A refresher's steps are nobody's answer.
LEMMA RefresherServes ==
  ASSUME CacheInv, Serving, NEW t \in Refresher, Proceed(t)
  PROVE  Serving' /\ \A u \in Caller : thread'[u] = thread[u]
<1>1. t \in Thread /\ t \notin Caller /\ thread \in [Thread -> ThreadState]
  BY CacheAssumption DEF Thread, CacheInv, CacheTypeOK
<1>2. ASSUME NEW x, Becomes(t, x), clock' = clock PROVE \A u \in Caller : thread'[u] = thread[u]
  BY <1>1, <1>2 DEF Becomes, Thread
<1>3. clock' = clock
  BY DEF Proceed, Decide, LockFor, TryAcquire, Acquire, Recheck, RebuildFails, Store, Release
<1>4. CASE TryAcquire(t)
  <2>1. CASE Becomes(t, Idle)
    BY <1>2, <1>3, <2>1 DEF Serving
  <2>2. CASE \E r \in Refresher : thread' = [thread EXCEPT
               ![r] = [Idle EXCEPT !.pc = "compute", !.key = thread[t].key,
                         !.lock = thread[t].lock, !.asOf = clock],
               ![t] = Idle]
    <3>1. \A u \in Caller : thread'[u] = thread[u]
      BY <1>1, <2>2, CacheAssumption DEF Thread
    <3> QED
      BY <1>3, <3>1 DEF Serving
  <2> QED
    BY <1>4, <2>1, <2>2 DEF TryAcquire
<1>5. CASE Proceed(t) /\ ~TryAcquire(t)
  <2>1. \E x : Becomes(t, x)
    BY <1>5 DEF Proceed, Decide, LockFor, Acquire, Goes, Recheck, RebuildFails, Store, Release
  <2>2. \A u \in Caller : thread'[u] = thread[u]
    BY <1>2, <1>3, <2>1
  <2> QED
    BY <1>3, <2>2 DEF Serving
<1> QED
  BY <1>4, <1>5

LEMMA ServeStep ==
  ASSUME CacheInv, Serving, CacheNext
  PROVE  /\ Serving'
         /\ \A t \in Caller : thread[t] # Idle /\ thread'[t] = Idle => Answers(thread[t])
<1> DEFINE Good == \A t \in Caller : thread[t] # Idle /\ thread'[t] = Idle => Answers(thread[t])
<1>1. CASE Tick
  <2>1. thread' = thread /\ clock' = clock + 1
    BY <1>1 DEF Tick
  <2>2. \A t \in Caller : InTime(thread[t], clock + 1)
    BY ServeNumbers DEF Serving, InTime, Thread
  <2> QED
    BY <2>1, <2>2 DEF Serving
<1>2. ASSUME NEW t \in Thread, NEW k \in Key, Get(t, k) PROVE Serving' /\ Good
  <2> DEFINE x == [Idle EXCEPT !.pc = "decide", !.key = k, !.entry = entries[k], !.since = clock]
  <2>1. x \in ThreadState /\ x.pc = "decide" /\ x.since = clock
    BY NamedStates, ServeNumbers DEF CacheInv, CacheTypeOK, ThreadState, Idle
  <2>2. Becomes(t, x) /\ clock' = clock /\ thread[t].pc = "idle"
    BY <1>2 DEF Get, At
  <2> HIDE DEF x
  <2>3. thread'[t] = x /\ \A u \in Thread : u # t => thread'[u] = thread[u]
    BY <2>1, <2>2, OneMoves DEF CacheInv, CacheTypeOK
  <2>4. InTime(x, clock)
    BY <2>1, ServeNumbers DEF InTime
  <2> QED
    BY <2>1, <2>2, <2>3, <2>4, ServeKept, NamedStates DEF Thread
<1>3. ASSUME NEW t \in Caller, Proceed(t) PROVE Serving' /\ Good
  <2>1. Serving' /\ (thread'[t] = Idle => Answers(thread[t]))
    BY <1>3, DecideServes, WorkServes DEF Proceed
  <2>2. \A u \in Caller : u # t => thread'[u] = thread[u]
    <3>1. t \in Thread /\ thread \in [Thread -> ThreadState]
      BY DEF Thread, CacheInv, CacheTypeOK
    <3>2. ASSUME NEW x, Becomes(t, x) PROVE \A u \in Caller : u # t => thread'[u] = thread[u]
      BY <3>1, <3>2 DEF Becomes, Thread
    <3>3. CASE TryAcquire(t)
      <4>1. CASE \E r \in Refresher : thread' = [thread EXCEPT
                   ![r] = [Idle EXCEPT !.pc = "compute", !.key = thread[t].key,
                             !.lock = thread[t].lock, !.asOf = clock],
                   ![t] = Idle]
        BY <3>1, <4>1, CacheAssumption DEF Thread
      <4> QED
        BY <3>2, <3>3, <4>1 DEF TryAcquire
    <3>4. CASE ~TryAcquire(t)
      <4>1. \E x : Becomes(t, x)
        BY <1>3, <3>4 DEF Proceed, Decide, LockFor, Acquire, Goes, Recheck, RebuildFails, Store, Release
      <4> QED
        BY <3>2, <4>1
    <3> QED
      BY <3>3, <3>4
  <2> QED
    BY <2>1, <2>2
<1>4. ASSUME NEW t \in Refresher, Proceed(t) PROVE Serving' /\ Good
  BY <1>4, RefresherServes
<1> QED
  BY <1>1, <1>2, <1>3, <1>4 DEF CacheNext, Thread

\* A caller is served a snapshot that was not too old when it called, or one it tried
\* to renew and failed (api/cache.py:51-93).
THEOREM ServedInTimeAlways == CacheSpec => ServedInTime
<1>1. CacheInit => Serving
  <2> SUFFICES ASSUME CacheInit PROVE Serving
    OBVIOUS
  <2>1. CacheInv /\ \A t \in Caller : thread[t] = Idle
    BY InitCacheInv DEF CacheInit, Thread
  <2> QED
    BY <2>1, IdleServes DEF Serving
<1>2. CacheInv /\ Serving /\ [CacheNext]_cvars => Serving'
  BY ServeStep DEF cvars, Serving
<1>3. CacheInv /\ Serving /\ [CacheNext]_cvars =>
        [\A t \in Caller : thread[t] # Idle /\ thread'[t] = Idle =>
           \/ thread[t].failed
           \/ thread[t].entry # NoEntry /\ thread[t].since - thread[t].entry.stamp < MaxStale]_cvars
  BY ServeStep DEF Answers, Served
<1> QED
  BY <1>1, <1>2, <1>3, CacheInvariance, PTL DEF CacheSpec, ServedInTime

-----------------------------------------------------------------------------
(* The room of the table.                                                    *)

\* Its keys are finitely many, and no more than MaxEntries.
RoomKept == IsFiniteSet(Held(entries)) /\ Cardinality(Held(entries)) <= MaxEntries

\* A rebuild brings in one key at most, and if that is one too many, one goes.
LEMMA StoreRoom ==
  ASSUME CacheInv, RoomKept, NEW t \in Thread, Store(t)
  PROVE  RoomKept'
<1> DEFINE e == Stored(t)
           H == Held(entries)
           c == Cardinality(H)
<1>1. e \in [Key -> [asOf: Int, stamp: Int]] /\ Held(e) \subseteq H \cup {thread[t].key}
  <2>1. entries \in [Key -> [asOf: Int, stamp: Int]]
    BY DEF CacheInv, CacheTypeOK, Entry, NoEntry, Time
  <2>2. [asOf |-> thread[t].asOf, stamp |-> clock] \in [asOf: Int, stamp: Int]
    BY DEF CacheInv, CacheTypeOK, ThreadState, Time
  <2> QED
    BY <2>1, <2>2 DEF Stored, Held
<1>2. IsFiniteSet(H) /\ c \in Nat /\ c <= MaxEntries
  BY FS_CardinalityType DEF RoomKept
<1>3. IsFiniteSet(H \cup {thread[t].key}) /\ Cardinality(H \cup {thread[t].key}) <= c + 1
  <2>1. /\ IsFiniteSet(H \cup {thread[t].key})
        /\ Cardinality(H \cup {thread[t].key}) = IF thread[t].key \in H THEN c ELSE c + 1
    BY <1>2, FS_AddElement, Zenon
  <2> HIDE DEF H
  <2> QED
    BY <1>2, <2>1
<1>4. /\ IsFiniteSet(Held(e)) /\ Cardinality(Held(e)) \in Nat
      /\ Cardinality(Held(e)) <= Cardinality(H \cup {thread[t].key})
  BY <1>1, <1>3, FS_Subset, FS_CardinalityType
<1>5. Cardinality(H \cup {thread[t].key}) \in Nat
  BY <1>3, FS_CardinalityType
<1>6. CASE ~Overfull(e) /\ entries' = e
  BY <1>4, <1>6, CacheAssumption DEF Overfull, RoomKept
<1>7. ASSUME Overfull(e), NEW old \in Oldest(e), entries' = [e EXCEPT ![old] = NoEntry]
      PROVE  RoomKept'
  <2>1. old \in Held(e)
    BY DEF Oldest
  <2>2. Held(entries') = Held(e) \ {old}
    BY <1>1, <1>7, <2>1 DEF Held
  <2>3. IsFiniteSet(Held(e) \ {old}) /\ Cardinality(Held(e) \ {old}) = Cardinality(Held(e)) - 1
    BY <1>4, <2>1, FS_RemoveElement
  <2>4. Cardinality(Held(e)) - 1 <= MaxEntries
    BY <1>2, <1>3, <1>4, <1>5, CacheAssumption
  <2>5. Held(entries)' = Held(entries')
    BY DEF Held
  <2> QED
    BY <2>2, <2>3, <2>4, <2>5 DEF RoomKept
<1> QED
  BY <1>6, <1>7 DEF Store

\* The table holds at most MaxEntries snapshots, whoever stores (api/cache.py:41-49).
THEOREM EntriesBoundedAlways == CacheSpec => []EntriesBounded
<1>1. CacheInit => RoomKept
  <2> SUFFICES ASSUME CacheInit PROVE RoomKept
    OBVIOUS
  <2>1. Held(entries) = {}
    BY DEF CacheInit, Held
  <2> QED
    BY <2>1, FS_EmptySet, CacheAssumption DEF RoomKept
<1>2. CacheInv /\ RoomKept /\ [CacheNext]_cvars => RoomKept'
  <2> SUFFICES ASSUME CacheInv, RoomKept, [CacheNext]_cvars PROVE RoomKept'
    OBVIOUS
  <2>1. CASE entries' = entries
    BY <2>1 DEF RoomKept, Held
  <2>2. (\E t \in Thread : Store(t)) \/ entries' = entries
    BY DEF CacheNext, cvars, Tick, Get, Proceed, Decide, LockFor, TryAcquire, Acquire, Recheck,
       RebuildFails, Release
  <2> QED
    BY <2>1, <2>2, StoreRoom
<1>3. RoomKept => EntriesBounded
  BY DEF RoomKept, EntriesBounded
<1> QED
  BY <1>1, <1>2, <1>3, CacheInvariance, PTL DEF CacheSpec

=============================================================================
