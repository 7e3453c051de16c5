---------------------------- MODULE SnapshotCache ----------------------------
(***************************************************************************)
(* The in-process snapshot cache of the read API (api/cache.py): request   *)
(* threads and background refreshers over one dict of entries, one dict of *)
(* locks by key, and the guard of both.                                    *)
(*                                                                         *)
(* A step is what a thread does between two points where another can run:  *)
(* a section under the guard, a lock operation, one unguarded read of the  *)
(* entries, one reading of the clock.  compute() takes any time and may    *)
(* fail; what it returns is abstracted to the time its reading began.      *)
(***************************************************************************)
EXTENDS Integers, FiniteSets

CONSTANTS
  Key,
  Caller,      \* request threads
  Refresher,   \* bound: background threads alive at once
  Spare,       \* bound: locks of one key that have been dropped but are in use
  TTL, MaxStale, MaxEntries,
  Nothing,
  LastTime     \* bound: the clock stops there

Thread == Caller \cup Refresher
Lock == Key \X (0..Spare)      \* the threading.Lock objects

ASSUME CacheAssumption ==
  /\ Caller \cap Refresher = {} /\ Nothing \notin Key \cup Lock \cup Thread
  /\ TTL \in Nat \ {0} /\ MaxStale \in Nat /\ TTL <= MaxStale
  /\ MaxEntries \in Nat \ {0} /\ LastTime \in Nat /\ Spare \in Nat

VARIABLES
  clock,
  entries,   \* _entries: a snapshot for each key, or NoEntry
  locks,     \* _locks: a lock for each key, or Nothing
  locked,    \* the locks that are held
  thread,
  evicted    \* history: keys that have been evicted

cvars == <<clock, entries, locks, locked, thread, evicted>>

Time == 0..LastTime
Entry == [asOf: Time, stamp: Time]
NoEntry == [asOf |-> 0, stamp |-> -1]

Idle == [pc |-> "idle", key |-> Nothing, entry |-> NoEntry, lock |-> Nothing, since |-> 0,
         asOf |-> 0, failed |-> FALSE]

ThreadState ==
  [pc: {"idle", "decide", "start", "try", "wait", "acquire", "recheck", "compute", "release"},
   key: Key \cup {Nothing}, entry: Entry \cup {NoEntry}, lock: Lock \cup {Nothing},
   since: Time, asOf: Time, failed: BOOLEAN]

CacheTypeOK ==
  /\ clock \in Time
  /\ entries \in [Key -> Entry \cup {NoEntry}]
  /\ locks \in [Key -> Lock \cup {Nothing}] /\ locked \subseteq Lock /\ evicted \subseteq Key
  /\ thread \in [Thread -> ThreadState]

CacheInit ==
  /\ clock = 0
  /\ entries = [k \in Key |-> NoEntry]
  /\ locks = [k \in Key |-> Nothing]
  /\ locked = {}
  /\ thread = [t \in Thread |-> Idle]
  /\ evicted = {}

Tick == clock < LastTime /\ clock' = clock + 1 /\ UNCHANGED <<entries, locks, locked, thread, evicted>>

At(t, pc) == thread[t].pc = pc
Becomes(t, state) == thread' = [thread EXCEPT ![t] = state]
Goes(t, pc) == Becomes(t, [thread[t] EXCEPT !.pc = pc])
Age(e) == clock - e.stamp

-----------------------------------------------------------------------------
(* get: the entry is read first, the clock after it.                        *)

Get(t, k) ==
  /\ t \in Caller /\ At(t, "idle")
  /\ Becomes(t, [Idle EXCEPT !.pc = "decide", !.key = k, !.entry = entries[k], !.since = clock])
  /\ UNCHANGED <<clock, entries, locks, locked, evicted>>

\* Mutant: a snapshot of any age is served while a refresh is started.
PathServeAny(e) ==
  CASE e = NoEntry -> "wait"
    [] e # NoEntry /\ Age(e) < TTL -> "idle"
    [] OTHER -> "start"

Path(e) ==
  CASE e # NoEntry /\ Age(e) < TTL -> "idle"
    [] e # NoEntry /\ Age(e) >= TTL /\ Age(e) < MaxStale -> "start"
    [] OTHER -> "wait"

Decide(t) ==
  /\ At(t, "decide")
  /\ Becomes(t, LET pc == Path(thread[t].entry) IN
                IF pc = "idle" THEN Idle ELSE [thread[t] EXCEPT !.pc = pc])
  /\ UNCHANGED <<clock, entries, locks, locked, evicted>>

Referenced(l) == \/ \E k \in Key : locks[k] = l
                 \/ \E t \in Thread : thread[t].lock = l

LocksFor(k) ==
  IF locks[k] # Nothing THEN {locks[k]}
  ELSE {l \in {k} \X (0..Spare) : ~Referenced(l) /\ \A n \in 0..(l[2] - 1) : Referenced(<<k, n>>)}

\* _lock_for: setdefault under the guard; the reference outlives the guard.
LockFor(t) ==
  /\ thread[t].pc \in {"start", "wait"}
  /\ \E l \in LocksFor(thread[t].key) :
       /\ locks' = [locks EXCEPT ![thread[t].key] = l]
       /\ Becomes(t, IF At(t, "start")
                       THEN [thread[t] EXCEPT !.lock = l, !.pc = "try"]
                       ELSE [thread[t] EXCEPT !.lock = l, !.pc = "acquire", !.entry = NoEntry])
  /\ UNCHANGED <<clock, entries, locked, evicted>>

\* Mutant: the refresh is started whether or not one is running.
TryAcquireAlways(t) ==
  /\ At(t, "try")
  /\ \E r \in Refresher :
       /\ At(r, "idle")
       /\ locked' = locked \cup {thread[t].lock}
       /\ thread' = [thread EXCEPT
            ![r] = [Idle EXCEPT !.pc = "compute", !.key = thread[t].key,
                      !.lock = thread[t].lock, !.asOf = clock],
            ![t] = Idle]
  /\ UNCHANGED <<clock, entries, locks, evicted>>

\* _refresh_in_background: acquired here, released by the thread it starts.
TryAcquire(t) ==
  /\ At(t, "try")
  /\ \/ /\ thread[t].lock \in locked
        /\ Becomes(t, Idle)
        /\ UNCHANGED locked
     \/ /\ thread[t].lock \notin locked
        /\ locked' = locked \cup {thread[t].lock}
        /\ \E r \in Refresher :
             /\ At(r, "idle")
             /\ thread' = [thread EXCEPT
                  ![r] = [Idle EXCEPT !.pc = "compute", !.key = thread[t].key,
                            !.lock = thread[t].lock, !.asOf = clock],
                  ![t] = Idle]
  /\ UNCHANGED <<clock, entries, locks, evicted>>

-----------------------------------------------------------------------------
(* _compute_blocking, and run() of a refresh.                               *)

Acquire(t) ==
  /\ At(t, "acquire") /\ thread[t].lock \notin locked
  /\ locked' = locked \cup {thread[t].lock}
  /\ Goes(t, "recheck")
  /\ UNCHANGED <<clock, entries, locks, evicted>>

\* Another caller may have rebuilt it while this one waited for the lock.
Recheck(t) ==
  /\ At(t, "recheck")
  /\ LET e == entries[thread[t].key] IN
     Becomes(t, [thread[t] EXCEPT !.entry = e, !.asOf = clock,
                   !.pc = IF e # NoEntry /\ Age(e) < TTL THEN "release" ELSE "compute"])
  /\ UNCHANGED <<clock, entries, locks, locked, evicted>>

\* Mutant: no try/finally around the rebuild.
RebuildDies(t) ==
  /\ At(t, "compute")
  /\ Becomes(t, Idle)
  /\ UNCHANGED <<clock, entries, locks, locked, evicted>>

\* The caller serves the snapshot it saw under the lock, or raises without one.
RebuildFails(t) ==
  /\ At(t, "compute")
  /\ Becomes(t, [thread[t] EXCEPT !.pc = "release", !.failed = TRUE, !.asOf = 0])
  /\ UNCHANGED <<clock, entries, locks, locked, evicted>>

Stored(t) == [entries EXCEPT ![thread[t].key] = [asOf |-> thread[t].asOf, stamp |-> clock]]
Held(e) == {k \in Key : e[k] # NoEntry}
Oldest(e) == {k \in Held(e) : \A j \in Held(e) : e[k].stamp <= e[j].stamp}

\* Mutant: the bound is checked before the new entry counts.
OverfullLate(e) == Cardinality(Held(e)) > MaxEntries + 1

Overfull(e) == Cardinality(Held(e)) > MaxEntries

\* compute() returns and _store runs under the guard: the oldest entry goes, and
\* its lock unless it is held.
Store(t) ==
  /\ At(t, "compute")
  /\ LET e == Stored(t) IN
     \/ /\ ~Overfull(e)
        /\ entries' = e
        /\ UNCHANGED <<locks, evicted>>
     \/ /\ Overfull(e)
        /\ \E old \in Oldest(e) :
             /\ entries' = [e EXCEPT ![old] = NoEntry]
             /\ locks' = [locks EXCEPT ![old] = IF @ \in locked THEN @ ELSE Nothing]
             /\ evicted' = evicted \cup {old}
  /\ Becomes(t, [thread[t] EXCEPT !.pc = "release", !.asOf = 0,
                   !.entry = [asOf |-> thread[t].asOf, stamp |-> clock]])
  /\ UNCHANGED <<clock, locked>>

Release(t) ==
  /\ At(t, "release")
  /\ locked' = locked \ {thread[t].lock}
  /\ Becomes(t, Idle)
  /\ UNCHANGED <<clock, entries, locks, evicted>>

-----------------------------------------------------------------------------

Proceed(t) ==
  \/ Decide(t) \/ LockFor(t) \/ TryAcquire(t) \/ Acquire(t) \/ Recheck(t)
  \/ RebuildFails(t) \/ Store(t) \/ Release(t)

CacheNext == Tick \/ \E t \in Thread : Proceed(t) \/ (\E k \in Key : Get(t, k))

CacheSpec == CacheInit /\ [][CacheNext]_cvars

-----------------------------------------------------------------------------
(* Properties.                                                              *)

Rebuilding(k) == {t \in Thread : thread[t].key = k /\ At(t, "compute")}

\* However many callers find a snapshot missing or stale, one of them rebuilds
\* it ("one caller does the work, the others wait for it instead of piling on
\* Supabase", api/cache.py:13-14).  An evicted key may be rebuilt twice: its lock
\* is dropped while a caller holds a reference to it that it has not acquired.
OneRebuild == \A k \in Key \ evicted : \A s, t \in Rebuilding(k) : s = t

\* The snapshot of a key is never replaced by one that was read earlier from the
\* database, although rebuilds take any time and overlap with refreshes.
SnapshotsMoveForward ==
  [][\A k \in Key \ evicted' : entries'[k].asOf >= entries[k].asOf]_cvars

\* A caller is served a snapshot that was stored less than MaxStale before its
\* call, or has tried to rebuild it and failed, whatever it waited for.
ServedInTime ==
  [][\A t \in Caller : thread[t] # Idle /\ thread'[t] = Idle =>
       \/ thread[t].failed
       \/ thread[t].entry # NoEntry /\ thread[t].since - thread[t].entry.stamp < MaxStale]_cvars

\* The keys embed values the callers choose: the table stays within its bound.
EntriesBounded == Cardinality(Held(entries)) <= MaxEntries

Holders(l) ==
  {t \in Thread : thread[t].lock = l /\ thread[t].pc \in {"recheck", "compute", "release"}}

\* A held lock belongs to exactly one thread, and one that is on its way to
\* release it: no rebuild, also none that fails or runs in the background (where
\* one thread acquires and another releases), leaves callers waiting for ever.
HeldByOne ==
  \A l \in Lock : /\ l \in locked <=> Holders(l) # {}
                  /\ \A s, t \in Holders(l) : s = t

=============================================================================
