----------------------------- MODULE KeyAccess -----------------------------
(***************************************************************************)
(* API keys (api/access.py, api/apikeys.py, api/routes/keys.py): requests  *)
(* that look a key up through the in-process directory, keys created for   *)
(* one email, and the admin route that revokes a key and then clears the   *)
(* directory.  Every request runs in a thread of its own, and the database *)
(* calls are where threads interleave.  All lookups come from one address, *)
(* so that they share one budget; keys of other emails are independent.    *)
(***************************************************************************)
EXTENDS Integers, Sequences, FiniteSets, SequencesExt, Functions, Queues

CONSTANTS
  Key,                     \* keys that exist or may be created
  Thread,                  \* requests in progress at once
  Ttl,                     \* CACHE_TTL_SECONDS
  MaxEntries,              \* CACHE_MAX_ENTRIES
  LookupLimit, LookupWindow,   \* LOOKUP_LIMIT_PER_MIN, WINDOW_SECONDS
  MaxPerEmail,             \* KEY_MAX_PER_EMAIL
  NoKey,
  AnswerDelay,             \* bound: ticks from a row read to the end of its request
  EndTime                  \* bound: the clock stops there

ASSUME KeyAssumption ==
  /\ NoKey \notin Key /\ IsFiniteSet(Thread) /\ Thread # {} /\ IsFiniteSet(Key)
  /\ Ttl \in Nat \ {0} /\ MaxEntries \in Nat \ {0}
  /\ LookupLimit \in Nat \ {0} /\ LookupWindow \in Nat \ {0} /\ MaxPerEmail \in Nat \ {0}
  /\ AnswerDelay \in Nat /\ EndTime \in Nat

VARIABLES
  now,        \* time.monotonic
  row,        \* api_keys: what the table says of each key
  directory,  \* KeyDirectory._entries: for the keys in it, [row, exp]
  order,      \* those keys in insertion order
  limiters,   \* the thread whose limiter the table _limiters holds for lookups
  spent,      \* for each thread, the hits of the limiter it made
  call,       \* the request of each thread
  closed,     \* history: when the revocation of a key returned, or -1
  leaked,     \* history: keys that a lookup had read but not answered at that time
  late,       \* history: when a revoked key was last let in, or -1
  looked      \* history: for each limiter, when it let lookups of the last window through

kvars == <<now, row, directory, order, limiters, spent, call, closed, leaked, late, looked>>

Status == {"absent", "active", "revoked"}
NoEntries == [k \in {} |-> [row |-> "absent", exp |-> 0]]
NoCall == [at |-> "idle", key |-> NoKey, row |-> "absent", since |-> 0, limiter |-> NoKey]

KeyTypeOK ==
  /\ now \in 0..EndTime
  /\ row \in [Key -> Status]
  /\ DOMAIN directory \subseteq Key
  /\ \A k \in DOMAIN directory : directory[k] \in [row: Status, exp: Nat]
  /\ order \in Seq(Key)
  /\ limiters \in Thread \cup {NoKey}
  /\ spent \in [Thread -> Seq(0..EndTime)]
  /\ call \in [Thread -> [at: {"idle", "limiter", "make", "check", "fetch", "store",
                               "answer", "insert", "clear"},
                          key: Key \cup {NoKey}, row: Status, since: 0..EndTime,
                          limiter: Thread \cup {NoKey}]]
  /\ closed \in [Key -> -1..EndTime] /\ late \in [Key -> -1..EndTime]
  /\ leaked \subseteq Key /\ looked \in [Thread -> Seq(0..EndTime)]

KeyInit ==
  /\ now = 0
  /\ row = [k \in Key |-> "absent"]
  /\ directory = NoEntries /\ order = <<>>
  /\ limiters = NoKey /\ spent = [t \in Thread |-> <<>>]
  /\ call = [t \in Thread |-> NoCall]
  /\ closed = [k \in Key |-> -1] /\ late = [k \in Key |-> -1]
  /\ leaked = {} /\ looked = [t \in Thread |-> <<>>]

Becomes(t, c) == call' = [call EXCEPT ![t] = c]
Active == {k \in Key : row[k] = "active"}
InWindow(q, at) == DropUpTo(q, at - LookupWindow)

\* Time passes; a request that holds a row of the database ends in time.
TickKeys ==
  /\ now < EndTime
  /\ \A t \in Thread : call[t].at \in {"store", "answer"} => now - call[t].since < AnswerDelay
  /\ now' = now + 1
  /\ looked' = [l \in Thread |-> InWindow(looked[l], now + 1)]
  /\ UNCHANGED <<row, directory, order, limiters, spent, call, closed, leaked, late>>

-----------------------------------------------------------------------------
(* The directory.                                                            *)

Fresh(k) == directory[k].exp > now
Cached(k) == k \in DOMAIN directory /\ Fresh(k)

\* Mutant: a stored entry never makes room.
RoomNever == order

\* store: the keys that stay when the directory is full.
RoomFor ==
  LET live == Only(order, {k \in DOMAIN directory : Fresh(k)})
  IN CASE Len(order) < MaxEntries -> order
       [] Len(order) >= MaxEntries /\ Len(live) >= MaxEntries -> Tail(live)
       [] OTHER -> live

\* A key that is in the directory already keeps its place.
Stores(k, r) ==
  LET stay == ToSet(RoomFor)
  IN /\ order' = IF k \in stay THEN RoomFor ELSE Append(RoomFor, k)
     /\ directory' = [j \in (DOMAIN directory \cap stay) \cup {k} |->
                        IF j = k THEN [row |-> r, exp |-> now + Ttl] ELSE directory[j]]

\* The request is served (200) or refused (401) on what it knows of the key.
Answer(k, r) ==
  late' = IF r = "active" /\ closed[k] >= 0 THEN [late EXCEPT ![k] = now] ELSE late

-----------------------------------------------------------------------------
(* _identify_key: a request with a key of the right shape.                  *)

LookUp(t, k) ==
  /\ call[t].at = "idle"
  /\ IF Cached(k)
     THEN /\ Answer(k, directory[k].row)
          /\ UNCHANGED call
     ELSE /\ Becomes(t, [NoCall EXCEPT !.at = "limiter", !.key = k])
          /\ UNCHANGED late
  /\ UNCHANGED <<now, row, directory, order, limiters, spent, closed, leaked, looked>>

\* limiter_for: get the limiter of the lookups, or make it; two steps, no lock.
LimiterFor(t) ==
  /\ call[t].at = "limiter"
  /\ IF limiters = NoKey
     THEN Becomes(t, [call[t] EXCEPT !.at = "make"])
     ELSE Becomes(t, [call[t] EXCEPT !.at = "check", !.limiter = limiters])
  /\ UNCHANGED <<now, row, directory, order, limiters, spent, closed, leaked, late, looked>>

MakeLimiter(t) ==
  /\ call[t].at = "make"
  /\ limiters' = t
  /\ Becomes(t, [call[t] EXCEPT !.at = "check", !.limiter = t])
  /\ UNCHANGED <<now, row, directory, order, spent, closed, leaked, late, looked>>

\* Mutant: one lookup too many.
BudgetLate(q) == Len(q) <= LookupLimit

Budget(q) == Len(q) < LookupLimit

\* The lookup budget of the address: 429 when it is used up.
CheckBudget(t) ==
  /\ call[t].at = "check"
  /\ LET l == call[t].limiter
         hits == InWindow(spent[l], now)
     IN IF Budget(hits)
        THEN /\ spent' = [spent EXCEPT ![l] = Append(hits, now)]
             /\ looked' = [looked EXCEPT ![l] = Append(@, now)]
             /\ Becomes(t, [call[t] EXCEPT !.at = "fetch", !.limiter = NoKey])
        ELSE /\ spent' = [spent EXCEPT ![l] = hits]
             /\ Becomes(t, NoCall)
             /\ UNCHANGED looked
  /\ UNCHANGED <<now, row, directory, order, limiters, closed, leaked, late>>

\* fetch_key_by_hash; when the table is unreachable the request is served as
\* anonymous and nothing is cached.
Fetch(t) ==
  /\ call[t].at = "fetch"
  /\ \/ Becomes(t, [call[t] EXCEPT !.at = "store", !.row = row[call[t].key], !.since = now])
     \/ Becomes(t, NoCall)
  /\ UNCHANGED <<now, row, directory, order, limiters, spent, closed, leaked, late, looked>>

Store(t) ==
  /\ call[t].at = "store"
  /\ Stores(call[t].key, call[t].row)
  /\ Becomes(t, [call[t] EXCEPT !.at = "answer"])
  /\ UNCHANGED <<now, row, limiters, spent, closed, leaked, late, looked>>

\* The answer follows after a write to last_used_at, whether that succeeds or not.
AnswerLookUp(t) ==
  /\ call[t].at = "answer"
  /\ Answer(call[t].key, call[t].row)
  /\ Becomes(t, NoCall)
  /\ UNCHANGED <<now, row, directory, order, limiters, spent, closed, leaked, looked>>

-----------------------------------------------------------------------------
(* create_key and the admin route.                                          *)

\* Mutant: the cap itself still admits one more.
RoomLate == Cardinality(Active) <= MaxPerEmail

RoomForKey == Cardinality(Active) < MaxPerEmail

\* A request past its limiters counts the keys of its email; with no room it ends there.
CountKeys(t) ==
  /\ call[t].at = "idle" /\ RoomForKey
  /\ Becomes(t, [NoCall EXCEPT !.at = "insert"])
  /\ UNCHANGED <<now, row, directory, order, limiters, spent, closed, leaked, late, looked>>

InsertKey(t) ==
  /\ call[t].at = "insert"
  /\ \/ \E k \in Key : row[k] = "absent" /\ row' = [row EXCEPT ![k] = "active"]
     \/ UNCHANGED row                  \* the insert fails: 500
  /\ Becomes(t, NoCall)
  /\ UNCHANGED <<now, directory, order, limiters, spent, closed, leaked, late, looked>>

\* revoke_key: a key that is not active is a 404.
RevokeKey(t, k) ==
  /\ call[t].at = "idle" /\ row[k] = "active"
  /\ row' = [row EXCEPT ![k] = "revoked"]
  /\ Becomes(t, [NoCall EXCEPT !.at = "clear", !.key = k])
  /\ UNCHANGED <<now, directory, order, limiters, spent, closed, leaked, late, looked>>

\* Mutant: the route leaves the directory as it is.
KeptDirectory == directory' = directory /\ order' = order

ClearedDirectory == directory' = NoEntries /\ order' = <<>>

Holds(t, k) ==
  call[t].at \in {"store", "answer"} /\ call[t].key = k /\ call[t].row = "active"

ClearDirectory(t) ==
  /\ call[t].at = "clear"
  /\ ClearedDirectory
  /\ closed' = [closed EXCEPT ![call[t].key] = now]
  /\ leaked' = leaked \cup {k \in {call[t].key} : \E u \in Thread : Holds(u, k)}
  /\ Becomes(t, NoCall)
  /\ UNCHANGED <<now, row, limiters, spent, late, looked>>

KeyNext ==
  \/ TickKeys
  \/ \E t \in Thread :
       \/ \E k \in Key : LookUp(t, k) \/ RevokeKey(t, k)
       \/ LimiterFor(t) \/ MakeLimiter(t) \/ CheckBudget(t) \/ Fetch(t)
       \/ Store(t) \/ AnswerLookUp(t)
       \/ CountKeys(t) \/ InsertKey(t) \/ ClearDirectory(t)

KeySpec == KeyInit /\ [][KeyNext]_kvars

-----------------------------------------------------------------------------
(* Properties.                                                              *)

\* Once the admin route has answered, the key is refused, unless a lookup had
\* read its row before and answers after: that lookup can put the row back into
\* the directory just cleared, for one more TTL.
RevokedKeyRefused ==
  \A k \in Key : late[k] >= 0 =>
    k \in leaked /\ late[k] < closed[k] + AnswerDelay + Ttl

\* Random keys cannot drive the database: in a window the lookups of one address
\* stay within the budget.  limiter_for takes no lock, so that each request which
\* found no limiter replaces the one of another and brings a budget of its own.
Lookups == UNION {{l} \X DOMAIN looked[l] : l \in Thread}
LookupsBounded == Cardinality(Lookups) <= LookupLimit * Cardinality(Thread)

\* The cap of keys per email is counted before the insert: requests that counted
\* at the same time may exceed it, by no more than their number less one.
CapNearlyKept == Cardinality(Active) <= MaxPerEmail + Cardinality(Thread) - 1

\* The directory stays within its size: what is stored has its place in the order
\* once, and nothing else has.
DirectoryBounded ==
  /\ Len(order) <= MaxEntries /\ IsInjective(order)
  /\ ToSet(order) = DOMAIN directory

=============================================================================
