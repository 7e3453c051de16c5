--------------------------- MODULE KeyAccessProofs ---------------------------
(***************************************************************************)
(* Proofs about KeyAccess, for any number of keys, of requests at once and *)
(* any lifetime of an entry.                                               *)
(*                                                                         *)
(* Revocation: once a key is closed, what still says "active" of it is a   *)
(* lookup that read the row before, and an entry that such a lookup        *)
(* stored; the lookup ends AnswerDelay after it read, the entry Ttl later. *)
(*                                                                         *)
(* The cap: a request between its count and its insert counts as a key     *)
(* already, and there are no more of them than threads.                    *)
(***************************************************************************)
EXTENDS KeyAccess, QueueProofs, FiniteSetTheorems, TLAPS

Calls == {"idle", "limiter", "make", "check", "fetch", "store", "answer",
          "insert", "clear"}
Call == [at: Calls, key: Key \cup {NoKey}, row: Status, since: Nat,
         limiter: Thread \cup {NoKey}]
Known == [row: Status, exp: Nat]

\* The types the proofs need.
Types ==
  /\ now \in Nat /\ row \in [Key -> Status]
  /\ DOMAIN directory \subseteq Key /\ \A k \in DOMAIN directory : directory[k] \in Known
  /\ call \in [Thread -> Call] /\ limiters \in Thread \cup {NoKey}
  /\ \A t \in Thread :
       call[t].at \notin {"idle", "insert"} => call[t].key \in Key
  /\ closed \in [Key -> Int] /\ late \in [Key -> Int]
  /\ leaked \subseteq Key /\ \A k \in Key : closed[k] <= now

Closed(k) == closed[k] >= 0

\* A key is closed only after its row was revoked, which is final.
ClosedRevoked ==
  /\ \A k \in Key : Closed(k) => row[k] = "revoked"
  /\ \A t \in Thread : call[t].at = "clear" => row[call[t].key] = "revoked"

\* A lookup that holds the row of a closed key as active read it before.
HeldBefore ==
  \A t \in Thread : call[t].at \in {"store", "answer"} =>
    /\ now - call[t].since <= AnswerDelay /\ call[t].since <= now
    /\ call[t].row = "active" /\ Closed(call[t].key) =>
         call[t].key \in leaked /\ call[t].since <= closed[call[t].key]

\* An entry that says active of a closed key was stored by such a lookup.
EntriesEnd ==
  \A k \in DOMAIN directory : directory[k].row = "active" /\ Closed(k) =>
    k \in leaked /\ directory[k].exp <= closed[k] + AnswerDelay + Ttl

KeyInv == Types /\ ClosedRevoked /\ HeldBefore /\ EntriesEnd /\ RevokedKeyRefused

-----------------------------------------------------------------------------

\* A step of one request changes that request alone.
LEMMA OneCall ==
  ASSUME NEW t \in Thread, NEW c \in Call, call \in [Thread -> Call], Becomes(t, c)
  PROVE  /\ call' \in [Thread -> Call] /\ call'[t] = c
         /\ \A u \in Thread : u # t => call'[u] = call[u]
  BY DEF Becomes

\* The request of an idle thread has its type.
LEMMA NoCallType == NoCall \in Call /\ NoCall.at = "idle" /\ NoKey \notin Key
  BY KeyAssumption DEF NoCall, Call, Calls, Status

\* Initially no key exists, so none is closed.
LEMMA InitKeyInv == KeyInit => KeyInv
<1> SUFFICES ASSUME KeyInit PROVE KeyInv
  OBVIOUS
<1>1. Types
  BY NoCallType DEF KeyInit, Types, NoEntries, Status
<1>2. ClosedRevoked /\ HeldBefore /\ EntriesEnd /\ RevokedKeyRefused
  BY NoCallType DEF KeyInit, ClosedRevoked, HeldBefore, EntriesEnd, RevokedKeyRefused, Closed,
     NoEntries
<1> QED
  BY <1>1, <1>2 DEF KeyInv

-----------------------------------------------------------------------------

\* Steps of a request that leave the table, the directory and the history alone and
\* do not end up holding a row or about to clear.
LEMMA QuietStep ==
  ASSUME KeyInv, NEW t \in Thread, NEW c \in Call, Becomes(t, c),
         c.at \notin {"store", "answer", "clear"},
         c.at \notin {"idle", "insert"} => c.key \in Key,
         limiters' \in Thread \cup {NoKey},
         UNCHANGED <<now, row, directory, closed, leaked, late>>
  PROVE  KeyInv'
<1>1. /\ call' \in [Thread -> Call] /\ call'[t] = c
      /\ \A u \in Thread : u # t => call'[u] = call[u]
  BY OneCall DEF KeyInv, Types
<1>2. Types'
  BY <1>1 DEF KeyInv, Types
<1>3. ClosedRevoked' /\ EntriesEnd' /\ RevokedKeyRefused'
  BY <1>1 DEF KeyInv, ClosedRevoked, EntriesEnd, RevokedKeyRefused, Closed
<1>4. HeldBefore'
  BY <1>1 DEF KeyInv, HeldBefore, Closed
<1> QED
  BY <1>2, <1>3, <1>4 DEF KeyInv

\* Time passes only while every row that is held is young enough.
LEMMA TickKeysInv == KeyInv /\ TickKeys => KeyInv'
<1> SUFFICES ASSUME KeyInv, TickKeys PROVE KeyInv'
  OBVIOUS
<1>1. Types'
  BY DEF KeyInv, Types, TickKeys
<1>2. ClosedRevoked' /\ EntriesEnd' /\ RevokedKeyRefused'
  BY DEF KeyInv, ClosedRevoked, EntriesEnd, RevokedKeyRefused, Closed, TickKeys
<1>3. HeldBefore'
  BY KeyAssumption DEF KeyInv, Types, HeldBefore, Closed, TickKeys, Call
<1> QED
  BY <1>1, <1>2, <1>3 DEF KeyInv

\* A key served from the directory or on a row that was held is let in in time.
LEMMA AnswerInTime ==
  ASSUME KeyInv, NEW k \in Key, NEW r \in Status, Answer(k, r), closed' = closed, leaked' = leaked,
         r = "active" /\ Closed(k) => k \in leaked /\ now < closed[k] + AnswerDelay + Ttl
  PROVE  RevokedKeyRefused' /\ late' \in [Key -> Int]
  BY KeyAssumption DEF KeyInv, Types, RevokedKeyRefused, Answer, Closed

\* A lookup answered from the directory, or on its way to the table.
LEMMA LookUpInv == ASSUME KeyInv, NEW t \in Thread, NEW k \in Key, LookUp(t, k) PROVE KeyInv'
<1>1. CASE Cached(k)
  <2>1. k \in DOMAIN directory /\ directory[k].exp > now /\ directory[k] \in Known
    BY <1>1 DEF Cached, Fresh, KeyInv, Types
  <2>2. /\ Answer(k, directory[k].row)
        /\ UNCHANGED <<now, row, directory, limiters, call, closed, leaked>>
    BY <1>1 DEF LookUp
  <2>3. directory[k].row = "active" /\ Closed(k) => k \in leaked /\ now < closed[k] + AnswerDelay + Ttl
    BY <2>1, KeyAssumption DEF KeyInv, Types, EntriesEnd, Known
  <2>4. RevokedKeyRefused' /\ late' \in [Key -> Int]
    BY <2>1, <2>2, <2>3, AnswerInTime DEF Known
  <2>5. Types'
    BY <2>2, <2>4 DEF KeyInv, Types
  <2>6. ClosedRevoked' /\ HeldBefore' /\ EntriesEnd'
    BY <2>2 DEF KeyInv, ClosedRevoked, HeldBefore, EntriesEnd, Closed
  <2> QED
    BY <2>4, <2>5, <2>6 DEF KeyInv
<1>2. CASE ~Cached(k)
  <2> DEFINE c == [NoCall EXCEPT !.at = "limiter", !.key = k]
  <2>1. c \in Call /\ c.at = "limiter" /\ c.key = k
    BY NoCallType DEF Call, Calls, NoCall
  <2>2. /\ Becomes(t, c) /\ UNCHANGED <<now, row, directory, closed, leaked, late>>
        /\ limiters' \in Thread \cup {NoKey}
    BY <1>2 DEF LookUp, KeyInv, Types
  <2> QED
    BY <2>1, <2>2, QuietStep
<1> QED
  BY <1>1, <1>2

\* The limiter and the budget are of no account to the revocation.
LEMMA LimiterInv ==
  ASSUME KeyInv, NEW t \in Thread, LimiterFor(t) \/ MakeLimiter(t) \/ CheckBudget(t)
  PROVE  KeyInv'
<1>1. call[t] \in Call /\ call[t].key \in Key /\ limiters \in Thread \cup {NoKey}
  BY DEF KeyInv, Types, LimiterFor, MakeLimiter, CheckBudget
<1>2. CASE LimiterFor(t) /\ limiters = NoKey
  <2> DEFINE c == [call[t] EXCEPT !.at = "make"]
  <2>1. c \in Call /\ c.at = "make" /\ c.key = call[t].key
    BY <1>1 DEF Call, Calls
  <2> QED
    BY <1>1, <1>2, <2>1, QuietStep DEF LimiterFor
<1>3. CASE LimiterFor(t) /\ limiters # NoKey
  <2> DEFINE c == [call[t] EXCEPT !.at = "check", !.limiter = limiters]
  <2>1. c \in Call /\ c.at = "check" /\ c.key = call[t].key
    BY <1>1 DEF Call, Calls
  <2> QED
    BY <1>1, <1>3, <2>1, QuietStep DEF LimiterFor
<1>4. CASE MakeLimiter(t)
  <2> DEFINE c == [call[t] EXCEPT !.at = "check", !.limiter = t]
  <2>1. c \in Call /\ c.at = "check" /\ c.key = call[t].key
    BY <1>1 DEF Call, Calls
  <2> QED
    BY <1>1, <1>4, <2>1, QuietStep DEF MakeLimiter
<1>5. CASE CheckBudget(t)
  <2> DEFINE c == [call[t] EXCEPT !.at = "fetch", !.limiter = NoKey]
  <2>1. c \in Call /\ c.at = "fetch" /\ c.key = call[t].key
    BY <1>1 DEF Call, Calls
  <2>2. Becomes(t, c) \/ Becomes(t, NoCall)
    BY <1>5 DEF CheckBudget
  <2>3. UNCHANGED <<now, row, directory, limiters, closed, leaked, late>>
    BY <1>5 DEF CheckBudget
  <2> HIDE DEF c
  <2> QED
    BY <1>1, <2>1, <2>2, <2>3, QuietStep, NoCallType
<1> QED
  BY <1>2, <1>3, <1>4, <1>5

\* The row that is read is the row of now, so that an active one is not closed.
LEMMA FetchInv == ASSUME KeyInv, NEW t \in Thread, Fetch(t) PROVE KeyInv'
<1> DEFINE c == [call[t] EXCEPT !.at = "store", !.row = row[call[t].key], !.since = now]
<1>1. /\ call[t] \in Call /\ call[t].key \in Key /\ limiters' \in Thread \cup {NoKey}
      /\ UNCHANGED <<now, row, directory, limiters, closed, leaked, late>>
  BY DEF KeyInv, Types, Fetch
<1>2. CASE Becomes(t, NoCall)
  BY <1>1, <1>2, QuietStep, NoCallType
<1>3. CASE Becomes(t, c)
  <2>1. /\ c \in Call /\ c.at = "store" /\ c.key = call[t].key
        /\ c.row = row[c.key] /\ c.since = now
    BY <1>1 DEF Call, Calls, KeyInv, Types
  <2>2. /\ call' \in [Thread -> Call] /\ call'[t] = c
        /\ \A u \in Thread : u # t => call'[u] = call[u]
    BY <1>3, <2>1, OneCall DEF KeyInv, Types
  <2> HIDE DEF c
  <2>3. Types'
    BY <1>1, <2>1, <2>2 DEF KeyInv, Types
  <2>4. ClosedRevoked' /\ EntriesEnd' /\ RevokedKeyRefused'
    BY <1>1, <2>1, <2>2 DEF KeyInv, ClosedRevoked, EntriesEnd, RevokedKeyRefused, Closed
  <2>5. HeldBefore'
    BY <1>1, <2>1, <2>2, KeyAssumption DEF KeyInv, Types, ClosedRevoked, HeldBefore, Closed
  <2> QED
    BY <2>3, <2>4, <2>5 DEF KeyInv
<1> QED
  BY <1>2, <1>3 DEF Fetch

\* What is stored is no older than AnswerDelay, and everything else was there.
LEMMA StoreInv == ASSUME KeyInv, NEW t \in Thread, Store(t) PROVE KeyInv'
<1> DEFINE c == [call[t] EXCEPT !.at = "answer"]
           k == call[t].key
<1>1. /\ call[t] \in Call /\ k \in Key /\ call[t].at = "store"
      /\ Becomes(t, c) /\ UNCHANGED <<now, row, limiters, closed, leaked, late>>
  BY DEF KeyInv, Types, Store
<1>2. c \in Call /\ c = [call[t] EXCEPT !.at = "answer"]
  BY <1>1 DEF Call, Calls
<1>3. /\ call' \in [Thread -> Call] /\ call'[t] = c
      /\ \A u \in Thread : u # t => call'[u] = call[u]
  BY <1>1, <1>2, OneCall DEF KeyInv, Types
<1>4. /\ DOMAIN directory' \subseteq DOMAIN directory \cup {k}
      /\ k \in DOMAIN directory' /\ directory'[k] = [row |-> call[t].row, exp |-> now + Ttl]
      /\ \A j \in DOMAIN directory' : j # k => directory'[j] = directory[j]
  BY DEF Store, Stores
<1>5. directory'[k] \in Known /\ directory'[k].exp = now + Ttl /\ directory'[k].row = call[t].row
  BY <1>1, <1>4, KeyAssumption DEF KeyInv, Types, Known, Call
<1>6. c.at = "answer" /\ c.key = k /\ c.row = call[t].row /\ c.since = call[t].since
  BY <1>1 DEF Call
<1> HIDE DEF c
<1>7. Types'
  BY <1>1, <1>3, <1>4, <1>5, <1>6 DEF KeyInv, Types
<1>8. ClosedRevoked' /\ RevokedKeyRefused'
  BY <1>1, <1>3, <1>6 DEF KeyInv, ClosedRevoked, RevokedKeyRefused, Closed
<1>9. HeldBefore'
  BY <1>1, <1>3, <1>6 DEF KeyInv, HeldBefore, Closed
<1>10. EntriesEnd'
  <2> SUFFICES ASSUME NEW j \in DOMAIN directory', directory'[j].row = "active", Closed(j)
               PROVE  j \in leaked /\ directory'[j].exp <= closed[j] + AnswerDelay + Ttl
    BY <1>1 DEF EntriesEnd, Closed
  <2>1. CASE j = k
    BY <1>1, <1>5, <2>1, KeyAssumption DEF KeyInv, Types, HeldBefore, Call
  <2>2. CASE j # k
    BY <1>4, <2>2 DEF KeyInv, EntriesEnd
  <2> QED
    BY <2>1, <2>2
<1> QED
  BY <1>7, <1>8, <1>9, <1>10 DEF KeyInv

\* A lookup answers in time on the row it holds.
LEMMA AnswerInv == ASSUME KeyInv, NEW t \in Thread, AnswerLookUp(t) PROVE KeyInv'
<1> DEFINE k == call[t].key
<1>1. /\ call[t] \in Call /\ k \in Key /\ call[t].at = "answer" /\ Becomes(t, NoCall)
      /\ Answer(k, call[t].row) /\ UNCHANGED <<now, row, directory, limiters, closed, leaked>>
  BY DEF KeyInv, Types, AnswerLookUp
<1>2. /\ call' \in [Thread -> Call] /\ call'[t] = NoCall
      /\ \A u \in Thread : u # t => call'[u] = call[u]
  BY <1>1, OneCall, NoCallType DEF KeyInv, Types
<1>3. call[t].row = "active" /\ Closed(k) => k \in leaked /\ now < closed[k] + AnswerDelay + Ttl
  BY <1>1, KeyAssumption DEF KeyInv, Types, HeldBefore, Call
<1>4. RevokedKeyRefused' /\ late' \in [Key -> Int]
  BY <1>1, <1>3, AnswerInTime DEF Call
<1>5. Types'
  BY <1>1, <1>2, <1>4, NoCallType DEF KeyInv, Types
<1>6. ClosedRevoked' /\ HeldBefore' /\ EntriesEnd'
  BY <1>1, <1>2, NoCallType DEF KeyInv, ClosedRevoked, HeldBefore, EntriesEnd, Closed
<1> QED
  BY <1>4, <1>5, <1>6 DEF KeyInv

\* Keys are created where there was none: no key that is closed comes back.
LEMMA CreateInv ==
  ASSUME KeyInv, NEW t \in Thread, CountKeys(t) \/ InsertKey(t)
  PROVE  KeyInv'
<1>1. call[t] \in Call /\ limiters \in Thread \cup {NoKey}
  BY DEF KeyInv, Types
<1>3. CASE CountKeys(t)
  <2> DEFINE c == [NoCall EXCEPT !.at = "insert"]
  <2>1. c \in Call /\ c.at = "insert"
    BY NoCallType DEF Call, Calls, NoCall
  <2> QED
    BY <1>1, <1>3, <2>1, QuietStep DEF CountKeys
<1>4. CASE InsertKey(t)
  <2>1. /\ call' \in [Thread -> Call] /\ call'[t] = NoCall
        /\ \A u \in Thread : u # t => call'[u] = call[u]
        /\ UNCHANGED <<now, directory, limiters, closed, leaked, late>>
    BY <1>4, OneCall, NoCallType DEF KeyInv, Types, InsertKey
  <2>2. row' \in [Key -> Status] /\ \A k \in Key : row[k] = "revoked" => row'[k] = "revoked"
    BY <1>4 DEF InsertKey, KeyInv, Types, Status
  <2>3. Types'
    BY <2>1, <2>2, NoCallType DEF KeyInv, Types
  <2>4. ClosedRevoked'
    <3>1. \A k \in Key : Closed(k)' => row'[k] = "revoked"
      BY <2>1, <2>2 DEF KeyInv, ClosedRevoked, Closed
    <3>2. ASSUME NEW u \in Thread, call'[u].at = "clear" PROVE row'[call'[u].key] = "revoked"
      BY <2>1, <2>2, <3>2, NoCallType DEF KeyInv, Types, ClosedRevoked
    <3> QED
      BY <3>1, <3>2 DEF ClosedRevoked
  <2>5. HeldBefore' /\ EntriesEnd' /\ RevokedKeyRefused'
    BY <2>1, NoCallType DEF KeyInv, HeldBefore, EntriesEnd, RevokedKeyRefused, Closed
  <2> QED
    BY <2>3, <2>4, <2>5 DEF KeyInv
<1> QED
  BY <1>3, <1>4

\* The row is revoked before the directory is cleared.
LEMMA RevokeInv == ASSUME KeyInv, NEW t \in Thread, NEW k \in Key, RevokeKey(t, k) PROVE KeyInv'
<1> DEFINE c == [NoCall EXCEPT !.at = "clear", !.key = k]
<1>1. c \in Call /\ c.at = "clear" /\ c.key = k
  BY NoCallType DEF Call, Calls, NoCall
<1> HIDE DEF c
<1>2. /\ call' \in [Thread -> Call] /\ call'[t] = c
      /\ \A u \in Thread : u # t => call'[u] = call[u]
      /\ UNCHANGED <<now, directory, limiters, closed, leaked, late>>
  BY <1>1, OneCall DEF KeyInv, Types, RevokeKey, c
<1>3. /\ row' \in [Key -> Status] /\ row'[k] = "revoked"
      /\ \A j \in Key : j # k => row'[j] = row[j]
  BY DEF KeyInv, Types, RevokeKey, Status
<1>4. Types'
  BY <1>1, <1>2, <1>3 DEF KeyInv, Types
<1>5. ClosedRevoked'
  <2>1. \A j \in Key : Closed(j)' => row'[j] = "revoked"
    BY <1>2, <1>3 DEF KeyInv, ClosedRevoked, Closed
  <2>2. ASSUME NEW u \in Thread, call'[u].at = "clear" PROVE row'[call'[u].key] = "revoked"
    BY <1>1, <1>2, <1>3, <2>2 DEF KeyInv, Types, ClosedRevoked
  <2> QED
    BY <2>1, <2>2 DEF ClosedRevoked
<1>6. HeldBefore' /\ EntriesEnd' /\ RevokedKeyRefused'
  BY <1>1, <1>2 DEF KeyInv, HeldBefore, EntriesEnd, RevokedKeyRefused, Closed
<1> QED
  BY <1>4, <1>5, <1>6 DEF KeyInv

\* Clearing leaves no entry, and whoever still holds the row is written down.
LEMMA ClearInv == ASSUME KeyInv, NEW t \in Thread, ClearDirectory(t) PROVE KeyInv'
<1> DEFINE k == call[t].key
<1>1. k \in Key /\ row[k] = "revoked" /\ DOMAIN directory' = {}
  BY DEF KeyInv, Types, ClosedRevoked, ClearDirectory, ClearedDirectory, NoEntries
<1>2. /\ call' \in [Thread -> Call] /\ call'[t] = NoCall
      /\ \A u \in Thread : u # t => call'[u] = call[u]
      /\ UNCHANGED <<now, row, limiters, late>>
  BY OneCall, NoCallType DEF KeyInv, Types, ClearDirectory
<1>3. /\ closed' \in [Key -> Int] /\ closed'[k] = now
      /\ \A j \in Key : j # k => closed'[j] = closed[j]
  BY <1>1 DEF KeyInv, Types, ClearDirectory
<1>4. /\ leaked \subseteq leaked' /\ leaked' \subseteq Key
      /\ \A u \in Thread : Holds(u, k) => k \in leaked'
  BY <1>1 DEF KeyInv, Types, ClearDirectory
<1>5. Types'
  <2>1. \A u \in Thread :
          call'[u].at \notin {"idle", "insert"} => call'[u].key \in Key
    BY <1>2, NoCallType DEF KeyInv, Types
  <2>2. \A j \in Key : closed'[j] <= now'
    BY <1>2, <1>3 DEF KeyInv, Types
  <2> QED
    BY <1>1, <1>2, <1>3, <1>4, <2>1, <2>2 DEF KeyInv, Types
<1>6. ClosedRevoked'
  <2>1. \A j \in Key : Closed(j)' => row'[j] = "revoked"
    BY <1>1, <1>2, <1>3 DEF KeyInv, ClosedRevoked, Closed
  <2>2. ASSUME NEW u \in Thread, call'[u].at = "clear" PROVE row'[call'[u].key] = "revoked"
    BY <1>2, <2>2, NoCallType DEF KeyInv, ClosedRevoked
  <2> QED
    BY <2>1, <2>2 DEF ClosedRevoked
<1>7. HeldBefore'
  <2> SUFFICES ASSUME NEW u \in Thread, call'[u].at \in {"store", "answer"}
               PROVE  /\ now - call'[u].since <= AnswerDelay /\ call'[u].since <= now
                      /\ call'[u].row = "active" /\ closed'[call'[u].key] >= 0 =>
                           call'[u].key \in leaked' /\ call'[u].since <= closed'[call'[u].key]
    BY <1>2 DEF HeldBefore, Closed
  <2>1. u # t /\ call'[u] = call[u]
    BY <1>2, NoCallType
  <2>2. CASE call[u].key = k
    BY <1>3, <1>4, <2>1, <2>2 DEF KeyInv, HeldBefore, Holds
  <2>3. CASE call[u].key # k
    <3>1. call[u].key \in Key /\ closed'[call[u].key] = closed[call[u].key]
      BY <1>3, <2>1, <2>3 DEF KeyInv, Types
    <3> QED
      BY <1>4, <2>1, <3>1 DEF KeyInv, HeldBefore, Closed
  <2> QED
    BY <2>2, <2>3
<1>8. EntriesEnd'
  BY <1>1 DEF EntriesEnd
<1>9. RevokedKeyRefused'
  BY <1>2, <1>3, <1>4, KeyAssumption DEF KeyInv, Types, RevokedKeyRefused
<1> QED
  BY <1>5, <1>6, <1>7, <1>8, <1>9 DEF KeyInv

-----------------------------------------------------------------------------

\* The inductive invariant holds in every behaviour.
THEOREM KeyInvariance == KeySpec => []KeyInv
<1>1. KeyInv /\ [KeyNext]_kvars => KeyInv'
  <2> SUFFICES ASSUME KeyInv, [KeyNext]_kvars PROVE KeyInv'
    OBVIOUS
  <2>1. CASE TickKeys
    BY <2>1, TickKeysInv
  <2>2. ASSUME NEW t \in Thread, NEW k \in Key, LookUp(t, k) \/ RevokeKey(t, k) PROVE KeyInv'
    BY <2>2, LookUpInv, RevokeInv
  <2>3. ASSUME NEW t \in Thread,
               \/ LimiterFor(t) \/ MakeLimiter(t) \/ CheckBudget(t) \/ Fetch(t) \/ Store(t)
               \/ AnswerLookUp(t) \/ CountKeys(t) \/ InsertKey(t) \/ ClearDirectory(t)
        PROVE  KeyInv'
    BY <2>3, LimiterInv, FetchInv, StoreInv, AnswerInv, CreateInv, ClearInv
  <2>4. CASE UNCHANGED kvars
    BY <2>4 DEF kvars, KeyInv, Types, ClosedRevoked, HeldBefore, EntriesEnd, RevokedKeyRefused,
       Closed
  <2> QED
    BY <2>1, <2>2, <2>3, <2>4 DEF KeyNext
<1> QED
  BY <1>1, InitKeyInv, PTL DEF KeySpec

\* A revoked key is refused once the route has answered, but for a lookup that held
\* its row, and then for no longer than AnswerDelay and Ttl (access.py:122-128).
THEOREM RevocationHolds == KeySpec => []RevokedKeyRefused
<1>1. KeyInv => RevokedKeyRefused
  BY DEF KeyInv
<1> QED
  BY <1>1, KeyInvariance, PTL

-----------------------------------------------------------------------------
(* The cap of keys per email.                                                *)

Inserting == {t \in Thread : call[t].at = "insert"}

\* Keys and requests that are about to insert one are no more than the cap allows.
CapInv == Cardinality(Active) + Cardinality(Inserting) <= MaxPerEmail + Cardinality(Thread) - 1

\* The sets that are counted are finite.
LEMMA Finite ==
  /\ IsFiniteSet(Active) /\ Cardinality(Active) \in Nat
  /\ IsFiniteSet(Inserting) /\ Cardinality(Inserting) \in Nat
  /\ Cardinality(Inserting) <= Cardinality(Thread)
  /\ Cardinality(Thread) \in Nat \ {0}
<1>1. Active \subseteq Key /\ Inserting \subseteq Thread
  BY DEF Active, Inserting
<1>2. Cardinality(Thread) # 0
  BY KeyAssumption, FS_EmptySet
<1> QED
  BY <1>1, <1>2, KeyAssumption, FS_Subset, FS_CardinalityType

\* Steps that leave neither more keys nor more requests about to insert.
LEMMA CapKept ==
  ASSUME CapInv, Active' \subseteq Active, Inserting' \subseteq Inserting
  PROVE  CapInv'
<1>1. /\ Cardinality(Active') <= Cardinality(Active) /\ Cardinality(Active') \in Nat
      /\ Cardinality(Inserting') <= Cardinality(Inserting) /\ Cardinality(Inserting') \in Nat
  BY Finite, FS_Subset, FS_CardinalityType
<1> QED
  BY <1>1, Finite, KeyAssumption DEF CapInv

\* A request that found room may insert; all threads together may do so.
LEMMA CountKept == ASSUME CapInv, Types, NEW t \in Thread, CountKeys(t) PROVE CapInv'
<1>1. Cardinality(Active) < MaxPerEmail /\ Active' = Active
  BY DEF CountKeys, RoomForKey, Active
<1>2. Cardinality(Inserting') <= Cardinality(Thread) /\ Cardinality(Inserting') \in Nat
  <2>1. Inserting' \subseteq Thread
    BY DEF Inserting
  <2> QED
    BY <2>1, KeyAssumption, FS_Subset, FS_CardinalityType
<1> QED
  BY <1>1, <1>2, Finite, KeyAssumption DEF CapInv

\* A key that is inserted takes the place of the request that inserts it.
LEMMA InsertKept == ASSUME CapInv, Types, NEW t \in Thread, InsertKey(t) PROVE CapInv'
<1>1. t \in Inserting /\ Inserting' = Inserting \ {t}
  BY DEF Types, InsertKey, Inserting, Becomes, NoCall
<1>2. CASE row' = row
  <2>1. Active' = Active
    BY <1>2 DEF Active
  <2> QED
    BY <1>1, <1>2, <2>1, CapKept DEF CapInv
<1>3. ASSUME NEW k \in Key, row[k] = "absent", row' = [row EXCEPT ![k] = "active"] PROVE CapInv'
  <2>1. Active' = Active \cup {k} /\ k \notin Active
    BY <1>3 DEF Active, Types, Status
  <2>2. Cardinality(Active') = Cardinality(Active) + 1
    BY <2>1, Finite, FS_AddElement
  <2>3. Cardinality(Inserting') = Cardinality(Inserting) - 1
    BY <1>1, Finite, FS_RemoveElement
  <2> QED
    BY <1>1, <2>1, <2>2, <2>3, Finite, KeyAssumption DEF CapInv
<1> QED
  BY <1>2, <1>3 DEF InsertKey

\* All other steps of a request.
LEMMA OthersKept ==
  ASSUME CapInv, Types, NEW t \in Thread,
         \/ \E k \in Key : LookUp(t, k) \/ RevokeKey(t, k)
         \/ LimiterFor(t) \/ MakeLimiter(t) \/ CheckBudget(t)
         \/ Fetch(t) \/ Store(t) \/ AnswerLookUp(t) \/ ClearDirectory(t)
  PROVE  CapInv'
<1>1. Active' \subseteq Active
  BY DEF Types, Active, Status, LookUp, RevokeKey, LimiterFor, MakeLimiter, CheckBudget, Fetch,
     Store, AnswerLookUp, ClearDirectory
<1>2. Inserting' \subseteq Inserting
  <2>1. ASSUME NEW c, c.at # "insert", Becomes(t, c)
        PROVE  Inserting' \subseteq Inserting
    BY <2>1 DEF Types, Call, Inserting, Becomes
  <2>2. ASSUME NEW k PROVE /\ [NoCall EXCEPT !.at = "limiter", !.key = k].at # "insert"
                          /\ [NoCall EXCEPT !.at = "clear", !.key = k].at # "insert"
    BY DEF NoCall
  <2>3. CASE call' = call
    BY <2>3 DEF Types, Call, Inserting
  <2>4. CASE \E k \in Key : LookUp(t, k) \/ RevokeKey(t, k)
    BY <2>1, <2>2, <2>3, <2>4 DEF LookUp, RevokeKey
  <2>5. CASE LimiterFor(t) \/ MakeLimiter(t) \/ CheckBudget(t)
    <3>1. /\ [call[t] EXCEPT !.at = "make"].at # "insert"
          /\ [call[t] EXCEPT !.at = "check", !.limiter = limiters].at # "insert"
          /\ [call[t] EXCEPT !.at = "check", !.limiter = t].at # "insert"
          /\ [call[t] EXCEPT !.at = "fetch", !.limiter = NoKey].at # "insert" /\ NoCall.at # "insert"
      BY DEF Types, Call, NoCall
    <3> QED
      BY <2>1, <2>5, <3>1 DEF LimiterFor, MakeLimiter, CheckBudget
  <2>6. CASE Fetch(t) \/ Store(t) \/ AnswerLookUp(t)
    <3>1. /\ [call[t] EXCEPT !.at = "store", !.row = row[call[t].key], !.since = now].at # "insert"
          /\ [call[t] EXCEPT !.at = "answer"].at # "insert" /\ NoCall.at # "insert"
      BY DEF Types, Call, NoCall
    <3> QED
      BY <2>1, <2>6, <3>1 DEF Fetch, Store, AnswerLookUp
  <2>7. CASE ClearDirectory(t)
    BY <2>7 DEF Types, Call, Inserting, Becomes, NoCall, ClearDirectory
  <2> QED
    BY <2>4, <2>5, <2>6, <2>7
<1> QED
  BY <1>1, <1>2, CapKept

\* An email never has more keys than the cap and the requests that counted at the
\* same time, less one (keys.py:100-119).
THEOREM CapHolds == KeySpec => []CapNearlyKept
<1>1. KeyInit => CapInv
  <2> SUFFICES ASSUME KeyInit PROVE CapInv
    OBVIOUS
  <2>1. Active = {} /\ Inserting = {}
    BY DEF KeyInit, Active, Inserting, NoCall
  <2> QED
    BY <2>1, FS_EmptySet, Finite, KeyAssumption DEF CapInv
<1>2. KeyInv /\ CapInv /\ [KeyNext]_kvars => CapInv'
  <2> SUFFICES ASSUME Types, CapInv, [KeyNext]_kvars PROVE CapInv'
    BY DEF KeyInv
  <2>1. CASE TickKeys \/ UNCHANGED kvars
    BY <2>1, CapKept DEF TickKeys, kvars, Active, Inserting
  <2>2. ASSUME NEW t \in Thread, CountKeys(t) \/ InsertKey(t) PROVE CapInv'
    BY <2>2, CountKept, InsertKept
  <2>3. ASSUME NEW t \in Thread,
               \/ \E k \in Key : LookUp(t, k) \/ RevokeKey(t, k)
               \/ LimiterFor(t) \/ MakeLimiter(t) \/ CheckBudget(t)
               \/ Fetch(t) \/ Store(t) \/ AnswerLookUp(t) \/ ClearDirectory(t)
        PROVE  CapInv'
    BY <2>3, OthersKept
  <2> QED
    BY <2>1, <2>2, <2>3 DEF KeyNext
<1>3. CapInv => CapNearlyKept
  BY Finite, KeyAssumption DEF CapInv, CapNearlyKept
<1> QED
  BY <1>1, <1>2, <1>3, KeyInvariance, PTL DEF KeySpec

-----------------------------------------------------------------------------
(* The size of the directory.                                                *)

DirectoryInv == order \in Seq(Key) /\ DirectoryBounded

\* An entry that has its place once, by position.
LEMMA PlaceOnce ==
  ASSUME NEW q \in Seq(Key)
  PROVE  /\ IsInjective(q) <=> Distinct(q)
         /\ ToSet(q) = {q[i] : i \in 1..Len(q)} /\ ToSet(q) \subseteq Key
<1>1. DOMAIN q = 1..Len(q) /\ \A i \in 1..Len(q) : q[i] \in Key
  BY ElementOfSeq
<1> QED
  BY <1>1 DEF IsInjective, Distinct, ToSet

\* A queue without its head.
LEMMA WithoutHead ==
  ASSUME NEW q \in Seq(Key), Len(q) >= 1, Distinct(q)
  PROVE  /\ Tail(q) \in Seq(Key) /\ Len(Tail(q)) = Len(q) - 1 /\ Distinct(Tail(q))
         /\ ToSet(Tail(q)) \subseteq ToSet(q)
<1>1. q # <<>> /\ Len(q) \in Nat
  OBVIOUS
<1>2. /\ Tail(q) \in Seq(Key) /\ Len(Tail(q)) = Len(q) - 1
      /\ \A i \in 1..(Len(q) - 1) : Tail(q)[i] = q[i + 1]
  BY <1>1
<1>3. Distinct(Tail(q))
  <2> SUFFICES ASSUME NEW i \in 1..(Len(q) - 1), NEW j \in 1..(Len(q) - 1), Tail(q)[i] = Tail(q)[j]
               PROVE  i = j
    BY <1>2 DEF Distinct
  <2>1. q[i + 1] = q[j + 1] /\ i + 1 \in 1..Len(q) /\ j + 1 \in 1..Len(q)
    BY <1>1, <1>2
  <2>2. i + 1 = j + 1
    BY <2>1 DEF Distinct
  <2> QED
    BY <2>2
<1>4. ASSUME NEW k \in ToSet(Tail(q)) PROVE k \in ToSet(q)
  <2>0. ToSet(Tail(q)) = {Tail(q)[i] : i \in 1..Len(Tail(q))}
    BY <1>2, PlaceOnce
  <2>1. PICK i \in 1..(Len(q) - 1) : k = q[i + 1]
    BY <1>2, <2>0
  <2>2. i + 1 \in 1..Len(q)
    BY <1>1
  <2> QED
    BY <2>1, <2>2, PlaceOnce
<1> QED
  BY <1>2, <1>3, <1>4

\* A queue with one more element that was not in it.
LEMMA WithLast ==
  ASSUME NEW q \in Seq(Key), Distinct(q), NEW k \in Key, k \notin ToSet(q)
  PROVE  /\ Append(q, k) \in Seq(Key) /\ Len(Append(q, k)) = Len(q) + 1
         /\ Distinct(Append(q, k)) /\ ToSet(Append(q, k)) = ToSet(q) \cup {k}
<1>1. /\ Len(q) \in Nat /\ Append(q, k) \in Seq(Key) /\ Len(Append(q, k)) = Len(q) + 1
      /\ Append(q, k)[Len(q) + 1] = k /\ \A i \in 1..Len(q) : Append(q, k)[i] = q[i]
  OBVIOUS
<1>2. \A i \in 1..Len(q) : q[i] # k
  BY PlaceOnce
<1>3. Distinct(Append(q, k))
  <2> SUFFICES ASSUME NEW i \in 1..(Len(q) + 1), NEW j \in 1..(Len(q) + 1),
                      Append(q, k)[i] = Append(q, k)[j]
               PROVE  i = j
    BY <1>1 DEF Distinct
  <2>1. CASE i \in 1..Len(q) /\ j \in 1..Len(q)
    BY <1>1, <2>1 DEF Distinct
  <2>2. CASE i = Len(q) + 1 \/ j = Len(q) + 1
    BY <1>1, <1>2, <2>2
  <2> QED
    BY <1>1, <2>1, <2>2
<1>4. {Append(q, k)[i] : i \in 1..(Len(q) + 1)} = {q[i] : i \in 1..Len(q)} \cup {k}
  <2>1. ASSUME NEW i \in 1..(Len(q) + 1) PROVE Append(q, k)[i] \in {q[j] : j \in 1..Len(q)} \cup {k}
    <3>1. i \in 1..Len(q) \/ i = Len(q) + 1
      BY <1>1
    <3> QED
      BY <1>1, <3>1
  <2>2. \A i \in 1..Len(q) : i \in 1..(Len(q) + 1) /\ Append(q, k)[i] = q[i]
    BY <1>1
  <2>3. Len(q) + 1 \in 1..(Len(q) + 1) /\ Append(q, k)[Len(q) + 1] = k
    BY <1>1
  <2> QED
    BY <2>1, <2>2, <2>3
<1> QED
  BY <1>1, <1>3, <1>4, PlaceOnce

\* Storing finds room for one more, and what stays had its place once.
LEMMA RoomIsFound ==
  ASSUME DirectoryInv
  PROVE  /\ RoomFor \in Seq(Key) /\ Distinct(RoomFor) /\ ToSet(RoomFor) \subseteq ToSet(order)
         /\ Len(RoomFor) <= MaxEntries - 1
<1> DEFINE live == Only(order, {k \in DOMAIN directory : Fresh(k)})
<1>1. /\ order \in Seq(Key) /\ Len(order) \in Nat /\ Len(order) <= MaxEntries
      /\ Distinct(order) /\ MaxEntries \in Nat \ {0}
  BY PlaceOnce, KeyAssumption DEF DirectoryInv, DirectoryBounded
<1>2. KeptOK(order, {k \in DOMAIN directory : Fresh(k)}, Key, Len(order), live)
  BY <1>1, OnlyKeeps
<1>3. RoomFor = CASE Len(order) < MaxEntries -> order
                  [] Len(order) >= MaxEntries /\ Len(live) >= MaxEntries -> Tail(live)
                  [] OTHER -> live
  BY DEF RoomFor
<1> HIDE DEF live
<1>4. /\ live \in Seq(Key) /\ Len(live) \in Nat /\ Len(live) <= Len(order) /\ Distinct(live)
      /\ \A m \in 1..Len(live) : \E j \in 1..Len(order) : live[m] = order[j]
  BY <1>1, <1>2 DEF KeptOK
<1>5. ToSet(live) \subseteq ToSet(order)
  BY <1>1, <1>4, PlaceOnce
<1>6. CASE Len(order) < MaxEntries
  <2>1. RoomFor = order
    <3>1. ~ (Len(order) >= MaxEntries /\ Len(live) >= MaxEntries)
      BY <1>1, <1>6
    <3> QED
      BY <1>3, <1>6, <3>1
  <2> QED
    BY <1>1, <1>6, <2>1
<1>7. CASE Len(order) >= MaxEntries /\ Len(live) >= MaxEntries
  <2>1. RoomFor = Tail(live)
    BY <1>1, <1>3, <1>7
  <2>2. Len(live) >= 1 /\ Len(live) <= MaxEntries
    BY <1>1, <1>4, <1>7
  <2>3. /\ Tail(live) \in Seq(Key) /\ Len(Tail(live)) = Len(live) - 1
        /\ Distinct(Tail(live)) /\ ToSet(Tail(live)) \subseteq ToSet(live)
    BY <1>4, <2>2, WithoutHead
  <2>4. Len(Tail(live)) <= MaxEntries - 1
    BY <1>1, <1>4, <2>2, <2>3
  <2> QED
    BY <1>5, <2>1, <2>3, <2>4
<1>8. CASE Len(order) >= MaxEntries /\ Len(live) < MaxEntries
  <2>1. RoomFor = live
    BY <1>1, <1>3, <1>4, <1>8
  <2> QED
    BY <1>1, <1>4, <1>5, <1>8, <2>1
<1> QED
  BY <1>1, <1>4, <1>6, <1>7, <1>8

\* What is stored takes a place of its own, or keeps the one it has.
LEMMA StoreKept == ASSUME DirectoryInv, NEW k \in Key, NEW r, Stores(k, r) PROVE DirectoryInv'
<1>1. /\ order' = IF k \in ToSet(RoomFor) THEN RoomFor ELSE Append(RoomFor, k)
      /\ DOMAIN directory' = (DOMAIN directory \cap ToSet(RoomFor)) \cup {k}
  BY DEF Stores
<1>2. /\ RoomFor \in Seq(Key) /\ Len(RoomFor) \in Nat /\ Distinct(RoomFor)
      /\ ToSet(RoomFor) \subseteq DOMAIN directory /\ Len(RoomFor) <= MaxEntries - 1
      /\ MaxEntries \in Nat
  BY RoomIsFound, KeyAssumption DEF DirectoryInv, DirectoryBounded
<1>3. /\ order' \in Seq(Key) /\ Len(order') <= MaxEntries /\ Distinct(order')
      /\ ToSet(order') = ToSet(RoomFor) \cup {k}
  <2>1. CASE k \in ToSet(RoomFor)
    BY <1>1, <1>2, <2>1
  <2>2. CASE k \notin ToSet(RoomFor)
    BY <1>1, <1>2, <2>2, WithLast
  <2> QED
    BY <2>1, <2>2
<1>4. ToSet(order') = DOMAIN directory'
  BY <1>1, <1>2, <1>3
<1>5. IsInjective(order')
  BY <1>3, PlaceOnce
<1> QED
  BY <1>3, <1>4, <1>5 DEF DirectoryInv, DirectoryBounded

\* The directory keeps to its size, with one place for each entry (access.py:96-115).
THEOREM DirectoryHolds == KeySpec => []DirectoryBounded
<1>1. KeyInit => DirectoryInv
  <2> SUFFICES ASSUME KeyInit PROVE DirectoryInv
    OBVIOUS
  <2>1. order = <<>> /\ DOMAIN directory = {}
    BY DEF KeyInit, NoEntries
  <2> QED
    BY <2>1, KeyAssumption DEF DirectoryInv, DirectoryBounded, IsInjective, ToSet
<1>2. KeyInv /\ DirectoryInv /\ [KeyNext]_kvars => DirectoryInv'
  <2> SUFFICES ASSUME Types, DirectoryInv, [KeyNext]_kvars PROVE DirectoryInv'
    BY DEF KeyInv
  <2>1. CASE UNCHANGED <<directory, order>>
    BY <2>1 DEF DirectoryInv, DirectoryBounded
  <2>2. ASSUME NEW t \in Thread, Store(t) PROVE DirectoryInv'
    <3>1. call[t].key \in Key /\ Stores(call[t].key, call[t].row)
      BY <2>2 DEF Store, Types
    <3> QED
      BY <3>1, StoreKept
  <2>3. ASSUME NEW t \in Thread, ClearDirectory(t) PROVE DirectoryInv'
    <3>1. order' = <<>> /\ DOMAIN directory' = {}
      BY <2>3 DEF ClearDirectory, ClearedDirectory, NoEntries
    <3> QED
      BY <3>1, KeyAssumption DEF DirectoryInv, DirectoryBounded, IsInjective, ToSet
  <2>4. CASE TickKeys \/ UNCHANGED kvars
    BY <2>1, <2>4 DEF TickKeys, kvars
  <2>5. ASSUME NEW t \in Thread,
               \/ \E k \in Key : LookUp(t, k) \/ RevokeKey(t, k)
               \/ LimiterFor(t) \/ MakeLimiter(t) \/ CheckBudget(t)
               \/ Fetch(t) \/ AnswerLookUp(t) \/ CountKeys(t) \/ InsertKey(t)
        PROVE  DirectoryInv'
    BY <2>1, <2>5 DEF LookUp, RevokeKey, LimiterFor, MakeLimiter, CheckBudget, Fetch,
       AnswerLookUp, CountKeys, InsertKey
  <2> QED
    BY <2>2, <2>3, <2>4, <2>5 DEF KeyNext
<1>3. DirectoryInv => DirectoryBounded
  BY DEF DirectoryInv
<1> QED
  BY <1>1, <1>2, <1>3, KeyInvariance, PTL DEF KeySpec

-----------------------------------------------------------------------------
(* The budget of lookups.                                                    *)

\* The lookups p of the last window are the last hits of their limiter, which has no
\* more than the limit.
Budgeted(p, q, at) ==
  /\ p \in Seq(Int) /\ q \in Seq(Int) /\ InOrder(p) /\ Matched(p, q, 0)
  /\ \A i \in 1..Len(p) : p[i] <= at /\ p[i] > at - LookupWindow
  /\ Len(q) <= LookupLimit

BudgetInv ==
  /\ looked = [l \in Thread |-> looked[l]] /\ spent = [l \in Thread |-> spent[l]]
  /\ \A l \in Thread : Budgeted(looked[l], spent[l], now)
  /\ \A t \in Thread : call[t].at = "check" => call[t].limiter \in Thread

\* A tick leaves the lookups of the window that ends then.
LEMMA TickBudgeted ==
  ASSUME NEW p, NEW q, NEW at \in Int, Budgeted(p, q, at)
  PROVE  Budgeted(InWindow(p, at + 1), q, at + 1)
<1> DEFINE c == (at + 1) - LookupWindow
           r == DropUpTo(p, c)
<1>0. c = (at + 1) - LookupWindow /\ InWindow(p, at + 1) = r
  BY DEF InWindow
<1>1. c \in Int /\ p \in Seq(Int) /\ q \in Seq(Int)
  BY KeyAssumption DEF Budgeted
<1> HIDE DEF c
<1>2. r \in Seq(Int)
  BY <1>1, DropElements
<1>3. /\ InOrder(r)
      /\ \A i \in 1..Len(r) : r[i] > c /\ \E j \in 1..Len(p) : r[i] = p[j]
  BY <1>1, DropInOrder DEF Budgeted
<1>4. Matched(r, q, 0)
  BY <1>1, DropMatched DEF Budgeted
<1> HIDE DEF r
<1>5. \A i \in 1..Len(r) : r[i] <= at + 1
  <2> SUFFICES ASSUME NEW i \in 1..Len(r) PROVE r[i] <= at + 1
    OBVIOUS
  <2>1. PICK j \in 1..Len(p) : r[i] = p[j]
    BY <1>3
  <2>2. p[j] \in Int /\ p[j] <= at
    BY <1>1, <2>1, ElementOfSeq DEF Budgeted
  <2> QED
    BY <2>1, <2>2
<1>6. \A i \in 1..Len(r) : r[i] <= at + 1 /\ r[i] > (at + 1) - LookupWindow
  BY <1>0, <1>3, <1>5
<1>7. InOrder(r) /\ Len(q) <= LookupLimit
  BY <1>3 DEF Budgeted
<1>8. Budgeted(r, q, at + 1)
  BY <1>1, <1>2, <1>4, <1>6, <1>7, Zenon DEF Budgeted
<1> QED
  BY <1>0, <1>8

\* A lookup drops the hits before its window, none of which is one of the lookups in it.
LEMMA CheckBudgeted ==
  ASSUME NEW p, NEW q, NEW at \in Int, Budgeted(p, q, at)
  PROVE  /\ Budgeted(p, InWindow(q, at), at)
         /\ Budget(InWindow(q, at)) => Budgeted(Append(p, at), Append(InWindow(q, at), at), at)
<1> DEFINE c == at - LookupWindow
           r == DropUpTo(q, c)
<1>1. c \in Int /\ c < at /\ p \in Seq(Int) /\ q \in Seq(Int) /\ Len(q) \in Nat /\ Len(p) \in Nat
  BY KeyAssumption DEF Budgeted
<1>2. \A i \in 1..Len(p) : p[i] \in Int /\ p[i] <= at /\ p[i] > c
  BY <1>1, ElementOfSeq DEF Budgeted
<1> HIDE DEF c
<1>3. r \in Seq(Int) /\ Len(r) <= Len(q) /\ Len(r) \in Nat
  <2>1. PICK k \in 0..Len(q) : r \in Seq(Int) /\ Len(r) = Len(q) - k
    BY <1>1, DropElements
  <2> QED
    BY <1>1, <2>1
<1>4. Matched(p, r, 0)
  <2>1. \A i \in 1..Len(p) : p[i] > c + 0
    BY <1>1, <1>2
  <2>2. 0 \in Nat /\ Matched(p, q, 0)
    BY DEF Budgeted
  <2> QED
    BY <1>1, <2>1, <2>2, MatchedDrop
<1> HIDE DEF r
<1>5. Budgeted(p, r, at)
  BY <1>1, <1>3, <1>4, KeyAssumption DEF Budgeted
<1>6. ASSUME Budget(r) PROVE Budgeted(Append(p, at), Append(r, at), at)
  <2>1. Len(r) + 1 <= LookupLimit
    BY <1>3, <1>6, KeyAssumption DEF Budget
  <2>2. InOrder(Append(p, at))
    BY <1>1, <1>2, AppendInOrder DEF Budgeted
  <2>3. Matched(Append(p, at), Append(r, at), 0)
    <3>1. 0 \in Nat /\ at <= at + 0
      OBVIOUS
    <3> QED
      BY <1>1, <1>3, <1>4, <3>1, AppendMatched
  <2>4. /\ Len(Append(p, at)) = Len(p) + 1 /\ Append(p, at)[Len(p) + 1] = at
        /\ \A i \in 1..Len(p) : Append(p, at)[i] = p[i]
        /\ Append(p, at) \in Seq(Int) /\ Append(r, at) \in Seq(Int)
        /\ Len(Append(r, at)) = Len(r) + 1
    BY <1>1, <1>3
  <2>5. ASSUME NEW i \in 1..Len(Append(p, at))
        PROVE  Append(p, at)[i] <= at /\ Append(p, at)[i] > at - LookupWindow
    <3>1. i \in 1..Len(p) \/ i = Len(p) + 1
      BY <1>1, <2>4
    <3>2. at - LookupWindow < at
      BY <1>1 DEF c
    <3> QED
      BY <1>2, <2>4, <3>1, <3>2 DEF c
  <2> QED
    BY <2>1, <2>2, <2>3, <2>4, <2>5 DEF Budgeted
<1> QED
  BY <1>5, <1>6 DEF r, c, InWindow

\* Only the lookup that is checked changes its limiter; the others wait with none or get it
\* from the table.
LEMMA CheckKeepsBudgets ==
  ASSUME Types, BudgetInv, NEW t \in Thread, CheckBudget(t)
  PROVE  BudgetInv'
<1> DEFINE l == call[t].limiter
           hits == InWindow(spent[l], now)
<1>1. l \in Thread /\ now \in Int /\ now' = now /\ Budgeted(looked[l], spent[l], now)
  BY DEF Types, BudgetInv, CheckBudget
<1>2. /\ Budgeted(looked[l], hits, now)
      /\ Budget(hits) => Budgeted(Append(looked[l], now), Append(hits, now), now)
  BY <1>1, CheckBudgeted
<1>3. \/ /\ Budget(hits)
         /\ spent' = [spent EXCEPT ![l] = Append(hits, now)]
         /\ looked' = [looked EXCEPT ![l] = Append(@, now)]
      \/ spent' = [spent EXCEPT ![l] = hits] /\ looked' = looked
  BY DEF CheckBudget
<1>4. \A u \in Thread : call'[u].at = "check" => call'[u].limiter \in Thread
  <2>1. [call[t] EXCEPT !.at = "fetch", !.limiter = NoKey].at # "check" /\ NoCall.at # "check"
    BY DEF Types, Call, NoCall
  <2>2. PICK c : c.at # "check" /\ Becomes(t, c)
    BY <2>1 DEF CheckBudget
  <2> QED
    BY <2>2 DEF BudgetInv, Types, Becomes
<1> HIDE DEF l, hits
<1>5. /\ looked' = [m \in Thread |-> looked'[m]] /\ spent' = [m \in Thread |-> spent'[m]]
      /\ Budgeted(looked'[l], spent'[l], now)
      /\ \A m \in Thread : m # l => looked'[m] = looked[m] /\ spent'[m] = spent[m]
  BY <1>1, <1>2, <1>3 DEF BudgetInv
<1>6. \A m \in Thread : Budgeted(looked'[m], spent'[m], now')
  BY <1>1, <1>5 DEF BudgetInv
<1> QED
  BY <1>4, <1>5, <1>6 DEF BudgetInv

\* A step that leaves the limiters' hits alone and checks only with a limiter.
LEMMA BudgetsKept ==
  ASSUME Types, BudgetInv, NEW t \in Thread, NEW c, Becomes(t, c),
         c.at = "check" => c.limiter \in Thread,
         UNCHANGED <<now, spent, looked>>
  PROVE  BudgetInv'
<1>1. \A u \in Thread : call'[u].at = "check" => call'[u].limiter \in Thread
  BY DEF BudgetInv, Types, Becomes
<1>2. /\ looked' = [l \in Thread |-> looked'[l]] /\ spent' = [l \in Thread |-> spent'[l]]
      /\ \A l \in Thread : Budgeted(looked'[l], spent'[l], now')
  BY DEF BudgetInv
<1> QED
  BY <1>1, <1>2 DEF BudgetInv

\* Every step keeps the budgets.
LEMMA BudgetStep ==
  ASSUME Types, BudgetInv, [KeyNext]_kvars
  PROVE  BudgetInv'
<1>1. CASE UNCHANGED <<now, spent, looked, call>>
  BY <1>1 DEF BudgetInv
<1>2. CASE UNCHANGED kvars
  BY <1>1, <1>2 DEF kvars
<1>3. CASE TickKeys
  <2>1. /\ now \in Int /\ now' = now + 1 /\ spent' = spent /\ call' = call
        /\ looked' = [l \in Thread |-> InWindow(looked[l], now + 1)]
    BY <1>3 DEF TickKeys, Types
  <2>2. ASSUME NEW l \in Thread PROVE Budgeted(looked'[l], spent'[l], now')
    <3>1. Budgeted(InWindow(looked[l], now + 1), spent[l], now + 1)
      BY <2>1, TickBudgeted DEF BudgetInv
    <3> QED
      BY <2>1, <3>1
  <2>3. looked' = [l \in Thread |-> looked'[l]]
    BY <2>1
  <2> QED
    BY <2>1, <2>2, <2>3 DEF BudgetInv
<1>4. ASSUME NEW t \in Thread, NEW k \in Key, LookUp(t, k) \/ RevokeKey(t, k) PROVE BudgetInv'
  <2>1. /\ [NoCall EXCEPT !.at = "limiter", !.key = k].at # "check"
        /\ [NoCall EXCEPT !.at = "clear", !.key = k].at # "check"
    BY DEF NoCall
  <2>2. CASE call' = call
    BY <1>1, <1>4, <2>2 DEF LookUp, RevokeKey
  <2>3. ASSUME NEW c, c.at # "check", Becomes(t, c) PROVE BudgetInv'
    <3>1. UNCHANGED <<now, spent, looked>>
      BY <1>4 DEF LookUp, RevokeKey
    <3> QED
      BY <2>3, <3>1, BudgetsKept
  <2> QED
    BY <1>4, <2>1, <2>2, <2>3 DEF LookUp, RevokeKey
<1>5. ASSUME NEW t \in Thread, LimiterFor(t) \/ MakeLimiter(t) PROVE BudgetInv'
  <2>1. call[t] \in Call /\ limiters \in Thread \cup {NoKey} /\ UNCHANGED <<now, spent, looked>>
    BY <1>5 DEF Types, LimiterFor, MakeLimiter
  <2>2. /\ [call[t] EXCEPT !.at = "make"].at # "check"
        /\ [call[t] EXCEPT !.at = "check", !.limiter = limiters].limiter = limiters
        /\ [call[t] EXCEPT !.at = "check", !.limiter = t].limiter = t
    BY <2>1 DEF Call
  <2>3. ASSUME NEW c, c.at = "check" => c.limiter \in Thread, Becomes(t, c) PROVE BudgetInv'
    BY <2>1, <2>3, BudgetsKept
  <2>4. CASE MakeLimiter(t)
    BY <2>2, <2>3, <2>4 DEF MakeLimiter
  <2>5. CASE LimiterFor(t) /\ limiters = NoKey
    BY <2>2, <2>3, <2>5 DEF LimiterFor
  <2>6. CASE LimiterFor(t) /\ limiters # NoKey
    BY <2>1, <2>2, <2>3, <2>6 DEF LimiterFor
  <2> QED
    BY <1>5, <2>4, <2>5, <2>6
<1>6. ASSUME NEW t \in Thread, CheckBudget(t) PROVE BudgetInv'
  BY <1>6, CheckKeepsBudgets
<1>7. ASSUME NEW t \in Thread,
             \/ Fetch(t) \/ Store(t) \/ AnswerLookUp(t)
             \/ CountKeys(t) \/ InsertKey(t) \/ ClearDirectory(t)
      PROVE  BudgetInv'
  <2>1. UNCHANGED <<now, spent, looked>>
    BY <1>7 DEF Fetch, Store, AnswerLookUp, CountKeys, InsertKey, ClearDirectory
  <2>2. ASSUME NEW c, c.at # "check", Becomes(t, c) PROVE BudgetInv'
    BY <2>1, <2>2, BudgetsKept
  <2>3. /\ [call[t] EXCEPT !.at = "store", !.row = row[call[t].key], !.since = now].at # "check"
        /\ [call[t] EXCEPT !.at = "answer"].at # "check"
        /\ [NoCall EXCEPT !.at = "insert"].at # "check" /\ NoCall.at # "check"
    BY DEF Types, Call, NoCall
  <2> QED
    BY <1>7, <2>2, <2>3 DEF Fetch, Store, AnswerLookUp, CountKeys, InsertKey, ClearDirectory
<1> QED
  BY <1>2, <1>3, <1>4, <1>5, <1>6, <1>7 DEF KeyNext

\* Threads bring no more limiters than there are of them, each with its limit.
LEMMA BudgetsBound == BudgetInv => LookupsBounded
<1> SUFFICES ASSUME BudgetInv PROVE LookupsBounded
  OBVIOUS
<1>1. /\ IsFiniteSet(Thread) /\ LookupLimit \in Nat /\ Cardinality(Thread) \in Nat
      /\ IsFiniteSet(1..LookupLimit) /\ Cardinality(1..LookupLimit) = LookupLimit
  <2>1. IsFiniteSet(Thread) /\ LookupLimit \in Nat /\ Cardinality(Thread) \in Nat
    BY KeyAssumption, FS_CardinalityType
  <2>2. /\ IsFiniteSet(1..LookupLimit)
        /\ Cardinality(1..LookupLimit) = IF 1 > LookupLimit THEN 0 ELSE LookupLimit - 1 + 1
    BY <2>1, FS_Interval
  <2> QED
    BY <2>1, <2>2
<1>2. /\ IsFiniteSet(Thread \X (1..LookupLimit))
      /\ Cardinality(Thread \X (1..LookupLimit)) = Cardinality(Thread) * LookupLimit
  BY <1>1, FS_Product
<1>3. \A l \in Thread : DOMAIN looked[l] \subseteq 1..LookupLimit
  <2> SUFFICES ASSUME NEW l \in Thread PROVE DOMAIN looked[l] \subseteq 1..LookupLimit
    OBVIOUS
  <2> DEFINE p == looked[l]
             q == spent[l]
  <2>1. p \in Seq(Int) /\ q \in Seq(Int) /\ Len(p) <= Len(q) /\ Len(q) <= LookupLimit
    BY DEF BudgetInv, Budgeted, Matched
  <2> HIDE DEF p, q
  <2>2. Len(p) \in Nat /\ Len(q) \in Nat /\ DOMAIN p = 1..Len(p)
    BY <2>1
  <2>3. DOMAIN p \subseteq 1..LookupLimit
    BY <1>1, <2>1, <2>2
  <2> QED
    BY <2>3 DEF p
<1>4. Lookups \subseteq Thread \X (1..LookupLimit)
  BY <1>3 DEF Lookups
<1>5. Cardinality(Lookups) <= Cardinality(Thread) * LookupLimit
  BY <1>2, <1>4, FS_Subset
<1>6. Cardinality(Thread) * LookupLimit = LookupLimit * Cardinality(Thread)
  BY <1>1
<1> QED
  BY <1>5, <1>6 DEF LookupsBounded

\* The lookups of one address within a window are no more than the limit for each limiter
\* that racing requests can have made (access.py:48-64, 190-201).
THEOREM LookupsHold == KeySpec => []LookupsBounded
<1>1. KeyInit => BudgetInv
  <2> SUFFICES ASSUME KeyInit PROVE BudgetInv
    OBVIOUS
  <2>1. \A l \in Thread : looked[l] = <<>> /\ spent[l] = <<>>
    BY DEF KeyInit
  <2>2. Budgeted(<<>>, <<>>, now)
    BY KeyAssumption DEF Budgeted, InOrder, Matched
  <2> QED
    BY <2>1, <2>2 DEF KeyInit, BudgetInv, NoCall
<1>2. KeyInv /\ BudgetInv /\ [KeyNext]_kvars => BudgetInv'
  BY BudgetStep DEF KeyInv
<1> QED
  BY <1>1, <1>2, BudgetsBound, KeyInvariance, PTL DEF KeySpec

=============================================================================
