------------------------------ MODULE RateLimit ------------------------------
(***************************************************************************)
(* The rate limits of POST /submit (api/ratelimit.py): every request       *)
(* passes SlidingWindowLimiter.check for its address, then for all clients *)
(* together.  check reads the clock before it takes the limiter's lock, so *)
(* requests may enter a limiter in another order than they read the clock. *)
(* POST /keys (api/routes/keys.py) chains its two limiters the same way.   *)
(***************************************************************************)
EXTENDS Integers, Sequences, SequencesExt, Queues

CONSTANTS
  Client,                  \* addresses
  Request,                 \* requests in progress at once
  PerClient, Global,       \* the two limits
  Window,
  MaxKeys,                 \* how many addresses the per-address limiter holds
  All,                     \* the one key of the global limiter
  Delay,                   \* bound: ticks from reading the clock to entering the lock
  LastTime                 \* bound: the clock stops there

Name == Client \cup {All}
Limit(n) == IF n = All THEN Global ELSE PerClient

ASSUME LimitAssumption ==
  /\ All \notin Client
  /\ PerClient \in Nat \ {0} /\ Global \in Nat \ {0} /\ Window \in Nat \ {0}
  /\ MaxKeys \in Nat \ {0} /\ Delay \in Nat /\ Delay < Window /\ LastTime \in Nat

VARIABLES
  clock,
  keys,      \* the addresses in the per-address limiter, oldest first
  hits,      \* _hits: a queue of times for each key, empty for one not in the table
  request,
  passed,    \* history: for each name, when its last hits were let through;
             \* none for one that has been evicted
  promise,   \* history: when a refused name was told to come back, 0: no promise
  evicted    \* history: addresses dropped although they had hits in the window

vars == <<clock, keys, hits, request, passed, promise, evicted>>

NoRequest == [at |-> "none", client |-> All, now |-> 0]

TypeOK ==
  /\ clock \in 0..LastTime
  /\ keys \in Seq(Client) /\ hits \in [Name -> Seq(0..LastTime)]
  /\ request \in [Request -> [at: {"none", "address", "between", "global"},
                              client: Name, now: 0..LastTime]]
  /\ passed \in [Name -> Seq(0..LastTime)] /\ promise \in [Name -> Nat]
  /\ evicted \subseteq Client

Init ==
  /\ clock = 0
  /\ keys = <<>> /\ hits = [n \in Name |-> <<>>]
  /\ request = [r \in Request |-> NoRequest]
  /\ passed = [n \in Name |-> <<>>] /\ promise = [n \in Name |-> 0]
  /\ evicted = {}

Waits(r) == request[r].at \in {"address", "global"}

\* Of hits in the order of the clock, those of the last window, less the time a request
\* may take to the lock.
Recent(q, now) == DropUpTo(q, now - (Window - Delay))

Tick ==
  /\ clock < LastTime
  /\ \A r \in Request : Waits(r) => clock - request[r].now < Delay
  /\ clock' = clock + 1
  /\ passed' = [n \in Name |-> Recent(passed[n], clock + 1)]
  /\ UNCHANGED <<keys, hits, request, promise, evicted>>

-----------------------------------------------------------------------------
(* SlidingWindowLimiter.check: the clock, then the section under the lock.   *)

Arrive(r, c) ==
  /\ request[r].at = "none"
  /\ request' = [request EXCEPT ![r] = [at |-> "address", client |-> c, now |-> clock]]
  /\ UNCHANGED <<clock, keys, hits, passed, promise, evicted>>

GoGlobal(r) ==
  /\ request[r].at = "between"
  /\ request' = [request EXCEPT ![r].at = "global", ![r].now = clock]
  /\ UNCHANGED <<clock, keys, hits, passed, promise, evicted>>

\* Mutant: a hit that is exactly one window old still counts.
LiveLate(q, cutoff) == DropUpTo(q, cutoff - 1)

\* popleft while the head has expired: a late head keeps what is behind it.
Live(q, cutoff) == DropUpTo(q, cutoff)

\* Mutant: one hit too many.
FullLate(q, n) == Len(q) > Limit(n)

Full(q, n) == Len(q) >= Limit(n)

Spent(c, cutoff) == hits[c] = <<>> \/ hits[c][Len(hits[c])] <= cutoff

\* The addresses that still have a hit in the window, oldest first.
Unspent(cutoff) == Only(keys, {c \in Client : ~Spent(c, cutoff)})

\* Mutant: only expired addresses are dropped.
RoomExpired(cutoff) == Unspent(cutoff)

\* _make_room: the addresses that stay.
Room(cutoff) ==
  LET live == Unspent(cutoff)
  IN IF Len(live) >= MaxKeys THEN Tail(live) ELSE live

\* The table once `n' has an entry in it.
KeysWith(n, cutoff) ==
  CASE n = All \/ n \in ToSet(keys) -> keys
    [] n \in Client \ ToSet(keys) /\ Len(keys) >= MaxKeys -> Append(Room(cutoff), n)
    [] OTHER -> Append(keys, n)

\* What a request of name n leaves in the limiter, before its own hit.
Cleaned(n, table, cutoff) ==
  [m \in Name |-> CASE m = n -> Live(hits[n], cutoff)
                    [] m \in Client \ ToSet(table) -> <<>>
                    [] OTHER -> hits[m]]

Check(r, n, ifPassed) ==
  LET now == request[r].now
      cutoff == now - Window
      table == KeysWith(n, cutoff)
      queues == Cleaned(n, table, cutoff)
  IN /\ keys' = table
     /\ evicted' = evicted \cup {c \in ToSet(keys) \ ToSet(table) : ~Spent(c, cutoff)}
     /\ IF Full(queues[n], n)
        THEN /\ hits' = queues
             /\ promise' = [promise EXCEPT ![n] = queues[n][1] + Window]
             /\ request' = [request EXCEPT ![r] = NoRequest]
             /\ UNCHANGED passed
        ELSE /\ hits' = [queues EXCEPT ![n] = Append(@, now)]
             /\ promise' = [promise EXCEPT ![n] = 0]
             /\ request' = [request EXCEPT ![r] = ifPassed]
             /\ passed' = [m \in Name |-> CASE m \in evicted' -> <<>>
                                          [] m = n /\ n \notin evicted' -> Append(passed[n], clock)
                                          [] OTHER -> passed[m]]
     /\ UNCHANGED clock

CheckAddress(r) ==
  /\ request[r].at = "address"
  /\ Check(r, request[r].client, [NoRequest EXCEPT !.at = "between"])

CheckGlobal(r) ==
  /\ request[r].at = "global"
  /\ Check(r, All, NoRequest)

-----------------------------------------------------------------------------

Next ==
  \/ Tick
  \/ \E r \in Request :
       (\E c \in Client : Arrive(r, c)) \/ CheckAddress(r) \/ GoGlobal(r) \/ CheckGlobal(r)

Spec == Init /\ [][Next]_vars

-----------------------------------------------------------------------------
(* Properties.                                                              *)

\* The limits hold: within a window, shortened by the time a request may take
\* from the clock to the lock, no name gets more than its limit through, in
\* whatever order the requests of one name enter the limiter.  (An address that
\* was dropped to make room starts afresh.)
WindowRespected ==
  \A n \in Name \ evicted : Len(Recent(passed[n], clock)) <= Limit(n)

\* "waiting out the window really does free the slot", api/ratelimit.py:13-14: a
\* name that was refused, has waited as long as it was told to and has had no
\* other hit since is not refused again.
WaitingFreesTheSlot ==
  [][\A r \in Request, n \in Name :
       /\ Waits(r) /\ n = (IF request[r].at = "global" THEN All ELSE request[r].client)
       /\ promise[n] > 0 /\ request[r].now >= promise[n]
       => ~(request'[r] = NoRequest /\ passed'[n] = passed[n])]_vars

\* The table of addresses stays bounded, whoever calls.
TableBounded == Len(keys) <= MaxKeys

=============================================================================
