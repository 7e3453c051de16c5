--------------------------- MODULE RateLimitProofs ---------------------------
(***************************************************************************)
(* Proofs about RateLimit, for any number of addresses, of requests at     *)
(* once and any limits.                                                    *)
(*                                                                         *)
(* The argument is by what a name has let through of late: each of these   *)
(* hits is matched by one of the limiter's queue, which is at most Delay   *)
(* older, so that the queue drops none of them as long as they count.  A   *)
(* queue has no more hits than the limit; so has the window.               *)
(***************************************************************************)
EXTENDS RateLimit, QueueProofs

Waiting == [at: {"none", "address", "between", "global"}, client: Name, now: Nat]

\* The types the proofs need, and that a request reads the clock shortly before its lock.
LimitTypes ==
  /\ clock \in Nat /\ keys \in Seq(Client)
  /\ hits = [n \in Name |-> hits[n]] /\ passed = [n \in Name |-> passed[n]]
  /\ promise = [n \in Name |-> promise[n]] /\ evicted \subseteq Client
  /\ request \in [Request -> Waiting]
  /\ \A r \in Request : request[r].at = "address" => request[r].client \in Client

ReadLately == \A r \in Request : Waits(r) => request[r].now <= clock /\ clock - request[r].now <= Delay

\* What the limiter holds of one name: its queue q, what it let through of late (p), and what
\* it promised (w).
Counted(n, q, p, w, at) ==
  /\ q \in Seq(Nat) /\ p \in Seq(Nat) /\ w \in Nat
  /\ Len(q) <= Limit(n)
  /\ Matched(p, q, Delay) /\ InOrder(p)
  /\ \A i \in 1..Len(p) : p[i] <= at /\ p[i] > at - (Window - Delay)
  /\ w > 0 => q = <<>> \/ q[1] + Window = w

LimitInv ==
  /\ LimitTypes /\ ReadLately /\ TableBounded
  /\ \A n \in Name : Counted(n, hits[n], passed[n], promise[n], clock)
  /\ \A n \in evicted : passed[n] = <<>>
  /\ \A c \in Client \ ToSet(keys) : hits[c] = <<>>

-----------------------------------------------------------------------------

\* The constants, as numbers.
LEMMA LimitNumbers ==
  /\ All \notin Client /\ All \in Name /\ Client \subseteq Name
  /\ Window \in Nat \ {0} /\ Delay \in Nat /\ Delay < Window /\ MaxKeys \in Nat \ {0}
  /\ \A n \in Name : Limit(n) \in Nat \ {0}
  BY LimitAssumption DEF Name, Limit

\* A queue of times is a queue of integers.
LEMMA TimesAreInts ==
  ASSUME NEW q \in Seq(Nat) PROVE q \in Seq(Int) /\ Len(q) \in Nat /\ \A i \in 1..Len(q) : q[i] \in Nat
<1>1. q \in [1..Len(q) -> Nat] /\ Len(q) \in Nat
  OBVIOUS
<1> QED
  BY <1>1

\* Dropping heads leaves a queue of times, with its head where nothing was dropped.
LEMMA DropTimes ==
  ASSUME NEW q \in Seq(Nat), NEW c \in Int
  PROVE  /\ DropUpTo(q, c) \in Seq(Nat) /\ Len(DropUpTo(q, c)) <= Len(q)
         /\ q # <<>> /\ q[1] <= c => Len(DropUpTo(q, c)) < Len(q)
         /\ DropUpTo(q, c) = <<>> \/ DropUpTo(q, c)[1] > c
<1>1. q \in Seq(Int) /\ Len(q) \in Nat /\ \A i \in 1..Len(q) : q[i] \in Nat
  BY TimesAreInts
<1> DEFINE r == DropUpTo(q, c)
<1>2. PICK k \in 0..Len(q) :
        /\ r \in Seq(Int) /\ Len(r) = Len(q) - k
        /\ \A i \in 1..(Len(q) - k) : r[i] = q[k + i]
        /\ k < Len(q) => q[k + 1] > c
  BY <1>1, DropElements
<1> HIDE DEF r
<1>3. \A i \in 1..Len(r) : r[i] \in Nat
  <2> SUFFICES ASSUME NEW i \in 1..Len(r) PROVE r[i] \in Nat
    OBVIOUS
  <2>1. k + i \in 1..Len(q) /\ r[i] = q[k + i]
    BY <1>1, <1>2
  <2> QED
    BY <1>1, <2>1
<1>4. r \in Seq(Nat) /\ Len(r) \in Nat
  <2>1. r \in [1..Len(r) -> Int] /\ Len(r) \in Nat
    BY <1>2
  <2>2. r \in [1..Len(r) -> Nat]
    BY <1>3, <2>1
  <2> QED
    BY <2>1, <2>2, SeqDef
<1>5. q # <<>> /\ q[1] <= c => Len(r) < Len(q)
  <2> SUFFICES ASSUME q # <<>>, q[1] <= c PROVE Len(r) < Len(q)
    OBVIOUS
  <2>1. Len(q) > 0
    OBVIOUS
  <2>2. k # 0
    BY <1>1, <1>2, <2>1
  <2> QED
    BY <1>1, <1>2, <2>2
<1>6. r = <<>> \/ r[1] > c
  <2>1. CASE k < Len(q)
    <3>1. 1 \in 1..(Len(q) - k) /\ r[1] = q[k + 1]
      BY <1>1, <1>2, <2>1
    <3> QED
      BY <1>2, <2>1, <3>1
  <2>2. CASE ~(k < Len(q))
    <3>1. Len(r) = 0
      BY <1>1, <1>2, <2>2
    <3> QED
      BY <1>4, <3>1
  <2> QED
    BY <2>1, <2>2
<1>7. r \in Seq(Nat) /\ Len(r) <= Len(q)
  BY <1>1, <1>2, <1>4
<1> QED
  BY <1>5, <1>6, <1>7 DEF r
\* A tick leaves what still counts when it has passed.
LEMMA TickCounted ==
  ASSUME NEW n, NEW q, NEW p, NEW w, NEW at \in Nat, Counted(n, q, p, w, at)
  PROVE  Counted(n, q, Recent(p, at + 1), w, at + 1)
<1> DEFINE c == (at + 1) - (Window - Delay)
           r == DropUpTo(p, c)
<1>1. c \in Int /\ c = (at + 1) - (Window - Delay) /\ Recent(p, at + 1) = r
  BY LimitNumbers DEF Recent
<1>2. p \in Seq(Nat) /\ q \in Seq(Nat) /\ p \in Seq(Int) /\ q \in Seq(Int)
  BY TimesAreInts DEF Counted
<1> HIDE DEF c
<1>3. r \in Seq(Nat)
  BY <1>1, <1>2, DropTimes
<1>4. /\ InOrder(r)
      /\ \A i \in 1..Len(r) : r[i] > c /\ \E j \in 1..Len(p) : r[i] = p[j]
  BY <1>1, <1>2, DropInOrder DEF Counted
<1>5. Matched(r, q, Delay)
  BY <1>1, <1>2, LimitNumbers, DropMatched DEF Counted
<1> HIDE DEF r
<1>6. ASSUME NEW i \in 1..Len(r) PROVE r[i] <= at + 1 /\ r[i] > (at + 1) - (Window - Delay)
  <2>1. PICK j \in 1..Len(p) : r[i] = p[j]
    BY <1>4
  <2>2. p[j] \in Nat /\ p[j] <= at
    BY <1>2, <2>1, TimesAreInts DEF Counted
  <2> QED
    BY <1>1, <1>4, <2>1, <2>2
<1>7. Counted(n, q, r, w, at + 1)
  BY <1>3, <1>4, <1>5, <1>6 DEF Counted
<1> QED
  BY <1>1, <1>7

\* What has been forgotten of a name asks nothing of its queue.
LEMMA ForgetCounted ==
  ASSUME NEW n \in Name, NEW q, NEW p, NEW w, NEW at \in Nat, Counted(n, q, p, w, at)
  PROVE  Counted(n, q, <<>>, w, at) /\ Counted(n, <<>>, <<>>, w, at)
<1>1. Len(q) \in Nat
  BY TimesAreInts DEF Counted
<1> QED
  BY <1>1, LimitNumbers DEF Counted, Matched, InOrder

\* A name whose last hit is a window old has let nothing through of late.
LEMMA SpentCounted ==
  ASSUME NEW n \in Name, NEW q, NEW p, NEW w, NEW at \in Nat, Counted(n, q, p, w, at),
         NEW now \in Nat, now <= at, at - now <= Delay,
         q = <<>> \/ q[Len(q)] <= now - Window
  PROVE  p = <<>> /\ Counted(n, <<>>, p, w, at)
<1>1. /\ p \in Seq(Nat) /\ q \in Seq(Nat) /\ Len(p) \in Nat /\ Len(q) \in Nat /\ Len(p) <= Len(q)
  BY TimesAreInts DEF Counted, Matched
<1>2. ASSUME Len(p) # 0 PROVE FALSE
  <2>1. Len(p) \in 1..Len(p) /\ Len(q) - Len(p) + Len(p) = Len(q) /\ Len(q) \in 1..Len(q)
    BY <1>1, <1>2
  <2>2. p[Len(p)] <= q[Len(q)] + Delay /\ p[Len(p)] > at - (Window - Delay)
    BY <2>1 DEF Counted, Matched
  <2>3. p[Len(p)] \in Nat /\ q[Len(q)] \in Nat /\ q # <<>>
    BY <1>1, <2>1, TimesAreInts
  <2> QED
    BY <2>2, <2>3, LimitNumbers
<1>3. p = <<>>
  BY <1>1, <1>2
<1> QED
  BY <1>3, ForgetCounted

\* A request drops the hits that are a window old, none of which counts any more: when
\* there are still too many it is promised the end of the first, else it adds a hit.
LEMMA LiveCounted ==
  ASSUME NEW n \in Name, NEW q, NEW p, NEW w, NEW at \in Nat, Counted(n, q, p, w, at),
         NEW now \in Nat, now <= at, at - now <= Delay
  PROVE  LET r == Live(q, now - Window)
         IN /\ Full(r, n) => Counted(n, r, p, r[1] + Window, at)
            /\ ~Full(r, n) => Counted(n, Append(r, now), Append(p, at), 0, at)
<1> DEFINE c == now - Window
           r == Live(q, c)
<1>0. r = Live(q, now - Window)
  OBVIOUS
<1>1. c \in Int /\ c = now - Window /\ r = DropUpTo(q, c)
  BY LimitNumbers DEF Live
<1>2. /\ p \in Seq(Nat) /\ q \in Seq(Nat) /\ p \in Seq(Int) /\ q \in Seq(Int)
      /\ Len(p) \in Nat /\ Len(q) \in Nat /\ \A i \in 1..Len(p) : p[i] \in Nat
  BY TimesAreInts DEF Counted
<1> HIDE DEF c
<1>3. r \in Seq(Nat) /\ Len(r) <= Len(q)
  BY <1>1, <1>2, DropTimes
<1>4. Matched(p, r, Delay)
  <2>1. \A i \in 1..Len(p) : p[i] > c + Delay
    <3> SUFFICES ASSUME NEW i \in 1..Len(p) PROVE p[i] > c + Delay
      OBVIOUS
    <3>1. p[i] > at - (Window - Delay) /\ p[i] \in Nat
      BY <1>2 DEF Counted
    <3> QED
      BY <1>1, <3>1, LimitNumbers
  <2> QED
    BY <1>1, <1>2, <2>1, LimitNumbers, MatchedDrop DEF Counted
<1> HIDE DEF r
<1>5. /\ r \in Seq(Int) /\ Len(r) \in Nat /\ Limit(n) \in Nat \ {0} /\ Len(r) <= Limit(n)
      /\ \A i \in 1..Len(r) : r[i] \in Nat
  BY <1>2, <1>3, LimitNumbers, TimesAreInts DEF Counted
<1>6. ASSUME Full(r, n) PROVE Counted(n, r, p, r[1] + Window, at)
  <2>1. 1 \in 1..Len(r)
    BY <1>5, <1>6 DEF Full
  <2>2. r[1] + Window \in Nat
    BY <1>5, <2>1, LimitNumbers
  <2> QED
    BY <1>3, <1>4, <1>5, <2>2 DEF Counted
<1>7. ASSUME ~Full(r, n) PROVE Counted(n, Append(r, now), Append(p, at), 0, at)
  <2>1. /\ Len(Append(r, now)) = Len(r) + 1 /\ Len(Append(p, at)) = Len(p) + 1
        /\ Append(r, now) \in Seq(Nat) /\ Append(p, at) \in Seq(Nat)
        /\ Append(p, at)[Len(p) + 1] = at /\ \A i \in 1..Len(p) : Append(p, at)[i] = p[i]
    BY <1>2, <1>3
  <2>2. Len(r) + 1 <= Limit(n)
    BY <1>5, <1>7 DEF Full
  <2>3. Matched(Append(p, at), Append(r, now), Delay)
    <3>1. at <= now + Delay /\ at \in Int /\ now \in Int
      BY LimitNumbers
    <3> QED
      BY <1>2, <1>4, <1>5, <3>1, LimitNumbers, AppendMatched
  <2>4. InOrder(Append(p, at))
    <3>1. InOrder(p) /\ at \in Int /\ \A i \in 1..Len(p) : p[i] <= at
      BY DEF Counted
    <3> QED
      BY <1>2, <3>1, AppendInOrder
  <2>5. ASSUME NEW i \in 1..(Len(p) + 1)
        PROVE  Append(p, at)[i] <= at /\ Append(p, at)[i] > at - (Window - Delay)
    <3>1. i \in 1..Len(p) \/ i = Len(p) + 1
      BY <1>2
    <3>2. at - (Window - Delay) < at
      BY LimitNumbers
    <3>3. \A j \in 1..Len(p) : p[j] <= at /\ p[j] > at - (Window - Delay)
      BY DEF Counted
    <3> QED
      BY <2>1, <3>1, <3>2, <3>3
  <2> QED
    BY <2>1, <2>2, <2>3, <2>4, <2>5 DEF Counted
<1> QED
  BY <1>0, <1>6, <1>7

-----------------------------------------------------------------------------
(* The table of addresses.                                                   *)

\* An address has an entry after its request, and there is room for it.
LEMMA TableHasRoom ==
  ASSUME keys \in Seq(Client), TableBounded, NEW n \in Name, NEW cutoff
  PROVE  /\ KeysWith(n, cutoff) \in Seq(Client) /\ Len(KeysWith(n, cutoff)) <= MaxKeys
         /\ n \in Client => n \in ToSet(KeysWith(n, cutoff))
         /\ n = All \/ n \in ToSet(keys) => KeysWith(n, cutoff) = keys
<1> DEFINE live == Unspent(cutoff)
           spent == {c \in Client : ~Spent(c, cutoff)}
<1>1. Len(keys) \in Nat /\ Len(keys) <= MaxKeys /\ MaxKeys \in Nat \ {0} /\ All \notin Client
  BY LimitNumbers DEF TableBounded
<1>2. live \in Seq(Client) /\ Len(live) <= Len(keys) /\ Len(live) \in Nat
  <2>1. KeptOK(keys, spent, Client, Len(keys), Only(keys, spent))
    BY OnlyKeeps
  <2> QED
    BY <2>1 DEF KeptOK, Unspent
<1>3. Room(cutoff) = IF Len(live) >= MaxKeys THEN Tail(live) ELSE live
  BY DEF Room
<1> HIDE DEF live
<1>4. /\ Room(cutoff) \in Seq(Client) /\ Len(Room(cutoff)) \in Nat
      /\ Len(Room(cutoff)) + 1 <= MaxKeys
  <2>1. CASE Len(live) >= MaxKeys
    <3>1. Len(live) >= 1 /\ live # <<>>
      BY <1>1, <1>2, <2>1
    <3>2. Tail(live) \in Seq(Client) /\ Len(Tail(live)) = Len(live) - 1
      BY <1>2, <3>1
    <3>3. Room(cutoff) = Tail(live)
      BY <1>3, <2>1
    <3> QED
      BY <1>1, <1>2, <3>2, <3>3
  <2>2. CASE ~(Len(live) >= MaxKeys)
    BY <1>1, <1>2, <1>3, <2>2
  <2> QED
    BY <2>1, <2>2
<1>5. ASSUME NEW q \in Seq(Client), NEW c \in Client
      PROVE  Append(q, c) \in Seq(Client) /\ Len(Append(q, c)) = Len(q) + 1 /\ c \in ToSet(Append(q, c))
  <2>1. /\ Append(q, c) \in Seq(Client) /\ Len(Append(q, c)) = Len(q) + 1 /\ Len(q) \in Nat
        /\ Append(q, c)[Len(q) + 1] = c /\ DOMAIN Append(q, c) = 1..(Len(q) + 1)
    OBVIOUS
  <2>2. Len(q) + 1 \in DOMAIN Append(q, c)
    BY <2>1
  <2> QED
    BY <2>1, <2>2 DEF ToSet
<1>6. CASE n = All \/ n \in ToSet(keys)
  <2>1. KeysWith(n, cutoff) = keys
    BY <1>1, <1>6 DEF KeysWith
  <2> QED
    BY <1>1, <1>6, <2>1
<1>7. CASE n \in Client \ ToSet(keys) /\ Len(keys) >= MaxKeys
  <2>1. KeysWith(n, cutoff) = Append(Room(cutoff), n)
    BY <1>1, <1>7 DEF KeysWith
  <2> QED
    BY <1>1, <1>4, <1>5, <1>7, <2>1
<1>8. CASE n \in Client \ ToSet(keys) /\ ~(Len(keys) >= MaxKeys)
  <2>1. KeysWith(n, cutoff) = Append(keys, n)
    BY <1>1, <1>8 DEF KeysWith
  <2> QED
    BY <1>1, <1>5, <1>8, <2>1
<1> QED
  BY <1>6, <1>7, <1>8 DEF Name

\* A name without a hit is not full.
LEMMA FreshHasRoom == ASSUME NEW n \in Name, NEW c \in Int PROVE ~Full(Live(<<>>, c), n)
<1>1. DropUpTo(<<>>, c) \in Seq(Nat) /\ Len(DropUpTo(<<>>, c)) <= Len(<<>>)
  <2>1. <<>> \in Seq(Nat)
    OBVIOUS
  <2> QED
    BY <2>1, DropTimes
<1>2. Len(DropUpTo(<<>>, c)) = 0 /\ Limit(n) \in Nat \ {0}
  BY <1>1, LimitNumbers
<1> QED
  BY <1>2 DEF Full, Live

-----------------------------------------------------------------------------
(* A request in the limiter.                                                 *)

\* The section under the lock, for all names: the name that asks, those that make room for
\* it, and the others.
LEMMA CheckCounts ==
  ASSUME NEW r \in Request, NEW n \in Name, NEW ifPassed, LimitInv, Waits(r),
         Check(r, n, ifPassed)
  PROVE  /\ \A m \in Name : Counted(m, hits'[m], passed'[m], promise'[m], clock')
         /\ \A m \in evicted' : passed'[m] = <<>>
         /\ \A c \in Client \ ToSet(keys') : hits'[c] = <<>>
         /\ keys' \in Seq(Client) /\ TableBounded' /\ evicted' \subseteq Client
         /\ hits' = [m \in Name |-> hits'[m]] /\ passed' = [m \in Name |-> passed'[m]]
         /\ promise' = [m \in Name |-> promise'[m]]
<1> DEFINE now == request[r].now
           cutoff == now - Window
           table == KeysWith(n, cutoff)
           queues == Cleaned(n, table, cutoff)
<1>1. /\ now \in Nat /\ clock \in Nat /\ now <= clock /\ clock - now <= Delay
      /\ cutoff = now - Window /\ cutoff \in Int /\ clock' = clock
  BY LimitNumbers DEF LimitInv, LimitTypes, ReadLately, Check, Waiting
<1>2. /\ keys' = table
      /\ evicted' = evicted \cup {c \in ToSet(keys) \ ToSet(table) : ~Spent(c, cutoff)}
      /\ IF Full(queues[n], n)
         THEN /\ hits' = queues
              /\ promise' = [promise EXCEPT ![n] = queues[n][1] + Window]
              /\ passed' = passed
         ELSE /\ hits' = [queues EXCEPT ![n] = Append(@, now)]
              /\ promise' = [promise EXCEPT ![n] = 0]
              /\ passed' = [m \in Name |-> CASE m \in evicted' -> <<>>
                                           [] m = n /\ n \notin evicted' -> Append(passed[n], clock)
                                           [] OTHER -> passed[m]]
  BY DEF Check
<1>3. /\ table \in Seq(Client) /\ Len(table) <= MaxKeys
      /\ n \in Client => n \in ToSet(table)
      /\ n = All \/ n \in ToSet(keys) => table = keys
  BY TableHasRoom DEF LimitInv, LimitTypes
<1>4. /\ queues = [m \in Name |-> queues[m]] /\ queues[n] = Live(hits[n], cutoff)
      /\ \A m \in Name : m # n => queues[m] = IF m \in Client \ ToSet(table) THEN <<>> ELSE hits[m]
  <2>1. queues = [m \in Name |-> CASE m = n -> Live(hits[n], cutoff)
                                  [] m \in Client \ ToSet(table) -> <<>>
                                  [] OTHER -> hits[m]]
    BY DEF Cleaned
  <2> HIDE DEF queues, table, cutoff
  <2>2. queues[n] = Live(hits[n], cutoff)
    <3>1. queues[n] = CASE n = n -> Live(hits[n], cutoff)
                        [] n \in Client \ ToSet(table) -> <<>>
                        [] OTHER -> hits[n]
      BY <2>1
    <3>2. n \notin Client \ ToSet(table)
      BY <1>3
    <3> QED
      BY <3>1, <3>2
  <2>3. ASSUME NEW m \in Name, m # n
        PROVE  queues[m] = IF m \in Client \ ToSet(table) THEN <<>> ELSE hits[m]
    <3>1. queues[m] = CASE m = n -> Live(hits[n], cutoff)
                        [] m \in Client \ ToSet(table) -> <<>>
                        [] OTHER -> hits[m]
      BY <2>1
    <3> QED
      BY <2>3, <3>1
  <2> QED
    BY <2>1, <2>2, <2>3
<1> HIDE DEF now, cutoff, table, queues
<1>5. ToSet(keys) \subseteq Client
  <2>1. keys \in [1..Len(keys) -> Client] /\ DOMAIN keys = 1..Len(keys)
    BY DEF LimitInv, LimitTypes
  <2> QED
    BY <2>1 DEF ToSet
<1>6. evicted' \subseteq Client
  BY <1>2, <1>5 DEF LimitInv, LimitTypes
<1>7. keys' \in Seq(Client) /\ TableBounded'
  BY <1>2, <1>3 DEF TableBounded
<1>8. \A m \in Name : Counted(m, hits[m], passed[m], promise[m], clock)
  BY DEF LimitInv
<1>9. /\ Full(queues[n], n) => Counted(n, queues[n], passed[n], queues[n][1] + Window, clock)
      /\ ~Full(queues[n], n) => Counted(n, Append(queues[n], now), Append(passed[n], clock), 0, clock)
  BY <1>1, <1>4, <1>8, LiveCounted
<1>10. ASSUME NEW m \in Name, m # n, m \notin evicted'
       PROVE  Counted(m, queues[m], passed[m], promise[m], clock)
  <2>1. CASE m \notin Client \ ToSet(table)
    BY <1>4, <1>8, <1>10, <2>1
  <2>2. CASE m \in Client \ ToSet(table) /\ m \notin ToSet(keys)
    <3>1. hits[m] = <<>> /\ queues[m] = <<>>
      BY <1>4, <1>10, <2>2 DEF LimitInv
    <3> QED
      BY <1>8, <3>1
  <2>3. CASE m \in Client \ ToSet(table) /\ m \in ToSet(keys)
    <3>1. Spent(m, cutoff) /\ queues[m] = <<>>
      BY <1>2, <1>4, <1>10, <2>3
    <3> QED
      BY <1>1, <1>8, <3>1, SpentCounted DEF Spent
  <2> QED
    BY <2>1, <2>2, <2>3
<1>11. ASSUME NEW m \in Name, m # n, m \in evicted'
       PROVE  Counted(m, queues[m], <<>>, promise[m], clock)
  BY <1>1, <1>4, <1>8, <1>11, ForgetCounted
<1>12. \A m \in Name : promise = [k \in Name |-> promise[k]] /\ passed = [k \in Name |-> passed[k]]
  BY DEF LimitInv, LimitTypes
<1>13. \A c \in Client \ ToSet(table) : c # n /\ queues[c] = <<>>
  BY <1>3, <1>4, LimitNumbers
<1>14. CASE Full(queues[n], n)
  <2>1. n = All \/ n \in ToSet(keys)
    <3> SUFFICES ASSUME n # All, n \notin ToSet(keys) PROVE FALSE
      OBVIOUS
    <3>1. n \in Client \ ToSet(keys)
      BY DEF Name
    <3>2. queues[n] = Live(<<>>, cutoff)
      BY <1>4, <3>1 DEF LimitInv
    <3> QED
      BY <1>1, <1>14, <3>2, FreshHasRoom
  <2>2. evicted' = evicted
    BY <1>2, <1>3, <2>1
  <2>3. hits' = queues /\ promise' = [promise EXCEPT ![n] = queues[n][1] + Window] /\ passed' = passed
    BY <1>2, <1>14
  <2>4. promise'[n] = queues[n][1] + Window /\ \A m \in Name : m # n => promise'[m] = promise[m]
    BY <1>12, <2>3
  <2>5. ASSUME NEW m \in Name PROVE Counted(m, hits'[m], passed'[m], promise'[m], clock')
    <3>1. CASE m = n
      BY <1>1, <1>9, <1>14, <2>3, <2>4, <3>1
    <3>2. CASE m # n /\ m \notin evicted'
      BY <1>1, <1>10, <2>3, <2>4, <3>2
    <3>3. CASE m # n /\ m \in evicted'
      <4>1. passed'[m] = <<>>
        BY <2>2, <2>3, <3>3 DEF LimitInv
      <4> QED
        BY <1>1, <1>11, <2>3, <2>4, <3>3, <4>1
    <3> QED
      BY <3>1, <3>2, <3>3
  <2>6. \A m \in evicted' : passed'[m] = <<>>
    BY <2>2, <2>3 DEF LimitInv
  <2>7. \A c \in Client \ ToSet(keys') : hits'[c] = <<>>
    BY <1>2, <1>13, <2>3
  <2>8. /\ hits' = [m \in Name |-> hits'[m]] /\ passed' = [m \in Name |-> passed'[m]]
        /\ promise' = [m \in Name |-> promise'[m]]
    BY <1>4, <1>12, <2>3
  <2> QED
    BY <1>6, <1>7, <2>5, <2>6, <2>7, <2>8
<1>15. CASE ~Full(queues[n], n)
  <2>1. /\ hits' = [queues EXCEPT ![n] = Append(@, now)]
        /\ promise' = [promise EXCEPT ![n] = 0]
        /\ passed' = [m \in Name |-> CASE m \in evicted' -> <<>>
                                     [] m = n /\ n \notin evicted' -> Append(passed[n], clock)
                                     [] OTHER -> passed[m]]
    BY <1>2, <1>15
  <2>2. /\ hits'[n] = Append(queues[n], now) /\ \A m \in Name : m # n => hits'[m] = queues[m]
        /\ hits' = [m \in Name |-> hits'[m]]
    BY <1>4, <2>1
  <2>3. /\ promise'[n] = 0 /\ \A m \in Name : m # n => promise'[m] = promise[m]
        /\ promise' = [m \in Name |-> promise'[m]]
    BY <1>12, <2>1
  <2>4. /\ \A m \in Name : m \in evicted' => passed'[m] = <<>>
        /\ n \notin evicted' => passed'[n] = Append(passed[n], clock)
        /\ \A m \in Name : m # n /\ m \notin evicted' => passed'[m] = passed[m]
        /\ passed' = [m \in Name |-> passed'[m]]
    BY <2>1
  <2>5. ASSUME NEW m \in Name PROVE Counted(m, hits'[m], passed'[m], promise'[m], clock')
    <3>1. CASE m = n /\ n \notin evicted'
      BY <1>1, <1>9, <1>15, <2>2, <2>3, <2>4, <3>1
    <3>2. CASE m = n /\ n \in evicted'
      <4>1. Counted(n, Append(queues[n], now), <<>>, 0, clock)
        BY <1>1, <1>9, <1>15, ForgetCounted
      <4> QED
        BY <1>1, <2>2, <2>3, <2>4, <3>2, <4>1
    <3>3. CASE m # n /\ m \notin evicted'
      BY <1>1, <1>10, <2>2, <2>3, <2>4, <3>3
    <3>4. CASE m # n /\ m \in evicted'
      BY <1>1, <1>11, <2>2, <2>3, <2>4, <3>4
    <3> QED
      BY <3>1, <3>2, <3>3, <3>4
  <2>6. \A m \in evicted' : passed'[m] = <<>>
    BY <1>6, <2>4, LimitNumbers
  <2>7. \A c \in Client \ ToSet(keys') : hits'[c] = <<>>
    BY <1>2, <1>13, <2>2, LimitNumbers
  <2> QED
    BY <1>6, <1>7, <2>2, <2>3, <2>4, <2>5, <2>6, <2>7
<1> QED
  BY <1>14, <1>15

\* Requests and the clock.
ReadsAndTypes ==
  /\ clock \in Nat /\ request \in [Request -> Waiting] /\ ReadLately
  /\ \A r \in Request : request[r].at = "address" => request[r].client \in Client

\* A request that does not wait for a lock has no time to keep.
LEMMA RequestMoves ==
  ASSUME LimitInv, NEW r \in Request, NEW t \in Waiting,
         t.at = "address" => t.client \in Client,
         t.at \in {"address", "global"} => t.now = clock,
         request' = [request EXCEPT ![r] = t], clock' = clock
  PROVE  ReadsAndTypes'
<1>1. /\ clock \in Nat /\ request \in [Request -> Waiting] /\ ReadLately
      /\ \A u \in Request : request[u].at = "address" => request[u].client \in Client
  BY DEF LimitInv, LimitTypes
<1>2. /\ request' \in [Request -> Waiting] /\ request'[r] = t
      /\ \A u \in Request : u # r => request'[u] = request[u]
  BY <1>1
<1>3. ASSUME NEW u \in Request, request'[u].at \in {"address", "global"}
      PROVE  request'[u].now <= clock' /\ clock' - request'[u].now <= Delay
  <2>1. CASE u = r
    BY <1>1, <1>2, <1>3, <2>1, LimitNumbers
  <2>2. CASE u # r
    BY <1>1, <1>2, <1>3, <2>2 DEF ReadLately, Waits
  <2> QED
    BY <2>1, <2>2
<1>4. \A u \in Request : request'[u].at = "address" => request'[u].client \in Client
  BY <1>1, <1>2
<1> QED
  BY <1>1, <1>2, <1>3, <1>4 DEF ReadsAndTypes, ReadLately, Waits

\* The limiter is in order when the requests are and what they leave alone stays.
LEMMA LimiterAlone ==
  ASSUME LimitInv, ReadsAndTypes', UNCHANGED <<clock, keys, hits, passed, promise, evicted>>
  PROVE  LimitInv'
<1>1. LimitTypes'
  BY DEF LimitInv, LimitTypes, ReadsAndTypes
<1>2. TableBounded'
  BY DEF LimitInv, TableBounded
<1>3. /\ \A n \in Name : Counted(n, hits'[n], passed'[n], promise'[n], clock')
      /\ \A n \in evicted' : passed'[n] = <<>>
      /\ \A c \in Client \ ToSet(keys') : hits'[c] = <<>>
  BY DEF LimitInv
<1> QED
  BY <1>1, <1>2, <1>3 DEF LimitInv, ReadsAndTypes

\* A request past the lock goes on or ends.
LEMMA CheckKept ==
  ASSUME LimitInv, NEW r \in Request, NEW n \in Name, NEW t \in Waiting,
         t.at \notin {"address", "global"}, Waits(r), Check(r, n, t)
  PROVE  LimitInv'
<1>1. NoRequest \in Waiting /\ NoRequest.at = "none"
  BY LimitNumbers DEF NoRequest, Waiting
<1>2. clock' = clock /\ \E u \in {t, NoRequest} : request' = [request EXCEPT ![r] = u]
  BY DEF Check
<1>3. ReadsAndTypes'
  BY <1>1, <1>2, RequestMoves
<1>4. LimitTypes'
  BY <1>3, CheckCounts DEF LimitTypes, ReadsAndTypes
<1> QED
  BY <1>3, <1>4, CheckCounts DEF LimitInv, ReadsAndTypes

\* Time passes only while no request has read the clock too long ago.
LEMMA TickKept == ASSUME LimitInv, Tick PROVE LimitInv'
<1>1. /\ clock \in Nat /\ clock' = clock + 1 /\ UNCHANGED <<keys, hits, request, promise, evicted>>
      /\ passed' = [n \in Name |-> Recent(passed[n], clock + 1)]
      /\ \A r \in Request : Waits(r) => clock - request[r].now < Delay
  BY DEF LimitInv, LimitTypes, Tick
<1>2. ASSUME NEW n \in Name PROVE Counted(n, hits'[n], passed'[n], promise'[n], clock')
  <2>1. Counted(n, hits[n], Recent(passed[n], clock + 1), promise[n], clock + 1)
    BY <1>1, TickCounted DEF LimitInv
  <2> QED
    BY <1>1, <2>1
<1>3. ASSUME NEW n \in evicted' PROVE passed'[n] = <<>>
  <2>1. n \in Name /\ passed[n] = <<>>
    BY <1>1, <1>3, LimitNumbers DEF LimitInv, LimitTypes
  <2>2. Recent(<<>>, clock + 1) = <<>>
    <3>1. <<>> \in Seq(Nat) /\ (clock + 1) - (Window - Delay) \in Int /\ Len(<<>>) = 0
      BY <1>1, LimitNumbers
    <3>2. /\ Recent(<<>>, clock + 1) \in Seq(Nat)
          /\ Len(Recent(<<>>, clock + 1)) <= 0
      BY <3>1, DropTimes DEF Recent
    <3> QED
      BY <3>2
  <2> QED
    BY <1>1, <2>1, <2>2
<1>4. ReadLately'
  <2> SUFFICES ASSUME NEW r \in Request, Waits(r)
               PROVE  request[r].now <= clock + 1 /\ (clock + 1) - request[r].now <= Delay
    BY <1>1 DEF ReadLately, Waits
  <2>1. request[r].now \in Nat /\ request[r].now <= clock /\ clock - request[r].now < Delay
    BY <1>1 DEF LimitInv, LimitTypes, ReadLately, Waiting
  <2> QED
    BY <1>1, <2>1, LimitNumbers
<1>5. LimitTypes'
  BY <1>1 DEF LimitInv, LimitTypes
<1>6. TableBounded' /\ \A c \in Client \ ToSet(keys') : hits'[c] = <<>>
  BY <1>1 DEF LimitInv, TableBounded
<1> QED
  BY <1>2, <1>3, <1>4, <1>5, <1>6 DEF LimitInv

\* Initially nothing was let through.
LEMMA InitLimitInv == Init => LimitInv
<1> SUFFICES ASSUME Init PROVE LimitInv
  OBVIOUS
<1>1. NoRequest \in Waiting /\ NoRequest.at = "none"
  BY LimitNumbers DEF NoRequest, Waiting
<1>2. \A n \in Name : hits[n] = <<>> /\ passed[n] = <<>> /\ promise[n] = 0
  BY DEF Init
<1>3. \A n \in Name : Counted(n, <<>>, <<>>, 0, clock)
  BY LimitNumbers DEF Counted, Matched, InOrder
<1>4. LimitTypes /\ ReadLately
  BY <1>1 DEF Init, LimitTypes, ReadLately, Waits
<1>5. TableBounded
  BY LimitNumbers DEF Init, TableBounded
<1>6. /\ \A n \in Name : Counted(n, hits[n], passed[n], promise[n], clock)
      /\ \A n \in evicted : passed[n] = <<>>
      /\ \A c \in Client \ ToSet(keys) : hits[c] = <<>>
  BY <1>2, <1>3, LimitNumbers DEF Init
<1> QED
  BY <1>4, <1>5, <1>6 DEF LimitInv

\* The inductive invariant holds in every behaviour.
THEOREM LimitInvariance == Spec => []LimitInv
<1>1. LimitInv /\ [Next]_vars => LimitInv'
  <2> SUFFICES ASSUME LimitInv, [Next]_vars PROVE LimitInv'
    OBVIOUS
  <2>1. CASE Tick
    BY <2>1, TickKept
  <2>2. ASSUME NEW r \in Request, NEW c \in Client, Arrive(r, c) PROVE LimitInv'
    <3> DEFINE t == [at |-> "address", client |-> c, now |-> clock]
    <3>1. t \in Waiting /\ t.at = "address" /\ t.client = c /\ t.now = clock
      BY LimitNumbers DEF Waiting, LimitInv, LimitTypes
    <3>2. request' = [request EXCEPT ![r] = t] /\ UNCHANGED <<clock, keys, hits, passed, promise, evicted>>
      BY <2>2 DEF Arrive
    <3> HIDE DEF t
    <3> QED
      BY <3>1, <3>2, RequestMoves, LimiterAlone
  <2>3. ASSUME NEW r \in Request, GoGlobal(r) PROVE LimitInv'
    <3> DEFINE t == [request[r] EXCEPT !.at = "global", !.now = clock]
    <3>1. request \in [Request -> Waiting] /\ clock \in Nat
      BY DEF LimitInv, LimitTypes
    <3>2. t \in Waiting /\ t.at = "global" /\ t.now = clock
      BY <3>1 DEF Waiting
    <3>3. request' = [request EXCEPT ![r] = t] /\ UNCHANGED <<clock, keys, hits, passed, promise, evicted>>
      BY <2>3, <3>1 DEF GoGlobal
    <3> HIDE DEF t
    <3> QED
      BY <3>2, <3>3, RequestMoves, LimiterAlone
  <2>4. ASSUME NEW r \in Request, CheckAddress(r) PROVE LimitInv'
    <3> DEFINE t == [NoRequest EXCEPT !.at = "between"]
    <3>1. t \in Waiting /\ t.at = "between"
      BY LimitNumbers DEF NoRequest, Waiting
    <3>2. Waits(r) /\ request[r].client \in Name /\ Check(r, request[r].client, t)
      BY <2>4, LimitNumbers DEF CheckAddress, Waits, LimitInv, LimitTypes
    <3> HIDE DEF t
    <3> QED
      BY <3>1, <3>2, CheckKept
  <2>5. ASSUME NEW r \in Request, CheckGlobal(r) PROVE LimitInv'
    <3>1. NoRequest \in Waiting /\ NoRequest.at = "none"
      BY LimitNumbers DEF NoRequest, Waiting
    <3>2. Waits(r) /\ Check(r, All, NoRequest)
      BY <2>5 DEF CheckGlobal, Waits
    <3> QED
      BY <3>1, <3>2, LimitNumbers, CheckKept
  <2>6. CASE UNCHANGED vars
    <3>1. ReadsAndTypes'
      BY <2>6 DEF vars, LimitInv, LimitTypes, ReadsAndTypes, ReadLately, Waits
    <3> QED
      BY <2>6, <3>1, LimiterAlone DEF vars
  <2> QED
    BY <2>1, <2>2, <2>3, <2>4, <2>5, <2>6 DEF Next
<1> QED
  BY <1>1, InitLimitInv, PTL DEF Spec

\* Within a window no name gets more than its limit through (ratelimit.py:66-79).
THEOREM WindowHolds == Spec => []WindowRespected
<1>1. LimitInv => WindowRespected
  <2> SUFFICES ASSUME LimitInv, NEW n \in Name \ evicted
               PROVE  Len(Recent(passed[n], clock)) <= Limit(n)
    BY DEF WindowRespected
  <2>1. /\ passed[n] \in Seq(Nat) /\ hits[n] \in Seq(Nat) /\ Len(passed[n]) <= Len(hits[n])
        /\ Len(hits[n]) <= Limit(n) /\ clock \in Nat
    BY DEF LimitInv, LimitTypes, Counted, Matched
  <2>2. clock - (Window - Delay) \in Int
    BY <2>1, LimitNumbers
  <2>3. Recent(passed[n], clock) \in Seq(Nat) /\ Len(Recent(passed[n], clock)) <= Len(passed[n])
    BY <2>1, <2>2, DropTimes DEF Recent
  <2>4. /\ Len(passed[n]) \in Nat /\ Len(hits[n]) \in Nat /\ Len(Recent(passed[n], clock)) \in Nat
        /\ Limit(n) \in Nat
    BY <2>1, <2>3, LimitNumbers
  <2> QED
    BY <2>1, <2>3, <2>4
<1> QED
  BY <1>1, LimitInvariance, PTL

\* The table of addresses stays within its size (ratelimit.py:81-93).
THEOREM TableHolds == Spec => []TableBounded
<1>1. LimitInv => TableBounded
  BY DEF LimitInv
<1> QED
  BY <1>1, LimitInvariance, PTL

\* A name that waited as long as it was told to and had no other hit since gets through:
\* the hit it waited for has expired (ratelimit.py:13-14).
THEOREM WaitingHolds == Spec => WaitingFreesTheSlot
<1> DEFINE Frees == \A r \in Request, n \in Name :
              /\ Waits(r) /\ n = (IF request[r].at = "global" THEN All ELSE request[r].client)
              /\ promise[n] > 0 /\ request[r].now >= promise[n]
              => ~(request'[r] = NoRequest /\ passed'[n] = passed[n])
<1>1. LimitInv /\ [Next]_vars => [Frees]_vars
  <2> SUFFICES ASSUME LimitInv, Next, NEW r \in Request, NEW n \in Name, Waits(r),
                      n = (IF request[r].at = "global" THEN All ELSE request[r].client),
                      promise[n] > 0, request[r].now >= promise[n],
                      request'[r] = NoRequest, passed'[n] = passed[n]
               PROVE  FALSE
    OBVIOUS
  <2>1. /\ request[r] # NoRequest /\ request \in [Request -> Waiting] /\ request[r].now \in Nat
        /\ clock \in Nat /\ evicted \subseteq Client /\ passed[n] \in Seq(Nat)
    BY DEF Waits, NoRequest, LimitInv, LimitTypes, Counted, Waiting
  <2>2. request' # request
    BY <2>1
  <2>3. ~ \E c \in Client : Arrive(r, c)
    BY DEF Arrive, Waits
  <2>4. ~ GoGlobal(r)
    BY DEF GoGlobal, Waits
  <2>5. ASSUME NEW u \in Request, u # r, NEW t, request' = [request EXCEPT ![u] = t] PROVE FALSE
    BY <2>1, <2>5
  <2>6. ASSUME NEW u \in Request, NEW m, NEW t, Check(u, m, t), u # r PROVE FALSE
    BY <2>5, <2>6 DEF Check
  <2>7. CheckAddress(r) \/ CheckGlobal(r)
    <3>1. ~ Tick
      BY <2>2 DEF Tick
    <3>2. PICK u \in Request :
            (\E c \in Client : Arrive(u, c)) \/ CheckAddress(u) \/ GoGlobal(u) \/ CheckGlobal(u)
      BY <3>1 DEF Next
    <3>3. ASSUME u # r PROVE FALSE
      <4>1. ASSUME NEW c \in Client, Arrive(u, c) PROVE FALSE
        BY <2>5, <3>3, <4>1 DEF Arrive
      <4>2. ASSUME GoGlobal(u) PROVE FALSE
        <5>1. request' = [request EXCEPT ![u] = [request[u] EXCEPT !.at = "global", !.now = clock]]
          BY <2>1, <4>2 DEF GoGlobal
        <5> QED
          BY <2>5, <3>3, <5>1
      <4>3. ASSUME CheckAddress(u) \/ CheckGlobal(u) PROVE FALSE
        BY <2>6, <3>3, <4>3 DEF CheckAddress, CheckGlobal
      <4> QED
        BY <3>2, <4>1, <4>2, <4>3
    <3> QED
      BY <2>3, <2>4, <3>2, <3>3
  <2> DEFINE cutoff == request[r].now - Window
  <2>8. Counted(n, hits[n], passed[n], promise[n], clock) /\ promise[n] \in Nat
    BY DEF LimitInv, Counted
  <2>9. ~ Full(Live(hits[n], cutoff), n)
    <3>1. cutoff \in Int /\ hits[n] \in Seq(Nat) /\ Limit(n) \in Nat /\ Len(hits[n]) <= Limit(n)
      BY <2>1, <2>8, LimitNumbers DEF Counted
    <3>2. CASE hits[n] = <<>>
      BY <3>1, <3>2, FreshHasRoom
    <3>3. CASE hits[n] # <<>>
      <4>1. hits[n][1] + Window = promise[n] /\ hits[n][1] \in Nat
        BY <2>8, <3>1, <3>3 DEF Counted
      <4>2. hits[n][1] <= cutoff
        BY <2>1, <2>8, <4>1, LimitNumbers
      <4>3. /\ DropUpTo(hits[n], cutoff) \in Seq(Nat)
            /\ Len(DropUpTo(hits[n], cutoff)) < Len(hits[n])
        BY <3>1, <3>3, <4>2, DropTimes
      <4>4. Len(DropUpTo(hits[n], cutoff)) \in Nat /\ Len(hits[n]) \in Nat
        BY <3>1, <4>3
      <4> QED
        BY <3>1, <4>3, <4>4 DEF Full, Live
    <3> QED
      BY <3>2, <3>3
  <2>10. ASSUME NEW t, Check(r, n, t), n = All \/ n \in Client
         PROVE  /\ request' = [request EXCEPT ![r] = t]
                /\ n \notin evicted' => passed'[n] = Append(passed[n], clock)
                /\ evicted' \subseteq Client
    <3>1. Cleaned(n, KeysWith(n, cutoff), cutoff)[n] = Live(hits[n], cutoff)
      <4>1. n \notin Client \ ToSet(KeysWith(n, cutoff))
        BY TableHasRoom DEF LimitInv, LimitTypes
      <4> QED
        BY <4>1 DEF Cleaned
    <3>2. ~ Full(Cleaned(n, KeysWith(n, cutoff), cutoff)[n], n)
      BY <2>9, <3>1
    <3> HIDE DEF cutoff
    <3>3. /\ request' = [request EXCEPT ![r] = t]
          /\ passed' = [m \in Name |-> CASE m \in evicted' -> <<>>
                                       [] m = n /\ n \notin evicted' -> Append(passed[n], clock)
                                       [] OTHER -> passed[m]]
      BY <2>10, <3>2 DEF Check, cutoff
    <3>4. n \notin evicted' => passed'[n] = Append(passed[n], clock)
      BY <3>3
    <3>5. evicted' \subseteq Client
      BY <2>10, CheckCounts
    <3> QED
      BY <3>3, <3>4, <3>5
  <2>11. CASE CheckAddress(r)
    <3> DEFINE t == [NoRequest EXCEPT !.at = "between"]
    <3>1. n = request[r].client /\ n \in Client /\ Check(r, n, t)
      BY <2>11 DEF CheckAddress, LimitInv, LimitTypes
    <3>2. t.at = "between" /\ NoRequest.at = "none"
      BY DEF NoRequest
    <3> HIDE DEF t
    <3>3. request'[r] = t
      BY <2>1, <2>10, <3>1
    <3> QED
      BY <3>2, <3>3
  <2>12. CASE CheckGlobal(r)
    <3>1. n = All /\ Check(r, All, NoRequest) /\ n \notin Client
      BY <2>12, LimitNumbers DEF CheckGlobal
    <3>2. passed'[n] = Append(passed[n], clock)
      BY <2>10, <3>1
    <3>3. Len(Append(passed[n], clock)) = Len(passed[n]) + 1 /\ Len(passed[n]) \in Nat
      BY <2>1
    <3> QED
      BY <3>2, <3>3
  <2> QED
    BY <2>7, <2>11, <2>12
<1> QED
  BY <1>1, LimitInvariance, PTL DEF Spec, WaitingFreesTheSlot

=============================================================================
