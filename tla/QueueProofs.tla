---------------------------- MODULE QueueProofs -----------------------------
(***************************************************************************)
(* What the operators of Queues return, for queues of any length.          *)
(*                                                                         *)
(* Induction over a length is by a least counterexample: a set of natural  *)
(* numbers that is not empty has a least element.                          *)
(***************************************************************************)
EXTENDS Queues, WellFoundedInduction, SequenceTheorems, TLAPS

\* A set of natural numbers that is not empty has a least element.
THEOREM LeastNumber ==
  ASSUME NEW T, T \subseteq Nat, T # {}
  PROVE  \E x \in T : \A y \in T : x <= y
<1> DEFINE R == {ss \in Nat \X Nat : ss[1] < ss[2]}
<1>1. IsWellFoundedOn(R, Nat)
  BY NatLessThanWellFounded, Zenon DEF OpToRel
<1>2. PICK x \in T : \A y \in T : ~ (<<y, x>> \in R)
  <2> HIDE DEF R
  <2> QED
    BY <1>1, WFMin
<1>3. \A y \in T : ~ (y < x)
  BY <1>2
<1>4. \A y \in T : x <= y
  BY <1>3
<1> QED
  BY <1>4

-----------------------------------------------------------------------------
(* DropUpTo.                                                                 *)

\* Dropping takes away a number of heads that are all below the cutoff, and stops
\* at the end or at a head that is not.
THEOREM DropFacts ==
  ASSUME NEW q \in Seq(Int), NEW cutoff \in Int
  PROVE  \E k \in 0..Len(q) :
           /\ DropUpTo(q, cutoff) = SubSeq(q, k + 1, Len(q))
           /\ \A j \in 1..k : q[j] <= cutoff
           /\ k < Len(q) => q[k + 1] > cutoff
<1> DEFINE IsFirst(i) == /\ \A j \in 1..(i - 1) : q[j] <= cutoff
                         /\ i <= Len(q) => q[i] > cutoff
           T == {i \in 1..(Len(q) + 1) : i <= Len(q) => q[i] > cutoff}
<1>1. Len(q) \in Nat /\ \A i \in 1..Len(q) : q[i] \in Int
  BY ElementOfSeq
<1>2. Len(q) + 1 \in T /\ T \subseteq Nat
  BY <1>1
<1>3. PICK i \in T : \A j \in T : i <= j
  BY <1>2, LeastNumber
<1>4. \E j \in 1..(Len(q) + 1) : IsFirst(j)
  <2>1. ASSUME NEW j \in 1..(i - 1) PROVE q[j] <= cutoff
    BY <1>1, <1>3
  <2> QED
    BY <1>3, <2>1
<1> DEFINE first == CHOOSE j \in 1..(Len(q) + 1) : IsFirst(j)
<1>5. first \in 1..(Len(q) + 1) /\ IsFirst(first)
  BY <1>4
<1>6. DropUpTo(q, cutoff) = SubSeq(q, first, Len(q))
  BY DEF DropUpTo
<1> HIDE DEF first
<1>7. first - 1 \in 0..Len(q) /\ (first - 1) + 1 = first
  BY <1>1, <1>5
<1> DEFINE k == first - 1
<1>8. \A j \in 1..k : q[j] <= cutoff
  BY <1>5
<1>9. k < Len(q) => q[k + 1] > cutoff
  BY <1>1, <1>5, <1>7
<1>10. DropUpTo(q, cutoff) = SubSeq(q, k + 1, Len(q))
  BY <1>6, <1>7
<1> HIDE DEF k
<1> QED
  BY <1>7, <1>8, <1>9, <1>10 DEF k

\* The same by length and position.
THEOREM DropElements ==
  ASSUME NEW q \in Seq(Int), NEW cutoff \in Int
  PROVE  \E k \in 0..Len(q) :
           /\ DropUpTo(q, cutoff) \in Seq(Int) /\ Len(DropUpTo(q, cutoff)) = Len(q) - k
           /\ \A i \in 1..(Len(q) - k) : DropUpTo(q, cutoff)[i] = q[k + i]
           /\ \A j \in 1..k : q[j] <= cutoff
           /\ k < Len(q) => q[k + 1] > cutoff
<1>1. PICK k \in 0..Len(q) :
        /\ DropUpTo(q, cutoff) = SubSeq(q, k + 1, Len(q))
        /\ \A j \in 1..k : q[j] <= cutoff
        /\ k < Len(q) => q[k + 1] > cutoff
  BY DropFacts
<1>2. Len(q) \in Nat /\ k \in Nat
  BY <1>1
<1>3. /\ SubSeq(q, k + 1, Len(q)) \in Seq(Int)
      /\ Len(SubSeq(q, k + 1, Len(q))) = Len(q) - k
      /\ \A i \in 1..(Len(q) - k) : SubSeq(q, k + 1, Len(q))[i] = q[k + i]
  BY <1>2
<1> QED
  BY <1>1, <1>3

-----------------------------------------------------------------------------
(* Only.                                                                     *)

\* What Only has kept of the first elements, as a function of their number.
KeptFrom(q, S, g, i) ==
  IF i = 0 THEN <<>> ELSE IF q[i] \in S THEN Append(g[i - 1], q[i]) ELSE g[i - 1]
KeptUpTo(q, S, n, g) == g = [i \in 0..n |-> KeptFrom(q, S, g, i)]

\* The recursive function in Only exists, for any number of elements.
LEMMA KeptExists == ASSUME NEW q, NEW S PROVE \A n \in Nat : \E g : KeptUpTo(q, S, n, g)
<1> DEFINE T == {n \in Nat : ~ \E g : KeptUpTo(q, S, n, g)}
<1> SUFFICES ASSUME T # {} PROVE FALSE
  OBVIOUS
<1>1. PICK n \in T : \A m \in T : n <= m
  BY LeastNumber
<1>2. CASE n = 0
  <2> DEFINE g == [i \in 0..0 |-> <<>>]
  <2>1. g = [i \in 0..0 |-> KeptFrom(q, S, g, i)]
    BY DEF KeptFrom
  <2>2. KeptUpTo(q, S, 0, g)
    <3> HIDE DEF g
    <3> QED
      BY <2>1 DEF KeptUpTo
  <2> QED
    BY <1>2, <2>2
<1>3. CASE n # 0
  <2>1. n \in Nat /\ n - 1 \in Nat /\ n - 1 \notin T
    BY <1>1, <1>3
  <2>2. PICK g : KeptUpTo(q, S, n - 1, g)
    BY <2>1
  <2> DEFINE h == [i \in 0..n |-> IF i = n THEN KeptFrom(q, S, g, n) ELSE g[i]]
  <2>3. \A i \in 0..n : h[i] = KeptFrom(q, S, h, i)
    <3> SUFFICES ASSUME NEW i \in 0..n PROVE h[i] = KeptFrom(q, S, h, i)
      OBVIOUS
    <3>1. i # 0 => i - 1 \in 0..n /\ i - 1 # n /\ h[i - 1] = g[i - 1]
      BY <2>1
    <3>2. KeptFrom(q, S, h, i) = KeptFrom(q, S, g, i)
      BY <3>1 DEF KeptFrom
    <3>3. i # n => g[i] = KeptFrom(q, S, g, i)
      <4>1. i # n => i \in 0..(n - 1)
        BY <2>1
      <4> QED
        BY <2>2, <4>1 DEF KeptUpTo
    <3>4. h[i] = KeptFrom(q, S, g, i)
      BY <3>3
    <3> QED
      BY <3>2, <3>4
  <2>4. KeptUpTo(q, S, n, h)
    <3>1. h = [i \in 0..n |-> h[i]]
      OBVIOUS
    <3> HIDE DEF h
    <3> QED
      BY <2>3, <3>1 DEF KeptUpTo
  <2> QED
    BY <1>1, <2>4
<1> QED
  BY <1>2, <1>3

\* Only is the last value of a function that keeps the elements one after another.
LEMMA OnlyUnfolds ==
  ASSUME NEW q, Len(q) \in Nat, NEW S
  PROVE  \E g : KeptUpTo(q, S, Len(q), g) /\ Only(q, S) = g[Len(q)]
<1> DEFINE g == CHOOSE f : f = [i \in 0..Len(q) |->
                  IF i = 0 THEN <<>> ELSE IF q[i] \in S THEN Append(f[i - 1], q[i]) ELSE f[i - 1]]
<1>1. \E f : f = [i \in 0..Len(q) |->
                  IF i = 0 THEN <<>> ELSE IF q[i] \in S THEN Append(f[i - 1], q[i]) ELSE f[i - 1]]
  <2>1. PICK f : KeptUpTo(q, S, Len(q), f)
    BY KeptExists
  <2> QED
    BY <2>1, Zenon DEF KeptUpTo, KeptFrom
<1>2. g = [i \in 0..Len(q) |->
             IF i = 0 THEN <<>> ELSE IF q[i] \in S THEN Append(g[i - 1], q[i]) ELSE g[i - 1]]
  BY <1>1
<1>3. Only(q, S) = g[Len(q)]
  BY DEF Only
<1> HIDE DEF g
<1>4. KeptUpTo(q, S, Len(q), g)
  BY <1>2 DEF KeptUpTo, KeptFrom
<1> QED
  BY <1>3, <1>4


\* An element at one place only.
Distinct(q) == \A i, j \in 1..Len(q) : q[i] = q[j] => i = j

\* What is kept of the first n elements: those in S, each as often as it is in q.
KeptOK(q, S, T, n, r) ==
  /\ r \in Seq(T) /\ Len(r) <= n
  /\ \A m \in 1..Len(r) : r[m] \in S /\ \E j \in 1..n : r[m] = q[j]
  /\ \A j \in 1..n : q[j] \in S => \E m \in 1..Len(r) : r[m] = q[j]
  /\ Distinct(q) => Distinct(r)

\* One more element keeps it so.
LEMMA KeptStep ==
  ASSUME NEW T, NEW q \in Seq(T), NEW S, NEW n \in 1..Len(q), NEW r, KeptOK(q, S, T, n - 1, r)
  PROVE  KeptOK(q, S, T, n, IF q[n] \in S THEN Append(r, q[n]) ELSE r)
<1>1. n \in Nat /\ n - 1 \in Nat /\ q[n] \in T /\ r \in Seq(T) /\ Len(r) \in Nat /\ Len(r) <= n - 1
  BY DEF KeptOK
<1>2. CASE q[n] \notin S
  <2>1. \A j \in 1..n : q[j] \in S => j \in 1..(n - 1)
    BY <1>1, <1>2
  <2> QED
    BY <1>1, <1>2, <2>1 DEF KeptOK
<1>3. CASE q[n] \in S
  <2> DEFINE s == Append(r, q[n])
  <2>1. /\ s \in Seq(T) /\ Len(s) = Len(r) + 1 /\ s[Len(r) + 1] = q[n]
        /\ \A m \in 1..Len(r) : s[m] = r[m]
    BY <1>1, AppendProperties
  <2>2. \A m \in 1..Len(s) : m = Len(r) + 1 \/ m \in 1..Len(r)
    BY <1>1, <2>1
  <2> HIDE DEF s
  <2>3. \A m \in 1..Len(s) : s[m] \in S /\ \E j \in 1..n : s[m] = q[j]
    <3> SUFFICES ASSUME NEW m \in 1..Len(s) PROVE s[m] \in S /\ \E j \in 1..n : s[m] = q[j]
      OBVIOUS
    <3>1. CASE m = Len(r) + 1
      BY <1>1, <1>3, <2>1, <3>1
    <3>2. CASE m \in 1..Len(r)
      <4>1. s[m] = r[m] /\ r[m] \in S /\ \E j \in 1..(n - 1) : r[m] = q[j]
        BY <2>1, <3>2 DEF KeptOK
      <4> QED
        BY <1>1, <4>1
    <3> QED
      BY <2>2, <3>1, <3>2
  <2>4. \A j \in 1..n : q[j] \in S => \E m \in 1..Len(s) : s[m] = q[j]
    <3> SUFFICES ASSUME NEW j \in 1..n, q[j] \in S PROVE \E m \in 1..Len(s) : s[m] = q[j]
      OBVIOUS
    <3>1. CASE j = n
      BY <1>1, <2>1, <3>1
    <3>2. CASE j # n
      <4>1. j \in 1..(n - 1)
        BY <1>1, <3>2
      <4>2. PICK m \in 1..Len(r) : r[m] = q[j]
        BY <4>1 DEF KeptOK
      <4> QED
        BY <1>1, <2>1, <4>2
    <3> QED
      BY <3>1, <3>2
  <2>5. ASSUME Distinct(q) PROVE Distinct(s)
    <3>1. Distinct(r)
      BY <2>5 DEF KeptOK
    <3>2. ASSUME NEW m \in 1..Len(r) PROVE r[m] # q[n]
      <4>1. PICK j \in 1..(n - 1) : r[m] = q[j]
        BY DEF KeptOK
      <4>2. j \in 1..Len(q) /\ j # n
        BY <1>1
      <4> QED
        BY <2>5, <4>1, <4>2 DEF Distinct
    <3> SUFFICES ASSUME NEW i \in 1..Len(s), NEW j \in 1..Len(s), s[i] = s[j] PROVE i = j
      BY DEF Distinct
    <3>3. CASE i \in 1..Len(r) /\ j \in 1..Len(r)
      BY <2>1, <3>1, <3>3 DEF Distinct
    <3>4. CASE i = Len(r) + 1 /\ j \in 1..Len(r)
      BY <2>1, <3>2, <3>4
    <3>5. CASE j = Len(r) + 1 /\ i \in 1..Len(r)
      BY <2>1, <3>2, <3>5
    <3> QED
      BY <2>2, <3>3, <3>4, <3>5
  <2>6. KeptOK(q, S, T, n, s)
    BY <1>1, <2>1, <2>3, <2>4, <2>5 DEF KeptOK
  <2> QED
    BY <1>3, <2>6 DEF s
<1> QED
  BY <1>2, <1>3

\* Only keeps the elements that are in S, no more of them than there are, and does not
\* repeat any: what a rebuilt table of a limiter or a cache relies on.
THEOREM OnlyKeeps ==
  ASSUME NEW T, NEW q \in Seq(T), NEW S
  PROVE  KeptOK(q, S, T, Len(q), Only(q, S))
<1>1. Len(q) \in Nat
  OBVIOUS
<1>2. PICK g : KeptUpTo(q, S, Len(q), g) /\ Only(q, S) = g[Len(q)]
  BY <1>1, OnlyUnfolds
<1>3. \A n \in 0..Len(q) : g[n] = KeptFrom(q, S, g, n)
  BY <1>2 DEF KeptUpTo
<1> DEFINE U == {n \in 0..Len(q) : ~KeptOK(q, S, T, n, g[n])}
<1>4. ASSUME U # {} PROVE FALSE
  <2>1. PICK n \in U : \A m \in U : n <= m
    <3>1. U \subseteq Nat
      BY <1>1
    <3> HIDE DEF U
    <3> QED
      BY <1>4, <3>1, LeastNumber
  <2>2. CASE n = 0
    <3>1. g[0] = <<>>
      BY <1>1, <1>3 DEF KeptFrom
    <3>2. KeptOK(q, S, T, 0, <<>>)
      BY DEF KeptOK, Distinct
    <3> QED
      BY <2>1, <2>2, <3>1, <3>2
  <2>3. CASE n # 0
    <3>1. n \in 1..Len(q) /\ n - 1 \in 0..Len(q) /\ n - 1 \notin U
      BY <1>1, <2>1, <2>3
    <3>2. KeptOK(q, S, T, n - 1, g[n - 1])
      BY <3>1
    <3>3. g[n] = IF q[n] \in S THEN Append(g[n - 1], q[n]) ELSE g[n - 1]
      BY <1>3, <3>1 DEF KeptFrom
    <3> QED
      BY <2>1, <3>1, <3>2, <3>3, KeptStep
  <2> QED
    BY <2>2, <2>3
<1>5. Len(q) \in 0..Len(q)
  BY <1>1
<1> QED
  BY <1>2, <1>4, <1>5


-----------------------------------------------------------------------------
(* Queues of times, in the order of the clock.                               *)

InOrder(q) == \A i, j \in 1..Len(q) : i <= j => q[i] <= q[j]

\* The last elements of q, one for each of p, are no more than d below those of p.
Matched(p, q, d) ==
  Len(p) <= Len(q) /\ \A i \in 1..Len(p) : p[i] <= q[Len(q) - Len(p) + i] + d

\* In a queue in order everything that is not above the cutoff is dropped.
THEOREM DropInOrder ==
  ASSUME NEW q \in Seq(Int), InOrder(q), NEW cutoff \in Int
  PROVE  /\ InOrder(DropUpTo(q, cutoff))
         /\ \A i \in 1..Len(DropUpTo(q, cutoff)) :
              DropUpTo(q, cutoff)[i] > cutoff /\ \E j \in 1..Len(q) : DropUpTo(q, cutoff)[i] = q[j]
<1> DEFINE r == DropUpTo(q, cutoff)
<1>1. PICK k \in 0..Len(q) :
        /\ r \in Seq(Int) /\ Len(r) = Len(q) - k
        /\ \A i \in 1..(Len(q) - k) : r[i] = q[k + i]
        /\ k < Len(q) => q[k + 1] > cutoff
  BY DropElements
<1> HIDE DEF r
<1>2. Len(q) \in Nat /\ \A i \in 1..Len(q) : q[i] \in Int
  BY ElementOfSeq
<1>3. ASSUME NEW i \in 1..Len(r), NEW j \in 1..Len(r), i <= j PROVE r[i] <= r[j]
  <2>1. k + i \in 1..Len(q) /\ k + j \in 1..Len(q) /\ k + i <= k + j
    BY <1>1, <1>2, <1>3
  <2>2. q[k + i] <= q[k + j] /\ r[i] = q[k + i] /\ r[j] = q[k + j]
    BY <1>1, <1>2, <2>1 DEF InOrder
  <2> QED
    BY <2>2
<1>4. ASSUME NEW i \in 1..Len(r) PROVE r[i] > cutoff /\ \E j \in 1..Len(q) : r[i] = q[j]
  <2>1. k + i \in 1..Len(q) /\ k + 1 \in 1..Len(q) /\ k + 1 <= k + i /\ r[i] = q[k + i]
    BY <1>1, <1>2
  <2>2. q[k + 1] <= q[k + i] /\ q[k + 1] > cutoff
    BY <1>1, <1>2, <2>1 DEF InOrder
  <2> QED
    BY <1>2, <2>1, <2>2
<1>5. InOrder(r)
  BY <1>3 DEF InOrder
<1> QED
  BY <1>4, <1>5 DEF r

\* A queue in order stays so when a later time comes behind it.
THEOREM AppendInOrder ==
  ASSUME NEW q \in Seq(Int), InOrder(q), NEW x \in Int, \A i \in 1..Len(q) : q[i] <= x
  PROVE  InOrder(Append(q, x))
<1>1. /\ Len(q) \in Nat /\ Len(Append(q, x)) = Len(q) + 1 /\ Append(q, x)[Len(q) + 1] = x
      /\ \A i \in 1..Len(q) : Append(q, x)[i] = q[i]
  OBVIOUS
<1> QED
  BY <1>1 DEF InOrder

\* What is matched stays so while only elements are dropped that are below it.
THEOREM MatchedDrop ==
  ASSUME NEW p \in Seq(Int), NEW q \in Seq(Int), NEW d \in Nat, Matched(p, q, d),
         NEW cutoff \in Int, \A i \in 1..Len(p) : p[i] > cutoff + d
  PROVE  Matched(p, DropUpTo(q, cutoff), d)
<1> DEFINE r == DropUpTo(q, cutoff)
<1>1. PICK k \in 0..Len(q) :
        /\ r \in Seq(Int) /\ Len(r) = Len(q) - k
        /\ \A i \in 1..(Len(q) - k) : r[i] = q[k + i]
        /\ \A j \in 1..k : q[j] <= cutoff
  BY DropElements
<1> HIDE DEF r
<1>2. /\ Len(q) \in Nat /\ Len(p) \in Nat /\ Len(p) <= Len(q)
      /\ \A i \in 1..Len(q) : q[i] \in Int
      /\ \A i \in 1..Len(p) : p[i] \in Int
  BY ElementOfSeq DEF Matched
<1>3. Len(p) <= Len(q) - k
  <2> SUFFICES ASSUME Len(q) - k < Len(p) PROVE FALSE
    BY <1>1, <1>2
  <2>1. Len(q) - Len(p) + 1 \in 1..k /\ 1 \in 1..Len(p) /\ Len(q) - Len(p) + 1 \in 1..Len(q)
    BY <1>1, <1>2
  <2>2. q[Len(q) - Len(p) + 1] <= cutoff
    BY <1>1, <2>1
  <2>3. p[1] <= q[Len(q) - Len(p) + 1] + d
    BY <2>1 DEF Matched
  <2>4. p[1] \in Int /\ q[Len(q) - Len(p) + 1] \in Int /\ p[1] > cutoff + d
    BY <1>2, <2>1, ElementOfSeq
  <2> QED
    BY <2>2, <2>3, <2>4
<1>4. ASSUME NEW i \in 1..Len(p) PROVE p[i] <= r[Len(r) - Len(p) + i] + d
  <2>1. Len(r) - Len(p) + i \in 1..(Len(q) - k) /\ k + (Len(r) - Len(p) + i) = Len(q) - Len(p) + i
    BY <1>1, <1>2, <1>3
  <2>2. r[Len(r) - Len(p) + i] = q[Len(q) - Len(p) + i]
    BY <1>1, <2>1
  <2> QED
    BY <2>2 DEF Matched
<1>5. Matched(p, r, d)
  BY <1>1, <1>3, <1>4 DEF Matched
<1> QED
  BY <1>5 DEF r

\* Dropping elements of p leaves the others matched.
THEOREM DropMatched ==
  ASSUME NEW p \in Seq(Int), NEW q \in Seq(Int), NEW d \in Nat, Matched(p, q, d),
         NEW cutoff \in Int
  PROVE  Matched(DropUpTo(p, cutoff), q, d)
<1> DEFINE r == DropUpTo(p, cutoff)
<1>1. PICK k \in 0..Len(p) :
        /\ r \in Seq(Int) /\ Len(r) = Len(p) - k
        /\ \A i \in 1..(Len(p) - k) : r[i] = p[k + i]
  BY DropElements
<1> HIDE DEF r
<1>2. Len(p) \in Nat /\ Len(q) \in Nat /\ Len(p) <= Len(q) /\ Len(r) <= Len(q)
  BY <1>1 DEF Matched
<1>3. ASSUME NEW i \in 1..Len(r) PROVE r[i] <= q[Len(q) - Len(r) + i] + d
  <2>1. k + i \in 1..Len(p) /\ Len(q) - Len(p) + (k + i) = Len(q) - Len(r) + i
    BY <1>1, <1>2
  <2>2. p[k + i] <= q[Len(q) - Len(p) + (k + i)] + d
    BY <2>1 DEF Matched
  <2>3. r[i] = p[k + i]
    BY <1>1
  <2> QED
    BY <2>1, <2>2, <2>3
<1>4. Matched(r, q, d)
  BY <1>2, <1>3 DEF Matched
<1> QED
  BY <1>4 DEF r

\* One more element of each.
THEOREM AppendMatched ==
  ASSUME NEW p \in Seq(Int), NEW q \in Seq(Int), NEW d \in Nat, Matched(p, q, d),
         NEW x \in Int, NEW y \in Int, x <= y + d
  PROVE  Matched(Append(p, x), Append(q, y), d)
<1>1. Len(p) \in Nat /\ Len(q) \in Nat /\ Len(p) <= Len(q)
  BY DEF Matched
<1>2. /\ Len(Append(p, x)) = Len(p) + 1 /\ Len(Append(q, y)) = Len(q) + 1
      /\ Append(p, x)[Len(p) + 1] = x /\ Append(q, y)[Len(q) + 1] = y
      /\ \A i \in 1..Len(p) : Append(p, x)[i] = p[i]
      /\ \A i \in 1..Len(q) : Append(q, y)[i] = q[i]
  OBVIOUS
<1>3. ASSUME NEW i \in 1..(Len(p) + 1)
      PROVE  Append(p, x)[i] <= Append(q, y)[(Len(q) + 1) - (Len(p) + 1) + i] + d
  <2>1. CASE i = Len(p) + 1
    <3>1. (Len(q) + 1) - (Len(p) + 1) + i = Len(q) + 1
      BY <1>1, <2>1
    <3> QED
      BY <1>2, <2>1, <3>1
  <2>2. CASE i # Len(p) + 1
    <3>1. /\ i \in 1..Len(p) /\ Len(q) - Len(p) + i \in 1..Len(q)
          /\ (Len(q) + 1) - (Len(p) + 1) + i = Len(q) - Len(p) + i
      BY <1>1, <2>2
    <3>2. p[i] <= q[Len(q) - Len(p) + i] + d
      BY <3>1 DEF Matched
    <3> QED
      BY <1>2, <3>1, <3>2
  <2> QED
    BY <2>1, <2>2
<1> DEFINE a == Append(p, x)
           b == Append(q, y)
<1>4. Len(a) = Len(p) + 1 /\ Len(b) = Len(q) + 1
  BY <1>2
<1>5. \A i \in 1..Len(a) : a[i] <= b[Len(b) - Len(a) + i] + d
  BY <1>3, <1>4
<1> HIDE DEF a, b
<1>6. Matched(a, b, d)
  BY <1>1, <1>4, <1>5 DEF Matched
<1> QED
  BY <1>6 DEF a, b

-----------------------------------------------------------------------------
(* ReadOn.                                                                   *)

Increasing(q) == \A i, j \in 1..Len(q) : i < j => q[i] < q[j]

\* The last key is the greatest.
THEOREM LastKeyGreatest ==
  ASSUME NEW q \in Seq(Nat \ {0}), Increasing(q)
  PROVE  LastKey(q) \in Nat /\ \A i \in 1..Len(q) : q[i] \in Nat \ {0} /\ q[i] <= LastKey(q)
<1>1. Len(q) \in Nat /\ \A i \in 1..Len(q) : q[i] \in Nat \ {0}
  BY ElementOfSeq
<1>2. CASE q = <<>>
  BY <1>1, <1>2 DEF LastKey
<1>3. CASE q # <<>>
  <2>1. Len(q) \in 1..Len(q) /\ LastKey(q) = q[Len(q)]
    BY <1>1, <1>3, EmptySeq DEF LastKey
  <2>2. ASSUME NEW i \in 1..Len(q) PROVE q[i] <= q[Len(q)]
    <3>1. i < Len(q) \/ i = Len(q)
      BY <1>1
    <3> QED
      BY <1>1, <2>1, <3>1 DEF Increasing
  <2> QED
    BY <1>1, <2>1, <2>2
<1> QED
  BY <1>2, <1>3

\* What at most n more rows of a table of keys K, taken in their order, look like.
ReadOnOK(K, table, read, n, all) ==
  /\ all \in Seq(K) /\ Increasing(all)
  /\ Len(read) <= Len(all) /\ Len(all) <= Len(read) + n
  /\ \A i \in 1..Len(read) : all[i] = read[i]
  /\ \A i \in (Len(read) + 1)..Len(all) : all[i] \in table
  /\ \A k \in table : LastKey(read) < k /\ k <= LastKey(all) => \E i \in 1..Len(all) : all[i] = k
  /\ Len(all) < Len(read) + n => \A k \in table : k <= LastKey(all)

LEMMA ReadOnStep ==
  ASSUME NEW K, K \subseteq Nat \ {0}, NEW table, table \subseteq K, NEW read \in Seq(K),
         NEW n \in Nat, n # 0, NEW all, ReadOnOK(K, table, read, n - 1, all)
  PROVE  ReadOnOK(K, table, read, n, AndNext(table, all))
<1> DEFINE more == {k \in table : k > LastKey(all)}
<1>0. all \in Seq(K) /\ all \in Seq(Nat \ {0})
  <2>1. all \in Seq(K)
    BY DEF ReadOnOK
  <2> QED
    BY <2>1, SeqMonotonic
<1>1. /\ Len(read) \in Nat /\ Len(all) \in Nat /\ all \in Seq(K) /\ all \in Seq(Nat \ {0})
      /\ Increasing(all) /\ Len(read) <= Len(all) /\ Len(all) <= Len(read) + (n - 1)
      /\ \A k \in table : k \in Nat
  BY <1>0 DEF ReadOnOK
<1>2. LastKey(all) \in Nat /\ \A i \in 1..Len(all) : all[i] \in Nat \ {0} /\ all[i] <= LastKey(all)
  BY <1>1, LastKeyGreatest
<1>3. CASE more = {}
  <2>1. AndNext(table, all) = all
    BY <1>3 DEF AndNext
  <2>2. \A k \in table : k <= LastKey(all)
    BY <1>1, <1>2, <1>3
  <2>3. Len(all) <= Len(read) + n
    BY <1>1
  <2> QED
    BY <2>1, <2>2, <2>3 DEF ReadOnOK
<1>4. CASE more # {}
  <2> DEFINE m == CHOOSE k \in more : \A l \in more : k <= l
             new == Append(all, m)
  <2>1. \E k \in more : \A l \in more : k <= l
    <3>1. more \subseteq Nat
      BY <1>1
    <3> HIDE DEF more
    <3> QED
      BY <1>4, <3>1, LeastNumber
  <2>2. m \in more /\ \A l \in more : m <= l
    BY <2>1
  <2>3. AndNext(table, all) = new
    BY <1>4 DEF AndNext
  <2> HIDE DEF m
  <2>4. m \in table /\ m \in K /\ m \in Nat /\ m # 0 /\ m > LastKey(all)
        /\ \A k \in table : k > LastKey(all) => m <= k
    BY <1>1, <2>2
  <2> HIDE DEF more
  <2>5. /\ new \in Seq(K) /\ Len(new) = Len(all) + 1 /\ new[Len(all) + 1] = m
        /\ \A i \in 1..Len(all) : new[i] = all[i]
    BY <1>1, <2>4, AppendProperties
  <2>6. \A i \in 1..Len(new) : i = Len(all) + 1 \/ i \in 1..Len(all)
    BY <1>1, <2>5
  <2> HIDE DEF new
  <2>7. LastKey(new) = m
    <3>1. new # <<>>
      BY <1>1, <2>5, EmptySeq
    <3> QED
      BY <2>5, <3>1 DEF LastKey
  <2>8. Increasing(new)
    <3> SUFFICES ASSUME NEW i \in 1..Len(new), NEW j \in 1..Len(new), i < j PROVE new[i] < new[j]
      BY DEF Increasing
    <3>1. i \in 1..Len(all)
      BY <1>1, <2>5
    <3>2. CASE j \in 1..Len(all)
      BY <1>1, <2>5, <3>1, <3>2 DEF Increasing
    <3>3. CASE j = Len(all) + 1
      BY <1>2, <2>4, <2>5, <3>1, <3>3
    <3> QED
      BY <2>6, <3>2, <3>3
  <2>9. ASSUME NEW k \in table, LastKey(read) < k, k <= LastKey(new)
        PROVE  \E i \in 1..Len(new) : new[i] = k
    <3>1. CASE k > LastKey(all)
      <4>1. k = m
        BY <1>1, <2>4, <2>7, <2>9, <3>1
      <4> QED
        BY <1>1, <2>5, <4>1
    <3>2. CASE k <= LastKey(all)
      <4>1. PICK i \in 1..Len(all) : all[i] = k
        BY <2>9, <3>2 DEF ReadOnOK
      <4> QED
        BY <1>1, <2>5, <4>1
    <3> QED
      BY <1>1, <1>2, <3>1, <3>2
  <2>10. ~ (Len(new) < Len(read) + n)
    <3>1. ASSUME Len(new) < Len(read) + n PROVE FALSE
      <4>1. Len(all) < Len(read) + (n - 1)
        BY <1>1, <2>5, <3>1
      <4>2. m <= LastKey(all)
        BY <2>4, <4>1 DEF ReadOnOK
      <4> QED
        BY <1>2, <2>4, <4>2
    <3> QED
      BY <3>1
  <2>11. \A i \in 1..Len(read) : new[i] = read[i]
    <3> SUFFICES ASSUME NEW i \in 1..Len(read) PROVE new[i] = read[i]
      OBVIOUS
    <3>1. i \in 1..Len(all) /\ all[i] = read[i]
      BY <1>1 DEF ReadOnOK
    <3> QED
      BY <2>5, <3>1
  <2>12. \A i \in (Len(read) + 1)..Len(new) : new[i] \in table
    <3> SUFFICES ASSUME NEW i \in (Len(read) + 1)..Len(new) PROVE new[i] \in table
      OBVIOUS
    <3>1. CASE i = Len(all) + 1
      BY <2>4, <2>5, <3>1
    <3>2. CASE i # Len(all) + 1
      <4>1. i \in (Len(read) + 1)..Len(all) /\ i \in 1..Len(all)
        BY <1>1, <2>5, <3>2
      <4> QED
        BY <2>5, <4>1 DEF ReadOnOK
    <3> QED
      BY <3>1, <3>2
  <2>13. Len(read) <= Len(new) /\ Len(new) <= Len(read) + n
    BY <1>1, <2>5
  <2>14. ReadOnOK(K, table, read, n, new)
    BY <2>5, <2>8, <2>9, <2>10, <2>11, <2>12, <2>13 DEF ReadOnOK
  <2> QED
    BY <2>3, <2>14
<1> QED
  BY <1>3, <1>4

\* The rows read so far, as a function of their number.
GotUpTo(table, read, n, g) ==
  g = [i \in 0..n |-> IF i = 0 THEN read ELSE AndNext(table, g[i - 1])]

\* The recursive function in ReadOn exists, for a page of any size.
LEMMA GotExists == ASSUME NEW table, NEW read PROVE \A n \in Nat : \E g : GotUpTo(table, read, n, g)
<1> DEFINE T == {n \in Nat : ~ \E g : GotUpTo(table, read, n, g)}
<1> SUFFICES ASSUME T # {} PROVE FALSE
  OBVIOUS
<1>1. PICK n \in T : \A m \in T : n <= m
  BY LeastNumber
<1>2. CASE n = 0
  <2> DEFINE g == [i \in 0..0 |-> read]
  <2>1. g = [i \in 0..0 |-> IF i = 0 THEN read ELSE AndNext(table, g[i - 1])]
    OBVIOUS
  <2>2. GotUpTo(table, read, 0, g)
    <3> HIDE DEF g
    <3> QED
      BY <2>1 DEF GotUpTo
  <2> QED
    BY <1>2, <2>2
<1>3. CASE n # 0
  <2>1. n \in Nat /\ n - 1 \in Nat /\ n - 1 \notin T
    BY <1>1, <1>3
  <2>2. PICK g : GotUpTo(table, read, n - 1, g)
    BY <2>1
  <2> DEFINE h == [i \in 0..n |-> IF i = n THEN AndNext(table, g[n - 1]) ELSE g[i]]
  <2>3. \A i \in 0..n : h[i] = IF i = 0 THEN read ELSE AndNext(table, h[i - 1])
    <3> SUFFICES ASSUME NEW i \in 0..n PROVE h[i] = IF i = 0 THEN read ELSE AndNext(table, h[i - 1])
      OBVIOUS
    <3>1. i # 0 => i - 1 \in 0..n /\ i - 1 # n /\ h[i - 1] = g[i - 1]
      BY <2>1
    <3>2. i # n => g[i] = IF i = 0 THEN read ELSE AndNext(table, g[i - 1])
      <4>1. i # n => i \in 0..(n - 1)
        BY <2>1
      <4> QED
        BY <2>2, <4>1 DEF GotUpTo
    <3>3. h[i] = IF i = n THEN AndNext(table, g[n - 1]) ELSE g[i]
      OBVIOUS
    <3> QED
      BY <1>3, <3>1, <3>2, <3>3
  <2>4. GotUpTo(table, read, n, h)
    <3>1. h = [i \in 0..n |-> h[i]]
      OBVIOUS
    <3> HIDE DEF h
    <3> QED
      BY <2>3, <3>1 DEF GotUpTo
  <2> QED
    BY <1>1, <2>4
<1> QED
  BY <1>2, <1>3

LEMMA ReadOnUnfolds ==
  ASSUME NEW table, NEW read, NEW n \in Nat
  PROVE  \E g : GotUpTo(table, read, n, g) /\ ReadOn(table, read, n) = g[n]
<1> DEFINE g == CHOOSE f : f = [i \in 0..n |-> IF i = 0 THEN read ELSE AndNext(table, f[i - 1])]
<1>1. \E f : f = [i \in 0..n |-> IF i = 0 THEN read ELSE AndNext(table, f[i - 1])]
  <2>1. PICK f : GotUpTo(table, read, n, f)
    BY GotExists
  <2> QED
    BY <2>1, Zenon DEF GotUpTo
<1>2. g = [i \in 0..n |-> IF i = 0 THEN read ELSE AndNext(table, g[i - 1])]
  BY <1>1
<1>3. ReadOn(table, read, n) = g[n]
  BY DEF ReadOn
<1> HIDE DEF g
<1>4. GotUpTo(table, read, n, g)
  BY <1>2 DEF GotUpTo
<1> QED
  BY <1>3, <1>4

\* A page continues the reading without a gap: the keys stay in order, no row of the table
\* between the last key before it and the last key after it is missing, and after a page
\* that is not full none is left, whatever the table held when earlier pages were read.
THEOREM ReadOnFacts ==
  ASSUME NEW K, K \subseteq Nat \ {0}, NEW table, table \subseteq K, NEW read \in Seq(K),
         Increasing(read), NEW n \in Nat
  PROVE  ReadOnOK(K, table, read, n, ReadOn(table, read, n))
<1>1. PICK g : GotUpTo(table, read, n, g) /\ ReadOn(table, read, n) = g[n]
  BY ReadOnUnfolds
<1>2. \A i \in 0..n : g[i] = IF i = 0 THEN read ELSE AndNext(table, g[i - 1])
  BY <1>1 DEF GotUpTo
<1> DEFINE U == {i \in 0..n : ~ReadOnOK(K, table, read, i, g[i])}
<1>3. ASSUME U # {} PROVE FALSE
  <2>1. PICK i \in U : \A m \in U : i <= m
    <3>1. U \subseteq Nat
      OBVIOUS
    <3> HIDE DEF U
    <3> QED
      BY <1>3, <3>1, LeastNumber
  <2>2. CASE i = 0
    <3>1. g[0] = read
      BY <1>2
    <3>2. read \in Seq(Nat \ {0}) /\ Len(read) \in Nat
      <4>1. read \in Seq(Nat \ {0})
        BY SeqMonotonic
      <4> QED
        BY <4>1
    <3>3. LastKey(read) \in Nat /\ \A k \in table : k \in Nat
      BY <3>2, LastKeyGreatest
    <3>4. ReadOnOK(K, table, read, 0, read)
      BY <3>2, <3>3 DEF ReadOnOK
    <3> QED
      BY <2>1, <2>2, <3>1, <3>4
  <2>3. CASE i # 0
    <3>1. i \in Nat /\ i - 1 \in 0..n /\ i - 1 \notin U /\ g[i] = AndNext(table, g[i - 1])
      BY <1>2, <2>1, <2>3
    <3>2. ReadOnOK(K, table, read, i - 1, g[i - 1])
      BY <3>1
    <3>3. ReadOnOK(K, table, read, i, AndNext(table, g[i - 1]))
      BY <2>3, <3>1, <3>2, ReadOnStep
    <3> QED
      BY <2>1, <3>1, <3>3
  <2> QED
    BY <2>2, <2>3
<1>4. n \in 0..n
  OBVIOUS
<1> QED
  BY <1>1, <1>3, <1>4


=============================================================================
