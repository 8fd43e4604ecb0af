--------------------------- MODULE AllocationProofs ---------------------------
(***************************************************************************)
(* What the two loops called smallestUnused return, for vectors of any     *)
(* length: by induction over the loop, on what sorting is for.             *)
(***************************************************************************)
EXTENDS Allocation, ArenaProofs

-----------------------------------------------------------------------------
(* Sorting *)

\* s has the values of f, of which at tells the places, in their order.
Orders(s, at, f) ==
    /\ s \in Seq(Nat) /\ Len(s) = Cardinality(DOMAIN f)
    /\ at \in Bijection(1 .. Len(s), DOMAIN f)
    /\ \A n \in 1 .. Len(s) : s[n] = f[at[n]]
    /\ \A m, n \in 1 .. Len(s) : m < n => s[m] <= s[n]

Numbered(f) ==
    /\ IsFiniteSet(DOMAIN f) /\ DOMAIN f \subseteq Nat
    /\ \A i \in DOMAIN f : f[i] \in Nat

\* The places before i: fewer than there are, and more of them for a place
\* that i is before.
LEMMA BeforeIsRank ==
    ASSUME NEW f, Numbered(f), NEW i \in DOMAIN f
    PROVE  /\ Cardinality(Before(f, i)) \in 0 .. Cardinality(DOMAIN f) - 1
           /\ \A j \in DOMAIN f : i \in Before(f, j) =>
                 Cardinality(Before(f, i)) < Cardinality(Before(f, j))
<1> DEFINE D == DOMAIN f
<1>1. IsFiniteSet(D) /\ Cardinality(D) \in Nat
  BY FS_CardinalityType DEF Numbered
<1>2. \A j \in D : IsFiniteSet(Before(f, j)) /\ Cardinality(Before(f, j)) \in Nat
  BY <1>1, FS_Subset, FS_CardinalityType DEF Before
<1>3. i \notin Before(f, i)
  BY DEF Before, Numbered
<1>4. Cardinality(Before(f, i)) < Cardinality(D)
  <2>1. Before(f, i) \in SUBSET D /\ Before(f, i) # D
    BY <1>3 DEF Before
  <2>2. /\ Cardinality(Before(f, i)) <= Cardinality(D)
        /\ Cardinality(D) # Cardinality(Before(f, i))
    BY <1>1, <2>1, FS_Subset
  <2> QED
    BY <1>1, <1>2, <2>2
<1>5. ASSUME NEW j \in D, i \in Before(f, j)
      PROVE  Cardinality(Before(f, i)) < Cardinality(Before(f, j))
  <2>1. \A k \in D : k \in Before(f, i) => k \in Before(f, j)
    BY <1>5 DEF Before, Numbered
  <2>2. Before(f, i) \in SUBSET Before(f, j) /\ Before(f, i) # Before(f, j)
    BY <1>3, <1>5, <2>1 DEF Before
  <2>3. /\ Cardinality(Before(f, i)) <= Cardinality(Before(f, j))
        /\ Cardinality(Before(f, j)) # Cardinality(Before(f, i))
    BY <1>2, <1>5, <2>2, FS_Subset
  <2> QED
    BY <1>2, <1>5, <2>3
<1> QED
  BY <1>1, <1>2, <1>4, <1>5

\* InOrder puts every place of f in a place of its own, the smaller first.
LEMMA InOrderOrders ==
    ASSUME NEW f, Numbered(f)
    PROVE  \E at : Orders(InOrder(f), at, f)
<1> DEFINE D == DOMAIN f
           N == Cardinality(D)
           rank == [i \in D |-> Cardinality(Before(f, i)) + 1]
           at == [n \in 1 .. N |-> CHOOSE i \in D : Cardinality(Before(f, i)) = n - 1]
           s == InOrder(f)
<1>1. /\ IsFiniteSet(D) /\ N \in Nat /\ D \subseteq Nat
      /\ \A i \in D : f[i] \in Nat
  BY FS_CardinalityType DEF Numbered
<1>2. IsFiniteSet(1 .. N) /\ Cardinality(1 .. N) = N
  BY <1>1, FS_Interval
<1>3. \A i \in D : Cardinality(Before(f, i)) \in 0 .. N - 1
  BY BeforeIsRank
<1>4. \A i, j \in D : i \in Before(f, j) =>
         Cardinality(Before(f, i)) < Cardinality(Before(f, j))
  BY BeforeIsRank
<1>5. \A i, j \in D : i # j => i \in Before(f, j) \/ j \in Before(f, i)
  BY <1>1 DEF Before
<1> HIDE DEF N
<1>6. rank \in Injection(D, 1 .. N)
  <2>1. rank \in [D -> 1 .. N]
    BY <1>1, <1>3
  <2>2. \A i, j \in D : rank[i] = rank[j] => i = j
    BY <1>3, <1>4, <1>5
  <2> QED
    BY <2>1, <2>2 DEF Injection, IsInjective
<1>7. rank \in Surjection(D, 1 .. N)
  BY <1>1, <1>2, <1>6, FS_Injection DEF N
<1>8. ASSUME NEW n \in 1 .. N
      PROVE  at[n] \in D /\ rank[at[n]] = n
  <2>1. PICK i \in D : rank[i] = n
    BY <1>7 DEF Surjection
  <2>2. Cardinality(Before(f, i)) = n - 1
    BY <1>1, <1>3, <2>1
  <2>3. at[n] \in D /\ Cardinality(Before(f, at[n])) = n - 1
    BY <2>2
  <2> QED
    BY <1>1, <1>3, <2>3
<1>9. at \in Bijection(1 .. N, D)
  <2>1. at \in [1 .. N -> D]
    BY <1>8
  <2>2. \A m, n \in 1 .. N : at[m] = at[n] => m = n
    BY <1>8
  <2>3. \A i \in D : \E n \in 1 .. N : at[n] = i
    <3> SUFFICES ASSUME NEW i \in D
                 PROVE  \E n \in 1 .. N : at[n] = i
      OBVIOUS
    <3>1. rank[i] \in 1 .. N /\ rank[at[rank[i]]] = rank[i] /\ at[rank[i]] \in D
      BY <1>6, <1>8 DEF Injection
    <3>2. at[rank[i]] = i
      <4> HIDE DEF rank, at
      <4> QED
        BY <1>6, <3>1 DEF Injection, IsInjective
    <3> QED
      BY <3>1, <3>2
  <2> HIDE DEF at
  <2> QED
    BY <2>1, <2>2, <2>3 DEF Bijection, Injection, Surjection, IsInjective
<1>10. s = [n \in 1 .. N |-> f[at[n]]]
  BY DEF InOrder, N
<1>11. ASSUME NEW m \in 1 .. N, NEW n \in 1 .. N, m < n
       PROVE  f[at[m]] <= f[at[n]]
  <2>1. /\ at[m] \in D /\ at[n] \in D
        /\ rank[at[m]] = m /\ rank[at[n]] = n
    BY <1>8
  <2>2. ~(Cardinality(Before(f, at[n])) < Cardinality(Before(f, at[m])))
    BY <1>3, <1>11, <2>1
  <2> HIDE DEF at, rank
  <2>3. at[n] \notin Before(f, at[m])
    BY <1>4, <2>1, <2>2
  <2> QED
    BY <1>1, <2>1, <2>3 DEF Before
<1> HIDE DEF at, s, rank
<1>12. s \in Seq(Nat) /\ Len(s) = N
  <2>1. s \in [1 .. N -> Nat]
    BY <1>1, <1>8, <1>10
  <2> QED
    BY <1>1, <2>1
<1>13. Orders(s, at, f)
  BY <1>9, <1>10, <1>11, <1>12 DEF Orders, N
<1> QED
  BY <1>13 DEF s

-----------------------------------------------------------------------------
(* The loop *)

\* f[n] is what the loop has after n elements.
IsLoop(f, s, n) ==
    f = [i \in 0 .. n |-> IF i = 0 THEN [v |-> 0, over |-> FALSE]
                          ELSE Step(f[i - 1], s[i])]

\* The recursive function in CountUp exists, by induction over its domain.
LEMMA LoopExists ==
    ASSUME NEW s, NEW n \in Nat
    PROVE  \E f : IsLoop(f, s, n)
<1> DEFINE first == [v |-> 0, over |-> FALSE]
           T == {m \in Nat : \E f : IsLoop(f, s, m)}
<1>1. 0 \in T
  <2>1. IsLoop([i \in 0 .. 0 |-> first], s, 0)
    BY DEF IsLoop
  <2> QED
    BY <2>1
<1>2. ASSUME NEW m \in Nat, m \in T
      PROVE  m + 1 \in T
  <2>1. PICK f : IsLoop(f, s, m)
    BY <1>2
  <2> DEFINE g == [i \in 0 .. m + 1 |->
                      IF i = m + 1 THEN Step(f[m], s[m + 1]) ELSE f[i]]
  <2>2. \A i \in 0 .. m : f[i] = IF i = 0 THEN first ELSE Step(f[i - 1], s[i])
    BY <2>1 DEF IsLoop
  <2>3. ASSUME NEW i \in 0 .. m + 1
        PROVE  g[i] = IF i = 0 THEN first ELSE Step(g[i - 1], s[i])
    <3>1. CASE i = m + 1
      BY <3>1
    <3>2. CASE i # m + 1
      <4>1. i \in 0 .. m /\ g[i] = f[i] /\ (i # 0 => g[i - 1] = f[i - 1])
        BY <3>2
      <4> QED
        BY <4>1, <2>2
    <3> QED
      BY <3>1, <3>2
  <2>4. g = [i \in 0 .. m + 1 |-> g[i]]
    OBVIOUS
  <2> HIDE DEF g
  <2>5. IsLoop(g, s, m + 1)
    BY <2>3, <2>4 DEF IsLoop
  <2> QED
    BY <2>5
<1> HIDE DEF T
<1>3. Nat \subseteq T
  BY <1>1, <1>2, Induction
<1> QED
  BY <1>3 DEF T

\* The loop counts the elements that are where they would be without gaps
\* and without repetitions, up to the first one that is not.
CountedTo(v, s) ==
    /\ v \in 0 .. Len(s)
    /\ \A i \in 1 .. v : s[i] = i - 1
    /\ v < Len(s) => s[v + 1] # v

\* What is true of the loop after n elements.
LoopInv(loop, s, n) ==
    /\ loop \in [v : 0 .. n, over : BOOLEAN]
    /\ \A i \in 1 .. loop.v : s[i] = i - 1
    /\ IF loop.over THEN loop.v < n /\ s[loop.v + 1] # loop.v ELSE loop.v = n

LEMMA StepKeeps ==
    ASSUME NEW s \in Seq(Nat), NEW n \in Nat, n < Len(s), NEW loop, LoopInv(loop, s, n)
    PROVE  LoopInv(Step(loop, s[n + 1]), s, n + 1)
<1> DEFINE x == s[n + 1]
           next == Step(loop, x)
<1>1. /\ loop \in [v : 0 .. n, over : BOOLEAN]
      /\ \A i \in 1 .. loop.v : s[i] = i - 1
      /\ loop.over => loop.v < n /\ s[loop.v + 1] # loop.v
      /\ ~loop.over => loop.v = n
  BY DEF LoopInv
<1>2. CASE ~loop.over /\ x = loop.v
  <2>1. next = [v |-> n + 1, over |-> FALSE]
    BY <1>1, <1>2 DEF Step
  <2>2. \A i \in 1 .. n + 1 : s[i] = i - 1
    BY <1>1, <1>2
  <2> HIDE DEF next
  <2> QED
    BY <2>1, <2>2 DEF LoopInv, next
<1>3. CASE loop.over \/ x # loop.v
  <2>1. next = [v |-> loop.v, over |-> TRUE]
    BY <1>1, <1>3 DEF Step
  <2>2. loop.v < n + 1 /\ s[loop.v + 1] # loop.v
    BY <1>1, <1>3
  <2> HIDE DEF next
  <2> QED
    BY <1>1, <2>1, <2>2 DEF LoopInv, next
<1> QED
  BY <1>2, <1>3

LEMMA CountUpCounts ==
    ASSUME NEW s \in Seq(Nat)
    PROVE  CountedTo(CountUp(s), s)
<1> DEFINE N == Len(s)
           f == CHOOSE f : IsLoop(f, s, N)
           T == {n \in Nat : n <= N => LoopInv(f[n], s, n)}
<1>1. N \in Nat
  OBVIOUS
<1>2. IsLoop(f, s, N)
  BY <1>1, LoopExists
<1>3. CountUp(s) = f[N].v
  BY DEF CountUp, IsLoop
<1> HIDE DEF f, N
<1>4. /\ f[0] = [v |-> 0, over |-> FALSE]
      /\ \A n \in 1 .. N : f[n] = Step(f[n - 1], s[n])
  <2>1. f = [i \in 0 .. N |-> IF i = 0 THEN [v |-> 0, over |-> FALSE]
                              ELSE Step(f[i - 1], s[i])]
    BY <1>2 DEF IsLoop
  <2>2. \A i \in 0 .. N : f[i] = IF i = 0 THEN [v |-> 0, over |-> FALSE]
                                ELSE Step(f[i - 1], s[i])
    BY <2>1
  <2>3. 0 \in 0 .. N /\ \A n \in 1 .. N : n \in 0 .. N /\ n # 0
    BY <1>1
  <2> QED
    BY <2>2, <2>3
<1>5. 0 \in T
  <2>1. LoopInv([v |-> 0, over |-> FALSE], s, 0)
    BY DEF LoopInv
  <2> QED
    BY <1>4, <2>1
<1>6. ASSUME NEW n \in Nat, n \in T
      PROVE  n + 1 \in T
  <2> SUFFICES ASSUME n + 1 <= N
               PROVE  LoopInv(f[n + 1], s, n + 1)
    OBVIOUS
  <2>1. f[n + 1] = Step(f[n], s[n + 1])
    BY <1>1, <1>4
  <2>2. LoopInv(f[n], s, n) /\ n < N
    BY <1>1, <1>6
  <2> QED
    BY <2>1, <2>2, StepKeeps DEF N
<1>7. N \in T
  <2> HIDE DEF T
  <2> QED
    BY <1>1, <1>5, <1>6, Induction
<1>8. LoopInv(f[N], s, N)
  BY <1>1, <1>7
<1> QED
  BY <1>1, <1>3, <1>8 DEF LoopInv, CountedTo, N

-----------------------------------------------------------------------------
(* What the loop finds *)

\* The smallest number at which the allocation of f may stop.
FirstStop(f, v) ==
    /\ v \in Counts(f) /\ StopsAt(f, v)
    /\ \A u \in 0 .. v - 1 : ~StopsAt(f, u)

\* In the sorted values the loop stops at a gap or after a repetition: the
\* values before are 0, 1, 2, ..., once each.
LEMMA CountIsFirstStop ==
    ASSUME NEW f, Numbered(f), NEW s, NEW at, Orders(s, at, f),
           NEW v, CountedTo(v, s)
    PROVE  FirstStop(f, v)
<1> DEFINE N == Len(s)
<1>1. /\ N \in Nat /\ N = Cardinality(DOMAIN f)
      /\ \A n \in 1 .. N : s[n] \in Nat
      /\ \A m, n \in 1 .. N : m < n => s[m] <= s[n]
      /\ v \in 0 .. N /\ \A n \in 1 .. v : s[n] = n - 1
      /\ v < N => s[v + 1] # v
  BY DEF Orders, CountedTo
<1>2. /\ \A n \in 1 .. N : at[n] \in DOMAIN f /\ f[at[n]] = s[n]
      /\ \A m, n \in 1 .. N : at[m] = at[n] => m = n
      /\ \A i \in DOMAIN f : \E n \in 1 .. N : at[n] = i
  BY DEF Orders, Bijection, Injection, Surjection, IsInjective
<1> HIDE DEF N
\* What comes after the place v is v at least, and more if v + 1 has not v.
<1>3. ASSUME NEW n \in 1 .. N, n > v, 0 < v
      PROVE  v - 1 <= s[n]
  <2>1. v \in 1 .. N /\ s[v] = v - 1 /\ v < n
    BY <1>1, <1>3
  <2> QED
    BY <1>1, <2>1
<1>4. ASSUME NEW u \in 0 .. v - 1
      PROVE  ~StopsAt(f, u)
  <2>1. u + 1 \in 1 .. N /\ u + 1 \in 1 .. v /\ u \in Nat /\ s[u + 1] = u
    BY <1>1, <1>4
  <2>2. IsUsed(f, u)
    BY <1>2, <2>1 DEF IsUsed
  <2>3. ASSUME u > 0, NEW i \in DOMAIN f, NEW j \in DOMAIN f, i # j,
               f[i] = u - 1, f[j] = u - 1
        PROVE  FALSE
    <3>1. PICK m \in 1 .. N : at[m] = i
      BY <1>2
    <3>2. PICK n \in 1 .. N : at[n] = j
      BY <1>2
    <3>3. s[m] = u - 1 /\ s[n] = u - 1 /\ m # n
      BY <1>2, <2>3, <3>1, <3>2
    <3>4. \A x \in 1 .. N : s[x] = u - 1 => x = u
      <4> SUFFICES ASSUME NEW x \in 1 .. N, s[x] = u - 1
                   PROVE  x = u
        OBVIOUS
      <4>1. CASE x > u
        <5>1. s[u + 1] <= s[x]
          <6>1. u + 1 < x \/ u + 1 = x
            BY <2>1, <4>1
          <6> QED
            BY <1>1, <2>1, <6>1
        <5> QED
          BY <2>1, <5>1
      <4>2. CASE x <= u
        <5>1. x \in 1 .. v
          BY <1>1, <1>4, <2>1, <4>2
        <5> QED
          BY <1>1, <2>1, <5>1
      <4> QED
        BY <2>1, <4>1, <4>2
    <3> QED
      BY <3>3, <3>4
  <2> QED
    BY <2>2, <2>3 DEF StopsAt, IsDuplicated
<1>5. StopsAt(f, v)
  <2> SUFFICES ASSUME IsUsed(f, v)
               PROVE  v > 0 /\ IsDuplicated(f, v - 1)
    BY DEF StopsAt
  <2>1. PICK i \in DOMAIN f : f[i] = v
    BY DEF IsUsed
  <2>2. PICK n \in 1 .. N : at[n] = i
    BY <1>2
  <2>3. s[n] = v /\ v < n
    <3>1. s[n] = v
      BY <1>2, <2>1, <2>2
    <3>2. n \in 1 .. v => s[n] = n - 1
      BY <1>1
    <3> QED
      BY <1>1, <3>1, <3>2
  <2>4. v + 1 \in 1 .. N /\ v < N
    BY <1>1, <2>3
  <2>5. s[v + 1] <= v
    <3>1. v + 1 < n \/ v + 1 = n
      BY <1>1, <2>3
    <3> QED
      BY <1>1, <2>3, <2>4, <3>1
  <2>6. s[v + 1] \in Nat /\ s[v + 1] < v
    BY <1>1, <2>4, <2>5
  <2>7. v > 0 /\ v \in 1 .. N /\ v # v + 1
    BY <1>1, <2>6
  <2>8. s[v + 1] = v - 1 /\ s[v] = v - 1
    <3>1. v - 1 <= s[v + 1]
      BY <1>1, <1>3, <2>4, <2>7
    <3> QED
      BY <1>1, <2>6, <2>7, <3>1
  <2>9. /\ at[v] \in DOMAIN f /\ at[v + 1] \in DOMAIN f /\ at[v] # at[v + 1]
        /\ f[at[v]] = v - 1 /\ f[at[v + 1]] = v - 1
    BY <1>2, <2>4, <2>7, <2>8
  <2> QED
    BY <2>7, <2>9 DEF IsDuplicated
<1>6. v \in Counts(f)
  BY <1>1 DEF Counts
<1> QED
  BY <1>4, <1>5, <1>6 DEF FirstStop

\* Both loops sort, count, and stop there.
LEMMA LoopIsFirstStop ==
    ASSUME NEW f, Numbered(f)
    PROVE  FirstStop(f, CountUp(InOrder(f)))
<1>1. PICK at : Orders(InOrder(f), at, f)
  BY InOrderOrders
<1>2. CountedTo(CountUp(InOrder(f)), InOrder(f))
  BY <1>1, CountUpCounts DEF Orders
<1> QED
  BY <1>1, <1>2, CountIsFirstStop

\* There is one smallest number.
LEMMA FirstStopIsOne ==
    ASSUME NEW f, IsFiniteSet(DOMAIN f), NEW v, NEW w, FirstStop(f, v), FirstStop(f, w)
    PROVE  v = w
<1>1. v \in Nat /\ w \in Nat
  BY FS_CardinalityType DEF FirstStop, Counts
<1>2. ~(v < w) /\ ~(w < v)
  BY <1>1 DEF FirstStop
<1> QED
  BY <1>1, <1>2

-----------------------------------------------------------------------------
(* The vector and the map *)

keyOf == [key \in Found |-> key]

LEMMA NumbersAreNumbered ==
    ASSUME numbers \in Seq(Nat)
    PROVE  /\ Numbered(numbers) /\ Cardinality(DOMAIN numbers) = Len(numbers)
           /\ Numbered(keyOf) /\ DOMAIN keyOf = Found
<1> DEFINE N == Len(numbers)
<1>1. N \in Nat /\ DOMAIN numbers = 1 .. N /\ \A i \in 1 .. N : numbers[i] \in Nat
  OBVIOUS
<1> HIDE DEF N
<1>2. IsFiniteSet(1 .. N) /\ Cardinality(1 .. N) = N
  BY <1>1, FS_Interval
<1>3. numbers \in Surjection(DOMAIN numbers, Found)
  BY <1>1 DEF Surjection, Found
<1>4. IsFiniteSet(Found)
  BY <1>1, <1>2, <1>3, FS_Surjection
<1>5. Found \subseteq Nat
  BY <1>1 DEF Found
<1> QED
  BY <1>1, <1>2, <1>4, <1>5 DEF Numbered, keyOf, N

\* The keys are found once each: the loop over them stops at a free one.
LEMMA KeyStopsWhenFree ==
    ASSUME NEW v
    PROVE  StopsAt(keyOf, v) <=> v \notin Found
  BY DEF StopsAt, IsUsed, IsDuplicated, keyOf

\* So does the loop over the vector when its numbers are distinct.
LEMMA StopsWhenFree ==
    ASSUME numbers \in Seq(Nat), Cardinality(Found) = Len(numbers), NEW v
    PROVE  StopsAt(numbers, v) <=> v \notin Found
<1>1. /\ IsFiniteSet(DOMAIN numbers)
      /\ Cardinality(DOMAIN numbers) = Cardinality(Found)
  BY NumbersAreNumbered DEF Numbered
<1>2. numbers \in Surjection(DOMAIN numbers, Found)
  BY DEF Surjection, Found
<1>3. numbers \in Injection(DOMAIN numbers, Found)
  BY <1>1, <1>2, FS_SurjSameCardinalityImpliesInj
<1>4. \A i, j \in DOMAIN numbers : i # j => numbers[i] # numbers[j]
  BY <1>3 DEF Injection, IsInjective
<1> QED
  BY <1>4 DEF StopsAt, IsUsed, IsDuplicated, Found

LEMMA LoopsReturnSmallest ==
    ASSUME numbers \in Seq(Nat)
    PROVE  LoopsAreDefinitions
<1>1. FirstStop(numbers, VectorLoop)
  BY NumbersAreNumbered, LoopIsFirstStop DEF VectorLoop, Sorted
<1>2. VectorLoop = SmallestUnused(numbers)
  <2>1. FirstStop(numbers, SmallestUnused(numbers))
    BY <1>1 DEF FirstStop, SmallestUnused
  <2> QED
    BY <1>1, <2>1, NumbersAreNumbered, FirstStopIsOne DEF Numbered
<1>3. FirstStop(keyOf, KeyLoop)
  BY NumbersAreNumbered, LoopIsFirstStop DEF KeyLoop, keyOf
<1>4. KeyLoop = SmallestUnusedKey(Found)
  <2> DEFINE w == SmallestUnusedKey(Found)
  <2>1. IsFiniteSet(Found) /\ DOMAIN keyOf = Found
    BY NumbersAreNumbered DEF Numbered
  <2>2. /\ w \in 0 .. Cardinality(Found) /\ w \notin Found
        /\ \A u \in 0 .. w - 1 : u \in Found
    BY <2>1, SmallestUnusedKeyIsFree
  <2> HIDE DEF w
  <2>3. FirstStop(keyOf, w)
    BY <2>1, <2>2, KeyStopsWhenFree DEF FirstStop, Counts
  <2> QED
    BY <1>3, <2>1, <2>3, FirstStopIsOne DEF w
<1> QED
  BY <1>2, <1>4 DEF LoopsAreDefinitions

LEMMA TwinsAreDuplicated ==
    ASSUME NEW u
    PROVE  u \in Twins <=> IsDuplicated(numbers, u)
  BY DEF Twins, Found, IsDuplicated

LEMMA StopsAtUnusedOrTwin ==
    ASSUME numbers \in Seq(Nat)
    PROVE  SmallestUnlessTwins
<1>1. FirstStop(numbers, VectorLoop) /\ FirstStop(keyOf, KeyLoop)
  BY NumbersAreNumbered, LoopIsFirstStop DEF VectorLoop, Sorted, KeyLoop, keyOf
<1>2. VectorLoop \in Nat /\ KeyLoop \in Nat
  BY <1>1, NumbersAreNumbered, FS_CardinalityType DEF FirstStop, Counts, Numbered
<1>3. \A u : u \in Found <=> IsUsed(numbers, u)
  BY DEF Found, IsUsed
<1>4. KeyLoop \notin Found /\ 0 .. KeyLoop - 1 \subseteq Found
  BY <1>1, KeyStopsWhenFree DEF FirstStop
<1>5. 0 .. VectorLoop - 1 \subseteq Found
  BY <1>1, <1>3 DEF FirstStop, StopsAt
\* A used number at which the loop stops is behind a twin ...
<1>6. ASSUME VectorLoop \in Found
      PROVE  \E u \in Twins : 0 .. u + 1 \subseteq Found
  <2>1. VectorLoop > 0 /\ VectorLoop - 1 \in Twins
    BY <1>1, <1>3, <1>6, TwinsAreDuplicated DEF FirstStop, StopsAt
  <2>2. 0 .. (VectorLoop - 1) + 1 \subseteq Found
    BY <1>2, <1>5, <1>6
  <2> QED
    BY <2>1, <2>2
\* ... and behind a twin the loop does not get to a number that is free.
<1>7. ASSUME NEW u \in Twins, 0 .. u + 1 \subseteq Found, VectorLoop \notin Found
      PROVE  FALSE
  <2>1. u \in Nat
    BY DEF Twins, Found
  <2>2. u + 1 \in 0 .. VectorLoop - 1
    BY <1>2, <1>7, <2>1
  <2>3. IsDuplicated(numbers, (u + 1) - 1) /\ u + 1 > 0
    BY <2>1, TwinsAreDuplicated
  <2>4. StopsAt(numbers, u + 1)
    BY <2>3 DEF StopsAt
  <2> QED
    BY <1>1, <2>2, <2>4 DEF FirstStop
<1> QED
  BY <1>4, <1>5, <1>6, <1>7 DEF SmallestUnlessTwins

LEMMA DistinctIsFresh ==
    ASSUME numbers \in Seq(Nat)
    PROVE  FreshWhenDistinct
<1> SUFFICES ASSUME Cardinality(Found) = Len(numbers)
             PROVE  VectorLoop = KeyLoop /\ VectorLoop \notin Found
  BY DEF FreshWhenDistinct
<1>1. FirstStop(numbers, VectorLoop) /\ FirstStop(keyOf, KeyLoop)
  BY NumbersAreNumbered, LoopIsFirstStop DEF VectorLoop, Sorted, KeyLoop, keyOf
<1>2. VectorLoop \notin Found
  BY <1>1, StopsWhenFree DEF FirstStop
<1>3. FirstStop(keyOf, VectorLoop)
  BY <1>1, NumbersAreNumbered, StopsWhenFree, KeyStopsWhenFree DEF FirstStop, Counts
<1>4. VectorLoop = KeyLoop
  BY <1>1, <1>3, NumbersAreNumbered, FirstStopIsOne DEF Numbered
<1> QED
  BY <1>2, <1>4

-----------------------------------------------------------------------------
(* The theorems *)

LEMMA NumbersType == Spec => [](numbers \in Seq(Nat))
<1>1. Init => numbers \in Seq(Nat)
  BY DEF Init
<1>2. numbers \in Seq(Nat) /\ [Next]_numbers => (numbers \in Seq(Nat))'
  BY BoundsAssumption DEF Next, PushBack
<1> QED
  BY <1>1, <1>2, PTL DEF Spec

\* Whatever numbers are in the vector, in whatever order and however many of
\* them, the loop over it returns what SmallestUnused says, and the loop over
\* the keys of a map the smallest PID that is no key.
THEOREM LoopsAreTheirDefinitions == Spec => []LoopsAreDefinitions
BY NumbersType, LoopsReturnSmallest, PTL

\* What the loops return is the smallest number that is not used, unless one
\* occurs twice and the numbers up to the one behind it are all there; and then
\* the vector's loop does return a used one.
THEOREM SmallestIsUnusedUnlessTwins == Spec => []SmallestUnlessTwins
BY NumbersType, StopsAtUnusedOrTwin, PTL

\* As long as no number occurs twice, the two loops agree and what is
\* allocated is fresh, for vectors of any length.
THEOREM DistinctNumbersAreFresh == Spec => []FreshWhenDistinct
BY NumbersType, DistinctIsFresh, PTL
=============================================================================
