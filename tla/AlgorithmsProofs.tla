---------------------------- MODULE AlgorithmsProofs ----------------------------
(***************************************************************************)
(* Proofs about Algorithms, for arrays of every length and of all numbers: *)
(* the sorts, the binary searches and the functions for the sum problems.  *)
(*                                                                         *)
(* A loop and a recursion of the code is a recursive function of the model *)
(* on a set on which a rank decreases from each call to the next one.  Its *)
(* values are known by the equation of the function only, so that each of  *)
(* them gets a lemma for its steps, by Recursion or LoopExists, and one    *)
(* for what the steps arrive at, by induction on the rank.                 *)
(***************************************************************************)
EXTENDS Algorithms, FiniteSetTheorems, SequenceTheorems, WellFoundedInduction, TLAPS
-----------------------------------------------------------------------------
(***************************************************************************)
(* What the other proofs rest on: the least and the greatest member of a   *)
(* set, induction along an interval and by a rank, and recursion by a      *)
(* rank, which gives every recursive function of the model its equation.   *)
(***************************************************************************)
\* A set of numbers between two bounds has a least and a greatest member.
LEMMA LeastOf ==
  ASSUME NEW S \in SUBSET Int, S # {}, NEW low \in Int, \A x \in S : low <= x
  PROVE  Min(S) \in S /\ \A y \in S : Min(S) <= y
PROOF
  <1>. DEFINE T == {x - low : x \in S}
  <1>1. T \subseteq Nat /\ T # {}
    <2>1. \A x \in S : x \in Int /\ low <= x /\ x - low \in Nat
      OBVIOUS
    <2>2. PICK x \in S : TRUE
      OBVIOUS
    <2>3. x - low \in T
      OBVIOUS
    <2>. QED
      BY <2>1, <2>3
  <1>2. PICK t \in T : \A u \in T : ~(<<u, t>> \in OpToRel(<, Nat))
    <2>. HIDE DEF T
    <2>. QED
      BY <1>1, WFMin, NatLessThanWellFounded
  <1>3. \A u \in T : ~(u < t)
    BY <1>1, <1>2 DEF OpToRel
  <1>4. PICK x \in S : t = x - low
    OBVIOUS
  <1>5. \A y \in S : x <= y
    <2>. SUFFICES ASSUME NEW y \in S PROVE x <= y
      OBVIOUS
    <2>1. ~(y - low < x - low)
      BY <1>3, <1>4
    <2>. QED
      BY <2>1
  <1>. DEFINE P(z) == z \in S /\ \A y \in S : z <= y
  <1>6. \E z : P(z)
    BY <1>5
  <1>7. Min(S) = CHOOSE z : P(z)
    BY DEF Min
  <1>. HIDE DEF P
  <1>8. P(Min(S))
    BY <1>6, <1>7, Zenon
  <1>. QED
    BY <1>8 DEF P

\* The greatest member.
LEMMA GreatestOf ==
  ASSUME NEW S \in SUBSET Int, S # {}, NEW high \in Int, \A x \in S : x <= high
  PROVE  Max(S) \in S /\ \A y \in S : y <= Max(S)
PROOF
  <1>. DEFINE T == {0 - x : x \in S}
  <1>1. T \in SUBSET Int /\ T # {} /\ \A x \in T : 0 - high <= x
    <2>1. \A x \in S : x \in Int /\ 0 - x \in Int /\ 0 - high <= 0 - x
      OBVIOUS
    <2>2. PICK x \in S : TRUE
      OBVIOUS
    <2>3. 0 - x \in T
      OBVIOUS
    <2>. QED
      BY <2>1, <2>3
  <1>2. Min(T) \in T /\ \A y \in T : Min(T) <= y
    <2>. HIDE DEF T
    <2>. QED
      BY <1>1, 0 - high \in Int, LeastOf
  <1>3. PICK x \in S : Min(T) = 0 - x
    BY <1>2
  <1>4. \A y \in S : y <= x
    <2>. SUFFICES ASSUME NEW y \in S PROVE y <= x
      OBVIOUS
    <2>1. 0 - x <= 0 - y
      BY <1>2, <1>3
    <2>. QED
      BY <2>1
  <1>. DEFINE P(z) == z \in S /\ \A y \in S : z >= y
  <1>5. \E z : P(z)
    BY <1>4
  <1>6. Max(S) = CHOOSE z : P(z)
    BY DEF Max
  <1>. HIDE DEF P
  <1>7. P(Max(S))
    BY <1>5, <1>6, Zenon
  <1>. QED
    BY <1>7 DEF P

\* Induction along an interval, and by a rank.
Upward(first, last, S) == first \in S /\ \A k \in (first + 1)..last : k - 1 \in S => k \in S
RankedIn(D, rank, S) == \A x \in D : (\A y \in D : rank[y] < rank[x] => y \in S) => x \in S

\* A set with the first number and the successor of each of its numbers has them all.
LEMMA AlongInterval ==
  ASSUME NEW first \in Int, NEW last \in Int, NEW S, Upward(first, last, S)
  PROVE  first..last \subseteq S
PROOF
  <1>. DEFINE T == {k \in first..last : k \notin S}
  <1>. USE DEF Upward
  <1>1. ASSUME T # {} PROVE FALSE
    <2>1. T \in SUBSET Int /\ \A x \in T : first <= x
      OBVIOUS
    <2>2. Min(T) \in T /\ \A y \in T : Min(T) <= y
      <3>. HIDE DEF T
      <3>. QED
        BY <1>1, <2>1, LeastOf
    <2>3. PICK k \in T : \A y \in T : k <= y
      BY <2>2
    <2>4. k \in (first + 1)..last
      OBVIOUS
    <2>5. k - 1 \in S
      BY <2>3, <2>4
    <2>. QED
      BY <2>4, <2>5
  <1>. QED
    BY <1>1

\* A set that has every point all of whose predecessors by rank it has, has them all.
LEMMA ByRank ==
  ASSUME NEW D, NEW rank \in [D -> Nat], NEW S, RankedIn(D, rank, S)
  PROVE  D \subseteq S
PROOF
  <1>. USE DEF RankedIn
  <1>. DEFINE T == {rank[x] : x \in {y \in D : y \notin S}}
  <1>1. ASSUME NEW z \in D, z \notin S PROVE FALSE
    <2>1. T \subseteq Nat /\ T # {}
      BY <1>1
    <2>2. PICK t \in T : \A u \in T : ~(<<u, t>> \in OpToRel(<, Nat))
      <3>. HIDE DEF T
      <3>. QED
        BY <2>1, WFMin, NatLessThanWellFounded
    <2>3. \A u \in T : ~(u < t)
      BY <2>1, <2>2 DEF OpToRel
    <2>4. PICK x \in D : x \notin S /\ t = rank[x]
      OBVIOUS
    <2>5. \A y \in D : rank[y] < rank[x] => y \in S
      BY <2>3, <2>4
    <2>. QED
      BY <2>4, <2>5
  <1>. QED
    BY <1>1

\* A function by recursion: there is one that satisfies its equation, if the value at a point
\* depends on the values at points of lower rank only.
Local(D, V, rank, F) ==
  /\ F \in [D -> [[D -> V] -> V]]
  /\ \A x \in D : \A g, h \in [D -> V] :
       (\A y \in D : rank[y] < rank[x] => g[y] = h[y]) => F[x][g] = F[x][h]
Solution(D, V, F, f) == f \in [D -> V] /\ \A x \in D : f[x] = F[x][f]

\* Approximations that are right up to a rank are put together along the ranks.
LEMMA Recursion ==
  ASSUME NEW D, NEW V, V # {}, NEW rank \in [D -> Nat], NEW F, Local(D, V, rank, F)
  PROVE  \E f : Solution(D, V, F, f)
PROOF
  <1>. USE DEF Local
  <1>. DEFINE Approx(n) == {g \in [D -> V] : \A x \in D : rank[x] < n => g[x] = F[x][g]}
              N == {n \in Nat : Approx(n) # {}}
  <1>1. ASSUME NEW n \in Nat, NEW g \in Approx(n), NEW m \in Nat, NEW h \in Approx(m),
               NEW x \in D, rank[x] < n, rank[x] < m
        PROVE  g[x] = h[x]
    <2>. DEFINE S == {y \in D : (rank[y] < n /\ rank[y] < m) => g[y] = h[y]}
    <2>1. ASSUME NEW y \in D, \A z \in D : rank[z] < rank[y] => z \in S PROVE y \in S
      <3>. SUFFICES ASSUME rank[y] < n, rank[y] < m PROVE g[y] = h[y]
        OBVIOUS
      <3>1. \A z \in D : rank[z] < rank[y] => g[z] = h[z]
        <4>. SUFFICES ASSUME NEW z \in D, rank[z] < rank[y] PROVE g[z] = h[z]
          OBVIOUS
        <4>1. rank[z] \in Nat /\ rank[y] \in Nat
          OBVIOUS
        <4>2. rank[z] < n /\ rank[z] < m
          BY <4>1
        <4>. QED
          BY <2>1, <4>2
      <3>2. g \in [D -> V] /\ h \in [D -> V] /\ g[y] = F[y][g] /\ h[y] = F[y][h]
        OBVIOUS
      <3>. QED
        BY <3>1, <3>2
    <2>2. D \subseteq S
      <3>1. RankedIn(D, rank, S)
        BY <2>1 DEF RankedIn
      <3>. HIDE DEF S
      <3>. QED
        BY <3>1, ByRank
    <2>. QED
      BY <1>1, <2>2
  <1>2. 0 \in N
    <2>1. PICK v : v \in V
      OBVIOUS
    <2>2. [x \in D |-> v] \in Approx(0)
      BY <2>1
    <2>. QED
      BY <2>2
  <1>3. ASSUME NEW n \in N PROVE n + 1 \in N
    <2>1. PICK g : g \in Approx(n)
      OBVIOUS
    <2>2. g \in [D -> V] /\ \A x \in D : rank[x] < n => g[x] = F[x][g]
      BY <2>1
    <2>. DEFINE h == [x \in D |-> F[x][g]]
    <2>3. h \in [D -> V]
      BY <2>2
    <2>4. ASSUME NEW x \in D, rank[x] < n + 1 PROVE h[x] = F[x][h]
      <3>1. \A y \in D : rank[y] < rank[x] => g[y] = h[y]
        <4>. SUFFICES ASSUME NEW y \in D, rank[y] < rank[x] PROVE g[y] = h[y]
          OBVIOUS
        <4>1. rank[y] \in Nat /\ rank[x] \in Nat
          OBVIOUS
        <4>2. rank[y] < n
          BY <2>4, <4>1
        <4>. QED
          BY <2>2, <4>2
      <3>2. F[x][g] = F[x][h]
        <4>. HIDE DEF h
        <4>. QED
          BY <2>2, <2>3, <3>1
      <3>. QED
        BY <3>2
    <2>5. h \in Approx(n + 1)
      <3>. HIDE DEF h
      <3>. QED
        BY <2>3, <2>4
    <2>6. n + 1 \in Nat
      OBVIOUS
    <2>. HIDE DEF h, Approx
    <2>. QED
      BY <2>5, <2>6
  <1>4. ASSUME NEW n \in Nat PROVE Approx(n) # {}
    <2>1. \A k \in (0 + 1)..n : k - 1 \in N => k \in N
      <3>. SUFFICES ASSUME NEW k \in (0 + 1)..n, k - 1 \in N PROVE k \in N
        OBVIOUS
      <3>1. (k - 1) + 1 \in N
        <4>. HIDE DEF N
        <4>. QED
          BY <1>3
      <3>2. (k - 1) + 1 = k
        OBVIOUS
      <3>. QED
        BY <3>1, <3>2
    <2>2. 0..n \subseteq N
      <3>. HIDE DEF N
      <3>1. Upward(0, n, N)
        BY <1>2, <2>1 DEF Upward
      <3>. QED
        BY <3>1, AlongInterval
    <2>3. n \in N
      <3>. HIDE DEF N
      <3>. QED
        BY <2>2
    <2>. QED
      BY <2>3
  <1>. DEFINE A(n) == CHOOSE g : g \in Approx(n)
  <1>5. ASSUME NEW n \in Nat PROVE A(n) \in Approx(n)
    <2>. HIDE DEF Approx
    <2>. QED
      BY <1>4, Zenon
  <1>. HIDE DEF A
  <1>. DEFINE f == [x \in D |-> A(rank[x] + 1)[x]]
  <1>6. f \in [D -> V]
    <2>. SUFFICES ASSUME NEW x \in D PROVE A(rank[x] + 1)[x] \in V
      OBVIOUS
    <2>1. rank[x] + 1 \in Nat
      OBVIOUS
    <2>2. A(rank[x] + 1) \in Approx(rank[x] + 1)
      BY <1>5, <2>1
    <2>. QED
      BY <2>2
  <1>7. ASSUME NEW x \in D PROVE f[x] = F[x][f]
    <2>. DEFINE n == rank[x] + 1
                g == A(n)
    <2>1. n \in Nat /\ rank[x] < n
      OBVIOUS
    <2>2. g \in Approx(n)
      BY <1>5, <2>1
    <2>3. ASSUME NEW y \in D, rank[y] < rank[x] PROVE g[y] = f[y]
      <3>1. rank[y] + 1 \in Nat /\ rank[y] < rank[y] + 1 /\ rank[y] < n
        BY <2>3
      <3>2. A(rank[y] + 1) \in Approx(rank[y] + 1)
        BY <1>5, <3>1
      <3>3. g[y] = A(rank[y] + 1)[y]
        <4>. HIDE DEF Approx, g, n
        <4>. QED
          BY <1>1, <2>1, <2>2, <3>1, <3>2
      <3>. QED
        BY <3>3
    <2>4. g \in [D -> V] /\ g[x] = F[x][g]
      BY <2>1, <2>2
    <2>5. F[x][g] = F[x][f]
      <3>. HIDE DEF g, f
      <3>. QED
        BY <1>6, <2>3, <2>4
    <2>. QED
      BY <2>4, <2>5
  <1>. HIDE DEF f
  <1>. QED
    BY <1>6, <1>7 DEF Solution
-----------------------------------------------------------------------------
(***************************************************************************)
(* Loops, and what it is that a sort does: it rearranges an array, and its *)
(* result is ascending.                                                    *)
(***************************************************************************)
LoopBody(first, last, V, G) == \A k \in first..last : \A b \in V : G[k][b] \in V
LoopRun(first, last, V, base, G, r) ==
  /\ r \in [(first - 1)..last -> V]
  /\ \A k \in (first - 1)..last : r[k] = IF k < first THEN base ELSE G[k][r[k - 1]]

\* The values of For, from round to round, exist if every round stays in V.
LEMMA LoopExists ==
  ASSUME NEW first \in Int, NEW last \in Int, first <= last + 1,
         NEW V, NEW base \in V, NEW G, LoopBody(first, last, V, G)
  PROVE  \E r : LoopRun(first, last, V, base, G, r)
PROOF
  <1>. USE DEF LoopBody
  <1>. DEFINE D == (first - 1)..last
              rank == [k \in D |-> k - (first - 1)]
              F == [k \in D |-> [g \in [D -> V] |-> IF k < first THEN base ELSE G[k][g[k - 1]]]]
  <1>1. rank \in [D -> Nat] /\ V # {}
    OBVIOUS
  <1>2. ASSUME NEW k \in D, NEW g \in [D -> V]
        PROVE  /\ F[k][g] = IF k < first THEN base ELSE G[k][g[k - 1]]
               /\ F[k][g] \in V
    <2>1. F[k][g] = IF k < first THEN base ELSE G[k][g[k - 1]]
      OBVIOUS
    <2>2. CASE k < first
      BY <2>1, <2>2
    <2>3. CASE ~(k < first)
      <3>1. k \in first..last /\ k - 1 \in D
        BY <2>3
      <3>2. g[k - 1] \in V
        BY <3>1
      <3>. QED
        BY <2>1, <2>3, <3>1, <3>2
    <2>. QED
      BY <2>1, <2>2, <2>3
  <1>3. ASSUME NEW k \in D, NEW g \in [D -> V], NEW h \in [D -> V],
               \A y \in D : rank[y] < rank[k] => g[y] = h[y]
        PROVE  F[k][g] = F[k][h]
    <2>1. CASE k < first
      BY <1>2, <2>1
    <2>2. CASE ~(k < first)
      <3>1. k - 1 \in D /\ rank[k - 1] < rank[k]
        BY <2>2
      <3>2. g[k - 1] = h[k - 1]
        BY <1>3, <3>1
      <3>. QED
        BY <1>2, <2>2, <3>2
    <2>. QED
      BY <2>1, <2>2
  <1>4. PICK r \in [D -> V] : \A x \in D : r[x] = F[x][r]
    <2>1. F \in [D -> [[D -> V] -> V]]
      <3>. HIDE DEF D
      <3>1. \A k \in D : \A g \in [D -> V] :
              (IF k < first THEN base ELSE G[k][g[k - 1]]) \in V
        BY <1>2 DEF D
      <3>. QED
        BY <3>1
    <2>2. Local(D, V, rank, F)
      <3>. HIDE DEF D, rank, F
      <3>. QED
        BY <1>3, <2>1 DEF Local
    <2>3. \E r : Solution(D, V, F, r)
      <3>. HIDE DEF D, rank, F
      <3>. QED
        BY <1>1, <2>2, Recursion
    <2>. QED
      BY <2>3 DEF Solution
  <1>5. \A k \in D : r[k] = IF k < first THEN base ELSE G[k][r[k - 1]]
    <2>1. \A k \in D : F[k][r] = IF k < first THEN base ELSE G[k][r[k - 1]]
      BY <1>2
    <2>. HIDE DEF F, D
    <2>. QED
      BY <1>4, <2>1
  <1>. HIDE DEF F, rank
  <1>. QED
    BY <1>4, <1>5 DEF LoopRun

\* The arrays of length n.
Rows(n) == [1..n -> Int]

\* The positions of an array of n numbers and the arrays of its length.
LEMMA ArrayFacts ==
  ASSUME NEW n \in Nat, NEW a \in Rows(n)
  PROVE  a \in Seq(Int) /\ Len(a) = n /\ Positions(a) = 1..n /\ Arrays(a) = Rows(n)
PROOF
  <1>. USE DEF Rows
  <1>1. a \in Seq(Int)
    BY SeqDef
  <1>2. Len(a) = n
    BY <1>1, LenProperties
  <1>. QED
    BY <1>1, <1>2 DEF Positions, Arrays

\* What one array is to another with the same numbers in another order between two positions.
Bijects(p, S, T) ==
  /\ p \in [S -> T]
  /\ \A x, y \in S : p[x] = p[y] => x = y
  /\ \A t \in T : \E s \in S : p[s] = t
Shuffle(n, low, high, p) == Bijects(p, 1..n, 1..n) /\ \A k \in 1..n : k \notin low..high => p[k] = k
Shuffled(n, low, high, a, b) == \E p : Shuffle(n, low, high, p) /\ \A k \in 1..n : a[k] = b[p[k]]
Rearranged(n, a, b) == Shuffled(n, 1, n, a, b)
Ascending(n, a) == \A k, l \in 1..n : k <= l => a[k] <= a[l]

\* An array is a shuffle of itself.
LEMMA ShuffledSame ==
  ASSUME NEW n \in Nat, NEW low \in Int, NEW high \in Int, NEW a PROVE Shuffled(n, low, high, a, a)
PROOF
  <1>. DEFINE p == [k \in 1..n |-> k]
  <1>1. Shuffle(n, low, high, p)
    BY DEF Bijects, Shuffle
  <1>2. \A k \in 1..n : a[k] = a[p[k]]
    OBVIOUS
  <1>. HIDE DEF p
  <1>. QED
    BY <1>1, <1>2 DEF Shuffled

\* A shuffle is undone by its inverse.
LEMMA ShuffledBack ==
  ASSUME NEW n \in Nat, NEW low \in Int, NEW high \in Int, NEW a, NEW b,
         Shuffled(n, low, high, a, b)
  PROVE  Shuffled(n, low, high, b, a)
PROOF
  <1>1. PICK p : Shuffle(n, low, high, p) /\ \A k \in 1..n : a[k] = b[p[k]]
    BY DEF Shuffled
  <1>2. /\ p \in [1..n -> 1..n]
        /\ \A x, y \in 1..n : p[x] = p[y] => x = y
        /\ \A t \in 1..n : \E s \in 1..n : p[s] = t
        /\ \A k \in 1..n : k \notin low..high => p[k] = k
    BY <1>1 DEF Bijects, Shuffle
  <1>. DEFINE q == [t \in 1..n |-> CHOOSE s \in 1..n : p[s] = t]
  <1>3. \A t \in 1..n : q[t] \in 1..n /\ p[q[t]] = t
    BY <1>2
  <1>4. q \in [1..n -> 1..n]
    <2>. SUFFICES ASSUME NEW t \in 1..n PROVE q[t] \in 1..n
      OBVIOUS
    <2>. QED
      BY <1>3
  <1>. HIDE DEF q
  <1>5. Shuffle(n, low, high, q)
    <2>1. \A x, y \in 1..n : q[x] = q[y] => x = y
      BY <1>3
    <2>2. \A t \in 1..n : q[p[t]] = t /\ p[t] \in 1..n
      BY <1>2, <1>3
    <2>3. \A k \in 1..n : k \notin low..high => q[k] = k
      BY <1>2, <2>2
    <2>. QED
      BY <1>4, <2>1, <2>2, <2>3 DEF Shuffle, Bijects
  <1>6. \A k \in 1..n : b[k] = a[q[k]]
    BY <1>1, <1>3
  <1>. QED
    BY <1>5, <1>6 DEF Shuffled

\* Two shuffles between the same positions are one.
LEMMA ShuffledOn ==
  ASSUME NEW n \in Nat, NEW low \in Int, NEW high \in Int, NEW a, NEW b, NEW c,
         Shuffled(n, low, high, a, b), Shuffled(n, low, high, b, c)
  PROVE  Shuffled(n, low, high, a, c)
PROOF
  <1>1. PICK p : Shuffle(n, low, high, p) /\ \A k \in 1..n : a[k] = b[p[k]]
    BY DEF Shuffled
  <1>2. PICK q : Shuffle(n, low, high, q) /\ \A k \in 1..n : b[k] = c[q[k]]
    BY DEF Shuffled
  <1>3. /\ p \in [1..n -> 1..n]
        /\ \A x, y \in 1..n : p[x] = p[y] => x = y
        /\ \A t \in 1..n : \E s \in 1..n : p[s] = t
        /\ \A k \in 1..n : k \notin low..high => p[k] = k
    BY <1>1 DEF Bijects, Shuffle
  <1>4. /\ q \in [1..n -> 1..n]
        /\ \A x, y \in 1..n : q[x] = q[y] => x = y
        /\ \A t \in 1..n : \E s \in 1..n : q[s] = t
        /\ \A k \in 1..n : k \notin low..high => q[k] = k
    BY <1>2 DEF Bijects, Shuffle
  <1>. DEFINE r == [k \in 1..n |-> q[p[k]]]
  <1>5. Shuffle(n, low, high, r)
    <2>1. r \in [1..n -> 1..n] /\ \A x, y \in 1..n : r[x] = r[y] => x = y
      BY <1>3, <1>4
    <2>2. ASSUME NEW t \in 1..n PROVE \E s \in 1..n : r[s] = t
      <3>1. PICK u \in 1..n : q[u] = t
        BY <1>4
      <3>2. PICK s \in 1..n : p[s] = u
        BY <1>3
      <3>. QED
        BY <3>1, <3>2
    <2>3. \A k \in 1..n : k \notin low..high => r[k] = k
      BY <1>3, <1>4
    <2>. HIDE DEF r
    <2>. QED
      BY <2>1, <2>2, <2>3 DEF Shuffle, Bijects
  <1>6. \A k \in 1..n : a[k] = c[r[k]]
    BY <1>1, <1>2, <1>3
  <1>. HIDE DEF r
  <1>. QED
    BY <1>5, <1>6 DEF Shuffled

\* A shuffle between two positions is one between positions further apart.
LEMMA ShuffledWider ==
  ASSUME NEW n \in Nat, NEW low \in Int, NEW high \in Int, NEW lower \in Int, NEW higher \in Int,
         lower <= low, high <= higher, NEW a, NEW b, Shuffled(n, low, high, a, b)
  PROVE  Shuffled(n, lower, higher, a, b)
PROOF
  BY DEF Shuffled, Shuffle

\* A shuffle between two positions is a rearrangement of the array.
LEMMA ShuffledAll ==
  ASSUME NEW n \in Nat, NEW low \in Int, NEW high \in Int, NEW a, NEW b, Shuffled(n, low, high, a, b)
  PROVE  Rearranged(n, a, b)
PROOF
  BY DEF Shuffled, Shuffle, Rearranged

\* What is outside stays, and what is between the two positions stays between them.
LEMMA ShuffledFacts ==
  ASSUME NEW n \in Nat, NEW low \in 1..(n + 1), NEW high \in 0..n, NEW a, NEW b,
         Shuffled(n, low, high, a, b)
  PROVE  /\ \A k \in 1..n : k \notin low..high => a[k] = b[k]
         /\ \A k \in low..high : \E l \in low..high : a[k] = b[l]
PROOF
  <1>1. PICK p : Shuffle(n, low, high, p) /\ \A k \in 1..n : a[k] = b[p[k]]
    BY DEF Shuffled
  <1>2. /\ p \in [1..n -> 1..n]
        /\ \A x, y \in 1..n : p[x] = p[y] => x = y
        /\ \A k \in 1..n : k \notin low..high => p[k] = k
    BY <1>1 DEF Bijects, Shuffle
  <1>3. ASSUME NEW k \in low..high PROVE \E l \in low..high : a[k] = b[l]
    <2>1. k \in 1..n /\ p[k] \in 1..n
      BY <1>2
    <2>2. ASSUME p[k] \notin low..high PROVE FALSE
      <3>1. p[p[k]] = p[k]
        BY <1>2, <2>1, <2>2
      <3>2. p[k] = k
        BY <1>2, <2>1, <3>1
      <3>. QED
        BY <2>2, <3>2
    <2>. QED
      BY <1>1, <2>1, <2>2
  <1>. QED
    BY <1>1, <1>2, <1>3

\* What Swap returns.
LEMMA SwapFacts ==
  ASSUME NEW n \in Nat, NEW a \in Rows(n), NEW j \in 1..n, NEW k \in 1..n
  PROVE  /\ Swap(a, j, k) \in Rows(n)
         /\ \A l \in 1..n : Swap(a, j, k)[l] = IF l = k THEN a[j] ELSE IF l = j THEN a[k] ELSE a[l]
PROOF
  BY DEF Swap, Rows

\* Swap shuffles between any two positions that enclose its own.
LEMMA SwapShuffles ==
  ASSUME NEW n \in Nat, NEW a \in Rows(n), NEW j \in 1..n, NEW k \in 1..n,
         NEW low \in Int, NEW high \in Int, j \in low..high, k \in low..high
  PROVE  Shuffled(n, low, high, a, Swap(a, j, k))
PROOF
  <1>1. /\ Swap(a, j, k) \in Rows(n)
        /\ \A l \in 1..n : Swap(a, j, k)[l] = IF l = k THEN a[j] ELSE IF l = j THEN a[k] ELSE a[l]
    BY SwapFacts
  <1>. DEFINE p == [l \in 1..n |-> IF l = k THEN j ELSE IF l = j THEN k ELSE l]
  <1>2. Shuffle(n, low, high, p)
    <2>1. p \in [1..n -> 1..n] /\ \A x \in 1..n : p[p[x]] = x
      OBVIOUS
    <2>2. \A x \in 1..n : x \notin low..high => p[x] = x
      OBVIOUS
    <2>. HIDE DEF p
    <2>3. \A x, y \in 1..n : p[x] = p[y] => x = y
      BY <2>1
    <2>4. \A t \in 1..n : \E s \in 1..n : p[s] = t
      BY <2>1
    <2>. QED
      BY <2>1, <2>2, <2>3, <2>4 DEF Bijects, Shuffle
  <1>3. \A l \in 1..n : a[l] = Swap(a, j, k)[p[l]]
    BY <1>1
  <1>. HIDE DEF p
  <1>. QED
    BY <1>2, <1>3 DEF Shuffled

\* Swap rearranges the array.
LEMMA SwapRearranges ==
  ASSUME NEW n \in Nat, NEW a \in Rows(n), NEW j \in 1..n, NEW k \in 1..n
  PROVE  Rearranged(n, a, Swap(a, j, k))
PROOF
  BY SwapShuffles DEF Rearranged

\* The same for the whole array.
LEMMA RearrangedSame ==
  ASSUME NEW n \in Nat, NEW a PROVE Rearranged(n, a, a)
PROOF
  BY ShuffledSame DEF Rearranged

\* A rearrangement is undone by one.
LEMMA RearrangedBack ==
  ASSUME NEW n \in Nat, NEW a, NEW b, Rearranged(n, a, b) PROVE Rearranged(n, b, a)
PROOF
  BY ShuffledBack DEF Rearranged

\* Two rearrangements are one.
LEMMA RearrangedOn ==
  ASSUME NEW n \in Nat, NEW a, NEW b, NEW c, Rearranged(n, a, b), Rearranged(n, b, c)
  PROVE  Rearranged(n, a, c)
PROOF
  BY ShuffledOn DEF Rearranged

\* Two ascending arrays of the same numbers are the same.
LEMMA AscendingLeast ==
  ASSUME NEW n \in Nat, NEW a \in Rows(n), NEW b \in Rows(n),
         Ascending(n, a), Ascending(n, b), Rearranged(n, a, b), NEW k \in 1..n
  PROVE  ~(a[k] < b[k])
PROOF
  <1>. SUFFICES ASSUME a[k] < b[k] PROVE FALSE
    OBVIOUS
  <1>1. PICK p : Shuffle(n, 1, n, p) /\ \A l \in 1..n : a[l] = b[p[l]]
    BY DEF Rearranged, Shuffled
  <1>2. p \in [1..n -> 1..n] /\ \A x, y \in 1..n : p[x] = p[y] => x = y
    BY <1>1 DEF Bijects, Shuffle
  <1>3. ASSUME NEW l \in 1..k PROVE p[l] \in 1..(k - 1)
    <2>1. l \in 1..n /\ p[l] \in 1..n /\ a[l] = b[p[l]]
      BY <1>1, <1>2
    <2>2. a[l] <= a[k]
      BY <2>1 DEF Ascending
    <2>3. ASSUME k <= p[l] PROVE FALSE
      <3>1. b[k] <= b[p[l]]
        BY <2>1, <2>3 DEF Ascending
      <3>2. a[l] \in Int /\ a[k] \in Int /\ b[k] \in Int
        BY <2>1 DEF Rows
      <3>. QED
        BY <2>1, <2>2, <3>1, <3>2
    <2>. QED
      BY <2>1, <2>3
  <1>. DEFINE q == [l \in 1..k |-> p[l]]
  <1>4. q \in [1..k -> 1..(k - 1)]
    BY <1>3
  <1>5. /\ IsFiniteSet(1..k) /\ Cardinality(1..k) = k
        /\ IsFiniteSet(1..(k - 1)) /\ Cardinality(1..(k - 1)) = k - 1
    <2>1. 1 \in Int /\ k \in Int /\ k - 1 \in Int /\ k >= 1
      OBVIOUS
    <2>2. IsFiniteSet(1..k) /\ Cardinality(1..k) = IF 1 > k THEN 0 ELSE k - 1 + 1
      BY <2>1, FS_Interval
    <2>3. /\ IsFiniteSet(1..(k - 1))
          /\ Cardinality(1..(k - 1)) = IF 1 > k - 1 THEN 0 ELSE (k - 1) - 1 + 1
      BY <2>1, FS_Interval
    <2>. QED
      BY <2>1, <2>2, <2>3
  <1>6. \E x, y \in 1..k : x # y /\ q[x] = q[y]
    <2>1. Cardinality(1..(k - 1)) < Cardinality(1..k)
      BY <1>5
    <2>. HIDE DEF q
    <2>. QED
      BY <1>4, <1>5, <2>1, FS_PigeonHole
  <1>7. PICK x \in 1..k, y \in 1..k : x # y /\ q[x] = q[y]
    BY <1>6
  <1>8. x \in 1..n /\ y \in 1..n /\ p[x] = p[y]
    BY <1>7
  <1>. QED
    BY <1>2, <1>7, <1>8

\* Numbers can be put in ascending order in one way only.
LEMMA AscendingUnique ==
  ASSUME NEW n \in Nat, NEW a \in Rows(n), NEW b \in Rows(n),
         Ascending(n, a), Ascending(n, b), Rearranged(n, a, b)
  PROVE  a = b
PROOF
  <1>1. Rearranged(n, b, a)
    BY RearrangedBack
  <1>2. \A k \in 1..n : a[k] = b[k]
    <2>. SUFFICES ASSUME NEW k \in 1..n PROVE a[k] = b[k]
      OBVIOUS
    <2>1. ~(a[k] < b[k]) /\ ~(b[k] < a[k])
      BY <1>1, AscendingLeast
    <2>2. a[k] \in Int /\ b[k] \in Int
      BY DEF Rows
    <2>. QED
      BY <2>1, <2>2
  <1>. QED
    BY <1>2 DEF Rows
-----------------------------------------------------------------------------
(***************************************************************************)
(* The bubble sorts.                                                       *)
(***************************************************************************)
\* The rounds of a pass.
LEMMA BubblePassRounds ==
  ASSUME NEW n \in Nat,
         NEW a \in Rows(n),
         NEW j \in 1..n
  PROVE  \E r \in [0..(n - j) -> Rows(n)] :
           /\ r[0] = a /\ bubblePass(a, j) = r[n - j]
           /\ \A k \in 1..(n - j) : r[k] = IF r[k - 1][k] > r[k - 1][k + 1] THEN Swap(r[k - 1], k, k + 1) ELSE r[k - 1]
PROOF
  <1>. DEFINE V == Rows(n)
              last == Len(a) - j
              D == (1 - 1)..last
              Op(b, k) == IF b[k] > b[k + 1] THEN Swap(b, k, k + 1) ELSE b
              G == [k \in 1..last |-> [b \in V |-> Op(b, k)]]
              Eq(r) == r = [k \in D |-> IF k < 1 THEN a ELSE Op(r[k - 1], k)]
              s == CHOOSE r : Eq(r)
  <1>1. /\ last = n - j /\ last \in Int /\ 1 \in Int /\ 1 <= last + 1
        /\ 1 - 1 = 0 /\ D = 0..(n - j) /\ a \in V
    BY ArrayFacts
  <1>2. bubblePass(a, j) = (IF last < 1 THEN a ELSE s[last])
    BY DEF bubblePass, For
  <1>3. ASSUME NEW k \in 1..last, NEW b \in V PROVE Op(b, k) \in V /\ G[k][b] = Op(b, k)
    <2>0. Op(b, k) \in V
      <3>1. k \in 1..n /\ k + 1 \in 1..n
        BY <1>1
      <3>2. Swap(b, k, k + 1) \in V
        BY <3>1, SwapFacts
      <3>. QED
        BY <3>2
    <2>. QED
      BY <2>0
  <1>4. PICK q \in [D -> V] : \A k \in D : q[k] = IF k < 1 THEN a ELSE G[k][q[k - 1]]
    <2>1. LoopBody(1, last, V, G)
      <3>. HIDE DEF G, V, Op, last
      <3>. QED
        BY <1>3 DEF LoopBody
    <2>. DEFINE B == a
    <2>2. B \in V
      BY <1>1
    <2>3. PICK q : LoopRun(1, last, V, B, G, q)
      <3>. HIDE DEF G, V, last, B
      <3>. QED
        BY <1>1, <2>1, <2>2, LoopExists
    <2>. HIDE DEF G, V, last, B
    <2>4. q \in [D -> V] /\ \A k \in D : q[k] = IF k < 1 THEN B ELSE G[k][q[k - 1]]
      BY <2>3 DEF LoopRun
    <2>. QED
      BY <2>4 DEF B
  <1>5. Eq(q)
    <2>1. ASSUME NEW k \in D PROVE q[k] = IF k < 1 THEN a ELSE Op(q[k - 1], k)
      <3>1. k >= 1 => k \in 1..last /\ k - 1 \in D /\ q[k - 1] \in V
        <4>. HIDE DEF G, V, Op, last
        <4>. QED
          BY <1>1, <1>4
      <3>2. k \in Int
        BY <1>1
      <3>. HIDE DEF G, V, Op, D, last
      <3>. QED
        BY <1>1, <1>3, <1>4, <3>1, <3>2
    <2>. HIDE DEF G, V, Op, D
    <2>. QED
      BY <1>4, <2>1
  <1>6. Eq(s)
    <2>. HIDE DEF Eq
    <2>. QED
      BY <1>5, Zenon
  <1>7. ASSUME NEW k \in D PROVE s[k] = IF k < 1 THEN a ELSE Op(s[k - 1], k)
    <2>. HIDE DEF G, V, Op, D, s
    <2>. QED
      BY <1>6
  <1>8. 0..last \subseteq {k \in D : s[k] \in V}
    <2>1. Upward(0, last, {k \in D : s[k] \in V})
      <3>. HIDE DEF V, Op, s, G, last
      <3>. QED
        BY <1>1, <1>3, <1>7 DEF Upward
    <2>. HIDE DEF s, V, D, last
    <2>. QED
      BY <1>1, <2>1, AlongInterval
  <1>9. s \in [0..(n - j) -> V]
    <2>. HIDE DEF V, Op, last
    <2>. QED
      BY <1>1, <1>6, <1>8
  <1>. HIDE DEF s, D, Op, last
  <1>10. 0 \in D /\ s[0] = a
    BY <1>1, <1>7
  <1>11. bubblePass(a, j) = s[n - j]
    <2>1. CASE last < 1
      BY <1>1, <1>2, <1>10, <2>1
    <2>2. CASE ~(last < 1)
      BY <1>1, <1>2, <2>2
    <2>. QED
      BY <2>1, <2>2
  <1>12. \A k \in 1..(n - j) : s[k] = Op(s[k - 1], k)
    BY <1>1, <1>7
  <1>. QED
    BY <1>9, <1>10, <1>11, <1>12 DEF Op

\* From m + 1 on every number has its place: it is no less than those before it.
SettledAfter(n, m, a) == \A k, l \in 1..n : (k <= l /\ m < l) => a[k] <= a[l]

\* A pass brings the greatest of the numbers that are not settled to their end, and if it
\* changes nothing they are ascending.
LEMMA BubblePassSettles ==
  ASSUME NEW n \in Nat, NEW a \in Rows(n), NEW j \in 1..n
  PROVE  /\ bubblePass(a, j) \in Rows(n) /\ Rearranged(n, a, bubblePass(a, j))
         /\ SettledAfter(n, n - j + 1, a) => SettledAfter(n, n - j, bubblePass(a, j))
         /\ bubblePass(a, j) = a => \A k \in 1..(n - j) : a[k] <= a[k + 1]
PROOF
  <1>1. PICK r \in [0..(n - j) -> Rows(n)] :
           /\ r[0] = a /\ bubblePass(a, j) = r[n - j]
           /\ \A k \in 1..(n - j) :
                r[k] = IF r[k - 1][k] > r[k - 1][k + 1] THEN Swap(r[k - 1], k, k + 1) ELSE r[k - 1]
    BY BubblePassRounds
  <1>2. ASSUME NEW k \in 1..(n - j)
        PROVE  /\ k \in 1..n /\ k + 1 \in 1..n /\ k - 1 \in 0..(n - j) /\ k \in 0..(n - j)
               /\ r[k - 1] \in Rows(n) /\ r[k] \in Rows(n)
               /\ IF r[k - 1][k] > r[k - 1][k + 1]
                    THEN /\ Rearranged(n, r[k - 1], r[k])
                         /\ \A l \in 1..n : r[k][l] = IF l = k + 1 THEN r[k - 1][k]
                                                      ELSE IF l = k THEN r[k - 1][k + 1] ELSE r[k - 1][l]
                    ELSE r[k] = r[k - 1]
    <2>1. k \in 1..n /\ k + 1 \in 1..n /\ k - 1 \in 0..(n - j) /\ k \in 0..(n - j)
      OBVIOUS
    <2>2. r[k - 1] \in Rows(n) /\ r[k] \in Rows(n)
      BY <2>1
    <2>3. /\ Rearranged(n, r[k - 1], Swap(r[k - 1], k, k + 1))
          /\ \A l \in 1..n : Swap(r[k - 1], k, k + 1)[l] = IF l = k + 1 THEN r[k - 1][k]
                               ELSE IF l = k THEN r[k - 1][k + 1] ELSE r[k - 1][l]
      BY <2>1, <2>2, SwapFacts, SwapRearranges
    <2>4. r[k] = IF r[k - 1][k] > r[k - 1][k + 1] THEN Swap(r[k - 1], k, k + 1) ELSE r[k - 1]
      BY <1>1
    <2>. QED
      BY <2>1, <2>2, <2>3, <2>4
  <1>3. 0 \in 0..(n - j) /\ n - j \in 0..(n - j) /\ n - j \in Nat
    OBVIOUS
  <1>4. Rearranged(n, a, r[n - j])
    <2>. DEFINE S == {k \in 0..(n - j) : Rearranged(n, a, r[k])}
    <2>1. 0 \in S
      BY <1>1, <1>3, RearrangedSame
    <2>2. ASSUME NEW k \in (0 + 1)..(n - j), k - 1 \in S PROVE k \in S
      <3>1. k \in 1..(n - j)
        OBVIOUS
      <3>2. k \in 0..(n - j) /\ Rearranged(n, a, r[k - 1])
        BY <2>2
      <3>3. r[k] = r[k - 1] \/ Rearranged(n, r[k - 1], r[k])
        BY <1>2, <3>1
      <3>4. Rearranged(n, a, r[k])
        BY <3>2, <3>3, RearrangedOn
      <3>. QED
        BY <3>2, <3>4
    <2>3. 0..(n - j) \subseteq S
      <3>1. Upward(0, n - j, S)
        BY <2>1, <2>2 DEF Upward
      <3>. HIDE DEF S
      <3>. QED
        BY <1>3, <3>1, AlongInterval
    <2>. QED
      BY <1>3, <2>3
  <1>5. ASSUME SettledAfter(n, n - j + 1, a) PROVE SettledAfter(n, n - j, r[n - j])
    <2>. DEFINE P(k) == /\ SettledAfter(n, n - j + 1, r[k])
                        /\ \A l \in 1..(k + 1) : r[k][l] <= r[k][k + 1]
                S == {k \in 0..(n - j) : P(k)}
    <2>1. 0 \in S
      <3>1. 1 \in 1..n
        OBVIOUS
      <3>2. a[1] \in Int
        BY <3>1 DEF Rows
      <3>3. \A l \in 1..(0 + 1) : l = 1
        OBVIOUS
      <3>4. \A l \in 1..(0 + 1) : r[0][l] <= r[0][0 + 1]
        BY <1>1, <3>2, <3>3
      <3>. QED
        BY <1>1, <1>3, <1>5, <3>4
    <2>2. ASSUME NEW k \in (0 + 1)..(n - j), k - 1 \in S PROVE k \in S
      <3>1. k \in 1..(n - j)
        OBVIOUS
      <3>2. /\ SettledAfter(n, n - j + 1, r[k - 1])
            /\ \A l \in 1..k : r[k - 1][l] <= r[k - 1][k]
        BY <2>2
      <3>3. \A l \in 1..n : r[k - 1][l] \in Int
        BY <1>2, <3>1 DEF Rows
      <3>4. \A l \in 1..(k + 1) : l \in 1..n /\ (l \in 1..k \/ l = k + 1)
        OBVIOUS
      <3>5. CASE r[k - 1][k] > r[k - 1][k + 1]
        <4>1. \A l \in 1..n : r[k][l] = IF l = k + 1 THEN r[k - 1][k]
                                        ELSE IF l = k THEN r[k - 1][k + 1] ELSE r[k - 1][l]
          BY <1>2, <3>1, <3>5
        <4>2. \A l \in 1..(k + 1) : r[k][l] <= r[k][k + 1]
          BY <3>1, <3>2, <3>3, <3>4, <3>5, <4>1
        <4>3. SettledAfter(n, n - j + 1, r[k])
          <5>. SUFFICES ASSUME NEW x \in 1..n, NEW y \in 1..n, x <= y, n - j + 1 < y
                        PROVE  r[k][x] <= r[k][y]
            BY DEF SettledAfter
          <5>1. r[k][y] = r[k - 1][y] /\ k <= y /\ k + 1 <= y /\ k \in 1..n /\ k + 1 \in 1..n
            BY <3>1, <4>1
          <5>2. r[k - 1][k] <= r[k - 1][y] /\ r[k - 1][k + 1] <= r[k - 1][y] /\ r[k - 1][x] <= r[k - 1][y]
            BY <3>2, <5>1 DEF SettledAfter
          <5>. QED
            BY <4>1, <5>1, <5>2
        <4>. QED
          BY <3>1, <4>2, <4>3
      <3>6. CASE ~(r[k - 1][k] > r[k - 1][k + 1])
        <4>1. r[k] = r[k - 1]
          BY <1>2, <3>1, <3>6
        <4>2. \A l \in 1..(k + 1) : r[k][l] <= r[k][k + 1]
          BY <3>1, <3>2, <3>3, <3>4, <3>6, <4>1
        <4>. QED
          BY <3>1, <3>2, <4>1, <4>2
      <3>. QED
        BY <3>5, <3>6
    <2>3. 0..(n - j) \subseteq S
      <3>1. Upward(0, n - j, S)
        BY <2>1, <2>2 DEF Upward
      <3>. HIDE DEF S
      <3>. QED
        BY <1>3, <3>1, AlongInterval
    <2>4. P(n - j)
      BY <1>3, <2>3
    <2>. QED
      BY <2>4 DEF SettledAfter
  <1>6. ASSUME r[n - j] = a, NEW m \in 1..(n - j) PROVE a[m] <= a[m + 1]
    <2>1. ASSUME NEW k \in 0..(n - j) PROVE \A l \in k..(n - j) : \A x \in 1..k : r[l][x] = r[k][x]
      <3>. DEFINE S == {l \in k..(n - j) : \A x \in 1..k : r[l][x] = r[k][x]}
      <3>1. k \in S
        OBVIOUS
      <3>2. ASSUME NEW l \in (k + 1)..(n - j), l - 1 \in S PROVE l \in S
        <4>1. l \in 1..(n - j) /\ k < l
          OBVIOUS
        <4>2. \A x \in 1..k : r[l][x] = r[l - 1][x]
          BY <1>2, <4>1
        <4>. QED
          BY <3>2, <4>1, <4>2
      <3>3. Upward(k, n - j, S)
        BY <3>1, <3>2 DEF Upward
      <3>4. k \in Int /\ n - j \in Int
        OBVIOUS
      <3>5. k..(n - j) \subseteq S
        <4>. HIDE DEF S
        <4>. QED
          BY <3>3, <3>4, AlongInterval
      <3>. QED
        BY <3>5
    <2>. DEFINE S == {k \in 0..(n - j) : r[k] = a}
    <2>2. 0 \in S
      BY <1>1, <1>3
    <2>3. ASSUME NEW k \in 1..(n - j), r[k - 1] = a PROVE r[k] = a /\ a[k] <= a[k + 1]
      <3>1. k \in 1..n /\ k + 1 \in 1..n /\ a[k] \in Int /\ a[k + 1] \in Int
        BY <1>2 DEF Rows
      <3>2. ASSUME a[k] > a[k + 1] PROVE FALSE
        <4>1. r[k][k] = a[k + 1]
          BY <1>2, <2>3, <3>1, <3>2
        <4>2. r[n - j][k] = r[k][k]
          <5>1. k \in 0..(n - j) /\ n - j \in k..(n - j) /\ k \in 1..k
            OBVIOUS
          <5>. QED
            BY <2>1, <5>1
        <4>. QED
          BY <1>6, <3>1, <3>2, <4>1, <4>2
      <3>. QED
        BY <1>2, <2>3, <3>1, <3>2
    <2>4. 0..(n - j) \subseteq S
      <3>1. \A k \in (0 + 1)..(n - j) : k - 1 \in S => k \in S
        BY <2>3
      <3>2. Upward(0, n - j, S)
        BY <2>2, <3>1 DEF Upward
      <3>. HIDE DEF S
      <3>. QED
        BY <1>3, <3>2, AlongInterval
    <2>5. m - 1 \in S
      BY <2>4
    <2>. QED
      BY <2>3, <2>5
  <1>. QED
    BY <1>1, <1>3, <1>4, <1>5, <1>6

\* What a sort returns, and that there is one such array only.
Sorts(n, a, b) == b \in Rows(n) /\ Rearranged(n, a, b) /\ Ascending(n, b)

\* Two sorts of an array return the same.
LEMMA SortedOnce ==
  ASSUME NEW n \in Nat, NEW a, NEW b, NEW c, Sorts(n, a, b), Sorts(n, a, c)
  PROVE  b = c
PROOF
  <1>1. Rearranged(n, b, c)
    BY RearrangedBack, RearrangedOn DEF Sorts
  <1>. QED
    BY <1>1, AscendingUnique DEF Sorts

\* The passes of the bubble sort.
LEMMA BubbleSortRounds ==
  ASSUME NEW n \in Nat,
         NEW a \in Rows(n)
  PROVE  \E r \in [0..n -> Rows(n)] :
           /\ r[0] = a /\ bubbleSort(a) = r[n]
           /\ \A k \in 1..n : r[k] = bubblePass(r[k - 1], k)
PROOF
  <1>. DEFINE V == Rows(n)
              last == Len(a)
              D == (1 - 1)..last
              Op(b, k) == bubblePass(b, k)
              G == [k \in 1..last |-> [b \in V |-> Op(b, k)]]
              Eq(r) == r = [k \in D |-> IF k < 1 THEN a ELSE Op(r[k - 1], k)]
              s == CHOOSE r : Eq(r)
  <1>1. /\ last = n /\ last \in Int /\ 1 \in Int /\ 1 <= last + 1
        /\ 1 - 1 = 0 /\ D = 0..n /\ a \in V
    BY ArrayFacts
  <1>2. bubbleSort(a) = (IF last < 1 THEN a ELSE s[last])
    BY DEF bubbleSort, For
  <1>3. ASSUME NEW k \in 1..last, NEW b \in V PROVE Op(b, k) \in V /\ G[k][b] = Op(b, k)
    <2>0. Op(b, k) \in V
      <3>1. k \in 1..n
        BY <1>1
      <3>. QED
        BY <3>1, BubblePassSettles
    <2>. QED
      BY <2>0
  <1>4. PICK q \in [D -> V] : \A k \in D : q[k] = IF k < 1 THEN a ELSE G[k][q[k - 1]]
    <2>1. LoopBody(1, last, V, G)
      <3>. HIDE DEF G, V, Op, last
      <3>. QED
        BY <1>3 DEF LoopBody
    <2>. DEFINE B == a
    <2>2. B \in V
      BY <1>1
    <2>3. PICK q : LoopRun(1, last, V, B, G, q)
      <3>. HIDE DEF G, V, last, B
      <3>. QED
        BY <1>1, <2>1, <2>2, LoopExists
    <2>. HIDE DEF G, V, last, B
    <2>4. q \in [D -> V] /\ \A k \in D : q[k] = IF k < 1 THEN B ELSE G[k][q[k - 1]]
      BY <2>3 DEF LoopRun
    <2>. QED
      BY <2>4 DEF B
  <1>5. Eq(q)
    <2>1. ASSUME NEW k \in D PROVE q[k] = IF k < 1 THEN a ELSE Op(q[k - 1], k)
      <3>1. k >= 1 => k \in 1..last /\ k - 1 \in D /\ q[k - 1] \in V
        <4>. HIDE DEF G, V, Op, last
        <4>. QED
          BY <1>1, <1>4
      <3>2. k \in Int
        BY <1>1
      <3>. HIDE DEF G, V, Op, D, last
      <3>. QED
        BY <1>1, <1>3, <1>4, <3>1, <3>2
    <2>. HIDE DEF G, V, Op, D
    <2>. QED
      BY <1>4, <2>1
  <1>6. Eq(s)
    <2>. HIDE DEF Eq
    <2>. QED
      BY <1>5, Zenon
  <1>7. ASSUME NEW k \in D PROVE s[k] = IF k < 1 THEN a ELSE Op(s[k - 1], k)
    <2>. HIDE DEF G, V, Op, D, s
    <2>. QED
      BY <1>6
  <1>8. 0..last \subseteq {k \in D : s[k] \in V}
    <2>1. Upward(0, last, {k \in D : s[k] \in V})
      <3>. HIDE DEF V, Op, s, G, last
      <3>. QED
        BY <1>1, <1>3, <1>7 DEF Upward
    <2>. HIDE DEF s, V, D, last
    <2>. QED
      BY <1>1, <2>1, AlongInterval
  <1>9. s \in [0..n -> V]
    <2>. HIDE DEF V, Op, last
    <2>. QED
      BY <1>1, <1>6, <1>8
  <1>. HIDE DEF s, D, Op, last
  <1>10. 0 \in D /\ s[0] = a
    BY <1>1, <1>7
  <1>11. bubbleSort(a) = s[n]
    <2>1. CASE last < 1
      BY <1>1, <1>2, <1>10, <2>1
    <2>2. CASE ~(last < 1)
      BY <1>1, <1>2, <2>2
    <2>. QED
      BY <2>1, <2>2
  <1>12. \A k \in 1..n : s[k] = Op(s[k - 1], k)
    BY <1>1, <1>7
  <1>. QED
    BY <1>9, <1>10, <1>11, <1>12 DEF Op

\* bubbleSort: pass i settles the i-th greatest number.
LEMMA BubbleSortSorts ==
  ASSUME NEW n \in Nat, NEW a \in Rows(n)
  PROVE  Sorts(n, a, bubbleSort(a))
PROOF
  <1>1. PICK r \in [0..n -> Rows(n)] :
           /\ r[0] = a /\ bubbleSort(a) = r[n]
           /\ \A k \in 1..n : r[k] = bubblePass(r[k - 1], k)
    BY BubbleSortRounds
  <1>. DEFINE P(k) == Rearranged(n, a, r[k]) /\ SettledAfter(n, n - k, r[k])
              S == {k \in 0..n : P(k)}
  <1>2. 0 \in S
    <2>1. Rearranged(n, a, r[0]) /\ SettledAfter(n, n - 0, r[0])
      BY <1>1, RearrangedSame DEF SettledAfter
    <2>. QED
      BY <2>1
  <1>3. ASSUME NEW k \in (0 + 1)..n, k - 1 \in S PROVE k \in S
    <2>1. k \in 1..n /\ k \in 0..n /\ k - 1 \in 0..n /\ n - (k - 1) = n - k + 1 /\ r[k - 1] \in Rows(n)
      OBVIOUS
    <2>2. Rearranged(n, a, r[k - 1]) /\ SettledAfter(n, n - k + 1, r[k - 1])
      BY <1>3, <2>1
    <2>3. r[k] = bubblePass(r[k - 1], k)
      BY <1>1, <2>1
    <2>4. SettledAfter(n, n - k, r[k]) /\ Rearranged(n, r[k - 1], r[k])
      BY <2>1, <2>2, <2>3, BubblePassSettles
    <2>5. Rearranged(n, a, r[k])
      BY <2>2, <2>4, RearrangedOn
    <2>. QED
      BY <2>1, <2>4, <2>5
  <1>4. 0..n \subseteq S
    <2>1. Upward(0, n, S)
      BY <1>2, <1>3 DEF Upward
    <2>. HIDE DEF S
    <2>. QED
      BY <2>1, AlongInterval
  <1>5. P(n) /\ r[n] \in Rows(n)
    BY <1>4
  <1>6. Ascending(n, r[n])
    BY <1>5 DEF SettledAfter, Ascending
  <1>. QED
    BY <1>1, <1>5, <1>6 DEF Sorts

\* The passes that end with the first one that changes nothing.
LEMMA BubbleOptimizerPasses ==
  ASSUME NEW n \in Nat,
         NEW a \in Rows(n)
  PROVE  \E f \in [Rows(n) \X (1..(n + 1)) -> Rows(n)] :
           /\ bubbleOptimizerSort(a) = f[<<a, 1>>]
           /\ \A p \in Rows(n) \X (1..(n + 1)) : f[p] = IF p[2] > Len(p[1]) \/ bubblePass(p[1], p[2]) = p[1] THEN p[1]
                                         ELSE f[<<bubblePass(p[1], p[2]), p[2] + 1>>]
PROOF
  <1>. DEFINE D == Arrays(a) \X (1..(Len(a) + 1))
              V == Rows(n)
              rank == [p \in D |-> Len(a) + 1 - p[2]]
              Body(f, p) == IF p[2] > Len(p[1]) \/ bubblePass(p[1], p[2]) = p[1] THEN p[1]
                                         ELSE f[<<bubblePass(p[1], p[2]), p[2] + 1>>]
              F == [p \in D |-> [g \in [D -> V] |-> Body(g, p)]]
              Eq(f) == f = [p \in D |-> Body(f, p)]
              s == CHOOSE f : Eq(f)
  <1>1. D = Rows(n) \X (1..(n + 1))
    BY ArrayFacts DEF Rows
  <1>2. bubbleOptimizerSort(a) = s[<<a, 1>>]
    BY DEF bubbleOptimizerSort
  <1>3. V # {} /\ rank \in [D -> Nat]
    BY <1>1
  <1>4. ASSUME NEW p \in D, NEW g \in [D -> V] PROVE Body(g, p) \in V
    <2>1. /\ p[1] \in Rows(n) /\ p[2] \in 1..(n + 1) /\ Len(p[1]) = n
      BY <1>1, ArrayFacts
    <2>2. ASSUME ~(p[2] > Len(p[1])) PROVE <<bubblePass(p[1], p[2]), p[2] + 1>> \in D
      <3>1. p[2] \in 1..n
        BY <2>1, <2>2
      <3>2. bubblePass(p[1], p[2]) \in Rows(n)
        BY <2>1, <3>1, BubblePassSettles
      <3>. QED
        BY <1>1, <3>1, <3>2
    <2>. HIDE DEF D
    <2>. QED
      BY <2>1, <2>2
  <1>5. ASSUME NEW p \in D, NEW g, NEW h \in [D -> V], \A y \in D : rank[y] < rank[p] => g[y] = h[y]
        PROVE  Body(g, p) = Body(h, p)
    <2>1. /\ p[1] \in Rows(n) /\ p[2] \in 1..(n + 1) /\ Len(p[1]) = n /\ Len(a) = n
      BY <1>1, ArrayFacts
    <2>2. ASSUME ~(p[2] > Len(p[1]))
          PROVE  g[<<bubblePass(p[1], p[2]), p[2] + 1>>] = h[<<bubblePass(p[1], p[2]), p[2] + 1>>]
      <3>1. p[2] \in 1..n
        BY <2>1, <2>2
      <3>2. bubblePass(p[1], p[2]) \in Rows(n)
        BY <2>1, <3>1, BubblePassSettles
      <3>3. <<bubblePass(p[1], p[2]), p[2] + 1>> \in D
        BY <1>1, <3>1, <3>2
      <3>4. rank[<<bubblePass(p[1], p[2]), p[2] + 1>>] < rank[p]
        BY <2>1, <3>1, <3>3
      <3>. QED
        BY <1>5, <3>3, <3>4
    <2>. HIDE DEF D, rank
    <2>. QED
      BY <2>1, <2>2
  <1>6. PICK q \in [D -> V] : \A p \in D : q[p] = Body(q, p)
    <2>1. F \in [D -> [[D -> V] -> V]] /\ \A p \in D : \A g \in [D -> V] : F[p][g] = Body(g, p)
      <3>. HIDE DEF D, V, Body
      <3>. QED
        BY <1>4
    <2>2. Local(D, V, rank, F)
      <3>. HIDE DEF D, V, rank, F, Body
      <3>1. ASSUME NEW x \in D, NEW g \in [D -> V], NEW h \in [D -> V],
                   \A y \in D : rank[y] < rank[x] => g[y] = h[y]
            PROVE  F[x][g] = F[x][h]
        <4>1. Body(g, x) = Body(h, x)
          BY <1>5, <3>1
        <4>. QED
          BY <2>1, <4>1
      <3>. QED
        BY <2>1, <3>1 DEF Local
    <2>3. PICK q : Solution(D, V, F, q)
      <3>. HIDE DEF D, V, rank, F
      <3>. QED
        BY <1>3, <2>2, Recursion
    <2>. HIDE DEF D, V, rank, F, Body
    <2>. QED
      BY <2>1, <2>3 DEF Solution
  <1>7. Eq(s)
    <2>1. Eq(q)
      <3>. HIDE DEF D, V, Body
      <3>. QED
        BY <1>6
    <2>. HIDE DEF Eq
    <2>. QED
      BY <2>1, Zenon
  <1>8. \A p \in D : s[p] = Body(s, p)
    <2>. HIDE DEF D, V, Body, s
    <2>. QED
      BY <1>7
  <1>9. D \subseteq {p \in D : s[p] = q[p]}
    <2>1. RankedIn(D, rank, {p \in D : s[p] = q[p]})
      <3>. HIDE DEF D, V, Body, s, rank
      <3>. QED
        BY <1>5, <1>6, <1>8 DEF RankedIn
    <2>. HIDE DEF D, V, Body, s, rank
    <2>. QED
      BY <1>3, <2>1, ByRank
  <1>10. s \in [D -> V]
    <2>. HIDE DEF D, V, Body
    <2>. QED
      BY <1>6, <1>7, <1>9
  <1>. HIDE DEF s, D
  <1>. QED
    BY <1>1, <1>2, <1>8, <1>10

\* bubbleOptimizerSort: the array is ascending when a pass changes nothing.
LEMMA BubbleOptimizerSorts ==
  ASSUME NEW n \in Nat, NEW a \in Rows(n)
  PROVE  Sorts(n, a, bubbleOptimizerSort(a))
PROOF
  <1>. DEFINE D == Rows(n) \X (1..(n + 1))
              rank == [p \in D |-> n + 1 - p[2]]
  <1>1. PICK f \in [D -> Rows(n)] :
           /\ bubbleOptimizerSort(a) = f[<<a, 1>>]
           /\ \A p \in D : f[p] = IF p[2] > Len(p[1]) \/ bubblePass(p[1], p[2]) = p[1] THEN p[1]
                                  ELSE f[<<bubblePass(p[1], p[2]), p[2] + 1>>]
    BY BubbleOptimizerPasses
  <1>. DEFINE P(p) == SettledAfter(n, n - p[2] + 1, p[1]) => Sorts(n, p[1], f[p])
              S == {p \in D : P(p)}
  <1>2. ASSUME NEW p \in D, \A y \in D : rank[y] < rank[p] => y \in S PROVE p \in S
    <2>1. SUFFICES ASSUME SettledAfter(n, n - p[2] + 1, p[1]) PROVE Sorts(n, p[1], f[p])
      OBVIOUS
    <2>2. p[1] \in Rows(n) /\ p[2] \in 1..(n + 1) /\ Len(p[1]) = n
      BY ArrayFacts
    <2>3. CASE p[2] > n
      <3>1. n - p[2] + 1 = 0 /\ p[2] > Len(p[1])
        BY <2>2, <2>3
      <3>3. f[p] = p[1]
        BY <1>1, <3>1
      <3>2. Ascending(n, p[1])
        BY <2>1, <3>1 DEF SettledAfter, Ascending
      <3>. QED
        BY <2>2, <3>3, <3>2, RearrangedSame DEF Sorts
    <2>4. CASE p[2] \in 1..n /\ bubblePass(p[1], p[2]) = p[1]
      <3>1. f[p] = p[1]
        BY <1>1, <2>2, <2>4
      <3>2. SettledAfter(n, n - p[2], p[1]) /\ \A k \in 1..(n - p[2]) : p[1][k] <= p[1][k + 1]
        BY <2>1, <2>2, <2>4, BubblePassSettles
      <3>3. Ascending(n, p[1])
        <4>. DEFINE b == p[1]
                    m == n - p[2]
        <4>1. m \in Nat /\ m <= n /\ b \in Rows(n)
          BY <2>2, <2>4
        <4>2. \A k \in 1..n : b[k] \in Int
          BY <4>1 DEF Rows
        <4>3. ASSUME NEW x \in 1..n PROVE \A y \in x..(m + 1) : y \in 1..n => b[x] <= b[y]
          <5>. DEFINE Q == {y \in Int : y \in 1..n /\ y <= m + 1 => b[x] <= b[y]}
          <5>1. x \in Q
            BY <4>2
          <5>2. ASSUME NEW y \in (x + 1)..(m + 1), y - 1 \in Q PROVE y \in Q
            <6>. SUFFICES ASSUME y \in 1..n PROVE b[x] <= b[y]
              OBVIOUS
            <6>1. y - 1 \in 1..n /\ y - 1 \in 1..m /\ y - 1 + 1 = y /\ y - 1 <= m + 1
              BY <4>1
            <6>2. b[y - 1] <= b[y - 1 + 1]
              BY <3>2, <6>1
            <6>3. b[x] <= b[y - 1]
              BY <5>2, <6>1
            <6>. HIDE DEF b, m
            <6>. QED
              BY <4>2, <6>1, <6>2, <6>3
          <5>3. x..(m + 1) \subseteq Q
            <6>1. Upward(x, m + 1, Q)
              BY <5>1, <5>2 DEF Upward
            <6>2. m + 1 \in Int
              BY <4>1
            <6>. HIDE DEF Q, m
            <6>. QED
              BY <6>1, <6>2, AlongInterval
          <5>. HIDE DEF b, m
          <5>. QED
            BY <4>1, <5>3
        <4>4. ASSUME NEW x \in 1..n, NEW y \in 1..n, x <= y PROVE b[x] <= b[y]
          <5>1. CASE m < y
            BY <3>2, <4>4, <5>1 DEF SettledAfter
          <5>2. CASE y <= m
            <6>1. y \in x..(m + 1)
              BY <4>1, <4>4, <5>2
            <6>. QED
              BY <4>3, <6>1
          <5>. QED
            BY <4>1, <5>1, <5>2
        <4>. QED
          BY <4>4 DEF Ascending
      <3>. QED
        BY <2>2, <3>1, <3>3, RearrangedSame DEF Sorts
    <2>5. CASE p[2] \in 1..n /\ bubblePass(p[1], p[2]) # p[1]
      <3>. DEFINE b == bubblePass(p[1], p[2])
                  d == <<b, p[2] + 1>>
      <3>1. f[p] = f[d]
        BY <1>1, <2>2, <2>5
      <3>2. b \in Rows(n) /\ Rearranged(n, p[1], b) /\ SettledAfter(n, n - p[2], b)
        BY <2>1, <2>2, <2>5, BubblePassSettles
      <3>. HIDE DEF b
      <3>3. d \in D /\ d[1] = b /\ d[2] = p[2] + 1 /\ n - d[2] + 1 = n - p[2]
        BY <2>5, <3>2
      <3>4. rank[d] < rank[p]
        BY <2>5, <3>3
      <3>5. P(d)
        BY <1>2, <3>3, <3>4
      <3>6. Sorts(n, b, f[d])
        BY <3>2, <3>3, <3>5
      <3>7. Rearranged(n, p[1], f[d])
        BY <3>2, <3>6, RearrangedOn DEF Sorts
      <3>. QED
        BY <3>1, <3>6, <3>7 DEF Sorts
    <2>. QED
      BY <2>2, <2>3, <2>4, <2>5
  <1>3. rank \in [D -> Nat]
    OBVIOUS
  <1>4. D \subseteq S
    <2>1. RankedIn(D, rank, S)
      BY <1>2 DEF RankedIn
    <2>. HIDE DEF D, rank, S
    <2>. QED
      BY <1>3, <2>1, ByRank
  <1>. DEFINE d == <<a, 1>>
  <1>5. d \in D /\ d[1] = a /\ d[2] = 1
    OBVIOUS
  <1>6. SettledAfter(n, n - 1 + 1, a)
    BY DEF SettledAfter
  <1>7. P(d)
    BY <1>4, <1>5
  <1>. QED
    BY <1>1, <1>5, <1>6, <1>7
-----------------------------------------------------------------------------
(***************************************************************************)
(* The selection sort and the insertion sort.                              *)
(***************************************************************************)
\* The search for the least number from j on.
LEMMA SelectRounds ==
  ASSUME NEW n \in Nat,
         NEW a \in Rows(n),
         NEW j \in 1..n
  PROVE  \E r \in [(j)..n -> [a : Rows(n), min : Int]] :
           /\ r[j] = [a |-> a, min |-> a[j]] /\ For(least, [a |-> a, min |-> a[j]], j + 1, Len(a)) = r[n]
           /\ \A k \in (j + 1)..n : r[k] = least(r[k - 1], k)
PROOF
  <1>. DEFINE V == [a : Rows(n), min : Int]
              last == Len(a)
              D == (j + 1 - 1)..last
              Op(b, k) == least(b, k)
              G == [k \in (j + 1)..last |-> [b \in V |-> Op(b, k)]]
              Eq(r) == r = [k \in D |-> IF k < j + 1 THEN [a |-> a, min |-> a[j]] ELSE Op(r[k - 1], k)]
              s == CHOOSE r : Eq(r)
  <1>1. /\ last = n /\ last \in Int /\ j + 1 \in Int /\ j + 1 <= last + 1
        /\ j + 1 - 1 = j /\ D = (j)..n /\ [a |-> a, min |-> a[j]] \in V
    BY ArrayFacts DEF Rows
  <1>2. For(least, [a |-> a, min |-> a[j]], j + 1, Len(a)) = (IF last < j + 1 THEN [a |-> a, min |-> a[j]] ELSE s[last])
    BY DEF For
  <1>3. ASSUME NEW k \in (j + 1)..last, NEW b \in V PROVE Op(b, k) \in V /\ G[k][b] = Op(b, k)
    <2>0. Op(b, k) \in V
      <3>1. k \in 1..n
        BY <1>1
      <3>. QED
        BY <3>1 DEF least, Rows
    <2>. QED
      BY <2>0
  <1>4. PICK q \in [D -> V] : \A k \in D : q[k] = IF k < j + 1 THEN [a |-> a, min |-> a[j]] ELSE G[k][q[k - 1]]
    <2>1. LoopBody(j + 1, last, V, G)
      <3>. HIDE DEF G, V, Op, last
      <3>. QED
        BY <1>3 DEF LoopBody
    <2>. DEFINE B == [a |-> a, min |-> a[j]]
    <2>2. B \in V
      BY <1>1
    <2>3. PICK q : LoopRun(j + 1, last, V, B, G, q)
      <3>. HIDE DEF G, V, last, B
      <3>. QED
        BY <1>1, <2>1, <2>2, LoopExists
    <2>. HIDE DEF G, V, last, B
    <2>4. q \in [D -> V] /\ \A k \in D : q[k] = IF k < j + 1 THEN B ELSE G[k][q[k - 1]]
      BY <2>3 DEF LoopRun
    <2>. QED
      BY <2>4 DEF B
  <1>5. Eq(q)
    <2>1. ASSUME NEW k \in D PROVE q[k] = IF k < j + 1 THEN [a |-> a, min |-> a[j]] ELSE Op(q[k - 1], k)
      <3>1. k >= j + 1 => k \in (j + 1)..last /\ k - 1 \in D /\ q[k - 1] \in V
        <4>. HIDE DEF G, V, Op, last
        <4>. QED
          BY <1>1, <1>4
      <3>2. k \in Int
        BY <1>1
      <3>. HIDE DEF G, V, Op, D, last
      <3>. QED
        BY <1>1, <1>3, <1>4, <3>1, <3>2
    <2>. HIDE DEF G, V, Op, D
    <2>. QED
      BY <1>4, <2>1
  <1>6. Eq(s)
    <2>. HIDE DEF Eq
    <2>. QED
      BY <1>5, Zenon
  <1>7. ASSUME NEW k \in D PROVE s[k] = IF k < j + 1 THEN [a |-> a, min |-> a[j]] ELSE Op(s[k - 1], k)
    <2>. HIDE DEF G, V, Op, D, s
    <2>. QED
      BY <1>6
  <1>8. (j)..last \subseteq {k \in D : s[k] \in V}
    <2>1. Upward(j, last, {k \in D : s[k] \in V})
      <3>. HIDE DEF V, Op, s, G, last
      <3>. QED
        BY <1>1, <1>3, <1>7 DEF Upward
    <2>. HIDE DEF s, V, D, last
    <2>. QED
      BY <1>1, <2>1, AlongInterval
  <1>9. s \in [(j)..n -> V]
    <2>. HIDE DEF V, Op, last
    <2>. QED
      BY <1>1, <1>6, <1>8
  <1>. HIDE DEF s, D, Op, last
  <1>10. j \in D /\ s[j] = [a |-> a, min |-> a[j]]
    BY <1>1, <1>7
  <1>11. For(least, [a |-> a, min |-> a[j]], j + 1, Len(a)) = s[n]
    <2>1. CASE last < j + 1
      BY <1>1, <1>2, <1>10, <2>1
    <2>2. CASE ~(last < j + 1)
      BY <1>1, <1>2, <2>2
    <2>. QED
      BY <2>1, <2>2
  <1>12. \A k \in (j + 1)..n : s[k] = Op(s[k - 1], k)
    BY <1>1, <1>7
  <1>. QED
    BY <1>9, <1>10, <1>11, <1>12 DEF Op

\* Up to m every number has its place: it is no greater than those after it.
SettledBefore(n, m, a) == \A k, l \in 1..n : (k <= l /\ k <= m) => a[k] <= a[l]

\* A round rearranges the array, and brings the least of the numbers that are left to j.
LEMMA SelectSettles ==
  ASSUME NEW n \in Nat, NEW a \in Rows(n), NEW j \in 1..n
  PROVE  /\ select(a, j) \in Rows(n) /\ Rearranged(n, a, select(a, j))
         /\ SettledBefore(n, j - 1, a) => SettledBefore(n, j, select(a, j))
PROOF
  <1>1. PICK r \in [j..n -> [a : Rows(n), min : Int]] :
           /\ r[j] = [a |-> a, min |-> a[j]]
           /\ For(least, [a |-> a, min |-> a[j]], j + 1, Len(a)) = r[n]
           /\ \A k \in (j + 1)..n : r[k] = least(r[k - 1], k)
    BY SelectRounds, ZenonT(30)
  <1>. DEFINE H(k) == [r[k].a EXCEPT ![j] = r[k].min]
  <1>2. select(a, j) = H(n)
    BY <1>1 DEF select
  <1>3. ASSUME NEW k \in j..n PROVE H(k) \in Rows(n)
    <2>1. r[k].a \in Rows(n) /\ r[k].min \in Int
      OBVIOUS
    <2>. QED
      BY <2>1 DEF Rows
  <1>4. H(j) = a
    BY <1>1 DEF Rows
  <1>5. ASSUME NEW k \in (j + 1)..n
        PROVE  IF H(k - 1)[j] > H(k - 1)[k] THEN H(k) = Swap(H(k - 1), j, k) ELSE H(k) = H(k - 1)
    <2>. DEFINE c == r[k - 1].a
                m == r[k - 1].min
    <2>1. k - 1 \in j..n /\ k \in 1..n /\ k # j /\ j \in 1..n /\ c \in Rows(n) /\ m \in Int
      OBVIOUS
    <2>2. H(k - 1)[j] = m /\ H(k - 1)[k] = c[k]
      BY <2>1 DEF Rows
    <2>3. r[k] = IF m > c[k] THEN [a |-> [c EXCEPT ![k] = m], min |-> c[k]] ELSE r[k - 1]
      BY <1>1 DEF least
    <2>4. CASE m > c[k]
      <3>1. r[k].a = [c EXCEPT ![k] = m] /\ r[k].min = c[k]
        BY <2>3, <2>4
      <3>2. H(k) = [[c EXCEPT ![k] = m] EXCEPT ![j] = c[k]]
        BY <3>1
      <3>3. H(k - 1) = [c EXCEPT ![j] = m]
        OBVIOUS
      <3>. HIDE DEF H, c, m
      <3>4. H(k) = Swap(H(k - 1), j, k)
        BY <2>1, <3>2, <3>3 DEF Rows, Swap
      <3>. QED
        BY <2>2, <2>4, <3>4
    <2>5. CASE ~(m > c[k])
      BY <2>2, <2>3, <2>5
    <2>. QED
      BY <2>4, <2>5
  <1>. HIDE DEF H
  <1>. DEFINE P(k) == /\ Rearranged(n, a, H(k))
                      /\ SettledBefore(n, j - 1, a) =>
                           SettledBefore(n, j - 1, H(k)) /\ \A l \in j..k : H(k)[j] <= H(k)[l]
              S == {k \in j..n : P(k)}
  <1>6. j \in S
    <2>1. a[j] \in Int
      BY DEF Rows
    <2>2. \A l \in j..j : l = j
      OBVIOUS
    <2>. QED
      BY <1>4, <2>1, <2>2, RearrangedSame
  <1>7. ASSUME NEW k \in (j + 1)..n, k - 1 \in S PROVE k \in S
    <2>. DEFINE b == H(k - 1)
    <2>1. k - 1 \in j..n /\ k \in j..n /\ j \in 1..n /\ k \in 1..n /\ P(k - 1)
      BY <1>7
    <2>2. b \in Rows(n) /\ \A l \in 1..n : b[l] \in Int
      BY <1>3, <2>1 DEF Rows
    <2>3. CASE b[j] > b[k]
      <3>1. H(k) = Swap(b, j, k)
        BY <1>5, <2>3
      <3>2. \A l \in 1..n : H(k)[l] = IF l = k THEN b[j] ELSE IF l = j THEN b[k] ELSE b[l]
        BY <2>1, <2>2, <3>1 DEF Swap, Rows
      <3>3. Rearranged(n, b, H(k))
        BY <2>1, <2>2, <3>1, SwapRearranges
      <3>4. Rearranged(n, a, H(k))
        BY <2>1, <3>3, RearrangedOn
      <3>5. ASSUME SettledBefore(n, j - 1, a)
            PROVE  SettledBefore(n, j - 1, H(k)) /\ \A l \in j..k : H(k)[j] <= H(k)[l]
        <4>1. SettledBefore(n, j - 1, b) /\ \A l \in j..(k - 1) : b[j] <= b[l]
          BY <2>1, <3>5
        <4>. HIDE DEF b
        <4>2. SettledBefore(n, j - 1, H(k))
          BY <2>1, <2>2, <3>2, <4>1 DEF SettledBefore
        <4>3. \A l \in j..k : l \in 1..n /\ (l = k \/ l \in j..(k - 1))
          BY <2>1
        <4>4. ASSUME NEW l \in j..k PROVE H(k)[j] <= H(k)[l]
          <5>1. H(k)[j] = b[k] /\ H(k)[k] = b[j] /\ b[j] \in Int /\ b[k] \in Int
            BY <2>1, <2>2, <3>2
          <5>2. CASE l = k \/ l = j
            BY <2>3, <5>1, <5>2
          <5>3. CASE l # k /\ l # j
            <6>1. l \in 1..n /\ b[l] \in Int /\ b[j] <= b[l] /\ H(k)[l] = b[l]
              BY <2>2, <3>2, <4>1, <4>3, <5>3
            <6>. QED
              BY <2>3, <5>1, <6>1
          <5>. QED
            BY <5>2, <5>3
        <4>. QED
          BY <4>2, <4>4
      <3>. QED
        BY <2>1, <3>4, <3>5
    <2>4. CASE ~(b[j] > b[k])
      <3>1. H(k) = b
        BY <1>5, <2>4
      <3>2. \A l \in j..k : l \in 1..n /\ (l = k \/ l \in j..(k - 1))
        BY <2>1
      <3>. QED
        BY <2>1, <2>2, <2>4, <3>1, <3>2
    <2>. QED
      BY <2>3, <2>4
  <1>8. j..n \subseteq S
    <2>1. Upward(j, n, S)
      BY <1>6, <1>7 DEF Upward
    <2>. HIDE DEF S
    <2>. QED
      BY <2>1, AlongInterval
  <1>9. P(n) /\ H(n) \in Rows(n)
    BY <1>3, <1>8
  <1>10. SettledBefore(n, j - 1, a) => SettledBefore(n, j, H(n))
    BY <1>9 DEF SettledBefore
  <1>. QED
    BY <1>2, <1>9, <1>10

\* The rounds of the selection sort.
LEMMA SelectSortRounds ==
  ASSUME NEW n \in Nat,
         NEW a \in Rows(n)
  PROVE  \E r \in [0..n -> Rows(n)] :
           /\ r[0] = a /\ selectSort(a) = r[n]
           /\ \A k \in 1..n : r[k] = select(r[k - 1], k)
PROOF
  <1>. DEFINE V == Rows(n)
              last == Len(a)
              D == (1 - 1)..last
              Op(b, k) == select(b, k)
              G == [k \in 1..last |-> [b \in V |-> Op(b, k)]]
              Eq(r) == r = [k \in D |-> IF k < 1 THEN a ELSE Op(r[k - 1], k)]
              s == CHOOSE r : Eq(r)
  <1>1. /\ last = n /\ last \in Int /\ 1 \in Int /\ 1 <= last + 1
        /\ 1 - 1 = 0 /\ D = 0..n /\ a \in V
    BY ArrayFacts
  <1>2. selectSort(a) = (IF last < 1 THEN a ELSE s[last])
    BY DEF selectSort, For
  <1>3. ASSUME NEW k \in 1..last, NEW b \in V PROVE Op(b, k) \in V /\ G[k][b] = Op(b, k)
    <2>0. Op(b, k) \in V
      <3>1. k \in 1..n
        BY <1>1
      <3>. QED
        BY <3>1, SelectSettles
    <2>. QED
      BY <2>0
  <1>4. PICK q \in [D -> V] : \A k \in D : q[k] = IF k < 1 THEN a ELSE G[k][q[k - 1]]
    <2>1. LoopBody(1, last, V, G)
      <3>. HIDE DEF G, V, Op, last
      <3>. QED
        BY <1>3 DEF LoopBody
    <2>. DEFINE B == a
    <2>2. B \in V
      BY <1>1
    <2>3. PICK q : LoopRun(1, last, V, B, G, q)
      <3>. HIDE DEF G, V, last, B
      <3>. QED
        BY <1>1, <2>1, <2>2, LoopExists
    <2>. HIDE DEF G, V, last, B
    <2>4. q \in [D -> V] /\ \A k \in D : q[k] = IF k < 1 THEN B ELSE G[k][q[k - 1]]
      BY <2>3 DEF LoopRun
    <2>. QED
      BY <2>4 DEF B
  <1>5. Eq(q)
    <2>1. ASSUME NEW k \in D PROVE q[k] = IF k < 1 THEN a ELSE Op(q[k - 1], k)
      <3>1. k >= 1 => k \in 1..last /\ k - 1 \in D /\ q[k - 1] \in V
        <4>. HIDE DEF G, V, Op, last
        <4>. QED
          BY <1>1, <1>4
      <3>2. k \in Int
        BY <1>1
      <3>. HIDE DEF G, V, Op, D, last
      <3>. QED
        BY <1>1, <1>3, <1>4, <3>1, <3>2
    <2>. HIDE DEF G, V, Op, D
    <2>. QED
      BY <1>4, <2>1
  <1>6. Eq(s)
    <2>. HIDE DEF Eq
    <2>. QED
      BY <1>5, Zenon
  <1>7. ASSUME NEW k \in D PROVE s[k] = IF k < 1 THEN a ELSE Op(s[k - 1], k)
    <2>. HIDE DEF G, V, Op, D, s
    <2>. QED
      BY <1>6
  <1>8. 0..last \subseteq {k \in D : s[k] \in V}
    <2>1. Upward(0, last, {k \in D : s[k] \in V})
      <3>. HIDE DEF V, Op, s, G, last
      <3>. QED
        BY <1>1, <1>3, <1>7 DEF Upward
    <2>. HIDE DEF s, V, D, last
    <2>. QED
      BY <1>1, <2>1, AlongInterval
  <1>9. s \in [0..n -> V]
    <2>. HIDE DEF V, Op, last
    <2>. QED
      BY <1>1, <1>6, <1>8
  <1>. HIDE DEF s, D, Op, last
  <1>10. 0 \in D /\ s[0] = a
    BY <1>1, <1>7
  <1>11. selectSort(a) = s[n]
    <2>1. CASE last < 1
      BY <1>1, <1>2, <1>10, <2>1
    <2>2. CASE ~(last < 1)
      BY <1>1, <1>2, <2>2
    <2>. QED
      BY <2>1, <2>2
  <1>12. \A k \in 1..n : s[k] = Op(s[k - 1], k)
    BY <1>1, <1>7
  <1>. QED
    BY <1>9, <1>10, <1>11, <1>12 DEF Op

\* selectSort: round i settles the i-th least number.
LEMMA SelectSortSorts ==
  ASSUME NEW n \in Nat, NEW a \in Rows(n)
  PROVE  Sorts(n, a, selectSort(a))
PROOF
  <1>1. PICK r \in [0..n -> Rows(n)] :
           /\ r[0] = a /\ selectSort(a) = r[n]
           /\ \A k \in 1..n : r[k] = select(r[k - 1], k)
    BY SelectSortRounds
  <1>. DEFINE P(k) == Rearranged(n, a, r[k]) /\ SettledBefore(n, k, r[k])
              S == {k \in 0..n : P(k)}
  <1>2. 0 \in S
    <2>1. Rearranged(n, a, r[0]) /\ SettledBefore(n, 0, r[0])
      BY <1>1, RearrangedSame DEF SettledBefore
    <2>. QED
      BY <2>1
  <1>3. ASSUME NEW k \in (0 + 1)..n, k - 1 \in S PROVE k \in S
    <2>1. k \in 1..n /\ k \in 0..n /\ r[k - 1] \in Rows(n) /\ P(k - 1)
      BY <1>3
    <2>2. r[k] = select(r[k - 1], k)
      BY <1>1, <2>1
    <2>3. SettledBefore(n, k, r[k]) /\ Rearranged(n, r[k - 1], r[k])
      BY <2>1, <2>2, SelectSettles
    <2>4. Rearranged(n, a, r[k])
      BY <2>1, <2>3, RearrangedOn
    <2>. QED
      BY <2>1, <2>3, <2>4
  <1>4. 0..n \subseteq S
    <2>1. Upward(0, n, S)
      BY <1>2, <1>3 DEF Upward
    <2>. HIDE DEF S
    <2>. QED
      BY <2>1, AlongInterval
  <1>5. P(n) /\ r[n] \in Rows(n)
    BY <1>4
  <1>6. Ascending(n, r[n])
    BY <1>5 DEF SettledBefore, Ascending
  <1>. QED
    BY <1>1, <1>5, <1>6 DEF Sorts

\* Up to m the numbers but the one at j are ascending, and none before it is out of place to it.
AllBut(m, j, a) == \A k, l \in 1..m : (k < l /\ l # j) => a[k] <= a[l]

\* An exchange with the number before it leaves the sinking one the only one out of place.
LEMMA AllButSwap ==
  ASSUME NEW n \in Nat, NEW a \in Rows(n), NEW m \in 1..n, NEW j \in 2..m,
         AllBut(m, j, a), a[j] < a[j - 1]
  PROVE  AllBut(m, j - 1, Swap(a, j, j - 1))
PROOF
  <1>1. j \in 1..n /\ j - 1 \in 1..n /\ \A k \in 1..n : a[k] \in Int
    BY DEF Rows
  <1>2. \A l \in 1..n : Swap(a, j, j - 1)[l] = IF l = j - 1 THEN a[j] ELSE IF l = j THEN a[j - 1] ELSE a[l]
    BY <1>1 DEF Swap, Rows
  <1>3. SUFFICES ASSUME NEW k \in 1..m, NEW l \in 1..m, k < l, l # j - 1
                 PROVE  Swap(a, j, j - 1)[k] <= Swap(a, j, j - 1)[l]
    BY DEF AllBut
  <1>4. k \in 1..n /\ l \in 1..n /\ j - 1 \in 1..m /\ j \in 1..m
    OBVIOUS
  <1>5. CASE l = j
    <2>1. CASE k = j - 1
      BY <1>1, <1>2, <1>3, <1>4, <1>5, <2>1
    <2>2. CASE k # j - 1
      <3>1. a[k] <= a[j - 1]
        BY <1>3, <1>4, <1>5, <2>2 DEF AllBut
      <3>. QED
        BY <1>1, <1>2, <1>3, <1>4, <1>5, <2>2, <3>1
    <2>. QED
      BY <2>1, <2>2
  <1>6. CASE l # j
    <2>1. Swap(a, j, j - 1)[l] = a[l]
      BY <1>2, <1>3, <1>4, <1>6
    <2>2. a[k] <= a[l] /\ (j < l => a[j] <= a[l]) /\ (j - 1 < l => a[j - 1] <= a[l])
      BY <1>3, <1>4, <1>6 DEF AllBut
    <2>3. k = j - 1 => j < l
      BY <1>3, <1>6
    <2>4. k = j => j - 1 < l
      BY <1>3
    <2>. QED
      BY <1>2, <1>4, <2>1, <2>2, <2>3, <2>4
  <1>. QED
    BY <1>5, <1>6

\* When it is no less than the number before it, none is out of place.
LEMMA AllButDone ==
  ASSUME NEW n \in Nat, NEW a \in Rows(n), NEW m \in 1..n, NEW j \in 1..m,
         AllBut(m, j, a), j > 1 => ~(a[j] < a[j - 1])
  PROVE  Ascending(m, a)
PROOF
  <1>1. \A k \in 1..n : a[k] \in Int
    BY DEF Rows
  <1>2. SUFFICES ASSUME NEW k \in 1..m, NEW l \in 1..m, k <= l PROVE a[k] <= a[l]
    BY DEF Ascending
  <1>3. CASE k = l
    BY <1>1, <1>3
  <1>4. CASE k < l /\ l # j
    BY <1>4 DEF AllBut
  <1>5. CASE k < l /\ l = j
    <2>1. j - 1 \in 1..m /\ j - 1 \in 1..n /\ j \in 1..n /\ j > 1
      BY <1>5
    <2>2. k = j - 1 \/ a[k] <= a[j - 1]
      BY <1>5, <2>1 DEF AllBut
    <2>. QED
      BY <1>1, <1>5, <2>1, <2>2
  <1>. QED
    BY <1>2, <1>3, <1>4, <1>5

\* The number sinks to its place.
LEMMA InsertSink ==
  ASSUME NEW n \in Nat,
         NEW a \in Rows(n),
         NEW j \in 1..n
  PROVE  \E f \in [Rows(n) \X (1..n) -> Rows(n)] :
           /\ insert(a, j) = f[<<a, j>>]
           /\ \A p \in Rows(n) \X (1..n) : f[p] = IF p[2] > 1 /\ p[1][p[2]] < p[1][p[2] - 1]
                                         THEN f[<<Swap(p[1], p[2], p[2] - 1), p[2] - 1>>] ELSE p[1]
PROOF
  <1>. DEFINE D == Arrays(a) \X Positions(a)
              V == Rows(n)
              rank == [p \in D |-> p[2]]
              Body(f, p) == IF p[2] > 1 /\ p[1][p[2]] < p[1][p[2] - 1]
                                         THEN f[<<Swap(p[1], p[2], p[2] - 1), p[2] - 1>>] ELSE p[1]
              F == [p \in D |-> [g \in [D -> V] |-> Body(g, p)]]
              Eq(f) == f = [p \in D |-> Body(f, p)]
              s == CHOOSE f : Eq(f)
  <1>1. D = Rows(n) \X (1..n)
    BY ArrayFacts DEF Rows
  <1>2. insert(a, j) = s[<<a, j>>]
    BY DEF insert
  <1>3. V # {} /\ rank \in [D -> Nat]
    BY <1>1
  <1>4. ASSUME NEW p \in D, NEW g \in [D -> V] PROVE Body(g, p) \in V
    <2>1. p[1] \in Rows(n) /\ p[2] \in 1..n
      BY <1>1
    <2>2. ASSUME p[2] > 1 PROVE <<Swap(p[1], p[2], p[2] - 1), p[2] - 1>> \in D
      <3>1. p[2] - 1 \in 1..n
        BY <2>1, <2>2
      <3>2. Swap(p[1], p[2], p[2] - 1) \in Rows(n)
        BY <2>1, <3>1, SwapFacts
      <3>. QED
        BY <1>1, <3>1, <3>2
    <2>. HIDE DEF D
    <2>. QED
      BY <2>1, <2>2
  <1>5. ASSUME NEW p \in D, NEW g, NEW h \in [D -> V], \A y \in D : rank[y] < rank[p] => g[y] = h[y]
        PROVE  Body(g, p) = Body(h, p)
    <2>1. p[1] \in Rows(n) /\ p[2] \in 1..n
      BY <1>1
    <2>2. ASSUME p[2] > 1
          PROVE  g[<<Swap(p[1], p[2], p[2] - 1), p[2] - 1>>] = h[<<Swap(p[1], p[2], p[2] - 1), p[2] - 1>>]
      <3>1. p[2] - 1 \in 1..n
        BY <2>1, <2>2
      <3>2. Swap(p[1], p[2], p[2] - 1) \in Rows(n)
        BY <2>1, <3>1, SwapFacts
      <3>3. <<Swap(p[1], p[2], p[2] - 1), p[2] - 1>> \in D
        BY <1>1, <3>1, <3>2
      <3>4. rank[<<Swap(p[1], p[2], p[2] - 1), p[2] - 1>>] < rank[p]
        BY <2>1, <3>1, <3>3
      <3>. QED
        BY <1>5, <3>3, <3>4
    <2>. HIDE DEF D, rank
    <2>. QED
      BY <2>1, <2>2
  <1>6. PICK q \in [D -> V] : \A p \in D : q[p] = Body(q, p)
    <2>1. F \in [D -> [[D -> V] -> V]] /\ \A p \in D : \A g \in [D -> V] : F[p][g] = Body(g, p)
      <3>. HIDE DEF D, V, Body
      <3>. QED
        BY <1>4
    <2>2. Local(D, V, rank, F)
      <3>. HIDE DEF D, V, rank, F, Body
      <3>1. ASSUME NEW x \in D, NEW g \in [D -> V], NEW h \in [D -> V],
                   \A y \in D : rank[y] < rank[x] => g[y] = h[y]
            PROVE  F[x][g] = F[x][h]
        <4>1. Body(g, x) = Body(h, x)
          BY <1>5, <3>1
        <4>. QED
          BY <2>1, <4>1
      <3>. QED
        BY <2>1, <3>1 DEF Local
    <2>3. PICK q : Solution(D, V, F, q)
      <3>. HIDE DEF D, V, rank, F
      <3>. QED
        BY <1>3, <2>2, Recursion
    <2>. HIDE DEF D, V, rank, F, Body
    <2>. QED
      BY <2>1, <2>3 DEF Solution
  <1>7. Eq(s)
    <2>1. Eq(q)
      <3>. HIDE DEF D, V, Body
      <3>. QED
        BY <1>6
    <2>. HIDE DEF Eq
    <2>. QED
      BY <2>1, Zenon
  <1>8. \A p \in D : s[p] = Body(s, p)
    <2>. HIDE DEF D, V, Body, s
    <2>. QED
      BY <1>7
  <1>9. D \subseteq {p \in D : s[p] = q[p]}
    <2>1. RankedIn(D, rank, {p \in D : s[p] = q[p]})
      <3>. HIDE DEF D, V, Body, s, rank
      <3>. QED
        BY <1>5, <1>6, <1>8 DEF RankedIn
    <2>. HIDE DEF D, V, Body, s, rank
    <2>. QED
      BY <1>3, <2>1, ByRank
  <1>10. s \in [D -> V]
    <2>. HIDE DEF D, V, Body
    <2>. QED
      BY <1>6, <1>7, <1>9
  <1>. HIDE DEF s, D
  <1>. QED
    BY <1>1, <1>2, <1>8, <1>10

\* A round rearranges the array, and extends its ascending part by the number at j.
LEMMA InsertSettles ==
  ASSUME NEW n \in Nat, NEW a \in Rows(n), NEW j \in 1..n
  PROVE  /\ insert(a, j) \in Rows(n) /\ Rearranged(n, a, insert(a, j))
         /\ Ascending(j - 1, a) => Ascending(j, insert(a, j))
PROOF
  <1>. DEFINE D == Rows(n) \X (1..n)
              rank == [p \in D |-> p[2]]
  <1>1. PICK f \in [D -> Rows(n)] :
           /\ insert(a, j) = f[<<a, j>>]
           /\ \A p \in D : f[p] = IF p[2] > 1 /\ p[1][p[2]] < p[1][p[2] - 1]
                                    THEN f[<<Swap(p[1], p[2], p[2] - 1), p[2] - 1>>] ELSE p[1]
    BY InsertSink
  <1>. DEFINE P(p) == /\ Rearranged(n, p[1], f[p])
                      /\ p[2] <= j /\ AllBut(j, p[2], p[1]) => Ascending(j, f[p])
              S == {p \in D : P(p)}
  <1>2. ASSUME NEW p \in D, \A y \in D : rank[y] < rank[p] => y \in S PROVE p \in S
    <2>1. p[1] \in Rows(n) /\ p[2] \in 1..n
      OBVIOUS
    <2>2. CASE p[2] > 1 /\ p[1][p[2]] < p[1][p[2] - 1]
      <3>. DEFINE b == Swap(p[1], p[2], p[2] - 1)
                  d == <<b, p[2] - 1>>
      <3>1. f[p] = f[d]
        BY <1>1, <2>2
      <3>2. p[2] - 1 \in 1..n
        BY <2>1, <2>2
      <3>3. b \in Rows(n) /\ Rearranged(n, p[1], b)
        BY <2>1, <3>2, SwapFacts, SwapRearranges
      <3>4. p[2] <= j /\ AllBut(j, p[2], p[1]) => AllBut(j, p[2] - 1, b)
        BY <2>1, <2>2, AllButSwap
      <3>. HIDE DEF b
      <3>5. d \in D /\ d[1] = b /\ d[2] = p[2] - 1
        BY <3>2, <3>3
      <3>6. rank[d] < rank[p]
        BY <2>1, <3>5
      <3>7. P(d)
        BY <1>2, <3>5, <3>6
      <3>8. Rearranged(n, p[1], f[p])
        BY <3>1, <3>3, <3>5, <3>7, RearrangedOn
      <3>9. ASSUME p[2] <= j, AllBut(j, p[2], p[1]) PROVE Ascending(j, f[p])
        <4>1. d[2] <= j
          BY <2>1, <3>5, <3>9
        <4>. QED
          BY <3>1, <3>4, <3>5, <3>7, <3>9, <4>1
      <3>. QED
        BY <3>8, <3>9
    <2>3. CASE ~(p[2] > 1 /\ p[1][p[2]] < p[1][p[2] - 1])
      <3>1. f[p] = p[1]
        BY <1>1, <2>3
      <3>2. Rearranged(n, p[1], f[p])
        BY <3>1, RearrangedSame
      <3>3. ASSUME p[2] <= j, AllBut(j, p[2], p[1]) PROVE Ascending(j, p[1])
        <4>1. p[2] \in 1..j
          BY <2>1, <3>3
        <4>. QED
          BY <2>1, <2>3, <3>3, <4>1, AllButDone
      <3>. QED
        BY <3>1, <3>2, <3>3
    <2>. QED
      BY <2>2, <2>3
  <1>3. rank \in [D -> Nat]
    OBVIOUS
  <1>4. D \subseteq S
    <2>1. RankedIn(D, rank, S)
      BY <1>2 DEF RankedIn
    <2>. HIDE DEF D, rank, S
    <2>. QED
      BY <1>3, <2>1, ByRank
  <1>. DEFINE d == <<a, j>>
  <1>5. d \in D /\ d[1] = a /\ d[2] = j
    OBVIOUS
  <1>6. P(d) /\ f[d] \in Rows(n)
    BY <1>4, <1>5
  <1>7. Ascending(j - 1, a) => AllBut(j, j, a)
    BY DEF Ascending, AllBut
  <1>. QED
    BY <1>1, <1>5, <1>6, <1>7

\* The rounds of the insertion sort.
LEMMA InsertSortRounds ==
  ASSUME NEW n \in Nat,
         n >= 1,
         NEW a \in Rows(n)
  PROVE  \E r \in [1..n -> Rows(n)] :
           /\ r[1] = a /\ insertSort(a) = r[n]
           /\ \A k \in 2..n : r[k] = insert(r[k - 1], k)
PROOF
  <1>. DEFINE V == Rows(n)
              last == Len(a)
              D == (2 - 1)..last
              Op(b, k) == insert(b, k)
              G == [k \in 2..last |-> [b \in V |-> Op(b, k)]]
              Eq(r) == r = [k \in D |-> IF k < 2 THEN a ELSE Op(r[k - 1], k)]
              s == CHOOSE r : Eq(r)
  <1>1. /\ last = n /\ last \in Int /\ 2 \in Int /\ 2 <= last + 1
        /\ 2 - 1 = 1 /\ D = 1..n /\ a \in V
    BY ArrayFacts
  <1>2. insertSort(a) = (IF last < 2 THEN a ELSE s[last])
    BY DEF insertSort, For
  <1>3. ASSUME NEW k \in 2..last, NEW b \in V PROVE Op(b, k) \in V /\ G[k][b] = Op(b, k)
    <2>0. Op(b, k) \in V
      <3>1. k \in 1..n
        BY <1>1
      <3>. QED
        BY <3>1, InsertSettles
    <2>. QED
      BY <2>0
  <1>4. PICK q \in [D -> V] : \A k \in D : q[k] = IF k < 2 THEN a ELSE G[k][q[k - 1]]
    <2>1. LoopBody(2, last, V, G)
      <3>. HIDE DEF G, V, Op, last
      <3>. QED
        BY <1>3 DEF LoopBody
    <2>. DEFINE B == a
    <2>2. B \in V
      BY <1>1
    <2>3. PICK q : LoopRun(2, last, V, B, G, q)
      <3>. HIDE DEF G, V, last, B
      <3>. QED
        BY <1>1, <2>1, <2>2, LoopExists
    <2>. HIDE DEF G, V, last, B
    <2>4. q \in [D -> V] /\ \A k \in D : q[k] = IF k < 2 THEN B ELSE G[k][q[k - 1]]
      BY <2>3 DEF LoopRun
    <2>. QED
      BY <2>4 DEF B
  <1>5. Eq(q)
    <2>1. ASSUME NEW k \in D PROVE q[k] = IF k < 2 THEN a ELSE Op(q[k - 1], k)
      <3>1. k >= 2 => k \in 2..last /\ k - 1 \in D /\ q[k - 1] \in V
        <4>. HIDE DEF G, V, Op, last
        <4>. QED
          BY <1>1, <1>4
      <3>2. k \in Int
        BY <1>1
      <3>. HIDE DEF G, V, Op, D, last
      <3>. QED
        BY <1>1, <1>3, <1>4, <3>1, <3>2
    <2>. HIDE DEF G, V, Op, D
    <2>. QED
      BY <1>4, <2>1
  <1>6. Eq(s)
    <2>. HIDE DEF Eq
    <2>. QED
      BY <1>5, Zenon
  <1>7. ASSUME NEW k \in D PROVE s[k] = IF k < 2 THEN a ELSE Op(s[k - 1], k)
    <2>. HIDE DEF G, V, Op, D, s
    <2>. QED
      BY <1>6
  <1>8. 1..last \subseteq {k \in D : s[k] \in V}
    <2>1. Upward(1, last, {k \in D : s[k] \in V})
      <3>. HIDE DEF V, Op, s, G, last
      <3>. QED
        BY <1>1, <1>3, <1>7 DEF Upward
    <2>. HIDE DEF s, V, D, last
    <2>. QED
      BY <1>1, <2>1, AlongInterval
  <1>9. s \in [1..n -> V]
    <2>. HIDE DEF V, Op, last
    <2>. QED
      BY <1>1, <1>6, <1>8
  <1>. HIDE DEF s, D, Op, last
  <1>10. 1 \in D /\ s[1] = a
    BY <1>1, <1>7
  <1>11. insertSort(a) = s[n]
    <2>1. CASE last < 2
      BY <1>1, <1>2, <1>10, <2>1
    <2>2. CASE ~(last < 2)
      BY <1>1, <1>2, <2>2
    <2>. QED
      BY <2>1, <2>2
  <1>12. \A k \in 2..n : s[k] = Op(s[k - 1], k)
    BY <1>1, <1>7
  <1>. QED
    BY <1>9, <1>10, <1>11, <1>12 DEF Op

\* insertSort: after round i the first i numbers are ascending.
LEMMA InsertSortSorts ==
  ASSUME NEW n \in Nat, NEW a \in Rows(n)
  PROVE  Sorts(n, a, insertSort(a))
PROOF
  <1>1. CASE n = 0
    <2>1. Len(a) = 0
      BY <1>1, ArrayFacts
    <2>2. insertSort(a) = a
      BY <2>1 DEF insertSort, For
    <2>. QED
      BY <1>1, <2>2, RearrangedSame DEF Sorts, Ascending
  <1>2. CASE n >= 1
    <2>1. PICK r \in [1..n -> Rows(n)] :
             /\ r[1] = a /\ insertSort(a) = r[n]
             /\ \A k \in 2..n : r[k] = insert(r[k - 1], k)
      BY <1>2, InsertSortRounds
    <2>. DEFINE P(k) == Rearranged(n, a, r[k]) /\ Ascending(k, r[k])
                S == {k \in 1..n : P(k)}
    <2>2. 1 \in S
      <3>1. 1 \in 1..n /\ a[1] \in Int
        BY <1>2 DEF Rows
      <3>2. Rearranged(n, a, r[1]) /\ Ascending(1, r[1])
        BY <2>1, <3>1, RearrangedSame DEF Ascending
      <3>. QED
        BY <3>1, <3>2
    <2>3. ASSUME NEW k \in (1 + 1)..n, k - 1 \in S PROVE k \in S
      <3>1. k \in 2..n /\ k \in 1..n /\ r[k - 1] \in Rows(n) /\ P(k - 1)
        BY <2>3
      <3>2. r[k] = insert(r[k - 1], k)
        BY <2>1, <3>1
      <3>3. Ascending(k, r[k]) /\ Rearranged(n, r[k - 1], r[k])
        BY <3>1, <3>2, InsertSettles
      <3>4. Rearranged(n, a, r[k])
        BY <3>1, <3>3, RearrangedOn
      <3>. QED
        BY <3>1, <3>3, <3>4
    <2>4. 1..n \subseteq S
      <3>1. Upward(1, n, S)
        BY <2>2, <2>3 DEF Upward
      <3>. HIDE DEF S
      <3>. QED
        BY <3>1, AlongInterval
    <2>5. P(n) /\ r[n] \in Rows(n)
      BY <1>2, <2>4
    <2>. QED
      BY <2>1, <2>5 DEF Sorts
  <1>. QED
    BY <1>1, <1>2
-----------------------------------------------------------------------------
(***************************************************************************)
(* The shell sort.                                                         *)
(***************************************************************************)
Put(b, k, v) == [b EXCEPT ![k] = v]

\* The numbers gap apart that are greater than the one at j move up by gap.
LEMMA ShellShift ==
  ASSUME NEW n \in Nat,
         NEW a \in Rows(n),
         NEW gap \in 1..n,
         NEW j \in (gap + 1)..n
  PROVE  \E f \in [Rows(n) \X ((1 - gap)..(n - gap)) -> Rows(n)] :
           /\ shellInsert(a, j, gap) = IF a[j] < a[j - gap] THEN f[<<a, j - gap>>] ELSE a
           /\ \A p \in Rows(n) \X ((1 - gap)..(n - gap)) : f[p] = IF p[2] >= 1 /\ p[1][p[2]] > a[j]
                                         THEN f[<<Put(p[1], p[2] + gap, p[1][p[2]]), p[2] - gap>>]
                                         ELSE Put(p[1], p[2] + gap, a[j])
PROOF
  <1>. DEFINE D == Arrays(a) \X ((1 - gap)..(Len(a) - gap))
              V == Rows(n)
              rank == [p \in D |-> p[2] + gap]
              Body(f, p) == IF p[2] >= 1 /\ p[1][p[2]] > a[j]
                                         THEN f[<<Put(p[1], p[2] + gap, p[1][p[2]]), p[2] - gap>>]
                                         ELSE Put(p[1], p[2] + gap, a[j])
              F == [p \in D |-> [g \in [D -> V] |-> Body(g, p)]]
              Eq(f) == f = [p \in D |-> Body(f, p)]
              s == CHOOSE f : Eq(f)
  <1>1. D = Rows(n) \X ((1 - gap)..(n - gap))
    BY ArrayFacts DEF Rows, Put
  <1>2. shellInsert(a, j, gap) = IF a[j] < a[j - gap] THEN s[<<a, j - gap>>] ELSE a
    BY DEF shellInsert, Put
  <1>3. V # {} /\ rank \in [D -> Nat]
    BY <1>1
  <1>4. ASSUME NEW p \in D, NEW g \in [D -> V] PROVE Body(g, p) \in V
    <2>0. p \in Rows(n) \X ((1 - gap)..(n - gap))
      BY <1>1
    <2>1. p[1] \in Rows(n) /\ p[2] \in (1 - gap)..(n - gap) /\ p[2] + gap \in 1..n /\ a[j] \in Int
      <3>1. p[1] \in Rows(n) /\ p[2] \in (1 - gap)..(n - gap) /\ p[2] + gap \in 1..n
        BY <2>0
      <3>2. a[j] \in Int
        BY DEF Rows, Put
      <3>. QED
        BY <3>1, <3>2
    <2>2. Put(p[1], p[2] + gap, a[j]) \in Rows(n)
      BY <2>1 DEF Rows, Put
    <2>3. ASSUME p[2] >= 1 PROVE <<Put(p[1], p[2] + gap, p[1][p[2]]), p[2] - gap>> \in D
      <3>1. p[2] - gap \in (1 - gap)..(n - gap) /\ p[2] \in 1..n
        BY <2>1, <2>3
      <3>2. Put(p[1], p[2] + gap, p[1][p[2]]) \in Rows(n)
        BY <2>1, <3>1 DEF Rows, Put
      <3>. QED
        BY <1>1, <3>1, <3>2
    <2>. HIDE DEF D
    <2>. QED
      BY <2>1, <2>2, <2>3
  <1>5. ASSUME NEW p \in D, NEW g, NEW h \in [D -> V], \A y \in D : rank[y] < rank[p] => g[y] = h[y]
        PROVE  Body(g, p) = Body(h, p)
    <2>0. p \in Rows(n) \X ((1 - gap)..(n - gap))
      BY <1>1
    <2>1. p[1] \in Rows(n) /\ p[2] \in (1 - gap)..(n - gap) /\ p[2] + gap \in 1..n
      BY <2>0
    <2>. DEFINE d == <<Put(p[1], p[2] + gap, p[1][p[2]]), p[2] - gap>>
    <2>2. ASSUME p[2] >= 1 PROVE g[d] = h[d]
      <3>1. p[2] - gap \in (1 - gap)..(n - gap) /\ p[2] \in 1..n
        BY <2>1, <2>2
      <3>2. Put(p[1], p[2] + gap, p[1][p[2]]) \in Rows(n)
        BY <2>1, <3>1 DEF Rows, Put
      <3>3. d \in D /\ d[2] = p[2] - gap
        BY <1>1, <3>1, <3>2
      <3>4. rank[d] < rank[p]
        <4>. HIDE DEF d
        <4>. QED
          BY <2>1, <3>1, <3>3
      <3>. QED
        BY <1>5, <3>3, <3>4
    <2>. HIDE DEF D, rank
    <2>. QED
      BY <2>1, <2>2
  <1>6. PICK q \in [D -> V] : \A p \in D : q[p] = Body(q, p)
    <2>1. F \in [D -> [[D -> V] -> V]] /\ \A p \in D : \A g \in [D -> V] : F[p][g] = Body(g, p)
      <3>. HIDE DEF D, V, Body
      <3>. QED
        BY <1>4
    <2>2. Local(D, V, rank, F)
      <3>. HIDE DEF D, V, rank, F, Body
      <3>1. ASSUME NEW x \in D, NEW g \in [D -> V], NEW h \in [D -> V],
                   \A y \in D : rank[y] < rank[x] => g[y] = h[y]
            PROVE  F[x][g] = F[x][h]
        <4>1. Body(g, x) = Body(h, x)
          BY <1>5, <3>1
        <4>. QED
          BY <2>1, <4>1
      <3>. QED
        BY <2>1, <3>1 DEF Local
    <2>3. PICK q : Solution(D, V, F, q)
      <3>. HIDE DEF D, V, rank, F
      <3>. QED
        BY <1>3, <2>2, Recursion
    <2>. HIDE DEF D, V, rank, F, Body
    <2>. QED
      BY <2>1, <2>3 DEF Solution
  <1>7. Eq(s)
    <2>1. Eq(q)
      <3>. HIDE DEF D, V, Body
      <3>. QED
        BY <1>6
    <2>. HIDE DEF Eq
    <2>. QED
      BY <2>1, Zenon
  <1>8. \A p \in D : s[p] = Body(s, p)
    <2>. HIDE DEF D, V, Body, s
    <2>. QED
      BY <1>7
  <1>9. D \subseteq {p \in D : s[p] = q[p]}
    <2>1. RankedIn(D, rank, {p \in D : s[p] = q[p]})
      <3>. HIDE DEF D, V, Body, s, rank
      <3>. QED
        BY <1>5, <1>6, <1>8 DEF RankedIn
    <2>. HIDE DEF D, V, Body, s, rank
    <2>. QED
      BY <1>3, <2>1, ByRank
  <1>10. s \in [D -> V]
    <2>. HIDE DEF D, V, Body
    <2>. QED
      BY <1>6, <1>7, <1>9
  <1>. HIDE DEF s, D
  <1>. QED
    BY <1>1, <1>2, <1>8, <1>10

\* An insertion rearranges the array; with gap 1 it is that of the insertion sort.
LEMMA ShellInsertSettles ==
  ASSUME NEW n \in Nat, NEW a \in Rows(n), NEW gap \in 1..n, NEW j \in (gap + 1)..n
  PROVE  /\ shellInsert(a, j, gap) \in Rows(n) /\ Rearranged(n, a, shellInsert(a, j, gap))
         /\ gap = 1 /\ Ascending(j - 1, a) => Ascending(j, shellInsert(a, j, gap))
PROOF
  <1>. DEFINE D == Rows(n) \X ((1 - gap)..(n - gap))
              rank == [p \in D |-> p[2] + gap]
  <1>1. PICK f \in [D -> Rows(n)] :
           /\ shellInsert(a, j, gap) = IF a[j] < a[j - gap] THEN f[<<a, j - gap>>] ELSE a
           /\ \A p \in D : f[p] = IF p[2] >= 1 /\ p[1][p[2]] > a[j]
                                    THEN f[<<Put(p[1], p[2] + gap, p[1][p[2]]), p[2] - gap>>]
                                    ELSE Put(p[1], p[2] + gap, a[j])
    BY ShellShift
  <1>0. j \in 1..n /\ j - gap \in 1..n /\ a[j] \in Int
    BY DEF Rows, Put
  <1>. DEFINE H(p) == Put(p[1], p[2] + gap, a[j])
              P(p) == /\ Rearranged(n, H(p), f[p])
                      /\ gap = 1 /\ p[2] + 1 <= j /\ AllBut(j, p[2] + 1, H(p)) => Ascending(j, f[p])
              S == {p \in D : P(p)}
  <1>2. ASSUME NEW p \in D, \A y \in D : rank[y] < rank[p] => y \in S PROVE p \in S
    <2>1. p[1] \in Rows(n) /\ p[2] \in (1 - gap)..(n - gap) /\ p[2] + gap \in 1..n
      OBVIOUS
    <2>2. H(p) \in Rows(n) /\ H(p)[p[2] + gap] = a[j]
          /\ \A l \in 1..n : l # p[2] + gap => H(p)[l] = p[1][l]
      BY <1>0, <2>1 DEF Rows, Put
    <2>3. CASE p[2] >= 1 /\ p[1][p[2]] > a[j]
      <3>. DEFINE b == Put(p[1], p[2] + gap, p[1][p[2]])
                  d == <<b, p[2] - gap>>
      <3>1. f[p] = f[d]
        BY <1>1, <2>3
      <3>2. p[2] \in 1..n /\ p[2] # p[2] + gap /\ p[2] - gap \in (1 - gap)..(n - gap) /\ p[2] - gap + gap = p[2]
        BY <2>1, <2>3
      <3>3. b \in Rows(n)
        BY <2>1, <3>2 DEF Rows, Put
      <3>4. Put(b, p[2], a[j]) = Swap(H(p), p[2] + gap, p[2])
        <4>1. H(p)[p[2]] = p[1][p[2]]
          BY <2>2, <3>2
        <4>2. Swap(H(p), p[2] + gap, p[2]) = Put(Put(H(p), p[2] + gap, p[1][p[2]]), p[2], a[j])
          BY <2>2, <4>1 DEF Swap, Put
        <4>3. Put(Put(H(p), p[2] + gap, p[1][p[2]]), p[2], a[j]) = Put(b, p[2], a[j])
          BY <2>1, <3>2 DEF Rows, Put
        <4>. QED
          BY <4>2, <4>3
      <3>. HIDE DEF b
      <3>5. d \in D /\ d[1] = b /\ d[2] = p[2] - gap
        BY <3>2, <3>3
      <3>6. H(d) = Swap(H(p), p[2] + gap, p[2])
        BY <3>2, <3>4, <3>5
      <3>7. rank[d] < rank[p]
        <4>. HIDE DEF d
        <4>. QED
          BY <2>1, <3>5
      <3>. HIDE DEF d
      <3>8. P(d)
        BY <1>2, <3>5, <3>7
      <3>. HIDE DEF H
      <3>9. Rearranged(n, H(p), H(d))
        BY <2>1, <2>2, <3>2, <3>6, SwapRearranges
      <3>10. Rearranged(n, H(p), f[p])
        BY <3>1, <3>8, <3>9, RearrangedOn
      <3>11. ASSUME gap = 1, p[2] + 1 <= j, AllBut(j, p[2] + 1, H(p)) PROVE Ascending(j, f[p])
        <4>1. p[2] + 1 \in 2..j /\ (p[2] + 1) - 1 = p[2] /\ d[2] + 1 = p[2] /\ d[2] + 1 <= j
          BY <2>1, <3>2, <3>5, <3>11
        <4>2. H(p)[p[2] + 1] < H(p)[(p[2] + 1) - 1]
          BY <2>2, <2>3, <3>2, <3>11, <4>1
        <4>3. AllBut(j, (p[2] + 1) - 1, Swap(H(p), p[2] + 1, (p[2] + 1) - 1))
          BY <1>0, <2>2, <3>11, <4>1, <4>2, AllButSwap
        <4>4. AllBut(j, d[2] + 1, H(d))
          BY <3>6, <3>11, <4>1, <4>3
        <4>. QED
          BY <3>1, <3>8, <3>11, <4>1, <4>4
      <3>. QED
        BY <3>10, <3>11
    <2>4. CASE ~(p[2] >= 1 /\ p[1][p[2]] > a[j])
      <3>1. f[p] = H(p)
        BY <1>1, <2>4
      <3>2. Rearranged(n, H(p), f[p])
        BY <3>1, RearrangedSame
      <3>3. ASSUME gap = 1, p[2] + 1 <= j, AllBut(j, p[2] + 1, H(p)) PROVE Ascending(j, H(p))
        <4>1. p[2] + 1 \in 1..j /\ p[2] + 1 - 1 = p[2]
          BY <2>1, <3>3
        <4>2. p[2] + 1 > 1 => ~(H(p)[p[2] + 1] < H(p)[p[2] + 1 - 1])
          <5>1. p[2] + 1 > 1 => p[2] \in 1..n /\ p[2] # p[2] + gap /\ p[2] >= 1
            BY <2>1, <3>3
          <5>2. p[2] + 1 > 1 => H(p)[p[2]] = p[1][p[2]] /\ p[1][p[2]] \in Int /\ ~(p[1][p[2]] > a[j])
            BY <2>1, <2>2, <2>4, <5>1 DEF Rows, Put
          <5>. HIDE DEF H
          <5>. QED
            BY <1>0, <2>2, <3>3, <4>1, <5>2
        <4>. HIDE DEF H
        <4>. QED
          BY <1>0, <2>2, <3>3, <4>1, <4>2, AllButDone
      <3>. QED
        BY <3>1, <3>2, <3>3
    <2>. QED
      BY <2>3, <2>4
  <1>3. rank \in [D -> Nat]
    OBVIOUS
  <1>4. D \subseteq S
    <2>1. RankedIn(D, rank, S)
      BY <1>2 DEF RankedIn
    <2>. HIDE DEF D, rank, S
    <2>. QED
      BY <1>3, <2>1, ByRank
  <1>. DEFINE d == <<a, j - gap>>
  <1>5. d \in D /\ d[1] = a /\ d[2] = j - gap /\ d[2] + gap = j
    BY <1>0
  <1>6. P(d) /\ f[d] \in Rows(n)
    BY <1>4, <1>5
  <1>7. H(d) = a
    BY <1>0, <1>5 DEF Rows, Put
  <1>. HIDE DEF H, d
  <1>8. CASE a[j] < a[j - gap]
    <2>1. shellInsert(a, j, gap) = f[d]
      BY <1>1, <1>8 DEF d
    <2>2. gap = 1 /\ Ascending(j - 1, a) => AllBut(j, d[2] + 1, H(d)) /\ d[2] + 1 <= j
      BY <1>0, <1>5, <1>7 DEF Ascending, AllBut
    <2>. QED
      BY <1>6, <1>7, <2>1, <2>2
  <1>9. CASE ~(a[j] < a[j - gap])
    <2>1. shellInsert(a, j, gap) = a
      BY <1>1, <1>9
    <2>2. ASSUME gap = 1, Ascending(j - 1, a) PROVE Ascending(j, a)
      <3>1. AllBut(j, j, a)
        BY <2>2 DEF Ascending, AllBut
      <3>. QED
        BY <1>0, <1>9, <2>2, <3>1, AllButDone
    <2>. QED
      BY <2>1, <2>2, RearrangedSame
  <1>. QED
    BY <1>8, <1>9

\* The k-th number after the first of a column is in the array.
LEMMA Strides ==
  ASSUME NEW d \in Nat, NEW gap \in Nat, gap >= 1
  PROVE  d \div gap \in Nat /\ \A k \in 1..(d \div gap) : k * gap \in gap..d
PROOF
  <1>. DEFINE e == d \div gap
  <1>1. e \in Nat /\ e * gap <= d
    OBVIOUS
  <1>. HIDE DEF e
  <1>2. ASSUME NEW k \in 1..e PROVE k * gap \in gap..d
    <2>1. k - 1 \in Nat /\ e - k \in Nat /\ (k - 1) * gap >= 0 /\ (e - k) * gap >= 0
      BY <1>1
    <2>2. (k - 1) * gap = k * gap - gap /\ (e - k) * gap = e * gap - k * gap /\ k * gap \in Int
      BY <1>1
    <2>. QED
      BY <1>1, <2>1, <2>2
  <1>. QED
    BY <1>1, <1>2 DEF e

\* The numbers gap apart from j on.
LEMMA ShellColumnRounds ==
  ASSUME NEW n \in Nat,
         NEW a \in Rows(n),
         NEW gap \in 1..n,
         NEW j \in 1..gap
  PROVE  \E r \in [0..((n - j) \div gap) -> Rows(n)] :
           /\ r[0] = a /\ shellColumn(a, j, gap) = r[(n - j) \div gap]
           /\ \A k \in 1..((n - j) \div gap) : r[k] = shellInsert(r[k - 1], j + k * gap, gap)
PROOF
  <1>. DEFINE V == Rows(n)
              last == (Len(a) - j) \div gap
              D == (1 - 1)..last
              Op(b, k) == shellInsert(b, j + k * gap, gap)
              G == [k \in 1..last |-> [b \in V |-> Op(b, k)]]
              Eq(r) == r = [k \in D |-> IF k < 1 THEN a ELSE Op(r[k - 1], k)]
              s == CHOOSE r : Eq(r)
  <1>1. /\ last = (n - j) \div gap /\ last \in Int /\ 1 \in Int /\ 1 <= last + 1
        /\ 1 - 1 = 0 /\ D = 0..((n - j) \div gap) /\ a \in V
    <2>1. Len(a) = n /\ n - j \in Nat
      BY ArrayFacts
    <2>2. (n - j) \div gap \in Nat
      BY <2>1, Strides
    <2>. QED
      BY <2>1, <2>2
  <1>2. shellColumn(a, j, gap) = (IF last < 1 THEN a ELSE s[last])
    BY DEF shellColumn, For
  <1>3. ASSUME NEW k \in 1..last, NEW b \in V PROVE Op(b, k) \in V /\ G[k][b] = Op(b, k)
    <2>0. Op(b, k) \in V
      <3>1. n - j \in Nat /\ k \in 1..((n - j) \div gap)
        BY <1>1
      <3>2. k * gap \in gap..(n - j)
        BY <3>1, Strides
      <3>3. j + k * gap \in (gap + 1)..n
        <4>. DEFINE e == k * gap
        <4>1. e \in gap..(n - j)
          BY <3>2
        <4>. HIDE DEF e
        <4>2. j + e \in (gap + 1)..n
          BY <4>1
        <4>. QED
          BY <4>2 DEF e
      <3>. QED
        BY <3>3, ShellInsertSettles
    <2>. QED
      BY <2>0
  <1>4. PICK q \in [D -> V] : \A k \in D : q[k] = IF k < 1 THEN a ELSE G[k][q[k - 1]]
    <2>1. LoopBody(1, last, V, G)
      <3>. HIDE DEF G, V, Op, last
      <3>. QED
        BY <1>3 DEF LoopBody
    <2>. DEFINE B == a
    <2>2. B \in V
      BY <1>1
    <2>3. PICK q : LoopRun(1, last, V, B, G, q)
      <3>. HIDE DEF G, V, last, B
      <3>. QED
        BY <1>1, <2>1, <2>2, LoopExists
    <2>. HIDE DEF G, V, last, B
    <2>4. q \in [D -> V] /\ \A k \in D : q[k] = IF k < 1 THEN B ELSE G[k][q[k - 1]]
      BY <2>3 DEF LoopRun
    <2>. QED
      BY <2>4 DEF B
  <1>5. Eq(q)
    <2>1. ASSUME NEW k \in D PROVE q[k] = IF k < 1 THEN a ELSE Op(q[k - 1], k)
      <3>1. k >= 1 => k \in 1..last /\ k - 1 \in D /\ q[k - 1] \in V
        <4>. HIDE DEF G, V, Op, last
        <4>. QED
          BY <1>1, <1>4
      <3>2. k \in Int
        BY <1>1
      <3>. HIDE DEF G, V, Op, D, last
      <3>. QED
        BY <1>1, <1>3, <1>4, <3>1, <3>2
    <2>. HIDE DEF G, V, Op, D
    <2>. QED
      BY <1>4, <2>1
  <1>6. Eq(s)
    <2>. HIDE DEF Eq
    <2>. QED
      BY <1>5, Zenon
  <1>7. ASSUME NEW k \in D PROVE s[k] = IF k < 1 THEN a ELSE Op(s[k - 1], k)
    <2>. HIDE DEF G, V, Op, D, s
    <2>. QED
      BY <1>6
  <1>8. 0..last \subseteq {k \in D : s[k] \in V}
    <2>1. Upward(0, last, {k \in D : s[k] \in V})
      <3>. HIDE DEF V, Op, s, G, last
      <3>. QED
        BY <1>1, <1>3, <1>7 DEF Upward
    <2>. HIDE DEF s, V, D, last
    <2>. QED
      BY <1>1, <2>1, AlongInterval
  <1>9. s \in [0..((n - j) \div gap) -> V]
    <2>. HIDE DEF V, Op, last
    <2>. QED
      BY <1>1, <1>6, <1>8
  <1>. HIDE DEF s, D, Op, last
  <1>10. 0 \in D /\ s[0] = a
    BY <1>1, <1>7
  <1>11. shellColumn(a, j, gap) = s[(n - j) \div gap]
    <2>1. CASE last < 1
      BY <1>1, <1>2, <1>10, <2>1
    <2>2. CASE ~(last < 1)
      BY <1>1, <1>2, <2>2
    <2>. QED
      BY <2>1, <2>2
  <1>12. \A k \in 1..((n - j) \div gap) : s[k] = Op(s[k - 1], k)
    BY <1>1, <1>7
  <1>. QED
    BY <1>9, <1>10, <1>11, <1>12 DEF Op

\* A column rearranges the array; with gap 1 it is the whole of the insertion sort.
LEMMA ShellColumnSettles ==
  ASSUME NEW n \in Nat, NEW a \in Rows(n), NEW gap \in 1..n, NEW j \in 1..gap
  PROVE  /\ shellColumn(a, j, gap) \in Rows(n) /\ Rearranged(n, a, shellColumn(a, j, gap))
         /\ gap = 1 => Ascending(n, shellColumn(a, j, gap))
PROOF
  <1>. DEFINE m == (n - j) \div gap
  <1>1. PICK r \in [0..m -> Rows(n)] :
           /\ r[0] = a /\ shellColumn(a, j, gap) = r[m]
           /\ \A k \in 1..m : r[k] = shellInsert(r[k - 1], j + k * gap, gap)
    BY ShellColumnRounds, ZenonT(30)
  <1>2. n - j \in Nat /\ m \in Nat /\ \A k \in 1..m : k * gap \in gap..(n - j)
    <2>1. n - j \in Nat
      OBVIOUS
    <2>. QED
      BY <2>1, Strides
  <1>3. gap = 1 => m = n - 1 /\ j = 1
    BY <1>2
  <1>. HIDE DEF m
  <1>. DEFINE P(k) == /\ Rearranged(n, a, r[k])
                      /\ gap = 1 => Ascending(k + 1, r[k])
              S == {k \in 0..m : P(k)}
  <1>4. 0 \in S
    <2>1. 1 \in 1..n /\ a[1] \in Int
      BY DEF Rows
    <2>2. Ascending(0 + 1, a)
      BY <2>1 DEF Ascending
    <2>. QED
      BY <1>1, <1>2, <2>2, RearrangedSame
  <1>5. ASSUME NEW k \in (0 + 1)..m, k - 1 \in S PROVE k \in S
    <2>1. k \in 1..m /\ k \in 0..m /\ k - 1 \in 0..m /\ P(k - 1) /\ k - 1 + 1 = k
      BY <1>2, <1>5
    <2>. DEFINE e == k * gap
    <2>2. e \in gap..(n - j) /\ (gap = 1 => e = k)
      BY <1>2, <2>1
    <2>. DEFINE b == r[k - 1]
                c == j + e
    <2>3. r[k] = shellInsert(b, c, gap)
      BY <1>1, <2>1
    <2>. HIDE DEF e
    <2>4. c \in (gap + 1)..n /\ b \in Rows(n) /\ Rearranged(n, a, b) /\ (gap = 1 => Ascending(k, b))
      BY <1>1, <2>1, <2>2
    <2>5. gap = 1 => c - 1 = k /\ c = k + 1
      BY <1>3, <2>1, <2>2
    <2>. HIDE DEF b, c
    <2>6. /\ Rearranged(n, b, r[k])
          /\ gap = 1 /\ Ascending(c - 1, b) => Ascending(c, r[k])
      BY <2>3, <2>4, ShellInsertSettles
    <2>7. Rearranged(n, a, r[k]) /\ (gap = 1 => Ascending(k + 1, r[k]))
      BY <2>4, <2>5, <2>6, RearrangedOn
    <2>. QED
      BY <2>1, <2>7
  <1>6. 0..m \subseteq S
    <2>1. Upward(0, m, S)
      BY <1>4, <1>5 DEF Upward
    <2>. HIDE DEF S
    <2>. QED
      BY <1>2, <2>1, AlongInterval
  <1>7. P(m) /\ r[m] \in Rows(n)
    BY <1>2, <1>6
  <1>8. gap = 1 => m + 1 = n
    BY <1>3
  <1>. QED
    BY <1>1, <1>7, <1>8

\* The columns of a round.
LEMMA ShellRounds ==
  ASSUME NEW n \in Nat,
         NEW a \in Rows(n),
         NEW gap \in 1..n
  PROVE  \E r \in [0..(gap) -> Rows(n)] :
           /\ r[0] = a /\ shellRound(a, gap) = r[gap]
           /\ \A k \in 1..(gap) : r[k] = shellColumn(r[k - 1], k, gap)
PROOF
  <1>. DEFINE V == Rows(n)
              last == gap
              D == (1 - 1)..last
              Op(b, k) == shellColumn(b, k, gap)
              G == [k \in 1..last |-> [b \in V |-> Op(b, k)]]
              Eq(r) == r = [k \in D |-> IF k < 1 THEN a ELSE Op(r[k - 1], k)]
              s == CHOOSE r : Eq(r)
  <1>1. /\ last = gap /\ last \in Int /\ 1 \in Int /\ 1 <= last + 1
        /\ 1 - 1 = 0 /\ D = 0..(gap) /\ a \in V
    OBVIOUS
  <1>2. shellRound(a, gap) = (IF last < 1 THEN a ELSE s[last])
    BY DEF shellRound, For
  <1>3. ASSUME NEW k \in 1..last, NEW b \in V PROVE Op(b, k) \in V /\ G[k][b] = Op(b, k)
    <2>0. Op(b, k) \in V
      <3>1. k \in 1..gap
        BY <1>1
      <3>. QED
        BY <3>1, ShellColumnSettles
    <2>. QED
      BY <2>0
  <1>4. PICK q \in [D -> V] : \A k \in D : q[k] = IF k < 1 THEN a ELSE G[k][q[k - 1]]
    <2>1. LoopBody(1, last, V, G)
      <3>. HIDE DEF G, V, Op, last
      <3>. QED
        BY <1>3 DEF LoopBody
    <2>. DEFINE B == a
    <2>2. B \in V
      BY <1>1
    <2>3. PICK q : LoopRun(1, last, V, B, G, q)
      <3>. HIDE DEF G, V, last, B
      <3>. QED
        BY <1>1, <2>1, <2>2, LoopExists
    <2>. HIDE DEF G, V, last, B
    <2>4. q \in [D -> V] /\ \A k \in D : q[k] = IF k < 1 THEN B ELSE G[k][q[k - 1]]
      BY <2>3 DEF LoopRun
    <2>. QED
      BY <2>4 DEF B
  <1>5. Eq(q)
    <2>1. ASSUME NEW k \in D PROVE q[k] = IF k < 1 THEN a ELSE Op(q[k - 1], k)
      <3>1. k >= 1 => k \in 1..last /\ k - 1 \in D /\ q[k - 1] \in V
        <4>. HIDE DEF G, V, Op, last
        <4>. QED
          BY <1>1, <1>4
      <3>2. k \in Int
        BY <1>1
      <3>. HIDE DEF G, V, Op, D, last
      <3>. QED
        BY <1>1, <1>3, <1>4, <3>1, <3>2
    <2>. HIDE DEF G, V, Op, D
    <2>. QED
      BY <1>4, <2>1
  <1>6. Eq(s)
    <2>. HIDE DEF Eq
    <2>. QED
      BY <1>5, Zenon
  <1>7. ASSUME NEW k \in D PROVE s[k] = IF k < 1 THEN a ELSE Op(s[k - 1], k)
    <2>. HIDE DEF G, V, Op, D, s
    <2>. QED
      BY <1>6
  <1>8. 0..last \subseteq {k \in D : s[k] \in V}
    <2>1. Upward(0, last, {k \in D : s[k] \in V})
      <3>. HIDE DEF V, Op, s, G, last
      <3>. QED
        BY <1>1, <1>3, <1>7 DEF Upward
    <2>. HIDE DEF s, V, D, last
    <2>. QED
      BY <1>1, <2>1, AlongInterval
  <1>9. s \in [0..(gap) -> V]
    <2>. HIDE DEF V, Op, last
    <2>. QED
      BY <1>1, <1>6, <1>8
  <1>. HIDE DEF s, D, Op, last
  <1>10. 0 \in D /\ s[0] = a
    BY <1>1, <1>7
  <1>11. shellRound(a, gap) = s[gap]
    <2>1. CASE last < 1
      BY <1>1, <1>2, <1>10, <2>1
    <2>2. CASE ~(last < 1)
      BY <1>1, <1>2, <2>2
    <2>. QED
      BY <2>1, <2>2
  <1>12. \A k \in 1..(gap) : s[k] = Op(s[k - 1], k)
    BY <1>1, <1>7
  <1>. QED
    BY <1>9, <1>10, <1>11, <1>12 DEF Op

\* A round rearranges the array, and the round with gap 1 sorts it.
LEMMA ShellRoundSettles ==
  ASSUME NEW n \in Nat, NEW a \in Rows(n), NEW gap \in 1..n
  PROVE  /\ shellRound(a, gap) \in Rows(n) /\ Rearranged(n, a, shellRound(a, gap))
         /\ gap = 1 => Ascending(n, shellRound(a, gap))
PROOF
  <1>1. PICK r \in [0..gap -> Rows(n)] :
           /\ r[0] = a /\ shellRound(a, gap) = r[gap]
           /\ \A k \in 1..gap : r[k] = shellColumn(r[k - 1], k, gap)
    BY ShellRounds
  <1>. DEFINE P(k) == Rearranged(n, a, r[k]) /\ (gap = 1 /\ k >= 1 => Ascending(n, r[k]))
              S == {k \in 0..gap : P(k)}
  <1>2. 0 \in S
    BY <1>1, RearrangedSame
  <1>3. ASSUME NEW k \in (0 + 1)..gap, k - 1 \in S PROVE k \in S
    <2>1. k \in 1..gap /\ k \in 0..gap /\ k - 1 \in 0..gap /\ r[k - 1] \in Rows(n) /\ P(k - 1)
      BY <1>3
    <2>2. Rearranged(n, r[k - 1], r[k]) /\ (gap = 1 => Ascending(n, r[k]))
      BY <1>1, <2>1, ShellColumnSettles
    <2>3. Rearranged(n, a, r[k])
      BY <2>1, <2>2, RearrangedOn
    <2>. QED
      BY <2>1, <2>2, <2>3
  <1>4. 0..gap \subseteq S
    <2>1. Upward(0, gap, S)
      BY <1>2, <1>3 DEF Upward
    <2>. HIDE DEF S
    <2>. QED
      BY <2>1, AlongInterval
  <1>5. P(gap) /\ r[gap] \in Rows(n)
    BY <1>4
  <1>. QED
    BY <1>1, <1>5

\* The rounds of the shell sort, with half of the gap each time.
LEMMA ShellSortRounds ==
  ASSUME NEW n \in Nat,
         NEW a \in Rows(n)
  PROVE  \E f \in [Rows(n) \X (0..n) -> Rows(n)] :
           /\ shellSort(a) = f[<<a, Len(a) \div 2>>]
           /\ \A p \in Rows(n) \X (0..n) : f[p] = IF p[2] = 0 THEN p[1] ELSE f[<<shellRound(p[1], p[2]), p[2] \div 2>>]
PROOF
  <1>. DEFINE D == Arrays(a) \X (0..Len(a))
              V == Rows(n)
              rank == [p \in D |-> p[2]]
              Body(f, p) == IF p[2] = 0 THEN p[1] ELSE f[<<shellRound(p[1], p[2]), p[2] \div 2>>]
              F == [p \in D |-> [g \in [D -> V] |-> Body(g, p)]]
              Eq(f) == f = [p \in D |-> Body(f, p)]
              s == CHOOSE f : Eq(f)
  <1>1. D = Rows(n) \X (0..n)
    BY ArrayFacts
  <1>2. shellSort(a) = s[<<a, Len(a) \div 2>>]
    BY DEF shellSort
  <1>3. V # {} /\ rank \in [D -> Nat]
    BY <1>1
  <1>4. ASSUME NEW p \in D, NEW g \in [D -> V] PROVE Body(g, p) \in V
    <2>1. p[1] \in Rows(n) /\ p[2] \in 0..n
      BY <1>1
    <2>2. ASSUME p[2] # 0 PROVE <<shellRound(p[1], p[2]), p[2] \div 2>> \in D
      <3>1. p[2] \div 2 \in 0..n /\ p[2] \in 1..n
        BY <2>1, <2>2
      <3>2. shellRound(p[1], p[2]) \in Rows(n)
        BY <2>1, <3>1, ShellRoundSettles
      <3>. QED
        BY <1>1, <3>1, <3>2
    <2>. HIDE DEF D
    <2>. QED
      BY <2>1, <2>2
  <1>5. ASSUME NEW p \in D, NEW g, NEW h \in [D -> V], \A y \in D : rank[y] < rank[p] => g[y] = h[y]
        PROVE  Body(g, p) = Body(h, p)
    <2>1. p[1] \in Rows(n) /\ p[2] \in 0..n
      BY <1>1
    <2>. DEFINE d == <<shellRound(p[1], p[2]), p[2] \div 2>>
    <2>2. ASSUME p[2] # 0 PROVE g[d] = h[d]
      <3>1. p[2] \div 2 \in 0..n /\ p[2] \in 1..n /\ p[2] \div 2 < p[2]
        BY <2>1, <2>2
      <3>2. shellRound(p[1], p[2]) \in Rows(n)
        BY <2>1, <3>1, ShellRoundSettles
      <3>3. d \in D /\ d[2] = p[2] \div 2
        BY <1>1, <3>1, <3>2
      <3>4. rank[d] < rank[p]
        <4>. HIDE DEF d
        <4>. QED
          BY <2>1, <3>1, <3>3
      <3>. QED
        BY <1>5, <3>3, <3>4
    <2>. HIDE DEF D, rank
    <2>. QED
      BY <2>1, <2>2
  <1>6. PICK q \in [D -> V] : \A p \in D : q[p] = Body(q, p)
    <2>1. F \in [D -> [[D -> V] -> V]] /\ \A p \in D : \A g \in [D -> V] : F[p][g] = Body(g, p)
      <3>. HIDE DEF D, V, Body
      <3>. QED
        BY <1>4
    <2>2. Local(D, V, rank, F)
      <3>. HIDE DEF D, V, rank, F, Body
      <3>1. ASSUME NEW x \in D, NEW g \in [D -> V], NEW h \in [D -> V],
                   \A y \in D : rank[y] < rank[x] => g[y] = h[y]
            PROVE  F[x][g] = F[x][h]
        <4>1. Body(g, x) = Body(h, x)
          BY <1>5, <3>1
        <4>. QED
          BY <2>1, <4>1
      <3>. QED
        BY <2>1, <3>1 DEF Local
    <2>3. PICK q : Solution(D, V, F, q)
      <3>. HIDE DEF D, V, rank, F
      <3>. QED
        BY <1>3, <2>2, Recursion
    <2>. HIDE DEF D, V, rank, F, Body
    <2>. QED
      BY <2>1, <2>3 DEF Solution
  <1>7. Eq(s)
    <2>1. Eq(q)
      <3>. HIDE DEF D, V, Body
      <3>. QED
        BY <1>6
    <2>. HIDE DEF Eq
    <2>. QED
      BY <2>1, Zenon
  <1>8. \A p \in D : s[p] = Body(s, p)
    <2>. HIDE DEF D, V, Body, s
    <2>. QED
      BY <1>7
  <1>9. D \subseteq {p \in D : s[p] = q[p]}
    <2>1. RankedIn(D, rank, {p \in D : s[p] = q[p]})
      <3>. HIDE DEF D, V, Body, s, rank
      <3>. QED
        BY <1>5, <1>6, <1>8 DEF RankedIn
    <2>. HIDE DEF D, V, Body, s, rank
    <2>. QED
      BY <1>3, <2>1, ByRank
  <1>10. s \in [D -> V]
    <2>. HIDE DEF D, V, Body
    <2>. QED
      BY <1>6, <1>7, <1>9
  <1>. HIDE DEF s, D
  <1>. QED
    BY <1>1, <1>2, <1>8, <1>10

\* shellSort: the gap ends at 1, if there are two numbers at all.
LEMMA ShellSortSorts ==
  ASSUME NEW n \in Nat, NEW a \in Rows(n)
  PROVE  Sorts(n, a, shellSort(a))
PROOF
  <1>. DEFINE D == Rows(n) \X (0..n)
              rank == [p \in D |-> p[2]]
  <1>1. PICK f \in [D -> Rows(n)] :
           /\ shellSort(a) = f[<<a, Len(a) \div 2>>]
           /\ \A p \in D : f[p] = IF p[2] = 0 THEN p[1] ELSE f[<<shellRound(p[1], p[2]), p[2] \div 2>>]
    BY ShellSortRounds
  <1>. DEFINE P(p) == Rearranged(n, p[1], f[p]) /\ (p[2] # 0 => Ascending(n, f[p]))
              S == {p \in D : P(p)}
  <1>2. ASSUME NEW p \in D, \A y \in D : rank[y] < rank[p] => y \in S PROVE p \in S
    <2>1. p[1] \in Rows(n) /\ p[2] \in 0..n
      OBVIOUS
    <2>2. CASE p[2] = 0
      <3>1. f[p] = p[1]
        BY <1>1, <2>2
      <3>. QED
        BY <2>2, <3>1, RearrangedSame
    <2>3. CASE p[2] \in 1..n
      <3>. DEFINE b == shellRound(p[1], p[2])
                  d == <<b, p[2] \div 2>>
      <3>1. f[p] = f[d]
        BY <1>1, <2>3
      <3>2. b \in Rows(n) /\ Rearranged(n, p[1], b) /\ (p[2] = 1 => Ascending(n, b))
        BY <2>1, <2>3, ShellRoundSettles
      <3>. HIDE DEF b
      <3>3. /\ p[2] \div 2 \in 0..n /\ p[2] \div 2 < p[2]
            /\ p[2] # 1 => p[2] \div 2 # 0
            /\ p[2] = 1 => p[2] \div 2 = 0
        BY <2>3
      <3>4. d \in D /\ d[1] = b /\ d[2] = p[2] \div 2
        BY <3>2, <3>3
      <3>. HIDE DEF d
      <3>5. rank[d] < rank[p]
        BY <2>1, <3>3, <3>4
      <3>6. P(d)
        BY <1>2, <3>4, <3>5
      <3>7. Rearranged(n, p[1], f[p])
        BY <3>1, <3>2, <3>4, <3>6, RearrangedOn
      <3>8. Ascending(n, f[p])
        <4>1. CASE p[2] = 1
          <5>1. f[d] = b
            BY <1>1, <3>3, <3>4, <4>1
          <5>. QED
            BY <3>1, <3>2, <4>1, <5>1
        <4>2. CASE p[2] # 1
          BY <3>1, <3>3, <3>4, <3>6, <4>2
        <4>. QED
          BY <4>1, <4>2
      <3>. QED
        BY <3>7, <3>8
    <2>. QED
      BY <2>1, <2>2, <2>3
  <1>3. rank \in [D -> Nat]
    OBVIOUS
  <1>4. D \subseteq S
    <2>1. RankedIn(D, rank, S)
      BY <1>2 DEF RankedIn
    <2>. HIDE DEF D, rank, S
    <2>. QED
      BY <1>3, <2>1, ByRank
  <1>. DEFINE d == <<a, Len(a) \div 2>>
  <1>5. Len(a) = n /\ n \div 2 \in 0..n /\ (n > 1 => n \div 2 # 0)
    BY ArrayFacts
  <1>6. d \in D /\ d[1] = a /\ d[2] = n \div 2
    BY <1>5
  <1>7. P(d) /\ f[d] \in Rows(n)
    BY <1>4, <1>6
  <1>8. Ascending(n, f[d])
    <2>1. CASE n > 1
      BY <1>5, <1>6, <1>7, <2>1
    <2>2. CASE n <= 1
      <3>1. \A k \in 1..n : f[d][k] \in Int
        BY <1>7 DEF Rows
      <3>2. \A k, l \in 1..n : k = l
        BY <2>2
      <3>. HIDE DEF d
      <3>. QED
        BY <3>1, <3>2 DEF Ascending
    <2>. QED
      BY <2>1, <2>2
  <1>. QED
    BY <1>1, <1>6, <1>7, <1>8 DEF Sorts
-----------------------------------------------------------------------------
(***************************************************************************)
(* The merge sort.  The numbers of the arrays that it merges are counted:  *)
(* a rearrangement has as many members of every set.                       *)
(***************************************************************************)
\* The number of positions of a sequence that hold a member of X.
Hits(t, X) == Cardinality({k \in 1..Len(t) : t[k] \in X})

\* The hits are finitely many.
LEMMA HitsType ==
  ASSUME NEW t \in Seq(Int), NEW X
  PROVE  IsFiniteSet({k \in 1..Len(t) : t[k] \in X}) /\ Hits(t, X) \in Nat
PROOF
  <1>1. IsFiniteSet(1..Len(t))
    <2>1. 1 \in Int /\ Len(t) \in Int
      BY LenProperties
    <2>. QED
      BY <2>1, FS_Interval
  <1>2. IsFiniteSet({k \in 1..Len(t) : t[k] \in X})
    BY <1>1, FS_Subset
  <1>. QED
    BY <1>2, FS_CardinalityType DEF Hits

\* An empty sequence has none.
LEMMA HitsNone ==
  ASSUME NEW t, Len(t) = 0, NEW X PROVE Hits(t, X) = 0
PROOF
  <1>1. {k \in 1..Len(t) : t[k] \in X} = {}
    OBVIOUS
  <1>. QED
    BY <1>1, FS_EmptySet DEF Hits

\* Every position holds a number.
LEMMA HitsAll ==
  ASSUME NEW t \in Seq(Int)
  PROVE  Hits(t, Int) = Len(t)
PROOF
  <1>1. Len(t) \in Nat /\ t \in [1..Len(t) -> Int]
    BY LenProperties
  <1>2. {k \in 1..Len(t) : t[k] \in Int} = 1..Len(t)
    BY <1>1
  <1>3. Cardinality(1..Len(t)) = IF 1 > Len(t) THEN 0 ELSE Len(t) - 1 + 1
    <2>1. 1 \in Int /\ Len(t) \in Int
      BY <1>1
    <2>. QED
      BY <2>1, FS_Interval
  <1>4. Hits(t, Int) = Cardinality(1..Len(t))
    BY <1>2 DEF Hits
  <1>5. Cardinality(1..Len(t)) = Len(t)
    <2>1. CASE 1 > Len(t)
      BY <1>1, <1>3, <2>1
    <2>2. CASE ~(1 > Len(t))
      BY <1>1, <1>3, <2>2
    <2>. QED
      BY <2>1, <2>2
  <1>. QED
    BY <1>4, <1>5

\* One more number in front.
Fronted(t, u) == Len(u) = Len(t) + 1 /\ \A k \in 1..Len(t) : u[k + 1] = t[k]

\* The hits with one more number.
LEMMA HitsOne ==
  ASSUME NEW t \in Seq(Int), NEW u \in Seq(Int), Fronted(t, u), NEW X
  PROVE  Hits(u, X) = Hits(t, X) + (IF u[1] \in X THEN 1 ELSE 0)
PROOF
  <1>. USE DEF Fronted
  <1>. DEFINE A == {k \in 1..Len(t) : t[k] \in X}
              B == {k \in 1..Len(u) : u[k] \in X}
              C == {k + 1 : k \in A}
              c == [k \in A |-> k + 1]
  <1>1. Len(t) \in Nat /\ IsFiniteSet(A) /\ Cardinality(A) \in Nat
    BY LenProperties, HitsType DEF Hits
  <1>2. IsFiniteSet(C) /\ Cardinality(C) = Cardinality(A)
    <2>0. A \subseteq Int /\ c \in [A -> C]
      BY <1>1
    <2>a. c \in Injection(A, C)
      BY <2>0 DEF Injection, IsInjective
    <2>b. c \in Surjection(A, C)
      BY <2>0 DEF Surjection
    <2>1. c \in Bijection(A, C)
      BY <2>a, <2>b DEF Bijection
    <2>2. ExistsBijection(A, C)
      BY <2>1, Zenon DEF ExistsBijection
    <2>. HIDE DEF A, C
    <2>. QED
      BY <1>1, <2>2, FS_Bijection
  <1>3. B = IF u[1] \in X THEN C \union {1} ELSE C
    <2>1. ASSUME NEW k \in B, k # 1 PROVE k \in C
      <3>1. k - 1 \in 1..Len(t) /\ k = (k - 1) + 1
        BY <1>1, <2>1
      <3>2. t[k - 1] = u[k]
        BY <3>1
      <3>. QED
        BY <3>1, <3>2
    <2>2. ASSUME NEW k \in C PROVE k \in B /\ k # 1
      <3>1. PICK l \in A : k = l + 1
        OBVIOUS
      <3>2. u[l + 1] = t[l] /\ l + 1 \in 1..Len(u) /\ l + 1 # 1
        BY <1>1
      <3>. QED
        BY <3>1, <3>2
    <2>3. 1 \in B <=> u[1] \in X
      BY <1>1
    <2>. HIDE DEF B, C
    <2>4. CASE u[1] \in X
      BY <2>1, <2>2, <2>3, <2>4
    <2>5. CASE u[1] \notin X
      <3>1. \A k : k \in B <=> k \in C
        BY <2>1, <2>2, <2>3, <2>5
      <3>2. B = C
        BY <3>1
      <3>. QED
        BY <2>5, <3>2
    <2>. QED
      BY <2>4, <2>5
  <1>4. 1 \notin C
    BY <1>1
  <1>5. Cardinality(C \union {1}) = Cardinality(C) + 1
    <2>. HIDE DEF C
    <2>. QED
      BY <1>2, <1>4, FS_AddElement
  <1>. HIDE DEF A, B, C
  <1>6. Cardinality(B) = Cardinality(A) + (IF u[1] \in X THEN 1 ELSE 0)
    BY <1>1, <1>2, <1>3, <1>5
  <1>. QED
    BY <1>6 DEF Hits, A, B

\* An array with the same numbers in another order has the same hits.
LEMMA HitsRearranged ==
  ASSUME NEW n \in Nat, NEW a \in Rows(n), NEW b \in Rows(n), Rearranged(n, a, b), NEW X
  PROVE  Hits(a, X) = Hits(b, X)
PROOF
  <1>1. /\ a \in Seq(Int) /\ Len(a) = n
        /\ b \in Seq(Int) /\ Len(b) = n
    BY ArrayFacts
  <1>2. PICK p : Shuffle(n, 1, n, p) /\ \A k \in 1..n : a[k] = b[p[k]]
    BY DEF Rearranged, Shuffled
  <1>3. /\ p \in [1..n -> 1..n]
        /\ \A x, y \in 1..n : p[x] = p[y] => x = y
        /\ \A t \in 1..n : \E s \in 1..n : p[s] = t
    BY <1>2 DEF Bijects, Shuffle
  <1>. DEFINE A == {k \in 1..n : a[k] \in X}
              B == {k \in 1..n : b[k] \in X}
              c == [k \in A |-> p[k]]
  <1>4. c \in Bijection(A, B)
    <2>1. \A k \in A : p[k] \in B
      BY <1>2, <1>3
    <2>2. ASSUME NEW k \in B PROVE \E l \in A : p[l] = k
      <3>1. PICK l \in 1..n : p[l] = k
        BY <1>3
      <3>2. a[l] \in X
        BY <1>2, <3>1
      <3>. QED
        BY <3>1, <3>2
    <2>. QED
      BY <1>3, <2>1, <2>2 DEF Bijection, Injection, Surjection, IsInjective
  <1>5. ExistsBijection(A, B)
    BY <1>4, Zenon DEF ExistsBijection
  <1>6. IsFiniteSet(A)
    BY <1>1, HitsType
  <1>7. Cardinality(B) = Cardinality(A)
    <2>. HIDE DEF A, B
    <2>. QED
      BY <1>5, <1>6, FS_Bijection
  <1>. QED
    BY <1>1, <1>7 DEF Hits

\* The hits determine an ascending array.
LEMMA HitsLeast ==
  ASSUME NEW n \in Nat, NEW a \in Rows(n), NEW b \in Rows(n), Ascending(n, a), Ascending(n, b),
         \A X : Hits(a, X) = Hits(b, X), NEW k \in 1..n
  PROVE  ~(a[k] < b[k])
PROOF
  <1>. SUFFICES ASSUME a[k] < b[k] PROVE FALSE
    OBVIOUS
  <1>1. /\ a \in Seq(Int) /\ Len(a) = n
        /\ b \in Seq(Int) /\ Len(b) = n
    BY ArrayFacts
  <1>. DEFINE X == {x \in Int : x <= a[k]}
              A == {l \in 1..n : a[l] \in X}
              B == {l \in 1..n : b[l] \in X}
  <1>2. 1..k \subseteq A
    BY DEF Rows, Ascending
  <1>3. B \subseteq 1..(k - 1)
    <2>1. ASSUME NEW l \in B, k <= l PROVE FALSE
      <3>1. b[k] <= b[l] /\ b[l] <= a[k] /\ b[k] \in Int /\ b[l] \in Int /\ a[k] \in Int
        BY <2>1 DEF Rows, Ascending
      <3>. QED
        BY <3>1
    <2>. QED
      BY <2>1
  <1>4. IsFiniteSet(A) /\ IsFiniteSet(B) /\ Cardinality(A) = Cardinality(B)
    BY <1>1, HitsType DEF Hits
  <1>5. /\ IsFiniteSet(1..k) /\ Cardinality(1..k) = k
        /\ IsFiniteSet(1..(k - 1)) /\ Cardinality(1..(k - 1)) = k - 1
    <2>1. 1 \in Int /\ k \in Int /\ k - 1 \in Int /\ k >= 1
      OBVIOUS
    <2>2. IsFiniteSet(1..k) /\ Cardinality(1..k) = IF 1 > k THEN 0 ELSE k - 1 + 1
      BY <2>1, FS_Interval
    <2>3. /\ IsFiniteSet(1..(k - 1))
          /\ Cardinality(1..(k - 1)) = IF 1 > k - 1 THEN 0 ELSE (k - 1) - 1 + 1
      BY <2>1, FS_Interval
    <2>. QED
      BY <2>1, <2>2, <2>3
  <1>. HIDE DEF A, B
  <1>6. Cardinality(1..k) <= Cardinality(A) /\ Cardinality(B) <= Cardinality(1..(k - 1))
    BY <1>2, <1>3, <1>4, <1>5, FS_Subset
  <1>7. Cardinality(A) \in Nat
    BY <1>4, FS_CardinalityType
  <1>. QED
    BY <1>4, <1>5, <1>6, <1>7

\* Ascending arrays with the same hits are the same.
LEMMA HitsUnique ==
  ASSUME NEW n \in Nat, NEW a \in Rows(n), NEW b \in Rows(n), Ascending(n, a), Ascending(n, b),
         \A X : Hits(a, X) = Hits(b, X)
  PROVE  a = b
PROOF
  <1>1. \A k \in 1..n : a[k] = b[k]
    <2>. SUFFICES ASSUME NEW k \in 1..n PROVE a[k] = b[k]
      OBVIOUS
    <2>1. ~(a[k] < b[k])
      BY HitsLeast
    <2>2. ~(b[k] < a[k])
      <3>1. \A X : Hits(b, X) = Hits(a, X)
        OBVIOUS
      <3>. QED
        BY <3>1, HitsLeast
    <2>3. a[k] \in Int /\ b[k] \in Int
      BY DEF Rows
    <2>. QED
      BY <2>1, <2>2, <2>3
  <1>. QED
    BY <1>1 DEF Rows

\* A number in front of a sequence.
LEMMA FrontFacts ==
  ASSUME NEW e \in Int, NEW t \in Seq(Int)
  PROVE  /\ <<e>> \o t \in Seq(Int) /\ Len(<<e>> \o t) = Len(t) + 1 /\ (<<e>> \o t)[1] = e
         /\ \A k \in 1..Len(t) : (<<e>> \o t)[k + 1] = t[k]
PROOF
  <1>1. <<e>> \in Seq(Int) /\ Len(<<e>>) = 1 /\ <<e>>[1] = e /\ Len(t) \in Nat
    BY LenProperties
  <1>2. /\ <<e>> \o t \in Seq(Int)
        /\ Len(<<e>> \o t) = Len(<<e>>) + Len(t)
        /\ \A k \in 1..Len(<<e>>) + Len(t) :
             (<<e>> \o t)[k] = IF k <= Len(<<e>>) THEN <<e>>[k] ELSE t[k - Len(<<e>>)]
    BY <1>1, ConcatProperties
  <1>. DEFINE u == <<e>> \o t
              v == <<e>>
  <1>. HIDE DEF u, v
  <1>3. \A k \in 1..(1 + Len(t)) : u[k] = IF k <= 1 THEN e ELSE t[k - 1]
    <2>1. Len(v) = 1 /\ v[1] = e
      BY <1>1 DEF v
    <2>2. \A k \in 1..Len(v) + Len(t) : u[k] = IF k <= Len(v) THEN v[k] ELSE t[k - Len(v)]
      BY <1>2 DEF u, v
    <2>. QED
      BY <1>1, <2>1, <2>2
  <1>4. u[1] = e
    <2>1. 1 \in 1..(1 + Len(t)) /\ 1 <= 1
      BY <1>1
    <2>. QED
      BY <1>3, <2>1
  <1>5. ASSUME NEW k \in 1..Len(t) PROVE u[k + 1] = t[k]
    <2>. DEFINE l == k + 1
    <2>1. l \in 1..(1 + Len(t)) /\ ~(l <= 1) /\ l - 1 = k
      BY <1>1
    <2>. HIDE DEF l
    <2>2. u[l] = t[k]
      BY <1>3, <2>1
    <2>. QED
      BY <2>2 DEF l
  <1>. QED
    BY <1>1, <1>2, <1>4, <1>5 DEF u

\* The head and the tail of a sequence of numbers.
LEMMA TailFacts ==
  ASSUME NEW t \in Seq(Int), t # <<>>
  PROVE  /\ Head(t) \in Int /\ Head(t) = t[1] /\ Len(t) \in Nat /\ Len(t) >= 1
         /\ Tail(t) \in Seq(Int) /\ Len(Tail(t)) = Len(t) - 1
         /\ \A k \in 1..Len(Tail(t)) : t[k + 1] = Tail(t)[k]
PROOF
  <1>1. Len(t) \in Nat /\ Len(t) >= 1
    BY EmptySeq
  <1>. QED
    BY <1>1, HeadTailProperties

\* The front of the merge is the lesser of the two fronts.
Bounded(e, t) == \A k \in 1..Len(t) : e <= t[k]

\* A number in front of no lesser ones keeps them ascending.
LEMMA AscendingFront ==
  ASSUME NEW e \in Int, NEW t \in Seq(Int), Bounded(e, t), Ascending(Len(t), t)
  PROVE  Ascending(Len(<<e>> \o t), <<e>> \o t)
PROOF
  <1>. DEFINE u == <<e>> \o t
  <1>1. /\ Len(u) = Len(t) + 1 /\ u[1] = e /\ Len(t) \in Nat
        /\ \A k \in 1..Len(t) : u[k + 1] = t[k]
    BY FrontFacts, LenProperties
  <1>. HIDE DEF u
  <1>2. ASSUME NEW k \in 1..Len(u), NEW l \in 1..Len(u), k <= l PROVE u[k] <= u[l]
    <2>1. k # 1 => k - 1 \in 1..Len(t) /\ u[k] = t[k - 1]
      <3>. SUFFICES ASSUME k # 1 PROVE k - 1 \in 1..Len(t) /\ u[k] = t[k - 1]
        OBVIOUS
      <3>1. k - 1 \in 1..Len(t) /\ (k - 1) + 1 = k
        BY <1>1
      <3>. QED
        BY <1>1, <3>1
    <2>2. l # 1 => l - 1 \in 1..Len(t) /\ u[l] = t[l - 1]
      <3>. SUFFICES ASSUME l # 1 PROVE l - 1 \in 1..Len(t) /\ u[l] = t[l - 1]
        OBVIOUS
      <3>1. l - 1 \in 1..Len(t) /\ (l - 1) + 1 = l
        BY <1>1
      <3>. QED
        BY <1>1, <3>1
    <2>3. CASE k = 1 /\ l = 1
      BY <1>1, <2>3
    <2>4. CASE k = 1 /\ l # 1
      BY <1>1, <2>2, <2>4 DEF Bounded
    <2>5. CASE k # 1
      <3>1. l # 1 /\ k - 1 <= l - 1
        BY <1>1, <1>2, <2>5
      <3>. QED
        BY <2>1, <2>2, <2>5, <3>1 DEF Ascending
    <2>. QED
      BY <2>3, <2>4, <2>5
  <1>. QED
    BY <1>2 DEF Ascending, u

\* A bound of the number and of the sequence is one of the two together.
LEMMA BoundedFront ==
  ASSUME NEW e \in Int, NEW d \in Int, NEW t \in Seq(Int), d <= e, Bounded(d, t)
  PROVE  Bounded(d, <<e>> \o t)
PROOF
  <1>. DEFINE u == <<e>> \o t
  <1>1. /\ Len(u) = Len(t) + 1 /\ u[1] = e /\ Len(t) \in Nat
        /\ \A k \in 1..Len(t) : u[k + 1] = t[k]
    BY FrontFacts, LenProperties
  <1>. HIDE DEF u
  <1>2. ASSUME NEW k \in 1..Len(u) PROVE d <= u[k]
    <2>1. CASE k = 1
      BY <1>1, <2>1
    <2>2. CASE k # 1
      <3>1. k - 1 \in 1..Len(t) /\ (k - 1) + 1 = k
        BY <1>1, <2>2
      <3>. QED
        BY <1>1, <3>1 DEF Bounded
    <2>. QED
      BY <2>1, <2>2
  <1>. QED
    BY <1>2 DEF Bounded, u

\* What is less than a bound is one.
LEMMA BoundedLess ==
  ASSUME NEW t \in Seq(Int), NEW e \in Int, NEW d \in Int, d <= e, Bounded(e, t) PROVE Bounded(d, t)
PROOF
  <1>1. \A k \in 1..Len(t) : t[k] \in Int
    BY ElementOfSeq
  <1>. QED
    BY <1>1 DEF Bounded

\* The tail of an ascending sequence is ascending, and the head bounds it.
LEMMA AscendingTail ==
  ASSUME NEW t \in Seq(Int), t # <<>>, Ascending(Len(t), t)
  PROVE  Ascending(Len(Tail(t)), Tail(t)) /\ Bounded(Head(t), t) /\ Bounded(Head(t), Tail(t))
PROOF
  <1>. DEFINE u == Tail(t)
  <1>1. /\ Head(t) = t[1] /\ Len(t) \in Nat /\ Len(t) >= 1 /\ Len(u) = Len(t) - 1
        /\ \A k \in 1..Len(u) : t[k + 1] = u[k]
    BY TailFacts
  <1>. HIDE DEF u
  <1>2. \A k \in 1..Len(u) : k + 1 \in 1..Len(t)
    BY <1>1
  <1>3. Bounded(Head(t), t)
    BY <1>1 DEF Bounded, Ascending
  <1>4. Bounded(Head(t), u)
    BY <1>1, <1>2, <1>3 DEF Bounded
  <1>5. ASSUME NEW k \in 1..Len(u), NEW l \in 1..Len(u), k <= l PROVE u[k] <= u[l]
    <2>1. k + 1 <= l + 1
      BY <1>5
    <2>2. t[k + 1] <= t[l + 1]
      BY <1>2, <2>1 DEF Ascending
    <2>. QED
      BY <1>1, <2>2
  <1>. QED
    BY <1>3, <1>4, <1>5 DEF Ascending, u

\* The merge takes the lesser of the two fronts.
LEMMA MergeRuns ==
  ASSUME NEW a \in Seq(Int),
         NEW c \in Seq(Int)
  PROVE  \E f \in [Seq(Int) \X Seq(Int) -> Seq(Int)] :
           /\ merge(a, c) = f[<<a, c>>]
           /\ \A p \in Seq(Int) \X Seq(Int) : f[p] = IF p[1] = <<>> THEN p[2]
                       ELSE IF p[2] = <<>> THEN p[1]
                       ELSE IF Head(p[1]) < Head(p[2])
                         THEN <<Head(p[1])>> \o f[<<Tail(p[1]), p[2]>>]
                         ELSE <<Head(p[2])>> \o f[<<p[1], Tail(p[2])>>]
PROOF
  <1>. DEFINE D == Seq(Int) \X Seq(Int)
              V == Seq(Int)
              rank == [p \in D |-> Len(p[1]) + Len(p[2])]
              Body(f, p) == IF p[1] = <<>> THEN p[2]
                       ELSE IF p[2] = <<>> THEN p[1]
                       ELSE IF Head(p[1]) < Head(p[2])
                         THEN <<Head(p[1])>> \o f[<<Tail(p[1]), p[2]>>]
                         ELSE <<Head(p[2])>> \o f[<<p[1], Tail(p[2])>>]
              F == [p \in D |-> [g \in [D -> V] |-> Body(g, p)]]
              Eq(f) == f = [p \in D |-> Body(f, p)]
              s == CHOOSE f : Eq(f)
  <1>1. D = Seq(Int) \X Seq(Int)
    OBVIOUS
  <1>2. merge(a, c) = s[<<a, c>>]
    BY DEF merge
  <1>3. V # {} /\ rank \in [D -> Nat]
    <2>1. \A t \in Seq(Int) : Len(t) \in Nat
      BY LenProperties
    <2>2. \A p \in D : Len(p[1]) + Len(p[2]) \in Nat
      BY <2>1
    <2>3. <<>> \in Seq(Int)
      BY EmptySeq
    <2>. QED
      BY <2>2, <2>3
  <1>4. ASSUME NEW p \in D, NEW g \in [D -> V] PROVE Body(g, p) \in V
    <2>0. p \in Seq(Int) \X Seq(Int)
      BY <1>1
    <2>1. p[1] \in Seq(Int) /\ p[2] \in Seq(Int)
      BY <2>0
    <2>2. p[1] # <<>> => /\ Head(p[1]) \in Int /\ Tail(p[1]) \in Seq(Int)
                         /\ Len(p[1]) \in Nat /\ Len(Tail(p[1])) = Len(p[1]) - 1
      BY <2>1, TailFacts
    <2>3. p[2] # <<>> => /\ Head(p[2]) \in Int /\ Tail(p[2]) \in Seq(Int)
                         /\ Len(p[2]) \in Nat /\ Len(Tail(p[2])) = Len(p[2]) - 1
      BY <2>1, TailFacts
    <2>4. Len(p[1]) \in Nat /\ Len(p[2]) \in Nat
      BY <2>1, LenProperties
    <2>5. ASSUME NEW u \in Seq(Int), NEW e \in Int PROVE <<e>> \o u \in Seq(Int)
      BY FrontFacts
    <2>6. CASE p[1] = <<>> \/ p[2] = <<>>
      BY <2>1, <2>6
    <2>7. CASE p[1] # <<>> /\ p[2] # <<>>
      <3>1. <<Tail(p[1]), p[2]>> \in D /\ <<p[1], Tail(p[2])>> \in D
        BY <1>1, <2>1, <2>2, <2>3, <2>7
      <3>2. g[<<Tail(p[1]), p[2]>>] \in V /\ g[<<p[1], Tail(p[2])>>] \in V
        <4>. HIDE DEF D, V
        <4>. QED
          BY <3>1
      <3>3. /\ <<Head(p[1])>> \o g[<<Tail(p[1]), p[2]>>] \in V
            /\ <<Head(p[2])>> \o g[<<p[1], Tail(p[2])>>] \in V
        BY <2>2, <2>3, <2>5, <2>7, <3>2
      <3>. HIDE DEF D, V
      <3>. QED
        BY <2>7, <3>3
    <2>. QED
      BY <2>6, <2>7
  <1>5. ASSUME NEW p \in D, NEW g, NEW h \in [D -> V], \A y \in D : rank[y] < rank[p] => g[y] = h[y]
        PROVE  Body(g, p) = Body(h, p)
    <2>0. p \in Seq(Int) \X Seq(Int)
      BY <1>1
    <2>1. p[1] \in Seq(Int) /\ p[2] \in Seq(Int)
      BY <2>0
    <2>2. p[1] # <<>> => /\ Head(p[1]) \in Int /\ Tail(p[1]) \in Seq(Int)
                         /\ Len(p[1]) \in Nat /\ Len(Tail(p[1])) = Len(p[1]) - 1
      BY <2>1, TailFacts
    <2>3. p[2] # <<>> => /\ Head(p[2]) \in Int /\ Tail(p[2]) \in Seq(Int)
                         /\ Len(p[2]) \in Nat /\ Len(Tail(p[2])) = Len(p[2]) - 1
      BY <2>1, TailFacts
    <2>4. Len(p[1]) \in Nat /\ Len(p[2]) \in Nat
      BY <2>1, LenProperties
    <2>5. CASE p[1] = <<>> \/ p[2] = <<>>
      BY <2>5
    <2>6. CASE p[1] # <<>> /\ p[2] # <<>>
      <3>. DEFINE x == <<Tail(p[1]), p[2]>>
                  y == <<p[1], Tail(p[2])>>
      <3>1. x \in D /\ y \in D
        BY <1>1, <2>1, <2>2, <2>3, <2>6
      <3>2. rank[x] < rank[p] /\ rank[y] < rank[p]
        <4>1. rank[x] = Len(Tail(p[1])) + Len(p[2]) /\ rank[y] = Len(p[1]) + Len(Tail(p[2]))
          BY <3>1
        <4>2. rank[p] = Len(p[1]) + Len(p[2])
          OBVIOUS
        <4>. HIDE DEF rank
        <4>. QED
          BY <2>2, <2>3, <2>4, <2>6, <4>1, <4>2
      <3>3. g[x] = h[x] /\ g[y] = h[y]
        <4>. HIDE DEF D, rank, x, y
        <4>. QED
          BY <1>5, <3>1, <3>2
      <3>. QED
        BY <2>6, <3>3
    <2>. QED
      BY <2>5, <2>6
  <1>6. PICK q \in [D -> V] : \A p \in D : q[p] = Body(q, p)
    <2>1. F \in [D -> [[D -> V] -> V]] /\ \A p \in D : \A g \in [D -> V] : F[p][g] = Body(g, p)
      <3>. HIDE DEF D, V, Body
      <3>. QED
        BY <1>4
    <2>2. Local(D, V, rank, F)
      <3>. HIDE DEF D, V, rank, F, Body
      <3>1. ASSUME NEW x \in D, NEW g \in [D -> V], NEW h \in [D -> V],
                   \A y \in D : rank[y] < rank[x] => g[y] = h[y]
            PROVE  F[x][g] = F[x][h]
        <4>1. Body(g, x) = Body(h, x)
          BY <1>5, <3>1
        <4>. QED
          BY <2>1, <4>1
      <3>. QED
        BY <2>1, <3>1 DEF Local
    <2>3. PICK q : Solution(D, V, F, q)
      <3>. HIDE DEF D, V, rank, F
      <3>. QED
        BY <1>3, <2>2, Recursion
    <2>. HIDE DEF D, V, rank, F, Body
    <2>. QED
      BY <2>1, <2>3 DEF Solution
  <1>7. Eq(s)
    <2>1. Eq(q)
      <3>. HIDE DEF D, V, Body
      <3>. QED
        BY <1>6
    <2>. HIDE DEF Eq
    <2>. QED
      BY <2>1, Zenon
  <1>8. \A p \in D : s[p] = Body(s, p)
    <2>. HIDE DEF D, V, Body, s
    <2>. QED
      BY <1>7
  <1>9. D \subseteq {p \in D : s[p] = q[p]}
    <2>1. RankedIn(D, rank, {p \in D : s[p] = q[p]})
      <3>. HIDE DEF D, V, Body, s, rank
      <3>. QED
        BY <1>5, <1>6, <1>8 DEF RankedIn
    <2>. HIDE DEF D, V, Body, s, rank
    <2>. QED
      BY <1>3, <2>1, ByRank
  <1>10. s \in [D -> V]
    <2>. HIDE DEF D, V, Body
    <2>. QED
      BY <1>6, <1>7, <1>9
  <1>. HIDE DEF s, D
  <1>. QED
    BY <1>1, <1>2, <1>8, <1>10

\* merge returns the numbers of both, ascending if they are.
LEMMA MergeSettles ==
  ASSUME NEW a \in Seq(Int), NEW c \in Seq(Int)
  PROVE  /\ merge(a, c) \in Seq(Int)
         /\ \A X : Hits(merge(a, c), X) = Hits(a, X) + Hits(c, X)
         /\ Ascending(Len(a), a) /\ Ascending(Len(c), c) => Ascending(Len(merge(a, c)), merge(a, c))
PROOF
  <1>. DEFINE D == Seq(Int) \X Seq(Int)
              rank == [p \in D |-> Len(p[1]) + Len(p[2])]
  <1>1. PICK f \in [D -> Seq(Int)] :
           /\ merge(a, c) = f[<<a, c>>]
           /\ \A p \in D : f[p] = IF p[1] = <<>> THEN p[2]
                       ELSE IF p[2] = <<>> THEN p[1]
                       ELSE IF Head(p[1]) < Head(p[2])
                         THEN <<Head(p[1])>> \o f[<<Tail(p[1]), p[2]>>]
                         ELSE <<Head(p[2])>> \o f[<<p[1], Tail(p[2])>>]
    BY MergeRuns
  <1>. DEFINE P(p) == /\ \A X : Hits(f[p], X) = Hits(p[1], X) + Hits(p[2], X)
                      /\ \A e \in Int : Bounded(e, p[1]) /\ Bounded(e, p[2]) => Bounded(e, f[p])
                      /\ Ascending(Len(p[1]), p[1]) /\ Ascending(Len(p[2]), p[2])
                         => Ascending(Len(f[p]), f[p])
              S == {p \in D : P(p)}
  <1>2. rank \in [D -> Nat]
    <2>1. \A t \in Seq(Int) : Len(t) \in Nat
      BY LenProperties
    <2>2. \A p \in D : Len(p[1]) + Len(p[2]) \in Nat
      BY <2>1
    <2>. QED
      BY <2>2
  <1>3. ASSUME NEW p \in D, \A y \in D : rank[y] < rank[p] => y \in S PROVE p \in S
    <2>1. /\ p[1] \in Seq(Int) /\ p[2] \in Seq(Int) /\ f[p] \in Seq(Int)
          /\ Len(p[1]) \in Nat /\ Len(p[2]) \in Nat /\ rank[p] = Len(p[1]) + Len(p[2])
      BY LenProperties
    <2>2. CASE p[1] = <<>>
      <3>1. f[p] = p[2] /\ Len(p[1]) = 0
        BY <1>1, <2>2, EmptySeq
      <3>2. \A X : Hits(p[1], X) = 0 /\ Hits(p[2], X) \in Nat
        BY <2>1, <3>1, HitsNone, HitsType
      <3>. QED
        BY <3>1, <3>2
    <2>3. CASE p[1] # <<>> /\ p[2] = <<>>
      <3>1. f[p] = p[1] /\ Len(p[2]) = 0
        BY <1>1, <2>3, EmptySeq
      <3>2. \A X : Hits(p[2], X) = 0 /\ Hits(p[1], X) \in Nat
        BY <2>1, <3>1, HitsNone, HitsType
      <3>. QED
        BY <3>1, <3>2
    <2>4. CASE p[1] # <<>> /\ p[2] # <<>> /\ Head(p[1]) < Head(p[2])
      <3>. DEFINE e == Head(p[1])
                  t == Tail(p[1])
                  y == <<t, p[2]>>
      <3>1. /\ e \in Int /\ t \in Seq(Int) /\ Len(t) = Len(p[1]) - 1 /\ e = p[1][1] /\ Len(p[1]) >= 1
            /\ \A k \in 1..Len(t) : p[1][k + 1] = t[k]
        BY <2>1, <2>4, TailFacts
      <3>2. Head(p[2]) \in Int
        BY <2>1, <2>4, TailFacts
      <3>3. f[p] = <<e>> \o f[y]
        BY <1>1, <2>4
      <3>4. y \in D /\ y[1] = t /\ y[2] = p[2]
        BY <2>1, <3>1
      <3>5. rank[y] = Len(t) + Len(p[2])
        BY <3>4
      <3>6. rank[y] < rank[p]
        <4>. HIDE DEF rank, y, t, e
        <4>. QED
          BY <2>1, <3>1, <3>5
      <3>. HIDE DEF y, t, e, P, D
      <3>7. P(y) /\ f[y] \in Seq(Int)
        BY <1>3, <3>4, <3>6
      <3>. DEFINE u == f[y]
      <3>8. f[p] = <<e>> \o u /\ u \in Seq(Int)
        BY <3>3, <3>7
      <3>9. /\ \A X : Hits(u, X) = Hits(t, X) + Hits(p[2], X)
            /\ \A x \in Int : Bounded(x, t) /\ Bounded(x, p[2]) => Bounded(x, u)
            /\ Ascending(Len(t), t) /\ Ascending(Len(p[2]), p[2]) => Ascending(Len(u), u)
        BY <3>4, <3>7 DEF P
      <3>. HIDE DEF u
      <3>10. \A X : Hits(f[p], X) = Hits(p[1], X) + Hits(p[2], X)
        <4>. SUFFICES ASSUME NEW X PROVE Hits(f[p], X) = Hits(p[1], X) + Hits(p[2], X)
          OBVIOUS
        <4>. DEFINE w == <<e>> \o u
        <4>1. /\ w \in Seq(Int) /\ Len(w) = Len(u) + 1 /\ w[1] = e
              /\ \A k \in 1..Len(u) : w[k + 1] = u[k]
          BY <3>1, <3>8, FrontFacts
        <4>. HIDE DEF w
        <4>2. Hits(w, X) = Hits(u, X) + (IF w[1] \in X THEN 1 ELSE 0)
          <5>1. Fronted(u, w)
            BY <4>1 DEF Fronted
          <5>. QED
            BY <3>8, <4>1, <5>1, HitsOne
        <4>3. Hits(p[1], X) = Hits(t, X) + (IF p[1][1] \in X THEN 1 ELSE 0)
          <5>1. Len(p[1]) = Len(t) + 1
            BY <2>1, <3>1
          <5>2. Fronted(t, p[1])
            BY <3>1, <5>1 DEF Fronted
          <5>. QED
            BY <2>1, <3>1, <5>2, HitsOne
        <4>4. /\ Hits(t, X) \in Nat /\ Hits(p[2], X) \in Nat /\ Hits(u, X) \in Nat
              /\ Hits(u, X) = Hits(t, X) + Hits(p[2], X)
          BY <2>1, <3>1, <3>8, <3>9, HitsType
        <4>5. f[p] = w
          BY <3>8 DEF w
        <4>6. CASE e \in X
          BY <3>1, <4>1, <4>2, <4>3, <4>4, <4>5, <4>6
        <4>7. CASE e \notin X
          BY <3>1, <4>1, <4>2, <4>3, <4>4, <4>5, <4>7
        <4>. QED
          BY <4>6, <4>7
      <3>11. ASSUME NEW x \in Int, Bounded(x, p[1]), Bounded(x, p[2]) PROVE Bounded(x, f[p])
        <4>1. x <= e
          BY <2>1, <3>1, <3>11 DEF Bounded
        <4>2. Bounded(x, t)
          <5>1. \A k \in 1..Len(t) : k + 1 \in 1..Len(p[1]) /\ p[1][k + 1] = t[k]
            BY <2>1, <3>1
          <5>. QED
            BY <3>11, <5>1 DEF Bounded
        <4>3. Bounded(x, u)
          BY <3>9, <3>11, <4>2
        <4>. QED
          BY <3>1, <3>8, <4>1, <4>3, BoundedFront
      <3>12. ASSUME Ascending(Len(p[1]), p[1]), Ascending(Len(p[2]), p[2]) PROVE Ascending(Len(f[p]), f[p])
        <4>1. Ascending(Len(t), t) /\ Bounded(e, t)
          BY <2>1, <2>4, <3>12, AscendingTail DEF t, e
        <4>2. Bounded(e, p[2])
          <5>1. Bounded(Head(p[2]), p[2])
            BY <2>1, <2>4, <3>12, AscendingTail
          <5>2. e < Head(p[2])
            BY <2>4 DEF e
          <5>3. p[2] \in Seq(Int) /\ e \in Int /\ Head(p[2]) \in Int
            BY <2>1, <3>1, <3>2
          <5>. QED
            BY <5>1, <5>2, <5>3, BoundedLess
        <4>3. Bounded(e, u) /\ Ascending(Len(u), u)
          BY <3>1, <3>9, <3>12, <4>1, <4>2
        <4>. QED
          BY <3>1, <3>8, <4>3, AscendingFront
      <3>. QED
        BY <3>10, <3>11, <3>12 DEF P
    <2>5. CASE p[1] # <<>> /\ p[2] # <<>> /\ ~(Head(p[1]) < Head(p[2]))
      <3>. DEFINE e == Head(p[2])
                  t == Tail(p[2])
                  y == <<p[1], t>>
      <3>1. /\ e \in Int /\ t \in Seq(Int) /\ Len(t) = Len(p[2]) - 1 /\ e = p[2][1] /\ Len(p[2]) >= 1
            /\ \A k \in 1..Len(t) : p[2][k + 1] = t[k]
        BY <2>1, <2>5, TailFacts
      <3>2. Head(p[1]) \in Int
        BY <2>1, <2>5, TailFacts
      <3>3. f[p] = <<e>> \o f[y]
        BY <1>1, <2>5
      <3>4. y \in D /\ y[2] = t /\ y[1] = p[1]
        BY <2>1, <3>1
      <3>5. rank[y] = Len(p[1]) + Len(t)
        BY <3>4
      <3>6. rank[y] < rank[p]
        <4>. HIDE DEF rank, y, t, e
        <4>. QED
          BY <2>1, <3>1, <3>5
      <3>. HIDE DEF y, t, e, P, D
      <3>7. P(y) /\ f[y] \in Seq(Int)
        BY <1>3, <3>4, <3>6
      <3>. DEFINE u == f[y]
      <3>8. f[p] = <<e>> \o u /\ u \in Seq(Int)
        BY <3>3, <3>7
      <3>9. /\ \A X : Hits(u, X) = Hits(p[1], X) + Hits(t, X)
            /\ \A x \in Int : Bounded(x, t) /\ Bounded(x, p[1]) => Bounded(x, u)
            /\ Ascending(Len(t), t) /\ Ascending(Len(p[1]), p[1]) => Ascending(Len(u), u)
        BY <3>4, <3>7 DEF P
      <3>. HIDE DEF u
      <3>10. \A X : Hits(f[p], X) = Hits(p[1], X) + Hits(p[2], X)
        <4>. SUFFICES ASSUME NEW X PROVE Hits(f[p], X) = Hits(p[1], X) + Hits(p[2], X)
          OBVIOUS
        <4>. DEFINE w == <<e>> \o u
        <4>1. /\ w \in Seq(Int) /\ Len(w) = Len(u) + 1 /\ w[1] = e
              /\ \A k \in 1..Len(u) : w[k + 1] = u[k]
          BY <3>1, <3>8, FrontFacts
        <4>. HIDE DEF w
        <4>2. Hits(w, X) = Hits(u, X) + (IF w[1] \in X THEN 1 ELSE 0)
          <5>1. Fronted(u, w)
            BY <4>1 DEF Fronted
          <5>. QED
            BY <3>8, <4>1, <5>1, HitsOne
        <4>3. Hits(p[2], X) = Hits(t, X) + (IF p[2][1] \in X THEN 1 ELSE 0)
          <5>1. Len(p[2]) = Len(t) + 1
            BY <2>1, <3>1
          <5>2. Fronted(t, p[2])
            BY <3>1, <5>1 DEF Fronted
          <5>. QED
            BY <2>1, <3>1, <5>2, HitsOne
        <4>4. /\ Hits(t, X) \in Nat /\ Hits(p[1], X) \in Nat /\ Hits(u, X) \in Nat
              /\ Hits(u, X) = Hits(p[1], X) + Hits(t, X)
          BY <2>1, <3>1, <3>8, <3>9, HitsType
        <4>5. f[p] = w
          BY <3>8 DEF w
        <4>6. CASE e \in X
          BY <3>1, <4>1, <4>2, <4>3, <4>4, <4>5, <4>6
        <4>7. CASE e \notin X
          BY <3>1, <4>1, <4>2, <4>3, <4>4, <4>5, <4>7
        <4>. QED
          BY <4>6, <4>7
      <3>11. ASSUME NEW x \in Int, Bounded(x, p[2]), Bounded(x, p[1]) PROVE Bounded(x, f[p])
        <4>1. x <= e
          BY <2>1, <3>1, <3>11 DEF Bounded
        <4>2. Bounded(x, t)
          <5>1. \A k \in 1..Len(t) : k + 1 \in 1..Len(p[2]) /\ p[2][k + 1] = t[k]
            BY <2>1, <3>1
          <5>. QED
            BY <3>11, <5>1 DEF Bounded
        <4>3. Bounded(x, u)
          BY <3>9, <3>11, <4>2
        <4>. QED
          BY <3>1, <3>8, <4>1, <4>3, BoundedFront
      <3>12. ASSUME Ascending(Len(p[2]), p[2]), Ascending(Len(p[1]), p[1]) PROVE Ascending(Len(f[p]), f[p])
        <4>1. Ascending(Len(t), t) /\ Bounded(e, t)
          BY <2>1, <2>5, <3>12, AscendingTail DEF t, e
        <4>2. Bounded(e, p[1])
          <5>1. Bounded(Head(p[1]), p[1])
            BY <2>1, <2>5, <3>12, AscendingTail
          <5>2. e <= Head(p[1])
            BY <2>5, <3>1, <3>2 DEF e
          <5>3. p[1] \in Seq(Int) /\ e \in Int /\ Head(p[1]) \in Int
            BY <2>1, <3>1, <3>2
          <5>. QED
            BY <5>1, <5>2, <5>3, BoundedLess
        <4>3. Bounded(e, u) /\ Ascending(Len(u), u)
          BY <3>1, <3>9, <3>12, <4>1, <4>2
        <4>. QED
          BY <3>1, <3>8, <4>3, AscendingFront
      <3>. QED
        BY <3>10, <3>11, <3>12 DEF P
    <2>. QED
      BY <2>2, <2>3, <2>4, <2>5
  <1>4. D \subseteq S
    <2>1. RankedIn(D, rank, S)
      <3>. HIDE DEF D, rank, S
      <3>. QED
        BY <1>3 DEF RankedIn
    <2>. HIDE DEF D, rank, S
    <2>. QED
      BY <1>2, <2>1, ByRank
  <1>5. <<a, c>> \in S /\ f[<<a, c>>] \in Seq(Int)
    BY <1>4
  <1>. QED
    BY <1>1, <1>5

Pieces == Seq(Seq(Int)) \ {<<>>}

\* A function on the first n positions is a sequence of length n.
LEMMA SeqOf ==
  ASSUME NEW n \in Nat, NEW S, NEW u \in [1..n -> S]
  PROVE  u \in Seq(S) /\ Len(u) = n
PROOF
  <1>1. u \in Seq(S)
    BY SeqDef
  <1>2. Len(u) = n
    BY <1>1, LenProperties
  <1>. QED
    BY <1>1, <1>2

\* The positions of neighbours.
LEMMA Halves ==
  ASSUME NEW n \in Nat, n >= 2
  PROVE  /\ (n + 1) \div 2 \in 1..(n - 1)
         /\ \A k \in 1..((n + 1) \div 2) : 2 * k - 1 \in 1..n /\ (2 * k <= n \/ k = (n + 1) \div 2)
PROOF
  OBVIOUS

\* A round merges neighbours; it leaves at least one array, and less than before.
LEMMA MergeRoundFacts ==
  ASSUME NEW t \in Pieces, Len(t) # 1
  PROVE  /\ Len(t) \in Nat /\ Len(t) >= 2
         /\ mergeRound(t) \in Pieces /\ Len(mergeRound(t)) = (Len(t) + 1) \div 2
         /\ Len(mergeRound(t)) < Len(t)
         /\ \A k \in 1..Len(mergeRound(t)) :
              /\ 2 * k - 1 \in 1..Len(t)
              /\ 2 * k <= Len(t) => mergeRound(t)[k] = merge(t[2 * k - 1], t[2 * k])
              /\ ~(2 * k <= Len(t)) => mergeRound(t)[k] = t[2 * k - 1] /\ k = Len(mergeRound(t))
PROOF
  <1>. DEFINE m == (Len(t) + 1) \div 2
              u == mergeRound(t)
  <1>1. t \in Seq(Seq(Int)) /\ Len(t) \in Nat /\ Len(t) >= 2
    <2>1. t \in Seq(Seq(Int)) /\ t # <<>>
      BY DEF Pieces
    <2>2. Len(t) \in Nat \ {0}
      BY <2>1, EmptySeq
    <2>. DEFINE n == Len(t)
    <2>3. n \in Nat \ {0} /\ n # 1
      BY <2>2
    <2>. HIDE DEF n
    <2>4. n \in Nat /\ n >= 2
      BY <2>3
    <2>. QED
      BY <2>1, <2>4 DEF n
  <1>2. /\ m \in Nat /\ m >= 1 /\ m < Len(t)
        /\ \A k \in 1..m : 2 * k - 1 \in 1..Len(t) /\ (2 * k <= Len(t) \/ k = m)
    <2>1. /\ m \in 1..(Len(t) - 1)
          /\ \A k \in 1..m : 2 * k - 1 \in 1..Len(t) /\ (2 * k <= Len(t) \/ k = m)
      BY <1>1, Halves
    <2>. HIDE DEF m
    <2>. QED
      BY <1>1, <2>1
  <1>. HIDE DEF m
  <1>3. u = [k \in 1..m |-> IF 2 * k <= Len(t) THEN merge(t[2 * k - 1], t[2 * k]) ELSE t[2 * k - 1]]
    BY DEF mergeRound, m
  <1>4. \A k \in 1..m : u[k] \in Seq(Int)
    <2>. SUFFICES ASSUME NEW k \in 1..m PROVE u[k] \in Seq(Int)
      OBVIOUS
    <2>. DEFINE j == 2 * k - 1
                l == 2 * k
    <2>1. j \in 1..Len(t) /\ (l <= Len(t) => l \in 1..Len(t))
      BY <1>1, <1>2
    <2>2. u[k] = IF l <= Len(t) THEN merge(t[j], t[l]) ELSE t[j]
      BY <1>3
    <2>. HIDE DEF j, l, u
    <2>3. t[j] \in Seq(Int) /\ (l <= Len(t) => t[l] \in Seq(Int))
      BY <1>1, <2>1, ElementOfSeq
    <2>. QED
      BY <2>2, <2>3, MergeSettles
  <1>5. u \in Seq(Seq(Int)) /\ Len(u) = m
    <2>. HIDE DEF u
    <2>1. u \in [1..m -> Seq(Int)]
      BY <1>3, <1>4
    <2>. QED
      BY <1>2, <2>1, SeqOf
  <1>6. u # <<>>
    <2>. HIDE DEF u
    <2>. QED
      BY <1>2, <1>5, EmptySeq
  <1>7. u \in Pieces
    BY <1>5, <1>6 DEF Pieces
  <1>8. \A k \in 1..m : /\ 2 * k <= Len(t) => u[k] = merge(t[2 * k - 1], t[2 * k])
                        /\ ~(2 * k <= Len(t)) => u[k] = t[2 * k - 1] /\ k = m
    BY <1>2, <1>3
  <1>. HIDE DEF u
  <1>9. Len(u) = (Len(t) + 1) \div 2
    BY <1>5 DEF m
  <1>. QED
    BY <1>1, <1>2, <1>5, <1>7, <1>8, <1>9 DEF u

\* The hits in all the arrays.
Tally(t, X, v) ==
  \E r \in [0..Len(t) -> Nat] :
    /\ r[0] = 0 /\ r[Len(t)] = v
    /\ \A k \in 1..Len(t) : r[k] = r[k - 1] + Hits(t[k], X)

\* A round of merges loses no number and adds none.
LEMMA MergeRoundTally ==
  ASSUME NEW t \in Pieces, Len(t) # 1, NEW X, NEW v, Tally(t, X, v)
  PROVE  Tally(mergeRound(t), X, v)
PROOF
  <1>. DEFINE u == mergeRound(t)
  <1>1. PICK r \in [0..Len(t) -> Nat] :
          /\ r[0] = 0 /\ r[Len(t)] = v
          /\ \A k \in 1..Len(t) : r[k] = r[k - 1] + Hits(t[k], X)
    BY DEF Tally
  <1>2. /\ Len(t) \in Nat /\ Len(t) >= 2 /\ Len(u) = (Len(t) + 1) \div 2
        /\ \A k \in 1..Len(u) :
              /\ 2 * k - 1 \in 1..Len(t)
              /\ 2 * k <= Len(t) => u[k] = merge(t[2 * k - 1], t[2 * k])
              /\ ~(2 * k <= Len(t)) => u[k] = t[2 * k - 1] /\ k = Len(u)
    BY MergeRoundFacts
  <1>. HIDE DEF u
  <1>3. Len(u) \in Nat /\ 2 * Len(u) >= Len(t) /\ 2 * Len(u) <= Len(t) + 1
    BY <1>2
  <1>. DEFINE w == [k \in 0..Len(u) |-> IF 2 * k <= Len(t) THEN r[2 * k] ELSE r[Len(t)]]
  <1>4. w \in [0..Len(u) -> Nat]
    <2>1. \A k \in 0..Len(u) : 2 * k <= Len(t) => 2 * k \in 0..Len(t)
      BY <1>2, <1>3
    <2>2. Len(t) \in 0..Len(t)
      BY <1>2
    <2>. QED
      BY <2>1, <2>2
  <1>5. w[0] = 0
    BY <1>1, <1>2, <1>3
  <1>6. w[Len(u)] = v
    <2>1. CASE 2 * Len(u) <= Len(t)
      <3>1. 2 * Len(u) = Len(t)
        BY <1>2, <1>3, <2>1
      <3>2. w[Len(u)] = r[2 * Len(u)]
        BY <1>3, <2>1
      <3>. QED
        BY <1>1, <3>1, <3>2
    <2>2. CASE ~(2 * Len(u) <= Len(t))
      BY <1>1, <1>3, <2>2
    <2>. QED
      BY <2>1, <2>2
  <1>7. ASSUME NEW k \in 1..Len(u) PROVE w[k] = w[k - 1] + Hits(u[k], X)
    <2>. DEFINE j == 2 * k - 1
                l == 2 * k
    <2>1. /\ j \in 1..Len(t) /\ l = j + 1 /\ l - 1 = j /\ j - 1 = 2 * (k - 1) /\ j - 1 \in 0..Len(t)
          /\ k - 1 \in 0..Len(u) /\ 2 * (k - 1) <= Len(t) /\ (l <= Len(t) => l \in 1..Len(t))
      BY <1>2, <1>3
    <2>2. w[k - 1] = r[2 * (k - 1)]
      BY <2>1
    <2>3. w[k - 1] = r[j - 1]
      BY <2>1, <2>2
    <2>4. w[k] = IF l <= Len(t) THEN r[l] ELSE r[Len(t)]
      BY <1>3
    <2>5. /\ l <= Len(t) => u[k] = merge(t[j], t[l])
          /\ ~(l <= Len(t)) => u[k] = t[j]
      BY <1>2
    <2>. HIDE DEF j, l, w
    <2>6. r[j] = r[j - 1] + Hits(t[j], X)
      BY <1>1, <2>1
    <2>7. t \in Seq(Seq(Int))
      BY DEF Pieces
    <2>8. t[j] \in Seq(Int) /\ Hits(t[j], X) \in Nat /\ r[j - 1] \in Nat
      <3>1. t[j] \in Seq(Int)
        BY <2>1, <2>7, ElementOfSeq
      <3>2. r[j - 1] \in Nat
        BY <1>1, <2>1
      <3>. QED
        BY <3>1, <3>2, HitsType
    <2>9. CASE l <= Len(t)
      <3>1. t[l] \in Seq(Int)
        BY <2>1, <2>7, <2>9, ElementOfSeq
      <3>2. Hits(u[k], X) = Hits(t[j], X) + Hits(t[l], X)
        BY <2>5, <2>8, <2>9, <3>1, MergeSettles
      <3>3. r[l] = r[l - 1] + Hits(t[l], X)
        BY <1>1, <2>1, <2>9
      <3>4. r[l] = r[j] + Hits(t[l], X)
        BY <2>1, <3>3
      <3>5. Hits(t[l], X) \in Nat
        BY <3>1, HitsType
      <3>. QED
        BY <2>3, <2>4, <2>6, <2>8, <2>9, <3>2, <3>4, <3>5
    <2>10. CASE ~(l <= Len(t))
      <3>1. j = Len(t)
        BY <1>2, <2>1, <2>10
      <3>2. w[k] = r[j]
        BY <2>4, <2>10, <3>1
      <3>. QED
        BY <2>3, <2>5, <2>6, <2>10, <3>2
    <2>. QED
      BY <2>9, <2>10
  <1>. HIDE DEF w
  <1>8. Tally(u, X, v)
    BY <1>4, <1>5, <1>6, <1>7 DEF Tally
  <1>. QED
    BY <1>8 DEF u

Ordered(t) == \A k \in 1..Len(t) : Ascending(Len(t[k]), t[k])

\* Merges of ascending arrays are ascending.
LEMMA MergeRoundOrdered ==
  ASSUME NEW t \in Pieces, Len(t) # 1, Ordered(t)
  PROVE  Ordered(mergeRound(t))
PROOF
  <1>. DEFINE u == mergeRound(t)
  <1>1. /\ Len(t) \in Nat /\ Len(t) >= 2 /\ Len(u) = (Len(t) + 1) \div 2
        /\ \A k \in 1..Len(u) :
              /\ 2 * k - 1 \in 1..Len(t)
              /\ 2 * k <= Len(t) => u[k] = merge(t[2 * k - 1], t[2 * k])
              /\ ~(2 * k <= Len(t)) => u[k] = t[2 * k - 1] /\ k = Len(u)
    BY MergeRoundFacts
  <1>2. t \in Seq(Seq(Int))
    BY DEF Pieces
  <1>. HIDE DEF u
  <1>3. ASSUME NEW k \in 1..Len(u) PROVE Ascending(Len(u[k]), u[k])
    <2>. DEFINE j == 2 * k - 1
                l == 2 * k
    <2>1. /\ j \in 1..Len(t) /\ (l <= Len(t) => l \in 1..Len(t))
      BY <1>1
    <2>2. /\ l <= Len(t) => u[k] = merge(t[j], t[l])
          /\ ~(l <= Len(t)) => u[k] = t[j]
      BY <1>1
    <2>. HIDE DEF j, l
    <2>3. t[j] \in Seq(Int) /\ Ascending(Len(t[j]), t[j])
      BY <1>2, <2>1, ElementOfSeq DEF Ordered
    <2>4. ASSUME l <= Len(t) PROVE t[l] \in Seq(Int) /\ Ascending(Len(t[l]), t[l])
      BY <1>2, <2>1, <2>4, ElementOfSeq DEF Ordered
    <2>5. CASE l <= Len(t)
      <3>1. Ascending(Len(merge(t[j], t[l])), merge(t[j], t[l]))
        BY <2>3, <2>4, <2>5, MergeSettles
      <3>. QED
        BY <2>2, <2>5, <3>1
    <2>6. CASE ~(l <= Len(t))
      BY <2>2, <2>3, <2>6
    <2>. QED
      BY <2>5, <2>6
  <1>4. Ordered(u)
    BY <1>3 DEF Ordered
  <1>. QED
    BY <1>4 DEF u

\* The arrays of one number that mergeSort starts from.
LEMMA Singles ==
  ASSUME NEW n \in Nat, n >= 1, NEW a \in Rows(n), NEW t, t = [k \in 1..n |-> <<a[k]>>]
  PROVE  /\ t \in Pieces /\ Len(t) = n /\ Ordered(t)
         /\ \A X : Tally(t, X, Hits(a, X))
PROOF
  <1>1. \A k \in 1..n : a[k] \in Int /\ t[k] = <<a[k]>> /\ t[k] \in Seq(Int)
    BY DEF Rows
  <1>2. t \in [1..n -> Seq(Int)]
    BY <1>1
  <1>3. t \in Seq(Seq(Int))
    BY <1>2, SeqOf
  <1>4. Len(t) = n
    BY <1>2, SeqOf
  <1>5. t \in Pieces
    <2>1. Len(<<>>) = 0
      BY EmptySeq
    <2>2. t # <<>>
      BY <1>4, <2>1
    <2>. QED
      BY <1>3, <2>2 DEF Pieces
  <1>6. Ordered(t)
    <2>. SUFFICES ASSUME NEW k \in 1..n PROVE Ascending(Len(t[k]), t[k])
      BY <1>4 DEF Ordered
    <2>1. t[k] = <<a[k]>> /\ a[k] \in Int
      BY <1>1
    <2>2. Len(t[k]) = 1 /\ t[k][1] \in Int
      BY <2>1
    <2>. QED
      BY <2>2 DEF Ascending
  <1>7. ASSUME NEW X PROVE Tally(t, X, Hits(a, X))
    <2>. DEFINE A(k) == {l \in 1..k : a[l] \in X}
                r == [k \in 0..n |-> Cardinality(A(k))]
    <2>1. \A k \in 0..n : IsFiniteSet(A(k)) /\ Cardinality(A(k)) \in Nat
      <3>. SUFFICES ASSUME NEW k \in 0..n PROVE IsFiniteSet(A(k)) /\ Cardinality(A(k)) \in Nat
        OBVIOUS
      <3>1. IsFiniteSet(1..k)
        <4>1. 1 \in Int /\ k \in Int
          OBVIOUS
        <4>. QED
          BY <4>1, FS_Interval
      <3>2. A(k) \in SUBSET (1..k)
        OBVIOUS
      <3>. HIDE DEF A
      <3>. QED
        BY <3>1, <3>2, FS_Subset, FS_CardinalityType
    <2>2. r \in [0..n -> Nat]
      BY <2>1
    <2>3. r[0] = 0
      <3>1. A(0) = {}
        OBVIOUS
      <3>. QED
        BY <3>1, FS_EmptySet
    <2>4. r[n] = Hits(a, X)
      <3>1. Len(a) = n
        BY ArrayFacts
      <3>2. r[n] = Cardinality(A(n))
        OBVIOUS
      <3>. QED
        BY <3>1, <3>2 DEF Hits
    <2>5. ASSUME NEW k \in 1..n PROVE r[k] = r[k - 1] + Hits(t[k], X)
      <3>. DEFINE j == k - 1
      <3>0. j \in 0..n /\ k \in 0..n
        OBVIOUS
      <3>1. A(k) = IF a[k] \in X THEN A(j) \union {k} ELSE A(j)
        OBVIOUS
      <3>2. k \notin A(j)
        OBVIOUS
      <3>3. r[k] = Cardinality(A(k)) /\ r[j] = Cardinality(A(j))
        BY <3>0
      <3>4. IsFiniteSet(A(j)) /\ Cardinality(A(j)) \in Nat
        BY <2>1, <3>0
      <3>5. Hits(t[k], X) = IF a[k] \in X THEN 1 ELSE 0
        <4>1. Len(t[k]) = 1 /\ t[k][1] = a[k]
          BY <1>1
        <4>2. {l \in 1..Len(t[k]) : t[k][l] \in X} = IF a[k] \in X THEN {1} ELSE {}
          BY <4>1
        <4>. QED
          BY <4>2, FS_EmptySet, FS_Singleton DEF Hits
      <3>. HIDE DEF A, r, j
      <3>6. Cardinality(A(k)) = Cardinality(A(j)) + (IF a[k] \in X THEN 1 ELSE 0)
        <4>1. CASE a[k] \in X
          <5>1. Cardinality(A(j) \union {k}) = Cardinality(A(j)) + 1
            BY <3>2, <3>4, FS_AddElement
          <5>. QED
            BY <3>1, <4>1, <5>1
        <4>2. CASE a[k] \notin X
          BY <3>1, <3>4, <4>2
        <4>. QED
          BY <4>1, <4>2
      <3>. QED
        BY <3>3, <3>5, <3>6 DEF j
    <2>. HIDE DEF r
    <2>. QED
      BY <1>4, <2>2, <2>3, <2>4, <2>5, ZenonT(30) DEF Tally
  <1>. QED
    BY <1>4, <1>5, <1>6, <1>7

\* The rounds of mergeSort.
LEMMA MergeSortRounds ==
  ASSUME NEW n \in Nat,
         n >= 1,
         NEW a \in Rows(n)
  PROVE  \E f \in [Pieces -> Seq(Int)] :
           /\ mergeSort(a) = f[[k \in Positions(a) |-> <<a[k]>>]]
           /\ \A p \in Pieces : f[p] = IF Len(p) = 1 THEN p[1] ELSE f[mergeRound(p)]
PROOF
  <1>. DEFINE D == Pieces
              V == Seq(Int)
              rank == [p \in D |-> Len(p)]
              Body(f, p) == IF Len(p) = 1 THEN p[1] ELSE f[mergeRound(p)]
              F == [p \in D |-> [g \in [D -> V] |-> Body(g, p)]]
              Eq(f) == f = [p \in D |-> Body(f, p)]
              s == CHOOSE f : Eq(f)
  <1>1. D = Pieces
    OBVIOUS
  <1>2. mergeSort(a) = s[[k \in Positions(a) |-> <<a[k]>>]]
    BY DEF mergeSort, Pieces
  <1>3. V # {} /\ rank \in [D -> Nat]
    <2>1. \A t \in Pieces : Len(t) \in Nat
      BY LenProperties DEF Pieces
    <2>2. <<>> \in Seq(Int)
      BY EmptySeq
    <2>. QED
      BY <2>1, <2>2
  <1>4. ASSUME NEW p \in D, NEW g \in [D -> V] PROVE Body(g, p) \in V
    <2>1. CASE Len(p) = 1
      <3>1. p \in Seq(Seq(Int)) /\ 1 \in 1..Len(p)
        BY <2>1 DEF Pieces
      <3>2. p[1] \in Seq(Int)
        BY <3>1, ElementOfSeq
      <3>. QED
        BY <2>1, <3>2
    <2>2. CASE Len(p) # 1
      <3>1. mergeRound(p) \in Pieces
        BY <2>2, MergeRoundFacts
      <3>. QED
        BY <2>2, <3>1
    <2>. QED
      BY <2>1, <2>2
  <1>5. ASSUME NEW p \in D, NEW g, NEW h \in [D -> V], \A y \in D : rank[y] < rank[p] => g[y] = h[y]
        PROVE  Body(g, p) = Body(h, p)
    <2>1. CASE Len(p) = 1
      BY <2>1
    <2>2. CASE Len(p) # 1
      <3>1. mergeRound(p) \in D /\ Len(mergeRound(p)) < Len(p)
        BY <2>2, MergeRoundFacts
      <3>2. rank[mergeRound(p)] < rank[p]
        BY <3>1
      <3>. HIDE DEF D, rank
      <3>. QED
        BY <1>5, <2>2, <3>1, <3>2
    <2>. QED
      BY <2>1, <2>2
  <1>6. PICK q \in [D -> V] : \A p \in D : q[p] = Body(q, p)
    <2>1. F \in [D -> [[D -> V] -> V]] /\ \A p \in D : \A g \in [D -> V] : F[p][g] = Body(g, p)
      <3>. HIDE DEF D, V, Body
      <3>. QED
        BY <1>4
    <2>2. Local(D, V, rank, F)
      <3>. HIDE DEF D, V, rank, F, Body
      <3>1. ASSUME NEW x \in D, NEW g \in [D -> V], NEW h \in [D -> V],
                   \A y \in D : rank[y] < rank[x] => g[y] = h[y]
            PROVE  F[x][g] = F[x][h]
        <4>1. Body(g, x) = Body(h, x)
          BY <1>5, <3>1
        <4>. QED
          BY <2>1, <4>1
      <3>. QED
        BY <2>1, <3>1 DEF Local
    <2>3. PICK q : Solution(D, V, F, q)
      <3>. HIDE DEF D, V, rank, F
      <3>. QED
        BY <1>3, <2>2, Recursion
    <2>. HIDE DEF D, V, rank, F, Body
    <2>. QED
      BY <2>1, <2>3 DEF Solution
  <1>7. Eq(s)
    <2>1. Eq(q)
      <3>. HIDE DEF D, V, Body
      <3>. QED
        BY <1>6
    <2>. HIDE DEF Eq
    <2>. QED
      BY <2>1, Zenon
  <1>8. \A p \in D : s[p] = Body(s, p)
    <2>. HIDE DEF D, V, Body, s
    <2>. QED
      BY <1>7
  <1>9. D \subseteq {p \in D : s[p] = q[p]}
    <2>1. RankedIn(D, rank, {p \in D : s[p] = q[p]})
      <3>. HIDE DEF D, V, Body, s, rank
      <3>. QED
        BY <1>5, <1>6, <1>8 DEF RankedIn
    <2>. HIDE DEF D, V, Body, s, rank
    <2>. QED
      BY <1>3, <2>1, ByRank
  <1>10. s \in [D -> V]
    <2>. HIDE DEF D, V, Body
    <2>. QED
      BY <1>6, <1>7, <1>9
  <1>. HIDE DEF s, D
  <1>. QED
    BY <1>1, <1>2, <1>8, <1>10

\* mergeSort: what is left in the end has the hits of the array and is ascending.
LEMMA MergeSortSorts ==
  ASSUME NEW n \in Nat, n >= 1, NEW a \in Rows(n), NEW b \in Rows(n), Sorts(n, a, b)
  PROVE  mergeSort(a) = b
PROOF
  <1>. DEFINE D == Pieces
              rank == [p \in D |-> Len(p)]
              t == [k \in Positions(a) |-> <<a[k]>>]
  <1>1. PICK f \in [D -> Seq(Int)] :
           /\ mergeSort(a) = f[t]
           /\ \A p \in D : f[p] = IF Len(p) = 1 THEN p[1] ELSE f[mergeRound(p)]
    BY MergeSortRounds
  <1>. DEFINE P(p) == /\ \A X, v : Tally(p, X, v) => Hits(f[p], X) = v
                      /\ Ordered(p) => Ascending(Len(f[p]), f[p])
              S == {p \in D : P(p)}
  <1>2. rank \in [D -> Nat]
    BY LenProperties DEF Pieces
  <1>3. ASSUME NEW p \in D, \A y \in D : rank[y] < rank[p] => y \in S PROVE p \in S
    <2>1. CASE Len(p) = 1
      <3>1. f[p] = p[1]
        BY <1>1, <2>1
      <3>2. ASSUME NEW X, NEW v, Tally(p, X, v) PROVE Hits(p[1], X) = v
        <4>1. PICK r \in [0..1 -> Nat] :
                /\ r[0] = 0 /\ r[1] = v
                /\ \A k \in 1..1 : r[k] = r[k - 1] + Hits(p[k], X)
          BY <2>1, <3>2 DEF Tally
        <4>2. r[1] = r[0] + Hits(p[1], X)
          <5>1. 1 \in 1..1 /\ 1 - 1 = 0
            OBVIOUS
          <5>. QED
            BY <4>1, <5>1
        <4>3. p[1] \in Seq(Int)
          <5>1. p \in Seq(Seq(Int)) /\ 1 \in 1..Len(p)
            BY <2>1 DEF Pieces
          <5>. QED
            BY <5>1, ElementOfSeq
        <4>4. Hits(p[1], X) \in Nat
          BY <4>3, HitsType
        <4>. QED
          BY <4>1, <4>2, <4>4
      <3>3. Ordered(p) => Ascending(Len(p[1]), p[1])
        BY <2>1 DEF Ordered
      <3>. QED
        BY <3>1, <3>2, <3>3
    <2>2. CASE Len(p) # 1
      <3>. DEFINE u == mergeRound(p)
      <3>1. u \in D /\ rank[u] < rank[p]
        BY <2>2, MergeRoundFacts
      <3>2. f[p] = f[u]
        BY <1>1, <2>2
      <3>3. \A X, v : Tally(p, X, v) => Tally(u, X, v)
        BY <2>2, MergeRoundTally
      <3>4. Ordered(p) => Ordered(u)
        BY <2>2, MergeRoundOrdered
      <3>. HIDE DEF u, rank
      <3>5. P(u)
        BY <1>3, <3>1
      <3>. QED
        BY <3>2, <3>3, <3>4, <3>5
    <2>. QED
      BY <2>1, <2>2
  <1>4. D \subseteq S
    <2>1. RankedIn(D, rank, S)
      <3>. HIDE DEF D, rank, S
      <3>. QED
        BY <1>3 DEF RankedIn
    <2>. HIDE DEF D, rank, S
    <2>. QED
      BY <1>2, <2>1, ByRank
  <1>5. /\ t \in Pieces /\ Len(t) = n /\ Ordered(t)
        /\ \A X : Tally(t, X, Hits(a, X))
    <2>1. t = [k \in 1..n |-> <<a[k]>>]
      BY ArrayFacts
    <2>. HIDE DEF t
    <2>. QED
      BY <2>1, Singles
  <1>. HIDE DEF t
  <1>. DEFINE c == f[t]
  <1>6. P(t) /\ c \in Seq(Int)
    BY <1>4, <1>5
  <1>7. (\A X : Hits(c, X) = Hits(a, X)) /\ Ascending(Len(c), c)
    BY <1>5, <1>6
  <1>. HIDE DEF c, P, S
  <1>8. Len(c) = n
    <2>1. Hits(c, Int) = Len(c) /\ Hits(a, Int) = n
      BY <1>6, ArrayFacts, HitsAll
    <2>. QED
      BY <1>7, <2>1
  <1>9. c \in Rows(n)
    BY <1>6, <1>8, LenProperties DEF Rows
  <1>10. \A X : Hits(c, X) = Hits(b, X)
    BY <1>7, HitsRearranged DEF Sorts
  <1>11. c = b
    BY <1>7, <1>8, <1>9, <1>10, HitsUnique DEF Sorts
  <1>. QED
    BY <1>1, <1>11 DEF c
-----------------------------------------------------------------------------
(***************************************************************************)
(* The quick sort.                                                         *)
(***************************************************************************)
UpTo(a, low, high, v) == \A k \in low..high : a[k] <= v
From(a, low, high, v) == \A k \in low..high : v <= a[k]

\* Where the cursors stop, and what they pass.
Met(n, a, v, left, right, c) ==
  /\ c \in (1..n) \X (1..n) /\ left <= c[1] /\ c[1] <= c[2] /\ c[2] <= right
  /\ UpTo(a, left, c[1] - 1, v) /\ From(a, c[2] + 1, right, v)
  /\ c[2] = left \/ a[c[2]] < v
  /\ c[1] = c[2] \/ a[c[1]] > v

\* meet returns two positions with these properties.
LEMMA MeetFacts ==
  ASSUME NEW n \in Nat, NEW a \in Rows(n), NEW v \in Int, NEW left \in 1..n, NEW right \in left..n
  PROVE  Met(n, a, v, left, right, meet(a, v, left, right))
PROOF
  <1>. DEFINE R == {k \in left..right : k = left \/ a[k] < v}
              c == Max(R)
              L == {k \in left..c : k = c \/ a[k] > v}
              e == Min(L)
  <1>1. c \in R /\ \A k \in R : k <= c
    <2>1. R \in SUBSET Int /\ R # {} /\ right \in Int /\ \A k \in R : k <= right
      OBVIOUS
    <2>. HIDE DEF R
    <2>. QED
      BY <2>1, GreatestOf
  <1>2. c \in left..right /\ c \in Int /\ left \in Int
    BY <1>1
  <1>. HIDE DEF c
  <1>3. e \in L /\ \A k \in L : e <= k
    <2>1. L \in SUBSET Int /\ L # {} /\ left \in Int /\ \A k \in L : left <= k
      BY <1>2
    <2>. HIDE DEF L
    <2>. QED
      BY <2>1, LeastOf
  <1>4. meet(a, v, left, right) = <<e, c>>
    BY DEF meet, goLeft, goRight, c
  <1>. HIDE DEF e
  <1>5. e \in left..c /\ (e = c \/ a[e] > v) /\ (c = left \/ a[c] < v)
    BY <1>1, <1>3
  <1>6. ASSUME NEW k \in left..(e - 1) PROVE a[k] <= v
    <2>1. k \in 1..n /\ a[k] \in Int /\ k \in left..c /\ ~(e <= k)
      BY <1>2, <1>5 DEF Rows
    <2>2. ~(a[k] > v)
      BY <1>3, <2>1
    <2>. QED
      BY <2>1, <2>2
  <1>7. ASSUME NEW k \in (c + 1)..right PROVE v <= a[k]
    <2>1. k \in 1..n /\ a[k] \in Int /\ k \in left..right /\ ~(k <= c)
      BY <1>2 DEF Rows
    <2>2. ~(a[k] < v)
      BY <1>1, <2>1
    <2>. QED
      BY <2>1, <2>2
  <1>. HIDE DEF R, L
  <1>8. UpTo(a, left, e - 1, v) /\ From(a, c + 1, right, v)
    BY <1>6, <1>7 DEF UpTo, From
  <1>9. e \in 1..n /\ c \in 1..n /\ left <= e /\ e <= c /\ c <= right
    BY <1>2, <1>5
  <1>10. Met(n, a, v, left, right, <<e, c>>)
    BY <1>5, <1>8, <1>9 DEF Met
  <1>. QED
    BY <1>4, <1>10

Cursors(n) == {c \in (1..n) \X (1..n) : c[1] <= c[2]}
Distance(a, v, c) == IF a[c[2]] < v THEN 2 * (c[2] - c[1]) + 1 ELSE 2 * (c[2] - c[1])

\* An exchange brings the cursors closer, or the right one past a number less than the pivot.
LEMMA MeetCloses ==
  ASSUME NEW n \in Nat, NEW a \in Rows(n), NEW v \in Int, NEW left \in 1..n, NEW right \in left..n,
         left # right, NEW c, Met(n, a, v, left, right, c)
  PROVE  /\ Swap(a, c[1], c[2]) \in Rows(n) /\ c \in Cursors(n)
         /\ Distance(Swap(a, c[1], c[2]), v, c) < Distance(a, v, <<left, right>>)
PROOF
  <1>. DEFINE l == c[1]
              r == c[2]
              b == Swap(a, l, r)
  <1>1. /\ c \in (1..n) \X (1..n) /\ left <= l /\ l <= r /\ r <= right /\ l \in 1..n /\ r \in 1..n
        /\ r = left \/ a[r] < v
        /\ l = r \/ a[l] > v
    BY DEF Met
  <1>. HIDE DEF l, r
  <1>2. b \in Rows(n) /\ b[r] = a[l]
    <2>1. /\ b \in Rows(n)
          /\ \A k \in 1..n : b[k] = IF k = r THEN a[l] ELSE IF k = l THEN a[r] ELSE a[k]
      BY <1>1 DEF Swap, Rows
    <2>. HIDE DEF b
    <2>. QED
      BY <1>1, <2>1
  <1>3. a[l] \in Int /\ a[r] \in Int /\ a[right] \in Int
    BY <1>1 DEF Rows
  <1>. HIDE DEF b
  <1>4. Distance(b, v, c) = IF a[l] < v THEN 2 * (r - l) + 1 ELSE 2 * (r - l)
    BY <1>2 DEF Distance, l, r
  <1>5. Distance(a, v, <<left, right>>) = IF a[right] < v THEN 2 * (right - left) + 1
                                                          ELSE 2 * (right - left)
    BY DEF Distance
  <1>6. CASE l = left /\ r = right
    <2>1. a[right] < v /\ a[l] > v
      BY <1>1, <1>6
    <2>. QED
      BY <1>1, <1>2, <1>3, <1>4, <1>5, <1>6, <2>1 DEF Cursors, l, r, b
  <1>7. CASE ~(l = left /\ r = right)
    <2>1. r - l <= right - left - 1
      BY <1>1, <1>7
    <2>2. Distance(b, v, c) < Distance(a, v, <<left, right>>)
      BY <1>1, <1>3, <1>4, <1>5, <2>1
    <2>. QED
      BY <1>1, <1>2, <2>2 DEF Cursors, l, r, b
  <1>. QED
    BY <1>6, <1>7

\* The cursors of the partition.
LEMMA PartitionRuns ==
  ASSUME NEW n \in Nat,
         NEW a \in Rows(n),
         NEW low \in 1..n,
         NEW high \in low..n
  PROVE  \E f \in [Rows(n) \X Cursors(n) -> [array : Rows(n), index : 1..n]] :
           /\ partition(a, low, high) = f[<<a, <<low, high>>>>]
           /\ \A p \in Rows(n) \X Cursors(n) : f[p] = IF p[2][1] = p[2][2]
                       THEN [array |-> Swap(p[1], p[2][1], low), index |-> p[2][1]]
                       ELSE f[<<Swap(p[1], meet(p[1], a[low], p[2][1], p[2][2])[1],
                                             meet(p[1], a[low], p[2][1], p[2][2])[2]),
                                  meet(p[1], a[low], p[2][1], p[2][2])>>]
PROOF
  <1>. DEFINE D == Arrays(a) \X {c \in Positions(a) \X Positions(a) : c[1] <= c[2]}
              V == [array : Rows(n), index : 1..n]
              rank == [p \in D |-> Distance(p[1], a[low], p[2])]
              Body(f, p) == IF p[2][1] = p[2][2]
                       THEN [array |-> Swap(p[1], p[2][1], low), index |-> p[2][1]]
                       ELSE f[<<Swap(p[1], meet(p[1], a[low], p[2][1], p[2][2])[1],
                                             meet(p[1], a[low], p[2][1], p[2][2])[2]),
                                  meet(p[1], a[low], p[2][1], p[2][2])>>]
              F == [p \in D |-> [g \in [D -> V] |-> Body(g, p)]]
              Eq(f) == f = [p \in D |-> Body(f, p)]
              s == CHOOSE f : Eq(f)
  <1>1. D = Rows(n) \X Cursors(n)
    BY ArrayFacts DEF Cursors
  <1>2. partition(a, low, high) = s[<<a, <<low, high>>>>]
    BY DEF partition
  <1>3. V # {} /\ rank \in [D -> Nat]
    <2>1. ASSUME NEW p \in Rows(n) \X Cursors(n) PROVE Distance(p[1], a[low], p[2]) \in Nat
      <3>1. p[2][1] \in 1..n /\ p[2][2] \in 1..n /\ p[2][1] <= p[2][2]
        BY DEF Cursors
      <3>. QED
        BY <3>1 DEF Distance
    <2>2. [array |-> a, index |-> low] \in V
      OBVIOUS
    <2>3. rank \in [D -> Nat]
      BY <1>1, <2>1
    <2>. QED
      BY <2>2, <2>3
  <1>4. ASSUME NEW p \in D, NEW g \in [D -> V] PROVE Body(g, p) \in V
    <2>0. p \in Rows(n) \X Cursors(n)
      BY <1>1
    <2>. DEFINE left == p[2][1]
                right == p[2][2]
                c == meet(p[1], a[low], left, right)
                d == Swap(p[1], c[1], c[2])
    <2>1. /\ p[1] \in Rows(n) /\ left \in 1..n /\ right \in left..n /\ p[2] \in Cursors(n)
          /\ p[2] = <<left, right>> /\ a[low] \in Int
      BY <2>0 DEF Cursors, Rows
    <2>. HIDE DEF left, right
    <2>2. Met(n, p[1], a[low], left, right, c)
      BY <2>1, MeetFacts
    <2>. HIDE DEF c
    <2>3. ASSUME left # right
          PROVE  /\ d \in Rows(n) /\ c \in Cursors(n)
                 /\ Distance(d, a[low], c) < Distance(p[1], a[low], p[2])
      BY <2>1, <2>2, <2>3, MeetCloses
    <2>. HIDE DEF d
    <2>. DEFINE x == <<d, c>>
    <2>4. CASE left = right
      <3>1. Swap(p[1], left, low) \in Rows(n)
        BY <2>1, SwapFacts
      <3>2. [array |-> Swap(p[1], left, low), index |-> left] \in V
        BY <2>1, <3>1
      <3>3. Body(g, p) = [array |-> Swap(p[1], left, low), index |-> left]
        BY <2>4 DEF left, right
      <3>. QED
        BY <3>2, <3>3
    <2>5. CASE left # right
      <3>1. x \in D
        BY <1>1, <2>3, <2>5
      <3>2. g[x] \in V
        <4>. HIDE DEF D, V, x
        <4>. QED
          BY <3>1
      <3>3. Body(g, p) = g[x]
        BY <2>5 DEF c, d, left, right
      <3>. QED
        BY <3>2, <3>3
    <2>. QED
      BY <2>4, <2>5
  <1>5. ASSUME NEW p \in D, NEW g, NEW h \in [D -> V], \A y \in D : rank[y] < rank[p] => g[y] = h[y]
        PROVE  Body(g, p) = Body(h, p)
    <2>0. p \in Rows(n) \X Cursors(n)
      BY <1>1
    <2>. DEFINE left == p[2][1]
                right == p[2][2]
                c == meet(p[1], a[low], left, right)
                d == Swap(p[1], c[1], c[2])
    <2>1. /\ p[1] \in Rows(n) /\ left \in 1..n /\ right \in left..n /\ p[2] \in Cursors(n)
          /\ p[2] = <<left, right>> /\ a[low] \in Int
      BY <2>0 DEF Cursors, Rows
    <2>. HIDE DEF left, right
    <2>2. Met(n, p[1], a[low], left, right, c)
      BY <2>1, MeetFacts
    <2>. HIDE DEF c
    <2>3. ASSUME left # right
          PROVE  /\ d \in Rows(n) /\ c \in Cursors(n)
                 /\ Distance(d, a[low], c) < Distance(p[1], a[low], p[2])
      BY <2>1, <2>2, <2>3, MeetCloses
    <2>. HIDE DEF d
    <2>. DEFINE x == <<d, c>>
    <2>4. CASE left = right
      BY <2>4 DEF left, right
    <2>5. CASE left # right
      <3>1. x \in D
        BY <1>1, <2>3, <2>5
      <3>2. rank[x] < rank[p]
        <4>1. rank[x] = Distance(d, a[low], c) /\ rank[p] = Distance(p[1], a[low], p[2])
          BY <3>1
        <4>. QED
          BY <2>3, <2>5, <4>1
      <3>3. g[x] = h[x]
        <4>. HIDE DEF D, rank, x
        <4>. QED
          BY <1>5, <3>1, <3>2
      <3>4. Body(g, p) = g[x] /\ Body(h, p) = h[x]
        BY <2>5 DEF c, d, left, right
      <3>. QED
        BY <3>3, <3>4
    <2>. QED
      BY <2>4, <2>5
  <1>6. PICK q \in [D -> V] : \A p \in D : q[p] = Body(q, p)
    <2>1. F \in [D -> [[D -> V] -> V]] /\ \A p \in D : \A g \in [D -> V] : F[p][g] = Body(g, p)
      <3>. HIDE DEF D, V, Body
      <3>. QED
        BY <1>4
    <2>2. Local(D, V, rank, F)
      <3>. HIDE DEF D, V, rank, F, Body
      <3>1. ASSUME NEW x \in D, NEW g \in [D -> V], NEW h \in [D -> V],
                   \A y \in D : rank[y] < rank[x] => g[y] = h[y]
            PROVE  F[x][g] = F[x][h]
        <4>1. Body(g, x) = Body(h, x)
          BY <1>5, <3>1
        <4>. QED
          BY <2>1, <4>1
      <3>. QED
        BY <2>1, <3>1 DEF Local
    <2>3. PICK q : Solution(D, V, F, q)
      <3>. HIDE DEF D, V, rank, F
      <3>. QED
        BY <1>3, <2>2, Recursion
    <2>. HIDE DEF D, V, rank, F, Body
    <2>. QED
      BY <2>1, <2>3 DEF Solution
  <1>7. Eq(s)
    <2>1. Eq(q)
      <3>. HIDE DEF D, V, Body
      <3>. QED
        BY <1>6
    <2>. HIDE DEF Eq
    <2>. QED
      BY <2>1, Zenon
  <1>8. \A p \in D : s[p] = Body(s, p)
    <2>. HIDE DEF D, V, Body, s
    <2>. QED
      BY <1>7
  <1>9. D \subseteq {p \in D : s[p] = q[p]}
    <2>1. RankedIn(D, rank, {p \in D : s[p] = q[p]})
      <3>. HIDE DEF D, V, Body, s, rank
      <3>. QED
        BY <1>5, <1>6, <1>8 DEF RankedIn
    <2>. HIDE DEF D, V, Body, s, rank
    <2>. QED
      BY <1>3, <2>1, ByRank
  <1>10. s \in [D -> V]
    <2>. HIDE DEF D, V, Body
    <2>. QED
      BY <1>6, <1>7, <1>9
  <1>. HIDE DEF s, D
  <1>. QED
    BY <1>1, <1>2, <1>8, <1>10

\* What is below the pivot is before it, what is above it after it.
Split(low, high, c) ==
  /\ c.index \in low..high
  /\ UpTo(c.array, low, c.index, c.array[c.index]) /\ From(c.array, c.index, high, c.array[c.index])

Between(n, low, high, v, p) ==
  /\ p[1] \in Rows(n) /\ p[2] \in Cursors(n) /\ low <= p[2][1] /\ p[2][2] <= high
  /\ p[1][low] = v /\ UpTo(p[1], low, p[2][1], v) /\ From(p[1], p[2][2] + 1, high, v)

\* The exchange where the cursors stop keeps what they passed on its side of the pivot.
LEMMA BetweenOn ==
  ASSUME NEW n \in Nat, NEW low \in 1..n, NEW high \in low..n, NEW v \in Int,
         NEW p, Between(n, low, high, v, p), p[2][1] # p[2][2],
         NEW c, Met(n, p[1], v, p[2][1], p[2][2], c)
  PROVE  /\ Between(n, low, high, v, <<Swap(p[1], c[1], c[2]), c>>)
         /\ Shuffled(n, low, high, p[1], Swap(p[1], c[1], c[2]))
PROOF
  <1>. DEFINE a == p[1]
              left == p[2][1]
              right == p[2][2]
              l == c[1]
              r == c[2]
              b == Swap(a, l, r)
  <1>1. /\ a \in Rows(n) /\ left \in 1..n /\ right \in 1..n /\ left <= right /\ low <= left /\ right <= high
        /\ a[low] = v /\ UpTo(a, low, left, v) /\ From(a, right + 1, high, v)
    BY DEF Between, Cursors
  <1>2. /\ c \in (1..n) \X (1..n) /\ left <= l /\ l <= r /\ r <= right /\ l \in 1..n /\ r \in 1..n
        /\ UpTo(a, left, l - 1, v) /\ From(a, r + 1, right, v)
        /\ r = left \/ a[r] < v
        /\ l = r \/ a[l] > v
    BY DEF Met
  <1>0. left # right
    OBVIOUS
  <1>. HIDE DEF a, left, right, l, r
  <1>3. /\ b \in Rows(n)
        /\ \A k \in 1..n : b[k] = IF k = r THEN a[l] ELSE IF k = l THEN a[r] ELSE a[k]
    BY <1>1, <1>2 DEF Swap, Rows
  <1>4. Shuffled(n, low, high, a, b)
    <2>1. l \in low..high /\ r \in low..high /\ low \in Int /\ high \in Int
      BY <1>1, <1>2
    <2>. QED
      BY <1>1, <1>2, <2>1, SwapShuffles
  <1>. HIDE DEF b
  <1>5. \A k \in 1..n : a[k] \in Int
    BY <1>1 DEF Rows
  <1>6. a[l] <= v => l = r
    BY <1>2, <1>5
  <1>7. a[r] <= v
    <2>1. CASE r = left
      <3>1. left \in low..left
        BY <1>1
      <3>. QED
        BY <1>1, <2>1, <3>1 DEF UpTo
    <2>2. CASE a[r] < v
      BY <1>2, <1>5, <2>2
    <2>. QED
      BY <1>2, <2>1, <2>2
  <1>8. b[low] = v
    <2>1. low \in 1..n /\ (l = low => l = r) /\ (r = low => l = low)
      BY <1>1, <1>2, <1>6
    <2>. QED
      BY <1>1, <1>3, <2>1
  <1>9. UpTo(b, low, l, v)
    <2>1. ASSUME NEW k \in low..l PROVE b[k] <= v
      <3>1. k \in 1..n /\ low <= k /\ k <= l
        BY <1>1, <1>2
      <3>2. CASE k = l
        BY <1>2, <1>3, <1>7, <3>2
      <3>3. CASE k # l
        <4>1. k # r /\ b[k] = a[k]
          BY <1>1, <1>2, <1>3, <3>1, <3>3
        <4>2. CASE k <= left
          <5>1. k \in low..left
            BY <1>1, <3>1, <4>2
          <5>. QED
            BY <1>1, <4>1, <5>1 DEF UpTo
        <4>3. CASE ~(k <= left)
          <5>1. k \in left..(l - 1)
            BY <1>1, <1>2, <3>1, <3>3, <4>3
          <5>. QED
            BY <1>2, <4>1, <5>1 DEF UpTo
        <4>. QED
          BY <4>2, <4>3
      <3>. QED
        BY <3>2, <3>3
    <2>. QED
      BY <2>1 DEF UpTo
  <1>10. From(b, r + 1, high, v)
    <2>1. ASSUME NEW k \in (r + 1)..high PROVE v <= b[k]
      <3>1. k \in 1..n /\ r < k /\ k <= high /\ k # r /\ k # l
        BY <1>1, <1>2
      <3>2. b[k] = a[k]
        BY <1>3, <3>1
      <3>3. CASE k <= right
        <4>1. k \in (r + 1)..right
          BY <1>1, <1>2, <3>1, <3>3
        <4>. QED
          BY <1>2, <3>2, <4>1 DEF From
      <3>4. CASE ~(k <= right)
        <4>1. k \in (right + 1)..high
          BY <1>1, <1>2, <3>1, <3>4
        <4>. QED
          BY <1>1, <3>2, <4>1 DEF From
      <3>. QED
        BY <3>3, <3>4
    <2>. QED
      BY <2>1 DEF From
  <1>11. c \in Cursors(n) /\ low <= l /\ r <= high
    BY <1>1, <1>2 DEF Cursors, l, r
  <1>12. Between(n, low, high, v, <<b, c>>)
    BY <1>3, <1>8, <1>9, <1>10, <1>11 DEF Between, l, r
  <1>. QED
    BY <1>4, <1>12 DEF a, b, l, r

\* partition puts the pivot between the lesser numbers and the greater ones.
LEMMA PartitionSplits ==
  ASSUME NEW n \in Nat, NEW a \in Rows(n), NEW low \in 1..n, NEW high \in low..n
  PROVE  /\ partition(a, low, high) \in [array : Rows(n), index : 1..n]
         /\ Split(low, high, partition(a, low, high))
         /\ Shuffled(n, low, high, a, partition(a, low, high).array)
PROOF
  <1>. DEFINE D == Rows(n) \X Cursors(n)
              v == a[low]
              rank == [p \in D |-> Distance(p[1], v, p[2])]
  <1>1. PICK f \in [D -> [array : Rows(n), index : 1..n]] :
           /\ partition(a, low, high) = f[<<a, <<low, high>>>>]
           /\ \A p \in D : f[p] = IF p[2][1] = p[2][2]
                       THEN [array |-> Swap(p[1], p[2][1], low), index |-> p[2][1]]
                       ELSE f[<<Swap(p[1], meet(p[1], v, p[2][1], p[2][2])[1],
                                             meet(p[1], v, p[2][1], p[2][2])[2]),
                                  meet(p[1], v, p[2][1], p[2][2])>>]
    BY PartitionRuns, ZenonT(30)
  <1>0. v \in Int
    BY DEF Rows
  <1>. DEFINE P(p) == Between(n, low, high, v, p) =>
                        Split(low, high, f[p]) /\ Shuffled(n, low, high, p[1], f[p].array)
              S == {p \in D : P(p)}
  <1>2. rank \in [D -> Nat]
    <2>1. ASSUME NEW p \in D PROVE Distance(p[1], v, p[2]) \in Nat
      <3>1. p[2][1] \in 1..n /\ p[2][2] \in 1..n /\ p[2][1] <= p[2][2]
        BY DEF Cursors
      <3>. QED
        BY <3>1 DEF Distance
    <2>. HIDE DEF D
    <2>. QED
      BY <2>1
  <1>3. ASSUME NEW p \in D, \A y \in D : rank[y] < rank[p] => y \in S PROVE p \in S
    <2>. SUFFICES ASSUME Between(n, low, high, v, p)
                  PROVE  Split(low, high, f[p]) /\ Shuffled(n, low, high, p[1], f[p].array)
      OBVIOUS
    <2>. DEFINE left == p[2][1]
                right == p[2][2]
                c == meet(p[1], v, left, right)
                d == Swap(p[1], c[1], c[2])
                x == <<d, c>>
    <2>1. /\ p[1] \in Rows(n) /\ left \in 1..n /\ right \in left..n /\ p[2] \in Cursors(n)
          /\ p[2] = <<left, right>>
      <3>1. p[2][1] \in 1..n /\ p[2][2] \in 1..n /\ p[2][1] <= p[2][2] /\ p[1] \in Rows(n)
        BY DEF Cursors
      <3>2. p[2] = <<p[2][1], p[2][2]>>
        BY DEF Cursors
      <3>. QED
        BY <3>1, <3>2
    <2>2. f[p] = IF left = right THEN [array |-> Swap(p[1], left, low), index |-> left] ELSE f[x]
      BY <1>1
    <2>. HIDE DEF left, right, v
    <2>3. Met(n, p[1], v, left, right, c)
      BY <1>0, <2>1, MeetFacts
    <2>4. CASE left # right
      <3>. HIDE DEF c, d
      <3>1. /\ d \in Rows(n) /\ c \in Cursors(n)
            /\ Distance(d, v, c) < Distance(p[1], v, p[2])
        BY <1>0, <2>1, <2>3, <2>4, MeetCloses DEF d
      <3>2. x \in D /\ rank[x] < rank[p] /\ x[1] = d /\ x[2] = c
        <4>1. x \in D /\ x[1] = d /\ x[2] = c
          BY <3>1
        <4>2. rank[x] = Distance(d, v, c) /\ rank[p] = Distance(p[1], v, p[2])
          BY <4>1
        <4>. QED
          BY <3>1, <4>1, <4>2
      <3>3. Between(n, low, high, v, x) /\ Shuffled(n, low, high, p[1], d)
        BY <1>0, <2>3, <2>4, BetweenOn DEF d, left, right
      <3>. HIDE DEF x, rank, D
      <3>4. P(x)
        BY <1>3, <3>2
      <3>5. Split(low, high, f[x]) /\ Shuffled(n, low, high, d, f[x].array)
        BY <3>2, <3>3, <3>4
      <3>6. Shuffled(n, low, high, p[1], f[x].array)
        <4>1. low \in Int /\ high \in Int
          OBVIOUS
        <4>. QED
          BY <3>3, <3>5, <4>1, ShuffledOn
      <3>. QED
        BY <2>2, <2>4, <3>5, <3>6
    <2>5. CASE left = right
      <3>. DEFINE b == Swap(p[1], left, low)
      <3>1. f[p] = [array |-> b, index |-> left]
        BY <2>2, <2>5
      <3>2. /\ low <= left /\ left <= high /\ p[1][low] = v
            /\ UpTo(p[1], low, left, v) /\ From(p[1], left + 1, high, v)
        BY <2>5 DEF Between, left, right
      <3>3. /\ b \in Rows(n)
            /\ \A k \in 1..n : b[k] = IF k = low THEN p[1][left] ELSE IF k = left THEN p[1][low] ELSE p[1][k]
        BY <2>1, SwapFacts
      <3>4. Shuffled(n, low, high, p[1], b)
        <4>1. left \in low..high /\ low \in low..high /\ low \in Int /\ high \in Int
          BY <2>1, <3>2
        <4>. QED
          BY <2>1, <4>1, SwapShuffles
      <3>. HIDE DEF b
      <3>5. b[left] = v /\ p[1][left] <= v
        <4>1. left \in low..left
          BY <2>1, <3>2
        <4>2. p[1][left] <= v
          BY <3>2, <4>1 DEF UpTo
        <4>3. b[left] = v
          BY <2>1, <3>2, <3>3
        <4>. QED
          BY <4>2, <4>3
      <3>6. UpTo(b, low, left, v)
        <4>1. ASSUME NEW k \in low..left PROVE b[k] <= v
          <5>1. k \in 1..n /\ p[1][k] <= v
            BY <2>1, <3>2 DEF UpTo
          <5>2. CASE k = left
            BY <1>0, <3>5, <5>2
          <5>3. CASE k # left /\ k = low
            BY <3>3, <3>5, <5>1, <5>3
          <5>4. CASE k # left /\ k # low
            BY <3>3, <5>1, <5>4
          <5>. QED
            BY <5>2, <5>3, <5>4
        <4>. QED
          BY <4>1 DEF UpTo
      <3>7. From(b, left, high, v)
        <4>1. ASSUME NEW k \in left..high PROVE v <= b[k]
          <5>1. CASE k = left
            BY <1>0, <3>5, <5>1
          <5>2. CASE k # left
            <6>1. k \in (left + 1)..high /\ k \in 1..n /\ k # low
              BY <2>1, <3>2, <5>2
            <6>. QED
              BY <3>2, <3>3, <5>2, <6>1 DEF From
          <5>. QED
            BY <5>1, <5>2
        <4>. QED
          BY <4>1 DEF From
      <3>8. left \in low..high
        BY <2>1, <3>2
      <3>. QED
        BY <3>1, <3>4, <3>5, <3>6, <3>7, <3>8 DEF Split
    <2>. QED
      BY <2>4, <2>5
  <1>4. D \subseteq S
    <2>1. RankedIn(D, rank, S)
      <3>. HIDE DEF D, rank, S
      <3>. QED
        BY <1>3 DEF RankedIn
    <2>. HIDE DEF D, rank, S
    <2>. QED
      BY <1>2, <2>1, ByRank
  <1>. DEFINE z == <<a, <<low, high>>>>
  <1>5. z \in D /\ z[1] = a /\ z[2][1] = low /\ z[2][2] = high /\ z[2] = <<low, high>>
    BY DEF Cursors
  <1>6. Between(n, low, high, v, z)
    <2>1. UpTo(a, low, low, v) /\ From(a, high + 1, high, v)
      BY <1>0 DEF UpTo, From
    <2>2. z[2] \in Cursors(n)
      BY DEF Cursors
    <2>. QED
      BY <1>5, <2>1, <2>2 DEF Between
  <1>. HIDE DEF z
  <1>7. P(z)
    BY <1>4, <1>5
  <1>. QED
    BY <1>1, <1>5, <1>6, <1>7 DEF z

AscendingIn(low, high, a) == \A k, l \in low..high : k <= l => a[k] <= a[l]

\* Two sorted parts on the two sides of the pivot are a sorted whole.
LEMMA PartsJoin ==
  ASSUME NEW n \in Nat, NEW low \in 1..n, NEW high \in low..n, NEW c \in [array : Rows(n), index : 1..n],
         Split(low, high, c), NEW b \in Rows(n), NEW d \in Rows(n),
         Shuffled(n, low, c.index - 1, c.array, b), AscendingIn(low, c.index - 1, b),
         Shuffled(n, c.index + 1, high, b, d), AscendingIn(c.index + 1, high, d)
  PROVE  AscendingIn(low, high, d) /\ Shuffled(n, low, high, c.array, d)
PROOF
  <1>. DEFINE a == c.array
              m == c.index
              v == a[m]
              lm == m - 1
              hm == m + 1
  <1>1. a \in Rows(n) /\ m \in low..high /\ m \in 1..n /\ UpTo(a, low, m, v) /\ From(a, m, high, v)
    BY DEF Split
  <1>2. /\ Shuffled(n, low, lm, a, b) /\ AscendingIn(low, lm, b)
        /\ Shuffled(n, hm, high, b, d) /\ AscendingIn(hm, high, d)
    OBVIOUS
  <1>. HIDE DEF a, m
  <1>3. lm \in 0..n /\ hm \in 1..(n + 1) /\ low \in 1..(n + 1) /\ high \in 0..n /\ lm < m /\ m < hm
    BY <1>1
  <1>4. lm = m - 1 /\ hm = m + 1
    OBVIOUS
  <1>5. v \in Int
    BY <1>1 DEF Rows
  <1>. HIDE DEF lm, hm, v
  <1>6. Shuffled(n, low, lm, b, a) /\ Shuffled(n, hm, high, d, b)
    BY <1>2, <1>3, ShuffledBack
  <1>7. /\ \A k \in 1..n : k \notin low..lm => b[k] = a[k]
        /\ \A k \in low..lm : \E l \in low..lm : b[k] = a[l]
    BY <1>3, <1>6, ShuffledFacts
  <1>8. /\ \A k \in 1..n : k \notin hm..high => d[k] = b[k]
        /\ \A k \in hm..high : \E l \in hm..high : d[k] = b[l]
    BY <1>3, <1>6, ShuffledFacts
  <1>9. ASSUME NEW k \in low..lm PROVE d[k] = b[k] /\ d[k] <= v
    <2>1. k \in 1..n /\ k \notin hm..high
      BY <1>1, <1>3
    <2>2. d[k] = b[k]
      BY <1>8, <2>1
    <2>3. PICK l \in low..lm : b[k] = a[l]
      BY <1>7
    <2>4. l \in low..m
      BY <1>1, <1>3
    <2>. QED
      BY <1>1, <2>2, <2>3, <2>4 DEF UpTo
  <1>10. d[m] = v
    <2>1. m \notin low..lm /\ m \notin hm..high
      BY <1>1, <1>3
    <2>2. d[m] = b[m] /\ b[m] = a[m]
      BY <1>1, <1>7, <1>8, <2>1
    <2>. QED
      BY <2>2 DEF v
  <1>11. ASSUME NEW k \in hm..high PROVE v <= d[k]
    <2>1. PICK l \in hm..high : d[k] = b[l]
      BY <1>8
    <2>2. l \in m..high /\ l \in 1..n /\ l \notin low..lm
      BY <1>1, <1>3, <1>4
    <2>3. b[l] = a[l]
      BY <1>7, <2>2
    <2>. QED
      BY <1>1, <2>1, <2>2, <2>3 DEF From
  <1>12. \A k \in 1..n : d[k] \in Int
    BY DEF Rows
  <1>13. ASSUME NEW k \in low..high, NEW l \in low..high, k <= l PROVE d[k] <= d[l]
    <2>1. k \in 1..n /\ l \in 1..n /\ d[k] \in Int /\ d[l] \in Int
      BY <1>12
    <2>2. (k \in low..lm \/ k = m \/ k \in hm..high) /\ (l \in low..lm \/ l = m \/ l \in hm..high)
      BY <1>1, <1>3, <1>4
    <2>3. CASE k \in low..lm /\ l \in low..lm
      BY <1>2, <1>9, <1>13, <2>3 DEF AscendingIn
    <2>4. CASE k \in hm..high /\ l \in hm..high
      BY <1>2, <1>13, <2>4 DEF AscendingIn
    <2>5. CASE k \in hm..high /\ l \notin hm..high
      BY <1>1, <1>3, <1>13, <2>2, <2>5
    <2>6. CASE l \in low..lm /\ k \notin low..lm
      BY <1>1, <1>3, <1>13, <2>2, <2>6
    <2>7. CASE (k \in low..lm \/ k = m) /\ (l = m \/ l \in hm..high)
      <3>1. d[k] <= v
        BY <1>5, <1>9, <1>10, <2>7
      <3>2. v <= d[l]
        BY <1>5, <1>10, <1>11, <2>7
      <3>. QED
        BY <1>5, <2>1, <3>1, <3>2
    <2>. QED
      BY <2>2, <2>3, <2>4, <2>5, <2>6, <2>7
  <1>14. Shuffled(n, low, high, a, d)
    <2>1. Shuffled(n, low, high, a, b)
      <3>1. low \in Int /\ lm \in Int /\ high \in Int /\ low <= low /\ lm <= high
        BY <1>1, <1>3
      <3>. QED
        BY <1>2, <3>1, ShuffledWider
    <2>2. Shuffled(n, low, high, b, d)
      <3>1. low \in Int /\ hm \in Int /\ high \in Int /\ low <= hm /\ high <= high
        BY <1>1, <1>3
      <3>. QED
        BY <1>2, <3>1, ShuffledWider
    <2>3. low \in Int /\ high \in Int
      OBVIOUS
    <2>. QED
      BY <2>1, <2>2, <2>3, ShuffledOn
  <1>. QED
    BY <1>13, <1>14 DEF AscendingIn, a

\* quickSort sorts the two parts that the partition makes.
LEMMA QuickSortRuns ==
  ASSUME NEW n \in Nat,
         NEW a \in Rows(n)
  PROVE  \E f \in [Rows(n) \X (1..(n + 1)) \X (0..n) -> Rows(n)] :
           /\ quickSort(a) = f[<<a, 1, Len(a)>>]
           /\ \A p \in Rows(n) \X (1..(n + 1)) \X (0..n) : f[p] = IF p[2] >= p[3] THEN p[1]
                       ELSE f[<<f[<<partition(p[1], p[2], p[3]).array, p[2],
                                    partition(p[1], p[2], p[3]).index - 1>>],
                                  partition(p[1], p[2], p[3]).index + 1, p[3]>>]
PROOF
  <1>. DEFINE D == Arrays(a) \X (1..(Len(a) + 1)) \X (0..Len(a))
              V == Rows(n)
              rank == [p \in D |-> IF p[3] < p[2] THEN 0 ELSE p[3] - p[2] + 1]
              Body(f, p) == IF p[2] >= p[3] THEN p[1]
                       ELSE f[<<f[<<partition(p[1], p[2], p[3]).array, p[2],
                                    partition(p[1], p[2], p[3]).index - 1>>],
                                  partition(p[1], p[2], p[3]).index + 1, p[3]>>]
              F == [p \in D |-> [g \in [D -> V] |-> Body(g, p)]]
              Eq(f) == f = [p \in D |-> Body(f, p)]
              s == CHOOSE f : Eq(f)
  <1>1. D = Rows(n) \X (1..(n + 1)) \X (0..n)
    BY ArrayFacts
  <1>2. quickSort(a) = s[<<a, 1, Len(a)>>]
    BY DEF quickSort
  <1>3. V # {} /\ rank \in [D -> Nat]
    <2>1. a \in V
      OBVIOUS
    <2>2. \A p \in Rows(n) \X (1..(n + 1)) \X (0..n) : (IF p[3] < p[2] THEN 0 ELSE p[3] - p[2] + 1) \in Nat
      OBVIOUS
    <2>. QED
      BY <1>1, <2>1, <2>2
  <1>4. ASSUME NEW p \in D, NEW g \in [D -> V] PROVE Body(g, p) \in V
    <2>. DEFINE c == partition(p[1], p[2], p[3])
                lm == c.index - 1
                hm == c.index + 1
                x == <<c.array, p[2], lm>>
    <2>1. p[1] \in Rows(n) /\ p[2] \in 1..(n + 1) /\ p[3] \in 0..n
      BY <1>1
    <2>2. CASE p[2] >= p[3]
      BY <2>1, <2>2
    <2>3. CASE ~(p[2] >= p[3])
      <3>1. p[2] \in 1..n /\ p[3] \in p[2]..n
        BY <2>1, <2>3
      <3>2. c \in [array : Rows(n), index : 1..n] /\ c.index \in p[2]..p[3]
        <4>1. c \in [array : Rows(n), index : 1..n] /\ Split(p[2], p[3], c)
          BY <2>1, <3>1, PartitionSplits
        <4>. HIDE DEF c
        <4>. QED
          BY <4>1 DEF Split
      <3>. HIDE DEF c
      <3>3. c.array \in Rows(n) /\ lm \in 0..n /\ hm \in 1..(n + 1) /\ lm < p[3] /\ p[2] < hm
        BY <3>1, <3>2
      <3>. HIDE DEF lm, hm
      <3>4. x \in D
        BY <1>1, <2>1, <3>3
      <3>5. g[x] \in Rows(n)
        <4>. HIDE DEF D, x
        <4>. QED
          BY <3>4
      <3>. DEFINE y == <<g[x], hm, p[3]>>
      <3>6. y \in D
        <4>. HIDE DEF x
        <4>. QED
          BY <1>1, <2>1, <3>3, <3>5
      <3>7. g[y] \in Rows(n)
        <4>. HIDE DEF D, y
        <4>. QED
          BY <3>6
      <3>8. Body(g, p) = g[y]
        BY <2>3 DEF c, lm, hm
      <3>. HIDE DEF Body, y
      <3>. QED
        BY <3>7, <3>8
    <2>. QED
      BY <2>2, <2>3
  <1>5. ASSUME NEW p \in D, NEW g, NEW h \in [D -> V], \A y \in D : rank[y] < rank[p] => g[y] = h[y]
        PROVE  Body(g, p) = Body(h, p)
    <2>. DEFINE c == partition(p[1], p[2], p[3])
                lm == c.index - 1
                hm == c.index + 1
                x == <<c.array, p[2], lm>>
    <2>1. p[1] \in Rows(n) /\ p[2] \in 1..(n + 1) /\ p[3] \in 0..n
      BY <1>1
    <2>2. CASE p[2] >= p[3]
      BY <2>1, <2>2
    <2>3. CASE ~(p[2] >= p[3])
      <3>1. p[2] \in 1..n /\ p[3] \in p[2]..n
        BY <2>1, <2>3
      <3>2. c \in [array : Rows(n), index : 1..n] /\ c.index \in p[2]..p[3]
        <4>1. c \in [array : Rows(n), index : 1..n] /\ Split(p[2], p[3], c)
          BY <2>1, <3>1, PartitionSplits
        <4>. HIDE DEF c
        <4>. QED
          BY <4>1 DEF Split
      <3>. HIDE DEF c
      <3>3. c.array \in Rows(n) /\ lm \in 0..n /\ hm \in 1..(n + 1) /\ lm < p[3] /\ p[2] < hm
        BY <3>1, <3>2
      <3>4. rank[p] = p[3] - p[2] + 1
        BY <2>3, <3>1
      <3>5. x \in D /\ rank[x] < rank[p]
        <4>1. x \in D
          BY <1>1, <2>1, <3>3
        <4>2. rank[x] = IF lm < p[2] THEN 0 ELSE lm - p[2] + 1
          BY <4>1
        <4>. HIDE DEF rank, x
        <4>. QED
          BY <3>1, <3>2, <3>3, <3>4, <4>1, <4>2, SMTT(60)
      <3>6. g[x] \in Rows(n) /\ g[x] = h[x]
        <4>. HIDE DEF D, x, rank
        <4>1. g[x] = h[x]
          BY <1>5, <3>5
        <4>2. h[x] \in Rows(n)
          BY <3>5
        <4>. QED
          BY <4>1, <4>2
      <3>. DEFINE z == g[x]
      <3>. HIDE DEF x, z
      <3>. DEFINE y == <<z, hm, p[3]>>
      <3>7. z \in Rows(n) /\ h[x] = z
        BY <3>6 DEF z
      <3>8. y \in D /\ rank[y] < rank[p]
        <4>1. y \in D
          BY <1>1, <2>1, <3>3, <3>7
        <4>2. rank[y] = IF p[3] < hm THEN 0 ELSE p[3] - hm + 1
          BY <4>1
        <4>. HIDE DEF rank, y
        <4>. QED
          BY <3>1, <3>2, <3>3, <3>4, <4>1, <4>2, SMTT(20)
      <3>9. g[y] = h[y]
        <4>. HIDE DEF D, y, rank
        <4>. QED
          BY <1>5, <3>8
      <3>10. Body(g, p) = g[y]
        BY <2>3 DEF c, x, z
      <3>11. Body(h, p) = h[y]
        <4>1. Body(h, p) = h[<<h[x], hm, p[3]>>]
          BY <2>3 DEF c, x
        <4>. HIDE DEF Body
        <4>. QED
          BY <3>7, <4>1
      <3>. HIDE DEF Body, y
      <3>. QED
        BY <3>9, <3>10, <3>11
    <2>. QED
      BY <2>2, <2>3
  <1>6. PICK q \in [D -> V] : \A p \in D : q[p] = Body(q, p)
    <2>1. F \in [D -> [[D -> V] -> V]] /\ \A p \in D : \A g \in [D -> V] : F[p][g] = Body(g, p)
      <3>. HIDE DEF D, V, Body
      <3>. QED
        BY <1>4
    <2>2. Local(D, V, rank, F)
      <3>. HIDE DEF D, V, rank, F, Body
      <3>1. ASSUME NEW x \in D, NEW g \in [D -> V], NEW h \in [D -> V],
                   \A y \in D : rank[y] < rank[x] => g[y] = h[y]
            PROVE  F[x][g] = F[x][h]
        <4>1. Body(g, x) = Body(h, x)
          BY <1>5, <3>1
        <4>. QED
          BY <2>1, <4>1
      <3>. QED
        BY <2>1, <3>1 DEF Local
    <2>3. PICK q : Solution(D, V, F, q)
      <3>. HIDE DEF D, V, rank, F
      <3>. QED
        BY <1>3, <2>2, Recursion
    <2>. HIDE DEF D, V, rank, F, Body
    <2>. QED
      BY <2>1, <2>3 DEF Solution
  <1>7. Eq(s)
    <2>1. Eq(q)
      <3>. HIDE DEF D, V, Body
      <3>. QED
        BY <1>6
    <2>. HIDE DEF Eq
    <2>. QED
      BY <2>1, Zenon
  <1>8. \A p \in D : s[p] = Body(s, p)
    <2>. HIDE DEF D, V, Body, s
    <2>. QED
      BY <1>7
  <1>9. D \subseteq {p \in D : s[p] = q[p]}
    <2>1. RankedIn(D, rank, {p \in D : s[p] = q[p]})
      <3>. HIDE DEF D, V, Body, s, rank
      <3>. QED
        BY <1>5, <1>6, <1>8 DEF RankedIn
    <2>. HIDE DEF D, V, Body, s, rank
    <2>. QED
      BY <1>3, <2>1, ByRank
  <1>10. s \in [D -> V]
    <2>. HIDE DEF D, V, Body
    <2>. QED
      BY <1>6, <1>7, <1>9
  <1>. HIDE DEF s, D
  <1>. QED
    BY <1>1, <1>2, <1>8, <1>10

\* quickSort: every part between two positions gets sorted.
LEMMA QuickSortSorts ==
  ASSUME NEW n \in Nat, NEW a \in Rows(n)
  PROVE  Sorts(n, a, quickSort(a))
PROOF
  <1>. DEFINE D == Rows(n) \X (1..(n + 1)) \X (0..n)
              rank == [p \in D |-> IF p[3] < p[2] THEN 0 ELSE p[3] - p[2] + 1]
  <1>1. PICK f \in [D -> Rows(n)] :
           /\ quickSort(a) = f[<<a, 1, Len(a)>>]
           /\ \A p \in D : f[p] = IF p[2] >= p[3] THEN p[1]
                       ELSE f[<<f[<<partition(p[1], p[2], p[3]).array, p[2],
                                    partition(p[1], p[2], p[3]).index - 1>>],
                                  partition(p[1], p[2], p[3]).index + 1, p[3]>>]
    BY QuickSortRuns
  <1>. DEFINE P(p) == AscendingIn(p[2], p[3], f[p]) /\ Shuffled(n, p[2], p[3], p[1], f[p])
              S == {p \in D : P(p)}
  <1>2. rank \in [D -> Nat]
    OBVIOUS
  <1>3. ASSUME NEW p \in D, \A y \in D : rank[y] < rank[p] => y \in S PROVE p \in S
    <2>. DEFINE c == partition(p[1], p[2], p[3])
                lm == c.index - 1
                hm == c.index + 1
                x == <<c.array, p[2], lm>>
    <2>1. p[1] \in Rows(n) /\ p[2] \in 1..(n + 1) /\ p[3] \in 0..n
      OBVIOUS
    <2>2. CASE p[2] >= p[3]
      <3>1. f[p] = p[1]
        BY <1>1, <2>2
      <3>2. AscendingIn(p[2], p[3], p[1])
        <4>1. ASSUME NEW k \in p[2]..p[3], NEW l \in p[2]..p[3], k <= l PROVE p[1][k] <= p[1][l]
          <5>1. k = l /\ k \in 1..n
            BY <2>1, <2>2, <4>1
          <5>2. p[1][k] \in Int
            BY <2>1, <5>1 DEF Rows
          <5>. QED
            BY <5>1, <5>2
        <4>. QED
          BY <4>1 DEF AscendingIn
      <3>3. Shuffled(n, p[2], p[3], p[1], p[1])
        <4>1. p[2] \in Int /\ p[3] \in Int
          BY <2>1
        <4>. QED
          BY <4>1, ShuffledSame
      <3>. QED
        BY <3>1, <3>2, <3>3
    <2>3. CASE ~(p[2] >= p[3])
      <3>1. p[2] \in 1..n /\ p[3] \in p[2]..n
        BY <2>1, <2>3
      <3>2. /\ c \in [array : Rows(n), index : 1..n] /\ c.index \in p[2]..p[3]
            /\ Split(p[2], p[3], c) /\ Shuffled(n, p[2], p[3], p[1], c.array)
        <4>1. /\ c \in [array : Rows(n), index : 1..n]
              /\ Split(p[2], p[3], c) /\ Shuffled(n, p[2], p[3], p[1], c.array)
          BY <2>1, <3>1, PartitionSplits
        <4>. HIDE DEF c
        <4>. QED
          BY <4>1 DEF Split
      <3>. DEFINE y == <<f[x], hm, p[3]>>
      <3>0. f[p] = f[y]
        BY <1>1, <2>3
      <3>. HIDE DEF c
      <3>3. c.array \in Rows(n) /\ lm \in 0..n /\ hm \in 1..(n + 1) /\ lm < p[3] /\ p[2] < hm
        BY <3>1, <3>2
      <3>4. rank[p] = p[3] - p[2] + 1
        BY <2>3, <3>1
      <3>5. x \in D /\ rank[x] < rank[p] /\ x[1] = c.array /\ x[2] = p[2] /\ x[3] = lm
        <4>1. x \in D /\ x[1] = c.array /\ x[2] = p[2] /\ x[3] = lm
          BY <2>1, <3>3
        <4>2. rank[x] = IF lm < p[2] THEN 0 ELSE lm - p[2] + 1
          BY <4>1
        <4>. HIDE DEF rank, x
        <4>. QED
          BY <3>1, <3>2, <3>3, <3>4, <4>1, <4>2
      <3>6. f[x] \in Rows(n)
        BY <3>5
      <3>7. y \in D /\ rank[y] < rank[p] /\ y[1] = f[x] /\ y[2] = hm /\ y[3] = p[3]
        <4>1. y \in D /\ y[1] = f[x] /\ y[2] = hm /\ y[3] = p[3]
          <5>. HIDE DEF x
          <5>. QED
            BY <2>1, <3>3, <3>6
        <4>2. rank[y] = IF p[3] < hm THEN 0 ELSE p[3] - hm + 1
          BY <4>1
        <4>. HIDE DEF rank, y
        <4>. QED
          BY <3>1, <3>2, <3>3, <3>4, <4>1, <4>2
      <3>8. f[y] \in Rows(n)
        BY <3>7
      <3>. HIDE DEF x, y, rank, D
      <3>9. P(x) /\ P(y)
        BY <1>3, <3>5, <3>7
      <3>10. /\ AscendingIn(p[2], lm, f[x]) /\ Shuffled(n, p[2], lm, c.array, f[x])
             /\ AscendingIn(hm, p[3], f[y]) /\ Shuffled(n, hm, p[3], f[x], f[y])
        BY <3>5, <3>7, <3>9
      <3>11. AscendingIn(p[2], p[3], f[y]) /\ Shuffled(n, p[2], p[3], c.array, f[y])
        BY <3>1, <3>2, <3>6, <3>8, <3>10, PartsJoin
      <3>12. Shuffled(n, p[2], p[3], p[1], f[y])
        <4>1. p[2] \in Int /\ p[3] \in Int
          BY <2>1
        <4>. QED
          BY <3>2, <3>11, <4>1, ShuffledOn
      <3>. QED
        BY <3>0, <3>11, <3>12
    <2>. QED
      BY <2>2, <2>3
  <1>4. D \subseteq S
    <2>1. RankedIn(D, rank, S)
      <3>. HIDE DEF D, rank, S
      <3>. QED
        BY <1>3 DEF RankedIn
    <2>. HIDE DEF D, rank, S
    <2>. QED
      BY <1>2, <2>1, ByRank
  <1>. DEFINE z == <<a, 1, n>>
  <1>5. z \in D /\ z[1] = a /\ z[2] = 1 /\ z[3] = n
    OBVIOUS
  <1>6. P(z) /\ f[z] \in Rows(n)
    BY <1>4, <1>5
  <1>7. quickSort(a) = f[z]
    BY <1>1, ArrayFacts
  <1>. HIDE DEF z
  <1>. QED
    BY <1>5, <1>6, <1>7 DEF Sorts, Rearranged, Ascending, AscendingIn
-----------------------------------------------------------------------------
(***************************************************************************)
(* The definition of sorted, and the binary searches.                      *)
(***************************************************************************)
\* Those that precede one number are less than those that precede the next.
LEMMA PlaceFacts ==
  ASSUME NEW n \in Nat, NEW a \in Rows(n)
  PROVE  /\ \A l \in 1..n : place(a, l) \in 1..n
         /\ \A l, m \in 1..n : Precedes(a, l, m) => place(a, l) < place(a, m)
         /\ \A l, m \in 1..n : l # m => Precedes(a, l, m) \/ Precedes(a, m, l)
PROOF
  <1>. DEFINE B(l) == {j \in 1..n : Precedes(a, j, l)}
  <1>1. \A l \in 1..n : a[l] \in Int
    BY DEF Rows
  <1>2. \A l \in 1..n : place(a, l) = Cardinality(B(l)) + 1
    BY ArrayFacts DEF place
  <1>3. IsFiniteSet(1..n) /\ Cardinality(1..n) = n
    <2>1. 1 \in Int /\ n \in Int
      OBVIOUS
    <2>2. IsFiniteSet(1..n) /\ Cardinality(1..n) = IF 1 > n THEN 0 ELSE n - 1 + 1
      BY <2>1, FS_Interval
    <2>. QED
      BY <2>2
  <1>4. ASSUME NEW l \in 1..n PROVE IsFiniteSet(B(l)) /\ Cardinality(B(l)) \in 0..(n - 1)
    <2>1. B(l) \in SUBSET ((1..n) \ {l})
      BY <1>1 DEF Precedes
    <2>2. IsFiniteSet((1..n) \ {l}) /\ Cardinality((1..n) \ {l}) = n - 1
      BY <1>3, FS_RemoveElement
    <2>. HIDE DEF B
    <2>3. IsFiniteSet(B(l)) /\ Cardinality(B(l)) <= n - 1
      BY <2>1, <2>2, FS_Subset
    <2>4. Cardinality(B(l)) \in Nat
      BY <2>3, FS_CardinalityType
    <2>. QED
      BY <2>3, <2>4
  <1>5. ASSUME NEW l \in 1..n, NEW m \in 1..n, Precedes(a, l, m) PROVE Cardinality(B(l)) < Cardinality(B(m))
    <2>1. B(l) \in SUBSET B(m)
      <3>1. ASSUME NEW j \in 1..n, Precedes(a, j, l) PROVE Precedes(a, j, m)
        <4>1. a[j] \in Int /\ a[l] \in Int /\ a[m] \in Int
          BY <1>1
        <4>. QED
          BY <1>5, <3>1, <4>1 DEF Precedes
      <3>. QED
        BY <3>1
    <2>2. l \in B(m) /\ l \notin B(l)
      BY <1>1, <1>5 DEF Precedes
    <2>. HIDE DEF B
    <2>3. Cardinality(B(l)) <= Cardinality(B(m)) /\ Cardinality(B(l)) # Cardinality(B(m))
      BY <1>4, <2>1, <2>2, FS_Subset
    <2>4. Cardinality(B(l)) \in Int /\ Cardinality(B(m)) \in Int
      BY <1>4
    <2>. QED
      BY <2>3, <2>4
  <1>6. \A l, m \in 1..n : l # m => Precedes(a, l, m) \/ Precedes(a, m, l)
    BY <1>1 DEF Precedes
  <1>. HIDE DEF B
  <1>7. \A l \in 1..n : place(a, l) \in 1..n
    <2>. SUFFICES ASSUME NEW l \in 1..n PROVE place(a, l) \in 1..n
      OBVIOUS
    <2>1. Cardinality(B(l)) \in 0..(n - 1)
      BY <1>4
    <2>. QED
      BY <1>2, <2>1
  <1>8. ASSUME NEW l \in 1..n, NEW m \in 1..n, Precedes(a, l, m) PROVE place(a, l) < place(a, m)
    <2>1. Cardinality(B(l)) < Cardinality(B(m)) /\ Cardinality(B(l)) \in Int /\ Cardinality(B(m)) \in Int
      BY <1>4, <1>5, <1>8
    <2>. QED
      BY <1>2, <2>1
  <1>. QED
    BY <1>6, <1>7, <1>8

\* sorted, by which the sorts are judged, returns the numbers in ascending order.
LEMMA SortedSorts ==
  ASSUME NEW n \in Nat, NEW a \in Rows(n)
  PROVE  Sorts(n, a, sorted(a))
PROOF
  <1>1. /\ \A l \in 1..n : place(a, l) \in 1..n
        /\ \A l, m \in 1..n : Precedes(a, l, m) => place(a, l) < place(a, m)
        /\ \A l, m \in 1..n : l # m => Precedes(a, l, m) \/ Precedes(a, m, l)
    BY PlaceFacts
  <1>. DEFINE f == [l \in 1..n |-> place(a, l)]
  <1>2. IsFiniteSet(1..n)
    <2>1. 1 \in Int /\ n \in Int
      OBVIOUS
    <2>. QED
      BY <2>1, FS_Interval
  <1>3. \A l, m \in 1..n : place(a, l) = place(a, m) => l = m
    <2>. SUFFICES ASSUME NEW l \in 1..n, NEW m \in 1..n, place(a, l) = place(a, m), l # m PROVE FALSE
      OBVIOUS
    <2>1. place(a, l) \in Int /\ place(a, m) \in Int
      BY <1>1
    <2>2. place(a, l) < place(a, m) \/ place(a, m) < place(a, l)
      BY <1>1
    <2>. QED
      BY <2>1, <2>2
  <1>4. f \in Injection(1..n, 1..n)
    BY <1>1, <1>3 DEF Injection, IsInjective
  <1>5. f \in Surjection(1..n, 1..n)
    <2>. HIDE DEF f
    <2>. QED
      BY <1>2, <1>4, FS_Injection
  <1>6. \A k \in 1..n : \E l \in 1..n : place(a, l) = k
    BY <1>5 DEF Surjection
  <1>. DEFINE q == [k \in 1..n |-> CHOOSE l \in 1..n : place(a, l) = k]
              b == sorted(a)
  <1>7. \A k \in 1..n : q[k] \in 1..n /\ place(a, q[k]) = k
    BY <1>6
  <1>8. q \in [1..n -> 1..n]
    <2>1. q = [k \in 1..n |-> q[k]]
      OBVIOUS
    <2>. HIDE DEF q
    <2>. QED
      BY <1>7, <2>1
  <1>9. b = [k \in 1..n |-> a[q[k]]]
    <2>1. Positions(a) = 1..n
      BY ArrayFacts
    <2>2. b = [k \in Positions(a) |-> a[CHOOSE l \in Positions(a) : place(a, l) = k]]
      BY DEF sorted
    <2>. HIDE DEF b, q
    <2>3. b = [k \in 1..n |-> a[CHOOSE l \in 1..n : place(a, l) = k]]
      BY <2>1, <2>2
    <2>4. \A k \in 1..n : a[CHOOSE l \in 1..n : place(a, l) = k] = a[q[k]]
      BY DEF q
    <2>. QED
      BY <2>3, <2>4
  <1>. HIDE DEF q, b, f
  <1>10. b \in Rows(n)
    BY <1>7, <1>9 DEF Rows
  <1>11. Shuffle(n, 1, n, q)
    <2>1. \A x, y \in 1..n : q[x] = q[y] => x = y
      BY <1>7
    <2>2. \A t \in 1..n : q[place(a, t)] = t /\ place(a, t) \in 1..n
      BY <1>1, <1>3, <1>7
    <2>3. \A t \in 1..n : \E s \in 1..n : q[s] = t
      BY <2>2
    <2>. QED
      BY <1>8, <2>1, <2>3 DEF Shuffle, Bijects
  <1>12. Rearranged(n, a, b)
    <2>1. Rearranged(n, b, a)
      BY <1>9, <1>11 DEF Rearranged, Shuffled
    <2>. QED
      BY <2>1, RearrangedBack
  <1>13. ASSUME NEW k \in 1..n, NEW l \in 1..n, k <= l PROVE b[k] <= b[l]
    <2>1. q[k] \in 1..n /\ q[l] \in 1..n /\ b[k] = a[q[k]] /\ b[l] = a[q[l]]
      BY <1>7, <1>9
    <2>2. a[q[k]] \in Int /\ a[q[l]] \in Int
      BY <2>1 DEF Rows
    <2>3. CASE k = l
      BY <2>1, <2>2, <2>3
    <2>4. CASE k # l
      <3>1. ~Precedes(a, q[l], q[k])
        <4>1. Precedes(a, q[l], q[k]) => l < k
          BY <1>1, <1>7, <2>1
        <4>. QED
          BY <1>13, <4>1
      <3>2. q[k] # q[l]
        BY <1>7, <2>4
      <3>3. Precedes(a, q[k], q[l])
        BY <1>1, <2>1, <3>1, <3>2
      <3>. QED
        BY <2>1, <2>2, <3>3 DEF Precedes
    <2>. QED
      BY <2>3, <2>4
  <1>. QED
    BY <1>10, <1>12, <1>13 DEF Sorts, Ascending, b

\* The middle lies between the ends.
LEMMA Middle ==
  ASSUME NEW low \in Int, NEW high \in Int, low <= high
  PROVE  /\ low + (high - low) \div 2 \in low..high
         /\ low < high => low + (high - low) \div 2 \in low..(high - 1)
PROOF
  <1>. DEFINE d == high - low
  <1>1. d \in Nat /\ (low < high => d >= 1)
    OBVIOUS
  <1>. HIDE DEF d
  <1>2. d \div 2 \in 0..d /\ (d >= 1 => d \div 2 < d)
    BY <1>1
  <1>. QED
    BY <1>1, <1>2 DEF d

Mid(p) == p[1] + (p[2] - p[1]) \div 2

\* The result of a search between two positions.
Located(a, low, high, v, m) ==
  IF \E k \in low..high : a[k] = v THEN m \in low..high /\ a[m] = v ELSE m = -1

BetweenRuns(n, a, v, first, final) ==
  \E f \in [(1..(n + 1)) \X (0..n) -> Int] :
    /\ binarySearchBetween(a, first, final, v) = f[<<first, final>>]
    /\ \A p \in (1..(n + 1)) \X (0..n) : f[p] = IF p[1] > p[2] THEN -1
                ELSE IF a[Mid(p)] > v
                  THEN f[<<p[1], Mid(p) - 1>>]
                ELSE IF a[Mid(p)] < v
                  THEN f[<<Mid(p) + 1, p[2]>>]
                ELSE Mid(p)

\* The search between two positions, both of them included.
LEMMA BetweenSteps ==
  ASSUME NEW n \in Nat,
         NEW a \in Rows(n),
         NEW v \in Int,
         NEW first,
         NEW final
  PROVE  BetweenRuns(n, a, v, first, final)
PROOF
  <1>. DEFINE D == (1..(Len(a) + 1)) \X (0..Len(a))
              V == Int
              rank == [p \in D |-> IF p[2] < p[1] THEN 0 ELSE p[2] - p[1] + 1]
              Body(f, p) == IF p[1] > p[2] THEN -1
                       ELSE IF a[Mid(p)] > v
                         THEN f[<<p[1], Mid(p) - 1>>]
                       ELSE IF a[Mid(p)] < v
                         THEN f[<<Mid(p) + 1, p[2]>>]
                       ELSE Mid(p)
              F == [p \in D |-> [g \in [D -> V] |-> Body(g, p)]]
              Eq(f) == f = [p \in D |-> Body(f, p)]
              s == CHOOSE f : Eq(f)
  <1>1. D = (1..(n + 1)) \X (0..n)
    BY ArrayFacts
  <1>2. binarySearchBetween(a, first, final, v) = s[<<first, final>>]
    BY DEF binarySearchBetween, Mid
  <1>3. V # {} /\ rank \in [D -> Nat]
    <2>1. \A p \in (1..(n + 1)) \X (0..n) : (IF p[2] < p[1] THEN 0 ELSE p[2] - p[1] + 1) \in Nat
      OBVIOUS
    <2>. QED
      BY <1>1, <2>1
  <1>4. ASSUME NEW p \in D, NEW g \in [D -> V] PROVE Body(g, p) \in V
    <2>. DEFINE m == Mid(p)
    <2>1. p[1] \in 1..(n + 1) /\ p[2] \in 0..n
      BY <1>1
    <2>2. CASE p[1] > p[2]
      BY <2>1, <2>2
    <2>3. CASE ~(p[1] > p[2])
      <3>1. m \in p[1]..(p[2]) /\ m \in 1..n
        <4>1. p[1] \in Int /\ p[2] \in Int /\ p[1] <= p[2] /\ (p[1] < p[2] \/ TRUE)
          BY <2>1, <2>3
        <4>2. m \in p[1]..(p[2])
          BY <4>1, Middle DEF Mid
        <4>. HIDE DEF m
        <4>. QED
          BY <2>1, <4>2
      <3>. HIDE DEF m
      <3>2. <<p[1], m - 1>> \in D /\ <<m + 1, p[2]>> \in D
        BY <1>1, <2>1, <3>1
      <3>3. g[<<p[1], m - 1>>] \in Int /\ g[<<m + 1, p[2]>>] \in Int
        <4>. HIDE DEF D
        <4>. QED
          BY <3>2
      <3>4. Body(g, p) \in {g[<<p[1], m - 1>>], g[<<m + 1, p[2]>>], m}
        BY <2>3, Zenon DEF m
      <3>. HIDE DEF Body, D
      <3>. QED
        BY <2>1, <3>1, <3>3, <3>4
    <2>. QED
      BY <2>2, <2>3
  <1>5. ASSUME NEW p \in D, NEW g, NEW h \in [D -> V], \A y \in D : rank[y] < rank[p] => g[y] = h[y]
        PROVE  Body(g, p) = Body(h, p)
    <2>. DEFINE m == Mid(p)
    <2>1. p[1] \in 1..(n + 1) /\ p[2] \in 0..n
      BY <1>1
    <2>2. CASE p[1] > p[2]
      BY <2>1, <2>2
    <2>3. CASE ~(p[1] > p[2])
      <3>1. m \in p[1]..(p[2]) /\ m \in 1..n
        <4>1. p[1] \in Int /\ p[2] \in Int /\ p[1] <= p[2] /\ (p[1] < p[2] \/ TRUE)
          BY <2>1, <2>3
        <4>2. m \in p[1]..(p[2])
          BY <4>1, Middle DEF Mid
        <4>. HIDE DEF m
        <4>. QED
          BY <2>1, <4>2
      <3>. HIDE DEF m
      <3>2. <<p[1], m - 1>> \in D /\ <<m + 1, p[2]>> \in D
        BY <1>1, <2>1, <3>1
      <3>3. rank[<<p[1], m - 1>>] < rank[p] /\ rank[<<m + 1, p[2]>>] < rank[p]
        <4>1. /\ rank[p] = p[2] - p[1] + 1
              /\ rank[<<p[1], m - 1>>] = IF m - 1 < p[1] THEN 0 ELSE m - 1 - p[1] + 1
              /\ rank[<<m + 1, p[2]>>] = IF p[2] < m + 1 THEN 0 ELSE p[2] - (m + 1) + 1
          BY <2>1, <2>3, <3>1, <3>2
        <4>. HIDE DEF rank
        <4>. QED
          BY <2>1, <2>3, <3>1, <4>1, SMTT(20)
      <3>4. g[<<p[1], m - 1>>] = h[<<p[1], m - 1>>] /\ g[<<m + 1, p[2]>>] = h[<<m + 1, p[2]>>]
        <4>. HIDE DEF D, rank
        <4>. QED
          BY <1>5, <3>2, <3>3
      <3>. QED
        BY <2>3, <3>4 DEF m
    <2>. QED
      BY <2>2, <2>3
  <1>6. PICK q \in [D -> V] : \A p \in D : q[p] = Body(q, p)
    <2>1. F \in [D -> [[D -> V] -> V]] /\ \A p \in D : \A g \in [D -> V] : F[p][g] = Body(g, p)
      <3>. HIDE DEF D, V, Body
      <3>. QED
        BY <1>4
    <2>2. Local(D, V, rank, F)
      <3>. HIDE DEF D, V, rank, F, Body
      <3>1. ASSUME NEW x \in D, NEW g \in [D -> V], NEW h \in [D -> V],
                   \A y \in D : rank[y] < rank[x] => g[y] = h[y]
            PROVE  F[x][g] = F[x][h]
        <4>1. Body(g, x) = Body(h, x)
          BY <1>5, <3>1
        <4>. QED
          BY <2>1, <4>1
      <3>. QED
        BY <2>1, <3>1 DEF Local
    <2>3. PICK q : Solution(D, V, F, q)
      <3>. HIDE DEF D, V, rank, F
      <3>. QED
        BY <1>3, <2>2, Recursion
    <2>. HIDE DEF D, V, rank, F, Body
    <2>. QED
      BY <2>1, <2>3 DEF Solution
  <1>7. Eq(s)
    <2>1. Eq(q)
      <3>. HIDE DEF D, V, Body
      <3>. QED
        BY <1>6
    <2>. HIDE DEF Eq
    <2>. QED
      BY <2>1, Zenon
  <1>8. \A p \in D : s[p] = Body(s, p)
    <2>. HIDE DEF D, V, Body, s
    <2>. QED
      BY <1>7
  <1>9. D \subseteq {p \in D : s[p] = q[p]}
    <2>1. RankedIn(D, rank, {p \in D : s[p] = q[p]})
      <3>. HIDE DEF D, V, Body, s, rank
      <3>. QED
        BY <1>5, <1>6, <1>8 DEF RankedIn
    <2>. HIDE DEF D, V, Body, s, rank
    <2>. QED
      BY <1>3, <2>1, ByRank
  <1>10. s \in [D -> V]
    <2>. HIDE DEF D, V, Body
    <2>. QED
      BY <1>6, <1>7, <1>9
  <1>. HIDE DEF s, D
  <1>. QED
    BY <1>1, <1>2, <1>8, <1>10 DEF BetweenRuns

\* binarySearchBetween finds the number between the two positions exactly if it is there.
LEMMA BetweenFinds ==
  ASSUME NEW n \in Nat,
         NEW a \in Rows(n),
         Ascending(n, a),
         NEW v \in Int,
         NEW first \in 1..(n + 1),
         NEW final \in 0..n
  PROVE  Located(a, first, final, v, binarySearchBetween(a, first, final, v))
PROOF
  <1>. DEFINE D == (1..(n + 1)) \X (0..n)
              rank == [p \in D |-> IF p[2] < p[1] THEN 0 ELSE p[2] - p[1] + 1]
  <1>0. D = (1..(n + 1)) \X (0..n)
    OBVIOUS
  <1>1. PICK f \in [D -> Int] :
          /\ binarySearchBetween(a, first, final, v) = f[<<first, final>>]
          /\ \A p \in D : f[p] = IF p[1] > p[2] THEN -1
                       ELSE IF a[Mid(p)] > v
                         THEN f[<<p[1], Mid(p) - 1>>]
                       ELSE IF a[Mid(p)] < v
                         THEN f[<<Mid(p) + 1, p[2]>>]
                       ELSE Mid(p)
    <2>1. BetweenRuns(n, a, v, first, final)
      BY BetweenSteps
    <2>. QED
      BY <2>1 DEF BetweenRuns
  <1>. DEFINE P(p) == Located(a, p[1], p[2], v, f[p])
              S == {p \in D : P(p)}
  <1>2. rank \in [D -> Nat]
    OBVIOUS
  <1>3. ASSUME NEW p \in D, \A y \in D : rank[y] < rank[p] => y \in S PROVE p \in S
    <2>. DEFINE m == Mid(p)
    <2>1. p[1] \in 1..(n + 1) /\ p[2] \in 0..n
      BY <1>0
    <2>2. CASE p[1] > p[2]
      <3>1. f[p] = -1
        BY <1>1, <2>2
      <3>2. ~ \E k \in p[1]..(p[2]) : a[k] = v
        BY <2>1, <2>2
      <3>. QED
        BY <3>1, <3>2 DEF Located
    <2>3. CASE ~(p[1] > p[2])
      <3>1. m \in p[1]..(p[2]) /\ m \in 1..n
        <4>1. p[1] \in Int /\ p[2] \in Int /\ p[1] <= p[2] /\ (p[1] < p[2] \/ TRUE)
          BY <2>1, <2>3
        <4>2. m \in p[1]..(p[2])
          BY <4>1, Middle DEF Mid
        <4>. HIDE DEF m
        <4>. QED
          BY <2>1, <4>2
      <3>. HIDE DEF m
      <3>2. <<p[1], m - 1>> \in D /\ <<m + 1, p[2]>> \in D
        BY <1>0, <2>1, <3>1
      <3>3. rank[<<p[1], m - 1>>] < rank[p] /\ rank[<<m + 1, p[2]>>] < rank[p]
        <4>1. /\ rank[p] = p[2] - p[1] + 1
              /\ rank[<<p[1], m - 1>>] = IF m - 1 < p[1] THEN 0 ELSE m - 1 - p[1] + 1
              /\ rank[<<m + 1, p[2]>>] = IF p[2] < m + 1 THEN 0 ELSE p[2] - (m + 1) + 1
          BY <2>1, <2>3, <3>1, <3>2
        <4>. HIDE DEF rank
        <4>. QED
          BY <2>1, <2>3, <3>1, <4>1
      <3>4. f[p] = IF a[m] > v THEN f[<<p[1], m - 1>>] ELSE IF a[m] < v THEN f[<<m + 1, p[2]>>] ELSE m
        BY <1>1, <2>3, Zenon DEF m
      <3>5. P(<<p[1], m - 1>>) /\ P(<<m + 1, p[2]>>)
        <4>. HIDE DEF P, rank, D
        <4>. QED
          BY <1>3, <3>2, <3>3
      <3>6. \A k \in 1..n : a[k] \in Int
        BY DEF Rows
      <3>7. CASE a[m] > v
        <4>1. \A k \in m..n : a[k] # v
          BY <3>1, <3>6, <3>7 DEF Ascending
        <4>2. Located(a, p[1], m - 1, v, f[p])
          BY <3>4, <3>5, <3>7
        <4>. HIDE DEF S, D
        <4>3. \A k \in p[1]..(p[2]) : a[k] = v => k \in p[1]..(m - 1)
          BY <2>1, <3>1, <4>1
        <4>. QED
          BY <2>1, <3>1, <4>2, <4>3 DEF Located, S
      <3>8. CASE a[m] < v
        <4>1. \A k \in 1..m : a[k] # v
          BY <3>1, <3>6, <3>8 DEF Ascending
        <4>2. Located(a, m + 1, p[2], v, f[p])
          BY <3>4, <3>5, <3>6, <3>1, <3>8
        <4>. HIDE DEF S, D
        <4>3. \A k \in p[1]..(p[2]) : a[k] = v => k \in (m + 1)..(p[2])
          BY <2>1, <3>1, <4>1
        <4>. QED
          BY <2>1, <3>1, <4>2, <4>3 DEF Located, S
      <3>9. CASE ~(a[m] > v) /\ ~(a[m] < v)
        <4>1. a[m] = v /\ f[p] = m
          BY <3>1, <3>4, <3>6, <3>9
        <4>. QED
          BY <3>1, <4>1 DEF Located
      <3>. QED
        BY <3>7, <3>8, <3>9
    <2>. QED
      BY <2>2, <2>3
  <1>4. D \subseteq S
    <2>1. RankedIn(D, rank, S)
      <3>. HIDE DEF D, rank, S
      <3>. QED
        BY <1>3 DEF RankedIn
    <2>. HIDE DEF D, rank, S
    <2>. QED
      BY <1>2, <2>1, ByRank
  <1>. DEFINE z == <<first, final>>
  <1>5. z \in D /\ binarySearchBetween(a, first, final, v) = f[z]
    <2>1. z \in D /\ Len(a) = n
      BY ArrayFacts
    <2>. HIDE DEF D
    <2>. QED
      BY <1>1, <2>1
  <1>6. P(z)
    BY <1>4, <1>5
  <1>. QED
    BY <1>5, <1>6

\* The search in an interval that is open on the right.
LEMMA OpenSearchSteps ==
  ASSUME NEW n \in Nat,
         NEW a \in Rows(n),
         NEW v \in Int
  PROVE  \E f \in [(1..(n + 1)) \X (1..(n + 1)) -> Int] :
           /\ binarySearch1(a, v) = f[<<1, Len(a) + 1>>]
           /\ \A p \in (1..(n + 1)) \X (1..(n + 1)) : f[p] = IF p[1] >= p[2] THEN -1
                       ELSE IF v < a[Mid(p)]
                         THEN f[<<p[1], Mid(p)>>]
                       ELSE IF v > a[Mid(p)]
                         THEN f[<<Mid(p) + 1, p[2]>>]
                       ELSE Mid(p)
PROOF
  <1>. DEFINE D == (1..(Len(a) + 1)) \X (1..(Len(a) + 1))
              V == Int
              rank == [p \in D |-> IF p[2] < p[1] THEN 0 ELSE p[2] - p[1] + 1]
              Body(f, p) == IF p[1] >= p[2] THEN -1
                       ELSE IF v < a[Mid(p)]
                         THEN f[<<p[1], Mid(p)>>]
                       ELSE IF v > a[Mid(p)]
                         THEN f[<<Mid(p) + 1, p[2]>>]
                       ELSE Mid(p)
              F == [p \in D |-> [g \in [D -> V] |-> Body(g, p)]]
              Eq(f) == f = [p \in D |-> Body(f, p)]
              s == CHOOSE f : Eq(f)
  <1>1. D = (1..(n + 1)) \X (1..(n + 1))
    BY ArrayFacts
  <1>2. binarySearch1(a, v) = s[<<1, Len(a) + 1>>]
    BY DEF binarySearch1, Mid
  <1>3. V # {} /\ rank \in [D -> Nat]
    <2>1. \A p \in (1..(n + 1)) \X (1..(n + 1)) : (IF p[2] < p[1] THEN 0 ELSE p[2] - p[1] + 1) \in Nat
      OBVIOUS
    <2>. QED
      BY <1>1, <2>1
  <1>4. ASSUME NEW p \in D, NEW g \in [D -> V] PROVE Body(g, p) \in V
    <2>. DEFINE m == Mid(p)
    <2>1. p[1] \in 1..(n + 1) /\ p[2] \in 1..(n + 1)
      BY <1>1
    <2>2. CASE p[1] >= p[2]
      BY <2>1, <2>2
    <2>3. CASE ~(p[1] >= p[2])
      <3>1. m \in p[1]..(p[2] - 1) /\ m \in 1..n
        <4>1. p[1] \in Int /\ p[2] \in Int /\ p[1] <= p[2] /\ (p[1] < p[2] \/ FALSE)
          BY <2>1, <2>3
        <4>2. m \in p[1]..(p[2] - 1)
          BY <4>1, Middle DEF Mid
        <4>. HIDE DEF m
        <4>. QED
          BY <2>1, <4>2
      <3>. HIDE DEF m
      <3>2. <<p[1], m>> \in D /\ <<m + 1, p[2]>> \in D
        BY <1>1, <2>1, <3>1
      <3>3. g[<<p[1], m>>] \in Int /\ g[<<m + 1, p[2]>>] \in Int
        <4>. HIDE DEF D
        <4>. QED
          BY <3>2
      <3>4. Body(g, p) \in {g[<<p[1], m>>], g[<<m + 1, p[2]>>], m}
        BY <2>3, Zenon DEF m
      <3>. HIDE DEF Body, D
      <3>. QED
        BY <2>1, <3>1, <3>3, <3>4
    <2>. QED
      BY <2>2, <2>3
  <1>5. ASSUME NEW p \in D, NEW g, NEW h \in [D -> V], \A y \in D : rank[y] < rank[p] => g[y] = h[y]
        PROVE  Body(g, p) = Body(h, p)
    <2>. DEFINE m == Mid(p)
    <2>1. p[1] \in 1..(n + 1) /\ p[2] \in 1..(n + 1)
      BY <1>1
    <2>2. CASE p[1] >= p[2]
      BY <2>1, <2>2
    <2>3. CASE ~(p[1] >= p[2])
      <3>1. m \in p[1]..(p[2] - 1) /\ m \in 1..n
        <4>1. p[1] \in Int /\ p[2] \in Int /\ p[1] <= p[2] /\ (p[1] < p[2] \/ FALSE)
          BY <2>1, <2>3
        <4>2. m \in p[1]..(p[2] - 1)
          BY <4>1, Middle DEF Mid
        <4>. HIDE DEF m
        <4>. QED
          BY <2>1, <4>2
      <3>. HIDE DEF m
      <3>2. <<p[1], m>> \in D /\ <<m + 1, p[2]>> \in D
        BY <1>1, <2>1, <3>1
      <3>3. rank[<<p[1], m>>] < rank[p] /\ rank[<<m + 1, p[2]>>] < rank[p]
        <4>1. /\ rank[p] = p[2] - p[1] + 1
              /\ rank[<<p[1], m>>] = IF m < p[1] THEN 0 ELSE m - p[1] + 1
              /\ rank[<<m + 1, p[2]>>] = IF p[2] < m + 1 THEN 0 ELSE p[2] - (m + 1) + 1
          BY <2>1, <2>3, <3>1, <3>2
        <4>. HIDE DEF rank
        <4>. QED
          BY <2>1, <2>3, <3>1, <4>1, SMTT(20)
      <3>4. g[<<p[1], m>>] = h[<<p[1], m>>] /\ g[<<m + 1, p[2]>>] = h[<<m + 1, p[2]>>]
        <4>. HIDE DEF D, rank
        <4>. QED
          BY <1>5, <3>2, <3>3
      <3>. QED
        BY <2>3, <3>4 DEF m
    <2>. QED
      BY <2>2, <2>3
  <1>6. PICK q \in [D -> V] : \A p \in D : q[p] = Body(q, p)
    <2>1. F \in [D -> [[D -> V] -> V]] /\ \A p \in D : \A g \in [D -> V] : F[p][g] = Body(g, p)
      <3>. HIDE DEF D, V, Body
      <3>. QED
        BY <1>4
    <2>2. Local(D, V, rank, F)
      <3>. HIDE DEF D, V, rank, F, Body
      <3>1. ASSUME NEW x \in D, NEW g \in [D -> V], NEW h \in [D -> V],
                   \A y \in D : rank[y] < rank[x] => g[y] = h[y]
            PROVE  F[x][g] = F[x][h]
        <4>1. Body(g, x) = Body(h, x)
          BY <1>5, <3>1
        <4>. QED
          BY <2>1, <4>1
      <3>. QED
        BY <2>1, <3>1 DEF Local
    <2>3. PICK q : Solution(D, V, F, q)
      <3>. HIDE DEF D, V, rank, F
      <3>. QED
        BY <1>3, <2>2, Recursion
    <2>. HIDE DEF D, V, rank, F, Body
    <2>. QED
      BY <2>1, <2>3 DEF Solution
  <1>7. Eq(s)
    <2>1. Eq(q)
      <3>. HIDE DEF D, V, Body
      <3>. QED
        BY <1>6
    <2>. HIDE DEF Eq
    <2>. QED
      BY <2>1, Zenon
  <1>8. \A p \in D : s[p] = Body(s, p)
    <2>. HIDE DEF D, V, Body, s
    <2>. QED
      BY <1>7
  <1>9. D \subseteq {p \in D : s[p] = q[p]}
    <2>1. RankedIn(D, rank, {p \in D : s[p] = q[p]})
      <3>. HIDE DEF D, V, Body, s, rank
      <3>. QED
        BY <1>5, <1>6, <1>8 DEF RankedIn
    <2>. HIDE DEF D, V, Body, s, rank
    <2>. QED
      BY <1>3, <2>1, ByRank
  <1>10. s \in [D -> V]
    <2>. HIDE DEF D, V, Body
    <2>. QED
      BY <1>6, <1>7, <1>9
  <1>. HIDE DEF s, D
  <1>. QED
    BY <1>1, <1>2, <1>8, <1>10

\* binarySearch1 finds the number exactly if it is there.
LEMMA OpenSearchFinds ==
  ASSUME NEW n \in Nat,
         NEW a \in Rows(n),
         Ascending(n, a),
         NEW v \in Int
  PROVE  Located(a, 1, n, v, binarySearch1(a, v))
PROOF
  <1>. DEFINE D == (1..(n + 1)) \X (1..(n + 1))
              rank == [p \in D |-> IF p[2] < p[1] THEN 0 ELSE p[2] - p[1] + 1]
  <1>0. D = (1..(n + 1)) \X (1..(n + 1))
    OBVIOUS
  <1>1. PICK f \in [D -> Int] :
          /\ binarySearch1(a, v) = f[<<1, Len(a) + 1>>]
          /\ \A p \in D : f[p] = IF p[1] >= p[2] THEN -1
                       ELSE IF v < a[Mid(p)]
                         THEN f[<<p[1], Mid(p)>>]
                       ELSE IF v > a[Mid(p)]
                         THEN f[<<Mid(p) + 1, p[2]>>]
                       ELSE Mid(p)
    BY OpenSearchSteps
  <1>. DEFINE P(p) == Located(a, p[1], p[2] - 1, v, f[p])
              S == {p \in D : P(p)}
  <1>2. rank \in [D -> Nat]
    OBVIOUS
  <1>3. ASSUME NEW p \in D, \A y \in D : rank[y] < rank[p] => y \in S PROVE p \in S
    <2>. DEFINE m == Mid(p)
    <2>1. p[1] \in 1..(n + 1) /\ p[2] \in 1..(n + 1)
      BY <1>0
    <2>2. CASE p[1] >= p[2]
      <3>1. f[p] = -1
        BY <1>1, <2>2
      <3>2. ~ \E k \in p[1]..(p[2] - 1) : a[k] = v
        BY <2>1, <2>2
      <3>. QED
        BY <3>1, <3>2 DEF Located
    <2>3. CASE ~(p[1] >= p[2])
      <3>1. m \in p[1]..(p[2] - 1) /\ m \in 1..n
        <4>1. p[1] \in Int /\ p[2] \in Int /\ p[1] <= p[2] /\ (p[1] < p[2] \/ FALSE)
          BY <2>1, <2>3
        <4>2. m \in p[1]..(p[2] - 1)
          BY <4>1, Middle DEF Mid
        <4>. HIDE DEF m
        <4>. QED
          BY <2>1, <4>2
      <3>. HIDE DEF m
      <3>2. <<p[1], m>> \in D /\ <<m + 1, p[2]>> \in D
        BY <1>0, <2>1, <3>1
      <3>3. rank[<<p[1], m>>] < rank[p] /\ rank[<<m + 1, p[2]>>] < rank[p]
        <4>1. /\ rank[p] = p[2] - p[1] + 1
              /\ rank[<<p[1], m>>] = IF m < p[1] THEN 0 ELSE m - p[1] + 1
              /\ rank[<<m + 1, p[2]>>] = IF p[2] < m + 1 THEN 0 ELSE p[2] - (m + 1) + 1
          BY <2>1, <2>3, <3>1, <3>2
        <4>. HIDE DEF rank
        <4>. QED
          BY <2>1, <2>3, <3>1, <4>1
      <3>4. f[p] = IF v < a[m] THEN f[<<p[1], m>>] ELSE IF v > a[m] THEN f[<<m + 1, p[2]>>] ELSE m
        BY <1>1, <2>3, Zenon DEF m
      <3>5. P(<<p[1], m>>) /\ P(<<m + 1, p[2]>>)
        <4>. HIDE DEF P, rank, D
        <4>. QED
          BY <1>3, <3>2, <3>3
      <3>6. \A k \in 1..n : a[k] \in Int
        BY DEF Rows
      <3>7. CASE a[m] > v
        <4>1. \A k \in m..n : a[k] # v
          BY <3>1, <3>6, <3>7 DEF Ascending
        <4>2. Located(a, p[1], m - 1, v, f[p])
          BY <3>4, <3>5, <3>7
        <4>. HIDE DEF S, D
        <4>3. \A k \in p[1]..(p[2] - 1) : a[k] = v => k \in p[1]..(m - 1)
          BY <2>1, <3>1, <4>1
        <4>. QED
          BY <2>1, <3>1, <4>2, <4>3 DEF Located, S
      <3>8. CASE a[m] < v
        <4>1. \A k \in 1..m : a[k] # v
          BY <3>1, <3>6, <3>8 DEF Ascending
        <4>2. Located(a, m + 1, p[2] - 1, v, f[p])
          BY <3>4, <3>5, <3>6, <3>1, <3>8
        <4>. HIDE DEF S, D
        <4>3. \A k \in p[1]..(p[2] - 1) : a[k] = v => k \in (m + 1)..(p[2] - 1)
          BY <2>1, <3>1, <4>1
        <4>. QED
          BY <2>1, <3>1, <4>2, <4>3 DEF Located, S
      <3>9. CASE ~(a[m] > v) /\ ~(a[m] < v)
        <4>1. a[m] = v /\ f[p] = m
          BY <3>1, <3>4, <3>6, <3>9
        <4>. QED
          BY <3>1, <4>1 DEF Located
      <3>. QED
        BY <3>7, <3>8, <3>9
    <2>. QED
      BY <2>2, <2>3
  <1>4. D \subseteq S
    <2>1. RankedIn(D, rank, S)
      <3>. HIDE DEF D, rank, S
      <3>. QED
        BY <1>3 DEF RankedIn
    <2>. HIDE DEF D, rank, S
    <2>. QED
      BY <1>2, <2>1, ByRank
  <1>. DEFINE z == <<1, n + 1>>
  <1>5. z \in D /\ binarySearch1(a, v) = f[z]
    <2>1. z \in D /\ Len(a) = n
      BY ArrayFacts
    <2>. HIDE DEF D
    <2>. QED
      BY <1>1, <2>1
  <1>6. P(z)
    BY <1>4, <1>5
  <1>. QED
    BY <1>5, <1>6

\* binarySearch finds the number exactly if it is there.
LEMMA BinarySearchFinds ==
  ASSUME NEW n \in Nat, NEW a \in Rows(n), Ascending(n, a), NEW v \in Int
  PROVE  Located(a, 1, n, v, binarySearch(a, v))
PROOF
  <1>1. binarySearch(a, v) = binarySearchBetween(a, 1, n, v)
    BY ArrayFacts DEF binarySearch
  <1>2. 1 \in 1..(n + 1) /\ n \in 0..n
    OBVIOUS
  <1>3. Located(a, 1, n, v, binarySearchBetween(a, 1, n, v))
    BY <1>2, BetweenFinds
  <1>. QED
    BY <1>1, <1>3
-----------------------------------------------------------------------------
(***************************************************************************)
(* All the sorts and the searches.                                         *)
(***************************************************************************)
\* The empty array.
LEMMA RowsEmpty ==
  /\ <<>> \in Rows(0)
  /\ \A n \in Nat : \A a \in Rows(n) : a # <<>> => n >= 1
PROOF
  <1>1. <<>> \in Seq(Int) /\ Len(<<>>) = 0
    BY EmptySeq
  <1>2. <<>> \in [1..0 -> Int]
    BY <1>1, LenProperties
  <1>3. ASSUME NEW n \in Nat, NEW a \in Rows(n), ~(n >= 1) PROVE a = <<>>
    <2>1. n = 0
      BY <1>3
    <2>2. a \in Seq(Int) /\ Len(a) = 0
      BY <2>1, ArrayFacts
    <2>. QED
      BY <1>1, <2>2, SeqEqual
  <1>. QED
    BY <1>2, <1>3 DEF Rows

\* All the sorts return the sorted array, and the searches find what is in it.
LEMMA SortsAgreeOn ==
  ASSUME NEW n \in Nat, nums \in Rows(n), Numbers \subseteq Int
  PROVE  SortsAgree
PROOF
  <1>. DEFINE s == sorted(nums)
  <1>1. Sorts(n, nums, s)
    BY SortedSorts
  <1>2. /\ bubbleSort(nums) = s /\ bubbleOptimizerSort(nums) = s /\ selectSort(nums) = s
        /\ insertSort(nums) = s /\ shellSort(nums) = s /\ quickSort(nums) = s
    <2>. HIDE DEF s
    <2>1. bubbleSort(nums) = s
      BY <1>1, BubbleSortSorts, SortedOnce
    <2>2. bubbleOptimizerSort(nums) = s
      BY <1>1, BubbleOptimizerSorts, SortedOnce
    <2>3. selectSort(nums) = s
      BY <1>1, SelectSortSorts, SortedOnce
    <2>4. insertSort(nums) = s
      BY <1>1, InsertSortSorts, SortedOnce
    <2>5. shellSort(nums) = s
      BY <1>1, ShellSortSorts, SortedOnce
    <2>6. quickSort(nums) = s
      BY <1>1, QuickSortSorts, SortedOnce
    <2>. QED
      BY <2>1, <2>2, <2>3, <2>4, <2>5, <2>6
  <1>3. nums # <<>> => mergeSort(nums) = s
    <2>. SUFFICES ASSUME nums # <<>> PROVE mergeSort(nums) = s
      OBVIOUS
    <2>1. n >= 1
      BY RowsEmpty
    <2>2. s \in Rows(n)
      BY <1>1 DEF Sorts
    <2>. HIDE DEF s
    <2>. QED
      BY <1>1, <2>1, <2>2, MergeSortSorts
  <1>4. /\ s \in Rows(n) /\ Ascending(n, s) /\ Positions(s) = 1..n
    <2>1. s \in Rows(n) /\ Ascending(n, s)
      BY <1>1 DEF Sorts
    <2>. HIDE DEF s
    <2>. QED
      BY <2>1, ArrayFacts
  <1>. HIDE DEF s
  <1>. DEFINE Finds(v, m) == IF \E k \in Positions(s) : s[k] = v THEN m \in Positions(s) /\ s[m] = v
                                                                ELSE m = -1
  <1>5. ASSUME NEW v \in Numbers PROVE Finds(v, binarySearch(s, v)) /\ Finds(v, binarySearch1(s, v))
    <2>1. v \in Int
      OBVIOUS
    <2>2. Located(s, 1, n, v, binarySearch(s, v)) /\ Located(s, 1, n, v, binarySearch1(s, v))
      <3>1. Located(s, 1, n, v, binarySearch(s, v))
        BY <1>4, <2>1, BinarySearchFinds
      <3>2. Located(s, 1, n, v, binarySearch1(s, v))
        BY <1>4, <2>1, OpenSearchFinds
      <3>. QED
        BY <3>1, <3>2
    <2>. QED
      BY <1>4, <2>2 DEF Located
  <1>. HIDE DEF Finds
  <1>6. {bubbleSort(nums), bubbleOptimizerSort(nums), selectSort(nums), insertSort(nums), shellSort(nums),
         quickSort(nums)} \union (IF nums = <<>> THEN {} ELSE {mergeSort(nums)}) = {s}
    BY <1>2, <1>3
  <1>. QED
    BY <1>5, <1>6 DEF SortsAgree, s, Finds
-----------------------------------------------------------------------------
(***************************************************************************)
(* The sums of two numbers.                                                *)
(***************************************************************************)
\* An answer to the sum of two numbers: a pair of positions, or none if there is no pair.
Answer(n, a, v, answer) ==
  IF \E k, l \in 1..n : k # l /\ a[k] + a[l] = v
    THEN Len(answer) = 2 /\ answer[1] # answer[2] /\ a[answer[1]] + a[answer[2]] = v
    ELSE answer = <<>>
InOrder(answer) == answer = <<>> \/ answer[1] < answer[2]
NoPair(low, high, a, v) == \A k, l \in low..high : k < l => a[k] + a[l] # v

\* None is the answer if there is no pair.
LEMMA AnswerNone ==
  ASSUME NEW n \in Nat, NEW a \in Rows(n), NEW v \in Int, NoPair(1, n, a, v)
  PROVE  Answer(n, a, v, <<>>) /\ InOrder(<<>>)
PROOF
  <1>1. ASSUME NEW k \in 1..n, NEW l \in 1..n, k # l PROVE a[k] + a[l] # v
    <2>1. a[k] \in Int /\ a[l] \in Int
      BY DEF Rows
    <2>2. CASE k < l
      BY <2>2 DEF NoPair
    <2>3. CASE l < k
      <3>1. a[l] + a[k] # v
        BY <2>3 DEF NoPair
      <3>. QED
        BY <2>1, <3>1
    <2>. QED
      BY <1>1, <2>2, <2>3
  <1>. QED
    BY <1>1 DEF Answer, InOrder

\* A pair is an answer.
LEMMA AnswerSome ==
  ASSUME NEW n \in Nat, NEW a \in Rows(n), NEW v \in Int, NEW k \in 1..n, NEW l \in 1..n, k # l,
         a[k] + a[l] = v
  PROVE  Answer(n, a, v, <<k, l>>) /\ (k < l => InOrder(<<k, l>>))
PROOF
  BY DEF Answer, InOrder

\* The first position with a partner to the right of it.
LEMMA TwoSumAnswers ==
  ASSUME NEW n \in Nat, NEW a \in Rows(n), NEW v \in Int
  PROVE  Answer(n, a, v, twoSum(a, v)) /\ InOrder(twoSum(a, v))
PROOF
  <1>. DEFINE B(m) == {l \in (m + 1)..n : a[m] + a[l] = v}
              F == {m \in 1..n : B(m) # {}}
              x == Min(F)
              y == Min(B(x))
  <1>1. twoSum(a, v) = IF F = {} THEN <<>> ELSE <<x, y>>
    BY ArrayFacts DEF twoSum
  <1>2. CASE F = {}
    <2>1. NoPair(1, n, a, v)
      <3>1. ASSUME NEW k \in 1..n, NEW l \in 1..n, k < l, a[k] + a[l] = v PROVE FALSE
        <4>1. l \in B(k)
          BY <3>1
        <4>2. k \in F
          BY <4>1
        <4>. QED
          BY <1>2, <4>2
      <3>. QED
        BY <3>1 DEF NoPair
    <2>. HIDE DEF F, x, y
    <2>. QED
      BY <1>1, <1>2, <2>1, AnswerNone
  <1>3. CASE F # {}
    <2>1. x \in F
      <3>1. F \in SUBSET Int /\ 1 \in Int /\ \A k \in F : 1 <= k
        OBVIOUS
      <3>. HIDE DEF F
      <3>. QED
        BY <1>3, <3>1, LeastOf
    <2>2. x \in 1..n /\ B(x) # {}
      BY <2>1
    <2>. HIDE DEF x
    <2>3. y \in B(x)
      <3>1. B(x) \in SUBSET Int /\ 1 \in Int /\ \A k \in B(x) : 1 <= k
        BY <2>2
      <3>. HIDE DEF B
      <3>. QED
        BY <2>2, <3>1, LeastOf
    <2>4. y \in 1..n /\ x < y /\ a[x] + a[y] = v
      BY <2>2, <2>3
    <2>. HIDE DEF y, F, B
    <2>5. x # y
      BY <2>2, <2>4
    <2>. QED
      BY <1>1, <1>3, <2>2, <2>4, <2>5, AnswerSome
  <1>. QED
    BY <1>2, <1>3

\* The dictionary keeps the last position of every number.
LEMMA TwoSum1Answers ==
  ASSUME NEW n \in Nat, NEW a \in Rows(n), NEW v \in Int
  PROVE  Answer(n, a, v, twoSum1(a, v))
PROOF
  <1>. DEFINE At(e) == {l \in 1..n : a[l] = e}
              F == {m \in 1..n : At(v - a[m]) # {} /\ Max(At(v - a[m])) # m}
              x == Min(F)
              y == Max(At(v - a[x]))
  <1>1. twoSum1(a, v) = IF F = {} THEN <<>> ELSE <<x, y>>
    <2>1. Positions(a) = 1..n
      BY ArrayFacts
    <2>. QED
      BY <2>1 DEF twoSum1
  <1>2. \A k \in 1..n : a[k] \in Int
    BY DEF Rows
  <1>3. ASSUME NEW e, At(e) # {} PROVE Max(At(e)) \in At(e) /\ \A k \in At(e) : k <= Max(At(e))
    <2>1. At(e) \in SUBSET Int /\ n \in Int /\ \A k \in At(e) : k <= n
      OBVIOUS
    <2>. HIDE DEF At
    <2>. QED
      BY <1>3, <2>1, GreatestOf
  <1>4. CASE F = {}
    <2>1. NoPair(1, n, a, v)
      <3>1. ASSUME NEW k \in 1..n, NEW l \in 1..n, k < l, a[k] + a[l] = v PROVE FALSE
        <4>. DEFINE e == v - a[k]
        <4>1. l \in At(e)
          BY <1>2, <3>1
        <4>. HIDE DEF e
        <4>2. l <= Max(At(e)) /\ Max(At(e)) \in 1..n
          BY <1>3, <4>1
        <4>3. At(e) # {} /\ Max(At(e)) # k
          BY <3>1, <4>1, <4>2
        <4>4. k \in F
          BY <4>3 DEF e
        <4>. QED
          BY <1>4, <4>4
      <3>. QED
        BY <3>1 DEF NoPair
    <2>. HIDE DEF F, x, y
    <2>. QED
      BY <1>1, <1>4, <2>1, AnswerNone
  <1>5. CASE F # {}
    <2>1. x \in F
      <3>1. F \in SUBSET Int /\ 1 \in Int /\ \A k \in F : 1 <= k
        OBVIOUS
      <3>. HIDE DEF F
      <3>. QED
        BY <1>5, <3>1, LeastOf
    <2>2. x \in 1..n /\ At(v - a[x]) # {} /\ y # x
      BY <2>1
    <2>. HIDE DEF x
    <2>3. y \in At(v - a[x])
      <3>. HIDE DEF At
      <3>. QED
        BY <1>3, <2>2
    <2>4. y \in 1..n /\ a[x] + a[y] = v
      <3>1. y \in 1..n /\ a[y] = v - a[x]
        BY <2>3
      <3>. QED
        BY <1>2, <2>2, <3>1
    <2>. HIDE DEF y, F, At
    <2>. QED
      BY <1>1, <1>5, <2>2, <2>4, AnswerSome
  <1>. QED
    BY <1>4, <1>5

\* The dictionary of the numbers passed.
LEMMA TwoSum2Answers ==
  ASSUME NEW n \in Nat, NEW a \in Rows(n), NEW v \in Int
  PROVE  Answer(n, a, v, twoSum2(a, v))
PROOF
  <1>. DEFINE B(m) == {l \in 1..(m - 1) : a[l] = v - a[m]}
              F == {m \in 1..n : B(m) # {}}
              x == Min(F)
              y == Max(B(x))
  <1>1. twoSum2(a, v) = IF F = {} THEN <<>> ELSE <<x, y>>
    <2>1. Positions(a) = 1..n
      BY ArrayFacts
    <2>. QED
      BY <2>1 DEF twoSum2
  <1>2. \A k \in 1..n : a[k] \in Int
    BY DEF Rows
  <1>3. CASE F = {}
    <2>1. NoPair(1, n, a, v)
      <3>1. ASSUME NEW k \in 1..n, NEW l \in 1..n, k < l, a[k] + a[l] = v PROVE FALSE
        <4>1. k \in B(l)
          BY <1>2, <3>1
        <4>2. l \in F
          BY <4>1
        <4>. QED
          BY <1>3, <4>2
      <3>. QED
        BY <3>1 DEF NoPair
    <2>. HIDE DEF F, x, y
    <2>. QED
      BY <1>1, <1>3, <2>1, AnswerNone
  <1>4. CASE F # {}
    <2>1. x \in F
      <3>1. F \in SUBSET Int /\ 1 \in Int /\ \A k \in F : 1 <= k
        OBVIOUS
      <3>. HIDE DEF F
      <3>. QED
        BY <1>4, <3>1, LeastOf
    <2>2. x \in 1..n /\ B(x) # {}
      BY <2>1
    <2>. HIDE DEF x
    <2>3. y \in B(x)
      <3>1. B(x) \in SUBSET Int /\ n \in Int /\ \A k \in B(x) : k <= n
        BY <2>2
      <3>. HIDE DEF B
      <3>. QED
        BY <2>2, <3>1, GreatestOf
    <2>4. y \in 1..n /\ x # y /\ a[x] + a[y] = v
      <3>1. y \in 1..n /\ x # y /\ a[y] = v - a[x]
        BY <2>2, <2>3
      <3>. QED
        BY <1>2, <2>2, <3>1
    <2>. HIDE DEF y, F, B
    <2>. QED
      BY <1>1, <1>4, <2>2, <2>4, AnswerSome
  <1>. QED
    BY <1>3, <1>4

\* A binary search to the right of each number of a sorted array.
LEMMA TwoSumSearchAnswers ==
  ASSUME NEW n \in Nat, NEW a \in Rows(n), Ascending(n, a), NEW v \in Int
  PROVE  Answer(n, a, v, twoSumSearch(a, v)) /\ InOrder(twoSumSearch(a, v))
PROOF
  <1>. DEFINE B(m) == binarySearchBetween(a, m + 1, n, v - a[m])
              F == {m \in 1..n : B(m) # -1}
              x == Min(F)
              y == B(x)
  <1>1. twoSumSearch(a, v) = IF F = {} THEN <<>> ELSE <<x, y>>
    <2>1. Positions(a) = 1..n /\ Len(a) = n
      BY ArrayFacts
    <2>. QED
      BY <2>1 DEF twoSumSearch
  <1>2. \A k \in 1..n : a[k] \in Int
    BY DEF Rows
  <1>3. ASSUME NEW m \in 1..n PROVE Located(a, m + 1, n, v - a[m], B(m))
    <2>. DEFINE low == m + 1
                e == v - a[m]
    <2>1. low \in 1..(n + 1) /\ n \in 0..n /\ e \in Int
      BY <1>2
    <2>. HIDE DEF low, e
    <2>2. Located(a, low, n, e, binarySearchBetween(a, low, n, e))
      BY <2>1, BetweenFinds
    <2>. QED
      BY <2>2 DEF low, e
  <1>. HIDE DEF B
  <1>4. CASE F = {}
    <2>1. NoPair(1, n, a, v)
      <3>1. ASSUME NEW k \in 1..n, NEW l \in 1..n, k < l, a[k] + a[l] = v PROVE FALSE
        <4>1. l \in (k + 1)..n /\ a[l] = v - a[k]
          BY <1>2, <3>1
        <4>2. B(k) \in (k + 1)..n
          BY <1>3, <4>1 DEF Located
        <4>3. k \in F
          BY <4>2
        <4>. QED
          BY <1>4, <4>3
      <3>. QED
        BY <3>1 DEF NoPair
    <2>. HIDE DEF F, x, y
    <2>. QED
      BY <1>1, <1>4, <2>1, AnswerNone
  <1>5. CASE F # {}
    <2>1. x \in F
      <3>1. F \in SUBSET Int /\ 1 \in Int /\ \A k \in F : 1 <= k
        OBVIOUS
      <3>. HIDE DEF F
      <3>. QED
        BY <1>5, <3>1, LeastOf
    <2>2. x \in 1..n /\ y # -1
      BY <2>1
    <2>. HIDE DEF x
    <2>3. y \in (x + 1)..n /\ a[y] = v - a[x]
      BY <1>3, <2>2 DEF Located
    <2>4. y \in 1..n /\ x # y /\ x < y /\ a[x] + a[y] = v
      <3>1. y \in 1..n /\ x # y /\ x < y
        BY <2>2, <2>3
      <3>. QED
        BY <1>2, <2>2, <2>3, <3>1
    <2>. HIDE DEF y, F
    <2>. QED
      BY <1>1, <1>5, <2>2, <2>4, AnswerSome
  <1>. QED
    BY <1>4, <1>5

\* Two pointers in a sorted array.
PointersRun(n, a, v) ==
  \E f \in [(1..(n + 1)) \X (0..n) -> Seq(Int)] :
    /\ twoSumPointers(a, v) = f[<<1, Len(a)>>]
    /\ \A p \in (1..(n + 1)) \X (0..n) : f[p] = IF p[1] >= p[2] THEN <<>>
                ELSE IF a[p[1]] + a[p[2]] = v THEN <<p[1], p[2]>>
                ELSE IF a[p[1]] + a[p[2]] < v THEN f[<<p[1] + 1, p[2]>>]
                ELSE f[<<p[1], p[2] - 1>>]

\* The steps of the two pointers.
LEMMA PointersSteps ==
  ASSUME NEW n \in Nat,
         NEW a \in Rows(n),
         NEW v \in Int
  PROVE  PointersRun(n, a, v)
PROOF
  <1>. DEFINE D == (1..(Len(a) + 1)) \X (0..Len(a))
              V == Seq(Int)
              rank == [p \in D |-> IF p[2] < p[1] THEN 0 ELSE p[2] - p[1] + 1]
              Body(f, p) == IF p[1] >= p[2] THEN <<>>
                       ELSE IF a[p[1]] + a[p[2]] = v THEN <<p[1], p[2]>>
                       ELSE IF a[p[1]] + a[p[2]] < v THEN f[<<p[1] + 1, p[2]>>]
                       ELSE f[<<p[1], p[2] - 1>>]
              F == [p \in D |-> [g \in [D -> V] |-> Body(g, p)]]
              Eq(f) == f = [p \in D |-> Body(f, p)]
              s == CHOOSE f : Eq(f)
  <1>1. D = (1..(n + 1)) \X (0..n)
    BY ArrayFacts
  <1>2. twoSumPointers(a, v) = s[<<1, Len(a)>>]
    BY DEF twoSumPointers
  <1>3. V # {} /\ rank \in [D -> Nat]
    <2>1. \A p \in (1..(n + 1)) \X (0..n) : (IF p[2] < p[1] THEN 0 ELSE p[2] - p[1] + 1) \in Nat
      OBVIOUS
    <2>. QED
      BY <1>1, <2>1, EmptySeq
  <1>4. ASSUME NEW p \in D, NEW g \in [D -> V] PROVE Body(g, p) \in V
    <2>1. p[1] \in 1..(n + 1) /\ p[2] \in 0..n
      BY <1>1
    <2>2. CASE p[1] >= p[2]
      BY <2>1, <2>2, EmptySeq
    <2>3. CASE ~(p[1] >= p[2])
      <3>1. <<p[1] + 1, p[2]>> \in D /\ <<p[1], p[2] - 1>> \in D
        BY <1>1, <2>1, <2>3
      <3>2. g[<<p[1] + 1, p[2]>>] \in Seq(Int) /\ g[<<p[1], p[2] - 1>>] \in Seq(Int)
        <4>. HIDE DEF D
        <4>. QED
          BY <3>1
      <3>3. <<p[1], p[2]>> \in Seq(Int)
        BY <2>1
      <3>4. Body(g, p) \in {<<p[1], p[2]>>, g[<<p[1] + 1, p[2]>>], g[<<p[1], p[2] - 1>>]}
        BY <2>3, Zenon
      <3>. HIDE DEF Body, D
      <3>. QED
        BY <3>2, <3>3, <3>4
    <2>. QED
      BY <2>2, <2>3
  <1>5. ASSUME NEW p \in D, NEW g, NEW h \in [D -> V], \A y \in D : rank[y] < rank[p] => g[y] = h[y]
        PROVE  Body(g, p) = Body(h, p)
    <2>1. p[1] \in 1..(n + 1) /\ p[2] \in 0..n
      BY <1>1
    <2>2. CASE p[1] >= p[2]
      BY <2>1, <2>2
    <2>3. CASE ~(p[1] >= p[2])
      <3>1. <<p[1] + 1, p[2]>> \in D /\ <<p[1], p[2] - 1>> \in D
        BY <1>1, <2>1, <2>3
      <3>2. rank[<<p[1] + 1, p[2]>>] < rank[p] /\ rank[<<p[1], p[2] - 1>>] < rank[p]
        <4>1. /\ rank[p] = p[2] - p[1] + 1
              /\ rank[<<p[1] + 1, p[2]>>] = IF p[2] < p[1] + 1 THEN 0 ELSE p[2] - (p[1] + 1) + 1
              /\ rank[<<p[1], p[2] - 1>>] = IF p[2] - 1 < p[1] THEN 0 ELSE p[2] - 1 - p[1] + 1
          BY <2>1, <2>3, <3>1
        <4>. HIDE DEF rank
        <4>. QED
          BY <2>1, <2>3, <4>1
      <3>3. /\ g[<<p[1] + 1, p[2]>>] = h[<<p[1] + 1, p[2]>>]
            /\ g[<<p[1], p[2] - 1>>] = h[<<p[1], p[2] - 1>>]
        <4>. HIDE DEF D, rank
        <4>. QED
          BY <1>5, <3>1, <3>2
      <3>. QED
        BY <2>3, <3>3
    <2>. QED
      BY <2>2, <2>3
  <1>6. PICK q \in [D -> V] : \A p \in D : q[p] = Body(q, p)
    <2>1. F \in [D -> [[D -> V] -> V]] /\ \A p \in D : \A g \in [D -> V] : F[p][g] = Body(g, p)
      <3>. HIDE DEF D, V, Body
      <3>. QED
        BY <1>4
    <2>2. Local(D, V, rank, F)
      <3>. HIDE DEF D, V, rank, F, Body
      <3>1. ASSUME NEW x \in D, NEW g \in [D -> V], NEW h \in [D -> V],
                   \A y \in D : rank[y] < rank[x] => g[y] = h[y]
            PROVE  F[x][g] = F[x][h]
        <4>1. Body(g, x) = Body(h, x)
          BY <1>5, <3>1
        <4>. QED
          BY <2>1, <4>1
      <3>. QED
        BY <2>1, <3>1 DEF Local
    <2>3. PICK q : Solution(D, V, F, q)
      <3>. HIDE DEF D, V, rank, F
      <3>. QED
        BY <1>3, <2>2, Recursion
    <2>. HIDE DEF D, V, rank, F, Body
    <2>. QED
      BY <2>1, <2>3 DEF Solution
  <1>7. Eq(s)
    <2>1. Eq(q)
      <3>. HIDE DEF D, V, Body
      <3>. QED
        BY <1>6
    <2>. HIDE DEF Eq
    <2>. QED
      BY <2>1, Zenon
  <1>8. \A p \in D : s[p] = Body(s, p)
    <2>. HIDE DEF D, V, Body, s
    <2>. QED
      BY <1>7
  <1>9. D \subseteq {p \in D : s[p] = q[p]}
    <2>1. RankedIn(D, rank, {p \in D : s[p] = q[p]})
      <3>. HIDE DEF D, V, Body, s, rank
      <3>. QED
        BY <1>5, <1>6, <1>8 DEF RankedIn
    <2>. HIDE DEF D, V, Body, s, rank
    <2>. QED
      BY <1>3, <2>1, ByRank
  <1>10. s \in [D -> V]
    <2>. HIDE DEF D, V, Body
    <2>. QED
      BY <1>6, <1>7, <1>9
  <1>. HIDE DEF s, D
  <1>. QED
    BY <1>1, <1>2, <1>8, <1>10 DEF PointersRun

\* The answer of the pointers is a pair between them, if there is one.
PairIn(a, low, high, v, answer) ==
  \/ answer = <<>> /\ NoPair(low, high, a, v)
  \/ \E x, y \in low..high : x < y /\ a[x] + a[y] = v /\ answer = <<x, y>>

\* twoSumPointers: no pair is outside of the pointers.
LEMMA TwoSumPointersAnswers ==
  ASSUME NEW n \in Nat, NEW a \in Rows(n), Ascending(n, a), NEW v \in Int
  PROVE  Answer(n, a, v, twoSumPointers(a, v)) /\ InOrder(twoSumPointers(a, v))
PROOF
  <1>. DEFINE D == (1..(n + 1)) \X (0..n)
              rank == [p \in D |-> IF p[2] < p[1] THEN 0 ELSE p[2] - p[1] + 1]
  <1>0. D = (1..(n + 1)) \X (0..n)
    OBVIOUS
  <1>1. PICK f \in [D -> Seq(Int)] :
          /\ twoSumPointers(a, v) = f[<<1, Len(a)>>]
          /\ \A p \in D : f[p] = IF p[1] >= p[2] THEN <<>>
                       ELSE IF a[p[1]] + a[p[2]] = v THEN <<p[1], p[2]>>
                       ELSE IF a[p[1]] + a[p[2]] < v THEN f[<<p[1] + 1, p[2]>>]
                       ELSE f[<<p[1], p[2] - 1>>]
    <2>1. PointersRun(n, a, v)
      BY PointersSteps
    <2>. QED
      BY <2>1 DEF PointersRun
  <1>. DEFINE P(p) == PairIn(a, p[1], p[2], v, f[p])
              S == {p \in D : P(p)}
  <1>2. rank \in [D -> Nat]
    OBVIOUS
  <1>3. ASSUME NEW p \in D, \A y \in D : rank[y] < rank[p] => y \in S PROVE p \in S
    <2>1. p[1] \in 1..(n + 1) /\ p[2] \in 0..n
      OBVIOUS
    <2>2. CASE p[1] >= p[2]
      <3>1. f[p] = <<>>
        BY <1>1, <2>2
      <3>2. NoPair(p[1], p[2], a, v)
        BY <2>1, <2>2 DEF NoPair
      <3>. QED
        BY <3>1, <3>2 DEF PairIn
    <2>3. CASE ~(p[1] >= p[2])
      <3>1. <<p[1] + 1, p[2]>> \in D /\ <<p[1], p[2] - 1>> \in D
        BY <2>1, <2>3
      <3>2. rank[<<p[1] + 1, p[2]>>] < rank[p] /\ rank[<<p[1], p[2] - 1>>] < rank[p]
        <4>1. /\ rank[p] = p[2] - p[1] + 1
              /\ rank[<<p[1] + 1, p[2]>>] = IF p[2] < p[1] + 1 THEN 0 ELSE p[2] - (p[1] + 1) + 1
              /\ rank[<<p[1], p[2] - 1>>] = IF p[2] - 1 < p[1] THEN 0 ELSE p[2] - 1 - p[1] + 1
          BY <2>1, <2>3, <3>1
        <4>. HIDE DEF rank
        <4>. QED
          BY <2>1, <2>3, <4>1
      <3>. DEFINE x == p[1]
                  y == p[2]
                  x1 == x + 1
                  y1 == y - 1
      <3>3. P(<<x1, y>>) /\ P(<<x, y1>>)
        <4>. HIDE DEF P, rank, D
        <4>. QED
          BY <1>3, <3>1, <3>2
      <3>4. PairIn(a, x1, y, v, f[<<x1, y>>]) /\ PairIn(a, x, y1, v, f[<<x, y1>>])
        BY <3>3
      <3>5. f[p] = IF a[x] + a[y] = v THEN <<x, y>>
                   ELSE IF a[x] + a[y] < v THEN f[<<x1, y>>] ELSE f[<<x, y1>>]
        BY <1>1, <2>3
      <3>6. x \in 1..n /\ y \in 1..n /\ x < y /\ x1 = x + 1 /\ y1 = y - 1
        BY <2>1, <2>3
      <3>. HIDE DEF x, y, x1, y1
      <3>7. \A k \in 1..n : a[k] \in Int
        BY DEF Rows
      <3>8. \A k \in x..y : k \in 1..n /\ a[x] <= a[k] /\ a[k] <= a[y]
        BY <3>6 DEF Ascending
      <3>9. CASE a[x] + a[y] = v
        <4>1. x \in x..y /\ y \in x..y /\ f[p] = <<x, y>>
          BY <3>5, <3>6, <3>9
        <4>2. PairIn(a, x, y, v, f[p])
          BY <3>6, <3>9, <4>1 DEF PairIn
        <4>. QED
          BY <4>2 DEF x, y
      <3>10. CASE a[x] + a[y] < v
        <4>1. f[p] = f[<<x1, y>>]
          BY <3>5, <3>6, <3>7, <3>10
        <4>2. ASSUME NEW k \in x..y, NEW l \in x..y, k < l, a[k] + a[l] = v PROVE k \in x1..y /\ l \in x1..y
          <5>1. k # x
            <6>1. a[l] <= a[y] /\ a[l] \in Int /\ a[x] \in Int /\ a[y] \in Int
              BY <3>6, <3>7, <3>8
            <6>. QED
              BY <3>10, <4>2, <6>1
          <5>. QED
            BY <3>6, <4>2, <5>1
        <4>3. x1..y \subseteq x..y
          BY <3>6
        <4>4. PairIn(a, x, y, v, f[<<x1, y>>])
          <5>1. CASE f[<<x1, y>>] = <<>> /\ NoPair(x1, y, a, v)
            <6>1. NoPair(x, y, a, v)
              BY <4>2, <5>1 DEF NoPair
            <6>. QED
              BY <5>1, <6>1 DEF PairIn
          <5>2. CASE \E k, l \in x1..y : k < l /\ a[k] + a[l] = v /\ f[<<x1, y>>] = <<k, l>>
            BY <4>3, <5>2 DEF PairIn
          <5>. QED
            BY <3>4, <5>1, <5>2 DEF PairIn
        <4>. QED
          BY <4>1, <4>4 DEF x, y
      <3>11. CASE ~(a[x] + a[y] = v) /\ ~(a[x] + a[y] < v)
        <4>1. f[p] = f[<<x, y1>>]
          BY <3>5, <3>11
        <4>2. ASSUME NEW k \in x..y, NEW l \in x..y, k < l, a[k] + a[l] = v PROVE k \in x..y1 /\ l \in x..y1
          <5>1. l # y
            <6>1. a[x] <= a[k] /\ a[k] \in Int /\ a[x] \in Int /\ a[y] \in Int
              BY <3>6, <3>7, <3>8
            <6>. QED
              BY <3>11, <4>2, <6>1
          <5>. QED
            BY <3>6, <4>2, <5>1
        <4>3. x..y1 \subseteq x..y
          BY <3>6
        <4>4. PairIn(a, x, y, v, f[<<x, y1>>])
          <5>1. CASE f[<<x, y1>>] = <<>> /\ NoPair(x, y1, a, v)
            <6>1. NoPair(x, y, a, v)
              BY <4>2, <5>1 DEF NoPair
            <6>. QED
              BY <5>1, <6>1 DEF PairIn
          <5>2. CASE \E k, l \in x..y1 : k < l /\ a[k] + a[l] = v /\ f[<<x, y1>>] = <<k, l>>
            BY <4>3, <5>2 DEF PairIn
          <5>. QED
            BY <3>4, <5>1, <5>2 DEF PairIn
        <4>. QED
          BY <4>1, <4>4 DEF x, y
      <3>. QED
        BY <3>9, <3>10, <3>11
    <2>. QED
      BY <2>2, <2>3
  <1>4. D \subseteq S
    <2>1. RankedIn(D, rank, S)
      <3>. HIDE DEF D, rank, S
      <3>. QED
        BY <1>3 DEF RankedIn
    <2>. HIDE DEF D, rank, S
    <2>. QED
      BY <1>2, <2>1, ByRank
  <1>. DEFINE answer == f[<<1, n>>]
  <1>5. <<1, n>> \in D /\ twoSumPointers(a, v) = answer
    <2>1. Len(a) = n /\ <<1, n>> \in D
      BY ArrayFacts
    <2>. HIDE DEF D
    <2>. QED
      BY <1>1, <2>1
  <1>6. PairIn(a, 1, n, v, answer)
    <2>1. P(<<1, n>>)
      BY <1>4, <1>5
    <2>. QED
      BY <2>1
  <1>. HIDE DEF answer
  <1>7. Answer(n, a, v, answer) /\ InOrder(answer)
    <2>1. CASE answer = <<>> /\ NoPair(1, n, a, v)
      BY <2>1, AnswerNone
    <2>2. CASE \E x, y \in 1..n : x < y /\ a[x] + a[y] = v /\ answer = <<x, y>>
      <3>1. PICK x \in 1..n, y \in 1..n : x < y /\ a[x] + a[y] = v /\ answer = <<x, y>>
        BY <2>2
      <3>2. x # y
        BY <3>1
      <3>3. Answer(n, a, v, <<x, y>>) /\ InOrder(<<x, y>>)
        BY <3>1, <3>2, AnswerSome
      <3>. QED
        BY <3>1, <3>3
    <2>. QED
      BY <1>6, <2>1, <2>2 DEF PairIn
  <1>. QED
    BY <1>5, <1>7
-----------------------------------------------------------------------------
(***************************************************************************)
(* The greatest sum of a subarray.                                         *)
(***************************************************************************)
\* The sums of the first k numbers, and the greatest sums of a subarray that ends at k.
Prefixes(n, a, q) == q \in [0..n -> Int] /\ q[0] = 0 /\ \A k \in 1..n : q[k] = q[k - 1] + a[k]
Ends(n, a, e) == /\ e \in [1..n -> Int] /\ e[1] = a[1]
                 /\ \A k \in 2..n : e[k] = a[k] + (IF e[k - 1] > 0 THEN e[k - 1] ELSE 0)

\* There are such sums ...
LEMMA PrefixesExist ==
  ASSUME NEW n \in Nat, NEW a \in Rows(n)
  PROVE  \E q : Prefixes(n, a, q)
PROOF
  <1>. DEFINE G == [k \in 1..n |-> [b \in Int |-> b + a[k]]]
  <1>1. \A k \in 1..n : a[k] \in Int
    BY DEF Rows
  <1>2. LoopBody(1, n, Int, G)
    BY <1>1 DEF LoopBody
  <1>. DEFINE c == 0
  <1>3. PICK q : LoopRun(1, n, Int, c, G, q)
    <2>1. c \in Int /\ 1 \in Int /\ 1 <= n + 1
      OBVIOUS
    <2>. HIDE DEF G, c
    <2>. QED
      BY <1>2, <2>1, LoopExists
  <1>4. q \in [0..n -> Int] /\ \A k \in 0..n : q[k] = IF k < 1 THEN 0 ELSE G[k][q[k - 1]]
    <2>1. q \in [(1 - 1)..n -> Int] /\ \A k \in (1 - 1)..n : q[k] = IF k < 1 THEN c ELSE G[k][q[k - 1]]
      <3>. HIDE DEF G, c
      <3>. QED
        BY <1>3 DEF LoopRun
    <2>2. 1 - 1 = 0
      OBVIOUS
    <2>. HIDE DEF G
    <2>. QED
      BY <2>1, <2>2
  <1>5. q[0] = 0
    <2>. HIDE DEF G
    <2>. QED
      BY <1>4
  <1>6. ASSUME NEW k \in 1..n PROVE q[k] = q[k - 1] + a[k]
    <2>1. q[k - 1] \in Int /\ q[k] = G[k][q[k - 1]]
      <3>. HIDE DEF G
      <3>. QED
        BY <1>4
    <2>. QED
      BY <2>1
  <1>. HIDE DEF G
  <1>. QED
    BY <1>4, <1>5, <1>6 DEF Prefixes

\* ... and such greatest ones.
LEMMA EndsExist ==
  ASSUME NEW n \in Nat, n >= 1, NEW a \in Rows(n)
  PROVE  \E e : Ends(n, a, e)
PROOF
  <1>. DEFINE G == [k \in 2..n |-> [b \in Int |-> a[k] + (IF b > 0 THEN b ELSE 0)]]
              c == a[1]
  <1>1. c \in Int /\ \A k \in 1..n : a[k] \in Int
    BY DEF Rows
  <1>2. LoopBody(2, n, Int, G)
    BY <1>1 DEF LoopBody
  <1>3. PICK e : LoopRun(2, n, Int, c, G, e)
    <2>. HIDE DEF G, c
    <2>. QED
      BY <1>1, <1>2, LoopExists
  <1>4. e \in [1..n -> Int] /\ \A k \in 1..n : e[k] = IF k < 2 THEN c ELSE G[k][e[k - 1]]
    <2>. HIDE DEF G, c
    <2>1. /\ e \in [(2 - 1)..n -> Int]
          /\ \A k \in (2 - 1)..n : e[k] = IF k < 2 THEN c ELSE G[k][e[k - 1]]
      BY <1>3 DEF LoopRun
    <2>2. 2 - 1 = 1
      OBVIOUS
    <2>. QED
      BY <2>1, <2>2
  <1>5. e[1] = c
    <2>1. 1 \in 1..n /\ 1 < 2
      OBVIOUS
    <2>. HIDE DEF G, c
    <2>. QED
      BY <1>4, <2>1
  <1>6. ASSUME NEW k \in 2..n PROVE e[k] = a[k] + (IF e[k - 1] > 0 THEN e[k - 1] ELSE 0)
    <2>1. e[k - 1] \in Int /\ e[k] = G[k][e[k - 1]]
      <3>. HIDE DEF G, c
      <3>. QED
        BY <1>4
    <2>. QED
      BY <2>1
  <1>. HIDE DEF G
  <1>. QED
    BY <1>4, <1>5, <1>6 DEF Ends

\* The sum of the numbers from i to j.
LEMMA SumRounds ==
  ASSUME NEW n \in Nat,
         NEW a \in Rows(n),
         NEW x \in 1..n,
         NEW y \in 1..n,
         x <= y
  PROVE  \E r \in [(x - 1)..(y) -> Int] :
           /\ r[x - 1] = 0 /\ SumOf(a, x, y) = r[y]
           /\ \A k \in (x)..(y) : r[k] = r[k - 1] + a[k]
PROOF
  <1>. DEFINE V == Int
              last == y
              D == (x - 1)..last
              Op(b, k) == b + a[k]
              G == [k \in (x)..last |-> [b \in V |-> Op(b, k)]]
              Eq(r) == r = [k \in D |-> IF k < x THEN 0 ELSE Op(r[k - 1], k)]
              s == CHOOSE r : Eq(r)
  <1>1. /\ last = y /\ last \in Int /\ x \in Int /\ x <= last + 1
        /\ x - 1 = x - 1 /\ D = (x - 1)..(y) /\ 0 \in V
    OBVIOUS
  <1>2. SumOf(a, x, y) = (IF last < x THEN 0 ELSE s[last])
    BY DEF SumOf, For
  <1>3. ASSUME NEW k \in (x)..last, NEW b \in V PROVE Op(b, k) \in V /\ G[k][b] = Op(b, k)
    <2>0. Op(b, k) \in V
      <3>1. k \in 1..n
        BY <1>1
      <3>. QED
        BY <3>1 DEF Rows
    <2>. QED
      BY <2>0
  <1>4. PICK q \in [D -> V] : \A k \in D : q[k] = IF k < x THEN 0 ELSE G[k][q[k - 1]]
    <2>1. LoopBody(x, last, V, G)
      <3>. HIDE DEF G, V, Op, last
      <3>. QED
        BY <1>3 DEF LoopBody
    <2>. DEFINE B == 0
    <2>2. B \in V
      BY <1>1
    <2>3. PICK q : LoopRun(x, last, V, B, G, q)
      <3>. HIDE DEF G, V, last, B
      <3>. QED
        BY <1>1, <2>1, <2>2, LoopExists
    <2>. HIDE DEF G, V, last, B
    <2>4. q \in [D -> V] /\ \A k \in D : q[k] = IF k < x THEN B ELSE G[k][q[k - 1]]
      BY <2>3 DEF LoopRun
    <2>. QED
      BY <2>4 DEF B
  <1>5. Eq(q)
    <2>1. ASSUME NEW k \in D PROVE q[k] = IF k < x THEN 0 ELSE Op(q[k - 1], k)
      <3>1. k >= x => k \in (x)..last /\ k - 1 \in D /\ q[k - 1] \in V
        <4>. HIDE DEF G, V, Op, last
        <4>. QED
          BY <1>1, <1>4
      <3>2. k \in Int
        BY <1>1
      <3>. HIDE DEF G, V, Op, D, last
      <3>. QED
        BY <1>1, <1>3, <1>4, <3>1, <3>2
    <2>. HIDE DEF G, V, Op, D
    <2>. QED
      BY <1>4, <2>1
  <1>6. Eq(s)
    <2>. HIDE DEF Eq
    <2>. QED
      BY <1>5, Zenon
  <1>7. ASSUME NEW k \in D PROVE s[k] = IF k < x THEN 0 ELSE Op(s[k - 1], k)
    <2>. HIDE DEF G, V, Op, D, s
    <2>. QED
      BY <1>6
  <1>8. (x - 1)..last \subseteq {k \in D : s[k] \in V}
    <2>1. Upward(x - 1, last, {k \in D : s[k] \in V})
      <3>. HIDE DEF V, Op, s, G, last
      <3>. QED
        BY <1>1, <1>3, <1>7 DEF Upward
    <2>. HIDE DEF s, V, D, last
    <2>. QED
      BY <1>1, <2>1, AlongInterval
  <1>9. s \in [(x - 1)..(y) -> V]
    <2>. HIDE DEF V, Op, last
    <2>. QED
      BY <1>1, <1>6, <1>8
  <1>. HIDE DEF s, D, Op, last
  <1>10. x - 1 \in D /\ s[x - 1] = 0
    BY <1>1, <1>7
  <1>11. SumOf(a, x, y) = s[y]
    <2>1. CASE last < x
      BY <1>1, <1>2, <1>10, <2>1
    <2>2. CASE ~(last < x)
      BY <1>1, <1>2, <2>2
    <2>. QED
      BY <2>1, <2>2
  <1>12. \A k \in (x)..(y) : s[k] = Op(s[k - 1], k)
    BY <1>1, <1>7
  <1>. QED
    BY <1>9, <1>10, <1>11, <1>12 DEF Op

\* The sum of a subarray is the difference of two sums of first numbers.
LEMMA SumIsDifference ==
  ASSUME NEW n \in Nat, NEW a \in Rows(n), NEW q, Prefixes(n, a, q),
         NEW x \in 1..n, NEW y \in 1..n, x <= y
  PROVE  SumOf(a, x, y) = q[y] - q[x - 1]
PROOF
  <1>1. PICK r \in [(x - 1)..y -> Int] :
           /\ r[x - 1] = 0 /\ SumOf(a, x, y) = r[y]
           /\ \A k \in x..y : r[k] = r[k - 1] + a[k]
    BY SumRounds
  <1>2. /\ q \in [0..n -> Int] /\ \A k \in 1..n : q[k] = q[k - 1] + a[k]
        /\ \A k \in 1..n : a[k] \in Int
    BY DEF Prefixes, Rows
  <1>. DEFINE S == {k \in (x - 1)..y : r[k] = q[k] - q[x - 1]}
  <1>3. Upward(x - 1, y, S)
    <2>1. x - 1 \in S
      BY <1>1, <1>2
    <2>2. ASSUME NEW k \in x..y, k - 1 \in S PROVE k \in S
      <3>0. k \in 1..n
        OBVIOUS
      <3>1. r[k] = r[k - 1] + a[k] /\ q[k] = q[k - 1] + a[k] /\ r[k - 1] = q[k - 1] - q[x - 1]
        <4>1. r[k] = r[k - 1] + a[k]
          BY <1>1
        <4>2. q[k] = q[k - 1] + a[k]
          BY <1>2, <3>0
        <4>3. r[k - 1] = q[k - 1] - q[x - 1]
          BY <2>2
        <4>. QED
          BY <4>1, <4>2, <4>3
      <3>2. q[k - 1] \in Int /\ q[k] \in Int /\ q[x - 1] \in Int /\ a[k] \in Int
        BY <1>2
      <3>. QED
        BY <3>1, <3>2, SMTT(20)
    <2>. HIDE DEF S
    <2>. QED
      BY <2>1, <2>2 DEF Upward
  <1>4. (x - 1)..y \subseteq S
    <2>. DEFINE c == x - 1
    <2>1. c \in Int
      OBVIOUS
    <2>. HIDE DEF S, c
    <2>2. Upward(c, y, S) => c..y \subseteq S
      BY <2>1, AlongInterval
    <2>. QED
      BY <1>3, <2>2 DEF c
  <1>. QED
    BY <1>1, <1>4

\* z is the greatest sum of a subarray that ends at k.
BestAt(q, k, z) == /\ \E l \in 0..(k - 1) : z = q[k] - q[l]
                   /\ \A l \in 0..(k - 1) : q[k] - q[l] <= z

\* The recursion for the greatest sum that ends at k finds it.
LEMMA EndsBest ==
  ASSUME NEW n \in Nat, n >= 1, NEW a \in Rows(n), NEW q, Prefixes(n, a, q), NEW e, Ends(n, a, e)
  PROVE  \A k \in 1..n : BestAt(q, k, e[k])
PROOF
  <1>1. /\ q \in [0..n -> Int] /\ q[0] = 0 /\ \A k \in 1..n : q[k] = q[k - 1] + a[k]
        /\ e \in [1..n -> Int] /\ e[1] = a[1]
        /\ \A k \in 2..n : e[k] = a[k] + (IF e[k - 1] > 0 THEN e[k - 1] ELSE 0)
        /\ \A k \in 1..n : a[k] \in Int
    BY DEF Prefixes, Ends, Rows
  <1>. DEFINE S == {k \in 1..n : BestAt(q, k, e[k])}
  <1>2. 1 \in S
    <2>1. 0..(1 - 1) = {0} /\ q[1] = q[0] + a[1] /\ q[1] \in Int
      BY <1>1
    <2>2. e[1] = q[1] - q[0]
      BY <1>1, <2>1
    <2>3. \A l \in 0..(1 - 1) : q[1] - q[l] = e[1]
      BY <2>1, <2>2
    <2>4. e[1] \in Int
      BY <1>1
    <2>. QED
      BY <2>1, <2>3, <2>4 DEF BestAt
  <1>3. ASSUME NEW k \in 2..n, k - 1 \in S PROVE k \in S
    <2>. DEFINE m == k - 1
    <2>0. m \in 1..n /\ k \in 1..n /\ m \in 0..n /\ k \in 0..n /\ k = m + 1
      OBVIOUS
    <2>1. /\ q[k] = q[m] + a[k] /\ e[k] = a[k] + (IF e[m] > 0 THEN e[m] ELSE 0)
          /\ q[k] \in Int /\ q[m] \in Int /\ e[m] \in Int /\ a[k] \in Int
      <3>1. q[k] = q[m] + a[k]
        BY <1>1, <2>0
      <3>2. e[k] = a[k] + (IF e[m] > 0 THEN e[m] ELSE 0)
        BY <1>1
      <3>. HIDE DEF m
      <3>. QED
        BY <1>1, <2>0, <3>1, <3>2
    <2>2. PICK l \in 0..(m - 1) : e[m] = q[m] - q[l]
      BY <1>3 DEF BestAt
    <2>3. \A i \in 0..(m - 1) : q[m] - q[i] <= e[m]
      BY <1>3 DEF BestAt
    <2>. HIDE DEF m
    <2>4. q[l] \in Int /\ l \in 0..(k - 1) /\ m \in 0..(k - 1)
      <3>1. l \in 0..n /\ l \in 0..(k - 1) /\ m \in 0..(k - 1)
        BY <2>0
      <3>. QED
        BY <1>1, <3>1
    <2>5. e[k] = q[k] - q[IF e[m] > 0 THEN l ELSE m]
      BY <2>0, <2>1, <2>2, <2>4
    <2>6. ASSUME NEW i \in 0..(k - 1) PROVE q[k] - q[i] <= e[k]
      <3>1. q[i] \in Int
        BY <1>1
      <3>2. CASE i = m
        BY <2>0, <2>1, <3>1, <3>2
      <3>3. CASE i # m
        <4>1. i \in 0..(m - 1)
          BY <2>0, <3>3
        <4>2. q[m] - q[i] <= e[m]
          BY <2>3, <4>1
        <4>. QED
          BY <2>0, <2>1, <3>1, <4>2
      <3>. QED
        BY <3>2, <3>3
    <2>7. (IF e[m] > 0 THEN l ELSE m) \in 0..(k - 1)
      BY <2>4
    <2>8. BestAt(q, k, e[k])
      BY <2>5, <2>6, <2>7 DEF BestAt
    <2>. QED
      BY <2>0, <2>8
  <1>. HIDE DEF S
  <1>4. Upward(1, n, S)
    BY <1>2, <1>3 DEF Upward
  <1>5. 1..n \subseteq S
    BY <1>4, AlongInterval
  <1>. QED
    BY <1>5 DEF S

\* Finitely many numbers have a greatest one.
LEMMA RowBounded ==
  ASSUME NEW n \in Nat, n >= 1, NEW e \in Rows(n)
  PROVE  \E m \in 1..n : \A k \in 1..n : e[k] <= e[m]
PROOF
  <1>. DEFINE S == {j \in 1..n : \E m \in 1..j : \A k \in 1..j : e[k] <= e[m]}
  <1>0. \A k \in 1..n : e[k] \in Int
    BY DEF Rows
  <1>1. 1 \in S
    <2>1. \A k \in 1..1 : k = 1
      OBVIOUS
    <2>2. 1 \in 1..1 /\ 1 \in 1..n /\ e[1] <= e[1]
      BY <1>0
    <2>3. \A k \in 1..1 : e[k] <= e[1]
      BY <2>1, <2>2
    <2>. QED
      BY <2>2, <2>3
  <1>2. ASSUME NEW j \in 2..n, j - 1 \in S PROVE j \in S
    <2>1. PICK m \in 1..(j - 1) : \A k \in 1..(j - 1) : e[k] <= e[m]
      BY <1>2
    <2>2. m \in 1..n /\ j \in 1..n /\ e[m] \in Int /\ e[j] \in Int
      BY <1>0
    <2>. DEFINE w == IF e[j] > e[m] THEN j ELSE m
    <2>3. w \in 1..j
      OBVIOUS
    <2>4. ASSUME NEW k \in 1..j PROVE e[k] <= e[w]
      <3>1. k \in 1..n /\ e[k] \in Int
        BY <1>0
      <3>2. CASE k = j
        BY <2>2, <3>2
      <3>3. CASE k # j
        <4>1. k \in 1..(j - 1)
          BY <3>3
        <4>2. e[k] <= e[m]
          BY <2>1, <4>1
        <4>. QED
          BY <2>2, <3>1, <4>2
      <3>. QED
        BY <3>2, <3>3
    <2>. HIDE DEF w
    <2>. QED
      BY <2>2, <2>3, <2>4
  <1>. HIDE DEF S
  <1>3. Upward(1, n, S)
    BY <1>1, <1>2 DEF Upward
  <1>4. 1..n \subseteq S
    BY <1>3, AlongInterval
  <1>5. n \in S
    BY <1>4
  <1>. QED
    BY <1>5 DEF S

\* What is in a set and no less than its members is its greatest member.
LEMMA GreatestIs ==
  ASSUME NEW S \in SUBSET Int, NEW z \in S, \A x \in S : x <= z
  PROVE  Max(S) = z
PROOF
  <1>1. S # {} /\ z \in Int
    OBVIOUS
  <1>2. Max(S) \in S /\ \A x \in S : x <= Max(S)
    BY <1>1, GreatestOf
  <1>3. Max(S) \in Int /\ Max(S) <= z /\ z <= Max(S)
    BY <1>2
  <1>. QED
    BY <1>1, <1>3

\* The greatest sum of all the subarrays is the greatest of those that end at a position.
LEMMA BruteForceMax ==
  ASSUME NEW n \in Nat, n >= 1, NEW a \in Rows(n), NEW e, Ends(n, a, e)
  PROVE  maxSubArray(a) = Max({e[k] : k \in 1..n})
PROOF
  <1>. DEFINE P == {p \in (1..n) \X (1..n) : p[1] <= p[2]}
              T == {SumOf(a, p[1], p[2]) : p \in P}
              U == {e[k] : k \in 1..n}
  <1>1. maxSubArray(a) = Max(T)
    BY ArrayFacts DEF maxSubArray
  <1>2. PICK q : Prefixes(n, a, q)
    BY PrefixesExist
  <1>3. \A k \in 1..n : BestAt(q, k, e[k])
    BY <1>2, EndsBest
  <1>4. q \in [0..n -> Int] /\ e \in Rows(n) /\ \A k \in 1..n : e[k] \in Int
    BY <1>2 DEF Prefixes, Ends, Rows
  <1>5. PICK m \in 1..n : \A k \in 1..n : e[k] <= e[m]
    BY <1>4, RowBounded
  <1>6. Max(U) = e[m]
    <2>1. U \in SUBSET Int /\ e[m] \in U /\ \A x \in U : x <= e[m]
      BY <1>4, <1>5
    <2>. HIDE DEF U
    <2>. QED
      BY <2>1, GreatestIs
  <1>7. ASSUME NEW p \in P PROVE SumOf(a, p[1], p[2]) \in Int /\ SumOf(a, p[1], p[2]) <= e[m]
    <2>. DEFINE x == p[1]
                y == p[2]
                w == x - 1
    <2>1. x \in 1..n /\ y \in 1..n /\ x <= y
      OBVIOUS
    <2>. HIDE DEF x, y
    <2>2. SumOf(a, x, y) = q[y] - q[w]
      BY <1>2, <2>1, SumIsDifference
    <2>3. w \in 0..(y - 1) /\ w \in 0..n /\ y \in 0..n
      BY <2>1
    <2>. HIDE DEF w
    <2>4. q[y] - q[w] <= e[y]
      BY <1>3, <2>1, <2>3 DEF BestAt
    <2>5. e[y] <= e[m] /\ q[y] \in Int /\ q[w] \in Int /\ e[y] \in Int /\ e[m] \in Int
      BY <1>4, <1>5, <2>1, <2>3
    <2>6. SumOf(a, x, y) \in Int /\ SumOf(a, x, y) <= e[m]
      BY <2>2, <2>4, <2>5
    <2>. QED
      BY <2>6 DEF x, y
  <1>8. e[m] \in T
    <2>1. PICK l \in 0..(m - 1) : e[m] = q[m] - q[l]
      BY <1>3 DEF BestAt
    <2>. DEFINE x == l + 1
    <2>2. x \in 1..n /\ x <= m /\ x - 1 = l
      OBVIOUS
    <2>. HIDE DEF x
    <2>3. SumOf(a, x, m) = e[m]
      BY <1>2, <2>1, <2>2, SumIsDifference
    <2>4. <<x, m>> \in P
      BY <2>2
    <2>. QED
      BY <2>3, <2>4
  <1>9. Max(T) = e[m]
    <2>1. T \in SUBSET Int /\ \A x \in T : x <= e[m]
      BY <1>7
    <2>. HIDE DEF T
    <2>. QED
      BY <1>8, <2>1, GreatestIs
  <1>. QED
    BY <1>1, <1>6, <1>9

\* The greedy pass.
LEMMA GreedyRounds ==
  ASSUME NEW n \in Nat,
         n >= 1,
         NEW a \in Rows(n)
  PROVE  \E r \in [0..n -> [cur : Int, max : SUBSET Int]] :
           /\ r[0] = [cur |-> 0, max |-> {}] /\ maxSubArray1(a) = Max(r[n].max)
           /\ \A k \in 1..n : r[k] = greedy(r[k - 1], a[k])
PROOF
  <1>. DEFINE V == [cur : Int, max : SUBSET Int]
              last == Len(a)
              D == (1 - 1)..last
              Op(b, k) == greedy(b, a[k])
              G == [k \in 1..last |-> [b \in V |-> Op(b, k)]]
              Eq(r) == r = [k \in D |-> IF k < 1 THEN [cur |-> 0, max |-> {}] ELSE Op(r[k - 1], k)]
              s == CHOOSE r : Eq(r)
  <1>1. /\ last = n /\ last \in Int /\ 1 \in Int /\ 1 <= last + 1
        /\ 1 - 1 = 0 /\ D = 0..n /\ [cur |-> 0, max |-> {}] \in V
    BY ArrayFacts
  <1>2. maxSubArray1(a) = Max((IF last < 1 THEN [cur |-> 0, max |-> {}] ELSE s[last]).max)
    BY DEF maxSubArray1, For
  <1>3. ASSUME NEW k \in 1..last, NEW b \in V PROVE Op(b, k) \in V /\ G[k][b] = Op(b, k)
    <2>0. Op(b, k) \in V
      <3>1. k \in 1..n
        BY <1>1
      <3>. QED
        BY <3>1 DEF greedy, Rows
    <2>. QED
      BY <2>0
  <1>4. PICK q \in [D -> V] : \A k \in D : q[k] = IF k < 1 THEN [cur |-> 0, max |-> {}] ELSE G[k][q[k - 1]]
    <2>1. LoopBody(1, last, V, G)
      <3>. HIDE DEF G, V, Op, last
      <3>. QED
        BY <1>3 DEF LoopBody
    <2>. DEFINE B == [cur |-> 0, max |-> {}]
    <2>2. B \in V
      BY <1>1
    <2>3. PICK q : LoopRun(1, last, V, B, G, q)
      <3>. HIDE DEF G, V, last, B
      <3>. QED
        BY <1>1, <2>1, <2>2, LoopExists
    <2>. HIDE DEF G, V, last, B
    <2>4. q \in [D -> V] /\ \A k \in D : q[k] = IF k < 1 THEN B ELSE G[k][q[k - 1]]
      BY <2>3 DEF LoopRun
    <2>. QED
      BY <2>4 DEF B
  <1>5. Eq(q)
    <2>1. ASSUME NEW k \in D PROVE q[k] = IF k < 1 THEN [cur |-> 0, max |-> {}] ELSE Op(q[k - 1], k)
      <3>1. k >= 1 => k \in 1..last /\ k - 1 \in D /\ q[k - 1] \in V
        <4>. HIDE DEF G, V, Op, last
        <4>. QED
          BY <1>1, <1>4
      <3>2. k \in Int
        BY <1>1
      <3>. HIDE DEF G, V, Op, D, last
      <3>. QED
        BY <1>1, <1>3, <1>4, <3>1, <3>2
    <2>. HIDE DEF G, V, Op, D
    <2>. QED
      BY <1>4, <2>1
  <1>6. Eq(s)
    <2>. HIDE DEF Eq
    <2>. QED
      BY <1>5, Zenon
  <1>7. ASSUME NEW k \in D PROVE s[k] = IF k < 1 THEN [cur |-> 0, max |-> {}] ELSE Op(s[k - 1], k)
    <2>. HIDE DEF G, V, Op, D, s
    <2>. QED
      BY <1>6
  <1>8. 0..last \subseteq {k \in D : s[k] \in V}
    <2>1. Upward(0, last, {k \in D : s[k] \in V})
      <3>. HIDE DEF V, Op, s, G, last
      <3>. QED
        BY <1>1, <1>3, <1>7 DEF Upward
    <2>. HIDE DEF s, V, D, last
    <2>. QED
      BY <1>1, <2>1, AlongInterval
  <1>9. s \in [0..n -> V]
    <2>. HIDE DEF V, Op, last
    <2>. QED
      BY <1>1, <1>6, <1>8
  <1>. HIDE DEF s, D, Op, last
  <1>10. 0 \in D /\ s[0] = [cur |-> 0, max |-> {}]
    BY <1>1, <1>7
  <1>11. maxSubArray1(a) = Max(s[n].max)
    <2>1. CASE last < 1
      BY <1>1, <1>2, <1>10, <2>1
    <2>2. CASE ~(last < 1)
      BY <1>1, <1>2, <2>2
    <2>. QED
      BY <2>1, <2>2
  <1>12. \A k \in 1..n : s[k] = Op(s[k - 1], k)
    BY <1>1, <1>7
  <1>. QED
    BY <1>9, <1>10, <1>11, <1>12 DEF Op

\* maxSubArray1: the greedy pass sees the greatest sum that ends at each position.
LEMMA GreedyMax ==
  ASSUME NEW n \in Nat, n >= 1, NEW a \in Rows(n), NEW e, Ends(n, a, e)
  PROVE  maxSubArray1(a) = Max({e[k] : k \in 1..n})
PROOF
  <1>. DEFINE V == [cur : Int, max : SUBSET Int]
  <1>1. PICK r \in [0..n -> V] :
           /\ r[0] = [cur |-> 0, max |-> {}] /\ maxSubArray1(a) = Max(r[n].max)
           /\ \A k \in 1..n : r[k] = greedy(r[k - 1], a[k])
    BY GreedyRounds
  <1>2. /\ e \in [1..n -> Int] /\ e[1] = a[1]
        /\ \A k \in 2..n : e[k] = a[k] + (IF e[k - 1] > 0 THEN e[k - 1] ELSE 0)
        /\ \A k \in 1..n : a[k] \in Int
    BY DEF Ends, Rows
  <1>. DEFINE S == {k \in 1..n : /\ r[k].max = {e[l] : l \in 1..k}
                                 /\ r[k].cur = IF e[k] < 0 THEN 0 ELSE e[k]}
  <1>3. ASSUME NEW k \in 1..n
        PROVE  /\ r[k].max = r[k - 1].max \union {r[k - 1].cur + a[k]}
               /\ r[k].cur = IF r[k - 1].cur + a[k] < 0 THEN 0 ELSE r[k - 1].cur + a[k]
    <2>1. r[k] = greedy(r[k - 1], a[k])
      BY <1>1
    <2>. DEFINE b == r[k - 1]
    <2>2. r[k] = greedy(b, a[k])
      BY <2>1
    <2>. HIDE DEF b
    <2>3. /\ r[k].max = b.max \union {b.cur + a[k]}
          /\ r[k].cur = IF b.cur + a[k] < 0 THEN 0 ELSE b.cur + a[k]
      BY <2>2 DEF greedy
    <2>. QED
      BY <2>3 DEF b
  <1>4. 1 \in S
    <2>1. r[1 - 1] = r[0]
      OBVIOUS
    <2>2. r[1].max = {} \union {0 + a[1]} /\ r[1].cur = IF 0 + a[1] < 0 THEN 0 ELSE 0 + a[1]
      BY <1>1, <1>3, <2>1
    <2>3. 0 + a[1] = e[1] /\ 1..1 = {1}
      BY <1>2
    <2>4. {e[l] : l \in 1..1} = {e[1]}
      BY <2>3
    <2>5. r[1].max = {e[l] : l \in 1..1}
      BY <2>2, <2>3, <2>4
    <2>6. r[1].cur = IF e[1] < 0 THEN 0 ELSE e[1]
      BY <2>2, <2>3
    <2>. QED
      BY <2>5, <2>6
  <1>5. ASSUME NEW k \in 2..n, k - 1 \in S PROVE k \in S
    <2>. DEFINE m == k - 1
    <2>1. m \in 1..n /\ k \in 1..n /\ e[m] \in Int /\ a[k] \in Int
      BY <1>2
    <2>2. r[m].max = {e[l] : l \in 1..m} /\ r[m].cur = IF e[m] < 0 THEN 0 ELSE e[m]
      BY <1>5
    <2>3. r[m].cur + a[k] = e[k]
      BY <1>2, <2>1, <2>2, SMTT(20)
    <2>4. 1..k = (1..m) \union {k}
      OBVIOUS
    <2>5. {e[l] : l \in 1..k} = {e[l] : l \in 1..m} \union {e[k]}
      <3>. HIDE DEF m
      <3>. QED
        BY <2>4
    <2>6. r[k].max = r[m].max \union {r[m].cur + a[k]} /\ r[k].cur = IF e[k] < 0 THEN 0 ELSE e[k]
      BY <1>3, <2>3
    <2>. HIDE DEF m
    <2>. QED
      BY <2>1, <2>2, <2>3, <2>5, <2>6
  <1>. HIDE DEF S
  <1>6. Upward(1, n, S)
    BY <1>4, <1>5 DEF Upward
  <1>7. 1..n \subseteq S
    BY <1>6, AlongInterval
  <1>8. n \in S
    BY <1>7
  <1>. QED
    BY <1>1, <1>8 DEF S

\* A number to which the sum that ends before it is added, if that is positive.
Added(b, k) == IF b[k - 1] > 0 THEN [b EXCEPT ![k] = b[k] + b[k - 1]] ELSE b
GreatestAt(a, b) == Max({b[i] : i \in Positions(a)})

\* The pass that adds.
LEMMA AddedRounds ==
  ASSUME NEW n \in Nat,
         n >= 1,
         NEW a \in Rows(n)
  PROVE  \E r \in [1..n -> Rows(n)] :
           /\ r[1] = a /\ maxSubArray2(a) = GreatestAt(a, r[n])
           /\ \A k \in 2..n : r[k] = Added(r[k - 1], k)
PROOF
  <1>. DEFINE V == Rows(n)
              last == Len(a)
              D == (2 - 1)..last
              Op(b, k) == Added(b, k)
              G == [k \in 2..last |-> [b \in V |-> Op(b, k)]]
              Eq(r) == r = [k \in D |-> IF k < 2 THEN a ELSE Op(r[k - 1], k)]
              s == CHOOSE r : Eq(r)
  <1>1. /\ last = n /\ last \in Int /\ 2 \in Int /\ 2 <= last + 1
        /\ 2 - 1 = 1 /\ D = 1..n /\ a \in V
    BY ArrayFacts
  <1>2. maxSubArray2(a) = GreatestAt(a, (IF last < 2 THEN a ELSE s[last]))
    BY DEF maxSubArray2, For, Added, GreatestAt
  <1>3. ASSUME NEW k \in 2..last, NEW b \in V PROVE Op(b, k) \in V /\ G[k][b] = Op(b, k)
    <2>0. Op(b, k) \in V
      <3>1. k \in 1..n /\ k - 1 \in 1..n
        BY <1>1
      <3>. QED
        BY <3>1 DEF Added, Rows
    <2>. QED
      BY <2>0
  <1>4. PICK q \in [D -> V] : \A k \in D : q[k] = IF k < 2 THEN a ELSE G[k][q[k - 1]]
    <2>1. LoopBody(2, last, V, G)
      <3>. HIDE DEF G, V, Op, last
      <3>. QED
        BY <1>3 DEF LoopBody
    <2>. DEFINE B == a
    <2>2. B \in V
      BY <1>1
    <2>3. PICK q : LoopRun(2, last, V, B, G, q)
      <3>. HIDE DEF G, V, last, B
      <3>. QED
        BY <1>1, <2>1, <2>2, LoopExists
    <2>. HIDE DEF G, V, last, B
    <2>4. q \in [D -> V] /\ \A k \in D : q[k] = IF k < 2 THEN B ELSE G[k][q[k - 1]]
      BY <2>3 DEF LoopRun
    <2>. QED
      BY <2>4 DEF B
  <1>5. Eq(q)
    <2>1. ASSUME NEW k \in D PROVE q[k] = IF k < 2 THEN a ELSE Op(q[k - 1], k)
      <3>1. k >= 2 => k \in 2..last /\ k - 1 \in D /\ q[k - 1] \in V
        <4>. HIDE DEF G, V, Op, last
        <4>. QED
          BY <1>1, <1>4
      <3>2. k \in Int
        BY <1>1
      <3>. HIDE DEF G, V, Op, D, last
      <3>. QED
        BY <1>1, <1>3, <1>4, <3>1, <3>2
    <2>. HIDE DEF G, V, Op, D
    <2>. QED
      BY <1>4, <2>1
  <1>6. Eq(s)
    <2>. HIDE DEF Eq
    <2>. QED
      BY <1>5, Zenon
  <1>7. ASSUME NEW k \in D PROVE s[k] = IF k < 2 THEN a ELSE Op(s[k - 1], k)
    <2>. HIDE DEF G, V, Op, D, s
    <2>. QED
      BY <1>6
  <1>8. 1..last \subseteq {k \in D : s[k] \in V}
    <2>1. Upward(1, last, {k \in D : s[k] \in V})
      <3>. HIDE DEF V, Op, s, G, last
      <3>. QED
        BY <1>1, <1>3, <1>7 DEF Upward
    <2>. HIDE DEF s, V, D, last
    <2>. QED
      BY <1>1, <2>1, AlongInterval
  <1>9. s \in [1..n -> V]
    <2>. HIDE DEF V, Op, last
    <2>. QED
      BY <1>1, <1>6, <1>8
  <1>. HIDE DEF s, D, Op, last
  <1>10. 1 \in D /\ s[1] = a
    BY <1>1, <1>7
  <1>11. maxSubArray2(a) = GreatestAt(a, s[n])
    <2>1. CASE last < 2
      BY <1>1, <1>2, <1>10, <2>1
    <2>2. CASE ~(last < 2)
      BY <1>1, <1>2, <2>2
    <2>. QED
      BY <2>1, <2>2
  <1>12. \A k \in 2..n : s[k] = Op(s[k - 1], k)
    BY <1>1, <1>7
  <1>. QED
    BY <1>9, <1>10, <1>11, <1>12 DEF Op

\* maxSubArray2: after the pass every position holds the greatest sum that ends there.
LEMMA AddedMax ==
  ASSUME NEW n \in Nat, n >= 1, NEW a \in Rows(n), NEW e, Ends(n, a, e)
  PROVE  maxSubArray2(a) = Max({e[k] : k \in 1..n})
PROOF
  <1>1. PICK r \in [1..n -> Rows(n)] :
           /\ r[1] = a /\ maxSubArray2(a) = GreatestAt(a, r[n])
           /\ \A k \in 2..n : r[k] = Added(r[k - 1], k)
    BY AddedRounds
  <1>2. /\ e \in [1..n -> Int] /\ e[1] = a[1]
        /\ \A k \in 2..n : e[k] = a[k] + (IF e[k - 1] > 0 THEN e[k - 1] ELSE 0)
        /\ \A k \in 1..n : a[k] \in Int
    BY DEF Ends, Rows
  <1>. DEFINE S == {k \in 1..n : \A l \in 1..n : r[k][l] = IF l <= k THEN e[l] ELSE a[l]}
  <1>3. 1 \in S
    BY <1>1, <1>2
  <1>4. ASSUME NEW k \in 2..n, k - 1 \in S PROVE k \in S
    <2>. DEFINE m == k - 1
                b == r[m]
    <2>1. /\ m \in 1..n /\ k \in 1..n /\ e[m] \in Int /\ a[k] \in Int /\ b \in Rows(n)
          /\ r[k] = Added(b, k) /\ ~(k <= m) /\ m <= m
      BY <1>1, <1>2
    <2>2. \A l \in 1..n : b[l] = IF l <= m THEN e[l] ELSE a[l]
      BY <1>4
    <2>3. b[k] = a[k] /\ b[k - 1] = e[m]
      BY <2>1, <2>2
    <2>4. e[k] = a[k] + (IF e[m] > 0 THEN e[m] ELSE 0)
      BY <1>2
    <2>. HIDE DEF b
    <2>5. \A l \in 1..n : Added(b, k)[l] = IF l = k THEN e[k] ELSE b[l]
      <3>1. CASE e[m] > 0
        <4>1. Added(b, k) = [b EXCEPT ![k] = b[k] + b[k - 1]]
          BY <2>3, <3>1 DEF Added
        <4>. DEFINE c == b[k] + b[k - 1]
        <4>2. c = e[k]
          BY <2>3, <2>4, <3>1
        <4>. HIDE DEF c
        <4>. QED
          BY <2>1, <4>1, <4>2 DEF Rows, c
      <3>2. CASE ~(e[m] > 0)
        <4>1. Added(b, k) = b
          BY <2>3, <3>2 DEF Added
        <4>2. e[k] = b[k]
          BY <2>1, <2>3, <2>4, <3>2
        <4>. QED
          BY <4>1, <4>2
      <3>. QED
        BY <3>1, <3>2
    <2>6. \A l \in 1..n : l # k => (l <= k <=> l <= m)
      OBVIOUS
    <2>. HIDE DEF m
    <2>7. \A l \in 1..n : r[k][l] = IF l <= k THEN e[l] ELSE a[l]
      BY <2>1, <2>2, <2>5, <2>6
    <2>. QED
      BY <2>1, <2>7
  <1>. HIDE DEF S
  <1>5. Upward(1, n, S)
    BY <1>3, <1>4 DEF Upward
  <1>6. 1..n \subseteq S
    BY <1>5, AlongInterval
  <1>7. n \in S
    BY <1>6
  <1>8. \A k \in 1..n : r[n][k] = e[k]
    BY <1>7 DEF S
  <1>9. {r[n][i] : i \in Positions(a)} = {e[k] : k \in 1..n}
    <2>1. Positions(a) = 1..n
      BY ArrayFacts
    <2>. QED
      BY <1>8, <2>1
  <1>. QED
    BY <1>1, <1>9 DEF GreatestAt

\* The three functions for the greatest subarray agree.
LEMMA SubArraysAgree ==
  ASSUME NEW n \in Nat, n >= 1, NEW a \in Rows(n)
  PROVE  maxSubArray1(a) = maxSubArray(a) /\ maxSubArray2(a) = maxSubArray(a)
PROOF
  <1>1. PICK e : Ends(n, a, e)
    BY EndsExist
  <1>2. maxSubArray(a) = Max({e[k] : k \in 1..n})
    BY <1>1, BruteForceMax
  <1>3. maxSubArray1(a) = Max({e[k] : k \in 1..n})
    BY <1>1, GreedyMax
  <1>4. maxSubArray2(a) = Max({e[k] : k \in 1..n})
    BY <1>1, AddedMax
  <1>. QED
    BY <1>2, <1>3, <1>4
-----------------------------------------------------------------------------
(***************************************************************************)
(* The sums of three numbers.                                              *)
(***************************************************************************)
\* Three values in two orders.
Same3(x, y, z, u, v, w) ==
  \/ u = x /\ v = y /\ w = z
  \/ u = x /\ v = z /\ w = y
  \/ u = y /\ v = x /\ w = z
  \/ u = y /\ v = z /\ w = x
  \/ u = z /\ v = x /\ w = y
  \/ u = z /\ v = y /\ w = x

Ordered3(x, y, z, u, v, w) ==
  /\ x \in Int /\ y \in Int /\ z \in Int /\ u \in Int /\ v \in Int /\ w \in Int
  /\ Same3(x, y, z, u, v, w) /\ u <= v /\ v <= w

\* Three numbers in order are what the sort makes of them.
LEMMA ThreeSorted ==
  ASSUME NEW x, NEW y, NEW z, NEW u, NEW v, NEW w, Ordered3(x, y, z, u, v, w)
  PROVE  sorted(<<x, y, z>>) = <<u, v, w>>
PROOF
  <1>. USE DEF Ordered3
  <1>. DEFINE a == <<x, y, z>>
              b == <<u, v, w>>
              p == IF u = x /\ v = y /\ w = z THEN <<1, 2, 3>>
                   ELSE IF u = x /\ v = z /\ w = y THEN <<1, 3, 2>>
                   ELSE IF u = y /\ v = x /\ w = z THEN <<2, 1, 3>>
                   ELSE IF u = y /\ v = z /\ w = x THEN <<2, 3, 1>>
                   ELSE IF u = z /\ v = x /\ w = y THEN <<3, 1, 2>>
                   ELSE <<3, 2, 1>>
  <1>1. a \in Rows(3) /\ b \in Rows(3) /\ 3 \in Nat
    BY DEF Rows
  <1>2. \A k \in 1..3 : k = 1 \/ k = 2 \/ k = 3
    OBVIOUS
  <1>3. Ascending(3, b)
    <2>1. b[1] <= b[2] /\ b[2] <= b[3] /\ b[1] <= b[3] /\ b[1] <= b[1] /\ b[2] <= b[2] /\ b[3] <= b[3]
      OBVIOUS
    <2>. HIDE DEF b
    <2>. QED
      BY <1>2, <2>1 DEF Ascending
  <1>4. Rearranged(3, b, a)
    <2>1. b[1] = a[p[1]] /\ b[2] = a[p[2]] /\ b[3] = a[p[3]]
      BY DEF Same3
    <2>2. \/ p = <<1, 2, 3>> \/ p = <<1, 3, 2>> \/ p = <<2, 1, 3>>
          \/ p = <<2, 3, 1>> \/ p = <<3, 1, 2>> \/ p = <<3, 2, 1>>
      <3>. HIDE DEF a, b
      <3>. QED
        OBVIOUS
    <2>. HIDE DEF p, a, b
    <2>3. /\ p \in [1..3 -> 1..3] /\ p[1] # p[2] /\ p[1] # p[3] /\ p[2] # p[3]
          /\ \A t \in 1..3 : p[1] = t \/ p[2] = t \/ p[3] = t
      BY <2>2
    <2>4. \A k, l \in 1..3 : p[k] = p[l] => k = l
      BY <1>2, <2>3
    <2>5. \A t \in 1..3 : \E k \in 1..3 : p[k] = t
      BY <2>3
    <2>6. Shuffle(3, 1, 3, p)
      BY <2>3, <2>4, <2>5 DEF Shuffle, Bijects
    <2>7. \A k \in 1..3 : b[k] = a[p[k]]
      BY <1>2, <2>1
    <2>. QED
      BY <2>6, <2>7 DEF Rearranged, Shuffled
  <1>. HIDE DEF a, b
  <1>5. Sorts(3, a, b)
    BY <1>1, <1>3, <1>4, RearrangedBack DEF Sorts
  <1>6. Sorts(3, a, sorted(a))
    BY <1>1, SortedSorts
  <1>7. sorted(a) = b
    BY <1>1, <1>5, <1>6, SortedOnce
  <1>. QED
    BY <1>7 DEF a, b

\* What is at three positions is at three positions of a rearrangement.
LEMMA ThreeMoved ==
  ASSUME NEW n \in Nat, NEW a, NEW b, Rearranged(n, a, b),
         NEW x \in 1..n, NEW y \in 1..n, NEW z \in 1..n, x < y, y < z
  PROVE  \E u, v, w \in 1..n : u < v /\ v < w /\ Same3(a[x], a[y], a[z], b[u], b[v], b[w])
PROOF
  <1>1. PICK p : Shuffle(n, 1, n, p) /\ \A k \in 1..n : a[k] = b[p[k]]
    BY DEF Rearranged, Shuffled
  <1>2. p \in [1..n -> 1..n] /\ \A k, l \in 1..n : p[k] = p[l] => k = l
    BY <1>1 DEF Shuffle, Bijects
  <1>3. p[x] # p[y] /\ p[x] # p[z] /\ p[y] # p[z]
    BY <1>2
  <1>4. \E u, v, w \in 1..n : u < v /\ v < w /\ Same3(p[x], p[y], p[z], u, v, w)
    <2>. DEFINE i == p[x]
                j == p[y]
                k == p[z]
    <2>1. i \in 1..n /\ j \in 1..n /\ k \in 1..n /\ i # j /\ i # k /\ j # k
      BY <1>2, <1>3
    <2>. HIDE DEF i, j, k
    <2>2. \E u, v, w \in 1..n : u < v /\ v < w /\ Same3(i, j, k, u, v, w)
      <3>1. \/ i < j /\ j < k
            \/ i < k /\ k < j
            \/ j < i /\ i < k
            \/ j < k /\ k < i
            \/ k < i /\ i < j
            \/ k < j /\ j < i
        BY <2>1
      <3>. QED
        BY <2>1, <3>1 DEF Same3
    <2>. QED
      BY <2>2 DEF i, j, k
  <1>5. PICK u \in 1..n, v \in 1..n, w \in 1..n : u < v /\ v < w /\ Same3(p[x], p[y], p[z], u, v, w)
    BY <1>4
  <1>6. Same3(a[x], a[y], a[z], b[u], b[v], b[w])
    <2>1. a[x] = b[p[x]] /\ a[y] = b[p[y]] /\ a[z] = b[p[z]]
      BY <1>1
    <2>. QED
      BY <1>5, <2>1 DEF Same3
  <1>. QED
    BY <1>5, <1>6

\* The triples of an array with the sum 0, in the order of the array; those that start up to m.
TriplesUpTo(n, a, m) ==
  {t \in Int \X Int \X Int :
     \E i, j, k \in 1..n : /\ i <= m /\ i < j /\ j < k /\ a[i] + a[j] + a[k] = 0
                           /\ t = <<a[i], a[j], a[k]>>}
Triples(n, a) == TriplesUpTo(n, a, n)

\* threeSum: the triples of the array are those of any of its sorts.
LEMMA ThreeSumTriples ==
  ASSUME NEW n \in Nat, NEW a \in Rows(n), NEW s, Sorts(n, a, s)
  PROVE  threeSum(a) = Triples(n, s)
PROOF
  <1>1. Positions(a) = 1..n
    BY ArrayFacts
  <1>2. s \in Rows(n) /\ Rearranged(n, a, s) /\ Rearranged(n, s, a) /\ Ascending(n, s)
    BY RearrangedBack DEF Sorts
  <1>3. \A k \in 1..n : a[k] \in Int /\ s[k] \in Int
    BY <1>2 DEF Rows
  <1>. DEFINE P == {t \in (1..n) \X (1..n) \X (1..n) :
                      t[1] < t[2] /\ t[2] < t[3] /\ a[t[1]] + a[t[2]] + a[t[3]] = 0}
              T == {sorted(<<a[t[1]], a[t[2]], a[t[3]]>>) : t \in P}
  <1>4. threeSum(a) = T
    BY <1>1 DEF threeSum
  <1>5. ASSUME NEW e \in T PROVE e \in Triples(n, s)
    <2>1. PICK t \in P : e = sorted(<<a[t[1]], a[t[2]], a[t[3]]>>)
      OBVIOUS
    <2>. DEFINE x == t[1]
                y == t[2]
                z == t[3]
    <2>2. x \in 1..n /\ y \in 1..n /\ z \in 1..n /\ x < y /\ y < z /\ a[x] + a[y] + a[z] = 0
      OBVIOUS
    <2>3. e = sorted(<<a[x], a[y], a[z]>>)
      BY <2>1
    <2>. HIDE DEF x, y, z, P, T
    <2>4. PICK u \in 1..n, v \in 1..n, w \in 1..n :
            u < v /\ v < w /\ Same3(a[x], a[y], a[z], s[u], s[v], s[w])
      BY <1>2, <2>2, ThreeMoved
    <2>5. s[u] <= s[v] /\ s[v] <= s[w]
      BY <1>2, <2>4 DEF Ascending
    <2>6. e = <<s[u], s[v], s[w]>>
      <3>. DEFINE i == a[x]
                  j == a[y]
                  k == a[z]
                  c == s[u]
                  d == s[v]
                  f == s[w]
      <3>1. Ordered3(i, j, k, c, d, f)
        BY <1>3, <2>2, <2>4, <2>5 DEF Ordered3
      <3>. HIDE DEF i, j, k, c, d, f
      <3>2. sorted(<<i, j, k>>) = <<c, d, f>>
        BY <3>1, ThreeSorted
      <3>. QED
        BY <3>2, <2>3 DEF i, j, k, c, d, f
    <2>7. s[u] + s[v] + s[w] = 0
      <3>1. a[x] \in Int /\ a[y] \in Int /\ a[z] \in Int
        BY <1>3, <2>2
      <3>. QED
        BY <2>2, <2>4, <3>1 DEF Same3
    <2>8. s[u] \in Int /\ s[v] \in Int /\ s[w] \in Int /\ u <= n
      BY <1>3
    <2>. QED
      BY <2>4, <2>6, <2>7, <2>8 DEF Triples, TriplesUpTo
  <1>6. ASSUME NEW e \in Triples(n, s) PROVE e \in T
    <2>1. PICK u \in 1..n, v \in 1..n, w \in 1..n :
            u < v /\ v < w /\ s[u] + s[v] + s[w] = 0 /\ e = <<s[u], s[v], s[w]>>
      BY DEF Triples, TriplesUpTo
    <2>2. PICK x \in 1..n, y \in 1..n, z \in 1..n :
            x < y /\ y < z /\ Same3(s[u], s[v], s[w], a[x], a[y], a[z])
      BY <1>2, <2>1, ThreeMoved
    <2>3. s[u] <= s[v] /\ s[v] <= s[w]
      BY <1>2, <2>1 DEF Ascending
    <2>4. Same3(a[x], a[y], a[z], s[u], s[v], s[w])
      BY <2>2 DEF Same3
    <2>5. e = sorted(<<a[x], a[y], a[z]>>)
      <3>. DEFINE i == a[x]
                  j == a[y]
                  k == a[z]
                  c == s[u]
                  d == s[v]
                  f == s[w]
      <3>1. Ordered3(i, j, k, c, d, f)
        BY <1>3, <2>3, <2>4 DEF Ordered3
      <3>. HIDE DEF i, j, k, c, d, f, P, T
      <3>2. sorted(<<i, j, k>>) = <<c, d, f>>
        BY <3>1, ThreeSorted
      <3>. QED
        BY <3>2, <2>1 DEF i, j, k, c, d, f
    <2>6. a[x] + a[y] + a[z] = 0
      <3>1. s[u] \in Int /\ s[v] \in Int /\ s[w] \in Int
        BY <1>3
      <3>. QED
        BY <2>1, <2>2, <3>1 DEF Same3
    <2>. DEFINE t == <<x, y, z>>
    <2>7. t \in P
      BY <2>2, <2>6
    <2>8. e = sorted(<<a[t[1]], a[t[2]], a[t[3]]>>)
      BY <2>5
    <2>. HIDE DEF t, P
    <2>. QED
      BY <2>7, <2>8
  <1>. QED
    BY <1>4, <1>5, <1>6

\* The pairs between two positions which complete c to v.
PairsAt(a, c, v, low, high) ==
  {z \in Int \X Int :
     \E j, k \in low..high : j < k /\ c + a[j] + a[k] = v /\ z = <<a[j], a[k]>>}

\* Pointers that have met have no pair between them.
LEMMA PairsNone ==
  ASSUME NEW a, NEW c, NEW v, NEW low \in Int, NEW high \in Int, low >= high
  PROVE  PairsAt(a, c, v, low, high) = {}
PROOF
  BY DEF PairsAt

\* x1 and y1 lie inside x and y, and only numbers equal to those at x and y lie outside of them.
Inside(a, x, y, x1, y1) ==
  /\ x1 \in Int /\ y1 \in Int /\ x < x1 /\ y1 < y
  /\ \A k \in x..y : k < x1 => a[k] = a[x]
  /\ \A k \in x..y : k > y1 => a[k] = a[y]

\* A pair is found, and what is passed with it adds no other.
LEMMA PairsFound ==
  ASSUME NEW n \in Nat, NEW a \in Rows(n), NEW c \in Int, NEW v \in Int,
         NEW x \in 1..n, NEW y \in 1..n, x < y, c + a[x] + a[y] = v,
         NEW x1, NEW y1, Inside(a, x, y, x1, y1)
  PROVE  PairsAt(a, c, v, x, y) = {<<a[x], a[y]>>} \union PairsAt(a, c, v, x1, y1)
PROOF
  <1>. DEFINE t == <<a[x], a[y]>>
  <1>1. \A k \in x..y : a[k] \in Int
    BY DEF Rows
  <1>2. /\ x1 \in Int /\ y1 \in Int /\ x < x1 /\ y1 < y
        /\ \A k \in x..y : k < x1 => a[k] = a[x]
        /\ \A k \in x..y : k > y1 => a[k] = a[y]
    BY DEF Inside
  <1>3. t \in PairsAt(a, c, v, x, y)
    <2>1. x \in x..y /\ y \in x..y
      OBVIOUS
    <2>. QED
      BY <1>1, <2>1 DEF PairsAt
  <1>4. PairsAt(a, c, v, x1, y1) \subseteq PairsAt(a, c, v, x, y)
    <2>1. x1..y1 \subseteq x..y
      BY <1>2
    <2>. QED
      BY <2>1 DEF PairsAt
  <1>5. ASSUME NEW z \in PairsAt(a, c, v, x, y), z # t PROVE z \in PairsAt(a, c, v, x1, y1)
    <2>1. PICK j \in x..y, k \in x..y : j < k /\ c + a[j] + a[k] = v /\ z = <<a[j], a[k]>>
      BY DEF PairsAt
    <2>2. z \in Int \X Int
      BY DEF PairsAt
    <2>3. a[j] \in Int /\ a[k] \in Int /\ a[x] \in Int /\ a[y] \in Int
      BY <1>1
    <2>4. ~(j < x1)
      <3>. SUFFICES ASSUME j < x1 PROVE FALSE
        OBVIOUS
      <3>1. a[j] = a[x]
        BY <1>2
      <3>2. a[k] = a[y]
        BY <2>1, <2>3, <3>1
      <3>. QED
        BY <1>5, <2>1, <3>1, <3>2
    <2>5. ~(k > y1)
      <3>. SUFFICES ASSUME k > y1 PROVE FALSE
        OBVIOUS
      <3>1. a[k] = a[y]
        BY <1>2
      <3>2. a[j] = a[x]
        <4>1. c + a[j] + a[y] = c + a[x] + a[y]
          BY <2>1, <3>1
        <4>. QED
          BY <2>3, <4>1
      <3>. QED
        BY <1>5, <2>1, <3>1, <3>2
    <2>6. j \in x1..y1 /\ k \in x1..y1
      BY <1>2, <2>1, <2>4, <2>5
    <2>. QED
      BY <2>1, <2>2, <2>6 DEF PairsAt
  <1>. QED
    BY <1>3, <1>4, <1>5

Short(a, c, v, x, y) == c + a[x] + a[y] < v
Long(a, c, v, x, y) == c + a[x] + a[y] > v

\* If the sum is too small, no pair has the left number.
LEMMA PairsFromLeft ==
  ASSUME NEW n \in Nat, NEW a \in Rows(n), Ascending(n, a), NEW c \in Int, NEW v \in Int,
         NEW x \in 1..n, NEW y \in 1..n, x < y, Short(a, c, v, x, y)
  PROVE  PairsAt(a, c, v, x, y) = PairsAt(a, c, v, x + 1, y)
PROOF
  <1>1. \A k \in x..y : a[k] \in Int /\ a[k] <= a[y]
    BY DEF Rows, Ascending
  <1>. USE DEF Short
  <1>2. (x + 1)..y \subseteq x..y
    OBVIOUS
  <1>3. ASSUME NEW j \in x..y, NEW k \in x..y, j < k, c + a[j] + a[k] = v
        PROVE  j \in (x + 1)..y /\ k \in (x + 1)..y
    <2>1. a[j] \in Int /\ a[k] \in Int /\ a[k] <= a[y] /\ a[y] \in Int
      BY <1>1
    <2>2. j # x
      BY <1>3, <2>1
    <2>. QED
      BY <1>3, <2>2
  <1>. QED
    BY <1>2, <1>3 DEF PairsAt

\* If the sum is too great, no pair has the right number.
LEMMA PairsFromRight ==
  ASSUME NEW n \in Nat, NEW a \in Rows(n), Ascending(n, a), NEW c \in Int, NEW v \in Int,
         NEW x \in 1..n, NEW y \in 1..n, x < y, Long(a, c, v, x, y)
  PROVE  PairsAt(a, c, v, x, y) = PairsAt(a, c, v, x, y - 1)
PROOF
  <1>1. \A k \in x..y : a[k] \in Int /\ a[x] <= a[k]
    BY DEF Rows, Ascending
  <1>. USE DEF Long
  <1>2. x..(y - 1) \subseteq x..y
    OBVIOUS
  <1>3. ASSUME NEW j \in x..y, NEW k \in x..y, j < k, c + a[j] + a[k] = v
        PROVE  j \in x..(y - 1) /\ k \in x..(y - 1)
    <2>1. a[j] \in Int /\ a[k] \in Int /\ a[x] <= a[j] /\ a[x] \in Int
      BY <1>1
    <2>2. k # y
      BY <1>3, <2>1
    <2>. QED
      BY <1>3, <2>2
  <1>. QED
    BY <1>2, <1>3 DEF PairsAt

\* The triples that start with c.
With(c, Z) == {<<c, z[1], z[2]>> : z \in Z}

\* A number in front of one pair, of none and of two sets of pairs.
LEMMA WithFacts ==
  /\ \A c : With(c, {}) = {}
  /\ \A c, x, y : With(c, {<<x, y>>}) = {<<c, x, y>>}
  /\ \A c, Y, Z : With(c, Y \union Z) = With(c, Y) \union With(c, Z)
PROOF
  BY DEF With

\* The triples are the pairs behind each number, with this number in front.
LEMMA TriplesWith ==
  ASSUME NEW n \in Nat, NEW a \in Rows(n)
  PROVE  /\ Triples(n, a) = UNION {With(a[m], PairsAt(a, a[m], 0, m + 1, n)) : m \in 1..n}
         /\ TriplesUpTo(n, a, 0) = {}
         /\ \A m \in 1..n : TriplesUpTo(n, a, m) =
              TriplesUpTo(n, a, m - 1) \union With(a[m], PairsAt(a, a[m], 0, m + 1, n))
PROOF
  <1>1. \A k \in 1..n : a[k] \in Int
    BY DEF Rows
  <1>2. ASSUME NEW m \in 1..n, NEW t
        PROVE  t \in With(a[m], PairsAt(a, a[m], 0, m + 1, n)) <=>
                 \E j, k \in 1..n : m < j /\ j < k /\ a[m] + a[j] + a[k] = 0 /\ t = <<a[m], a[j], a[k]>>
    <2>1. ASSUME t \in With(a[m], PairsAt(a, a[m], 0, m + 1, n))
          PROVE  \E j, k \in 1..n : m < j /\ j < k /\ a[m] + a[j] + a[k] = 0 /\ t = <<a[m], a[j], a[k]>>
      <3>1. PICK z \in PairsAt(a, a[m], 0, m + 1, n) : t = <<a[m], z[1], z[2]>>
        BY <2>1 DEF With
      <3>2. PICK j \in (m + 1)..n, k \in (m + 1)..n : j < k /\ a[m] + a[j] + a[k] = 0 /\ z = <<a[j], a[k]>>
        BY DEF PairsAt
      <3>3. j \in 1..n /\ k \in 1..n /\ m < j /\ t = <<a[m], a[j], a[k]>>
        BY <3>1, <3>2
      <3>. QED
        BY <3>2, <3>3
    <2>2. ASSUME NEW j \in 1..n, NEW k \in 1..n, m < j, j < k, a[m] + a[j] + a[k] = 0,
                 t = <<a[m], a[j], a[k]>>
          PROVE  t \in With(a[m], PairsAt(a, a[m], 0, m + 1, n))
      <3>. DEFINE z == <<a[j], a[k]>>
      <3>1. z \in PairsAt(a, a[m], 0, m + 1, n)
        <4>1. j \in (m + 1)..n /\ k \in (m + 1)..n /\ z \in Int \X Int
          BY <1>1, <2>2
        <4>. QED
          BY <2>2, <4>1 DEF PairsAt
      <3>2. t = <<a[m], z[1], z[2]>>
        BY <2>2
      <3>. HIDE DEF z
      <3>. QED
        BY <3>1, <3>2 DEF With
    <2>. QED
      BY <2>1, <2>2
  <1>. DEFINE P(m, t) == \E j, k \in 1..n :
                m < j /\ j < k /\ a[m] + a[j] + a[k] = 0 /\ t = <<a[m], a[j], a[k]>>
              W(m) == With(a[m], PairsAt(a, a[m], 0, m + 1, n))
  <1>3. \A t : \A m \in 1..n : P(m, t) => t \in Int \X Int \X Int
    BY <1>1
  <1>4. \A m \in 0..n : \A t : t \in TriplesUpTo(n, a, m) <=> \E i \in 1..n : i <= m /\ P(i, t)
    <2>1. ASSUME NEW m \in 0..n, NEW t
          PROVE  (\E i \in 1..n : i <= m /\ P(i, t)) <=>
                   \E i, j, k \in 1..n : /\ i <= m /\ i < j /\ j < k /\ a[i] + a[j] + a[k] = 0
                                         /\ t = <<a[i], a[j], a[k]>>
      OBVIOUS
    <2>. HIDE DEF P
    <2>. QED
      BY <1>3, <2>1 DEF TriplesUpTo
  <1>5. \A m \in 1..n : \A t : t \in W(m) <=> P(m, t)
    BY <1>2
  <1>. HIDE DEF P, W
  <1>6. Triples(n, a) = UNION {W(m) : m \in 1..n}
    <2>1. n \in 0..n /\ \A m \in 1..n : m <= n
      OBVIOUS
    <2>2. \A t : t \in TriplesUpTo(n, a, n) <=> \E i \in 1..n : P(i, t)
      BY <1>4, <2>1
    <2>. QED
      BY <1>5, <2>2 DEF Triples
  <1>7. TriplesUpTo(n, a, 0) = {}
    BY <1>4
  <1>8. ASSUME NEW m \in 1..n PROVE TriplesUpTo(n, a, m) = TriplesUpTo(n, a, m - 1) \union W(m)
    <2>1. m \in 0..n /\ m - 1 \in 0..n /\ \A i \in 1..n : i <= m <=> (i <= m - 1 \/ i = m)
      OBVIOUS
    <2>2. ASSUME NEW t PROVE t \in TriplesUpTo(n, a, m) <=> t \in TriplesUpTo(n, a, m - 1) \/ t \in W(m)
      BY <1>4, <1>5, <2>1
    <2>. QED
      BY <2>2
  <1>. QED
    BY <1>6, <1>7, <1>8 DEF W

\* Two pointers for every number.
LEMMA ThreeSum1Steps ==
  ASSUME NEW n \in Nat,
         NEW a \in Rows(n),
         sorted(a) \in Rows(n)
  PROVE  \E f \in [(1..n) \X (1..(n + 1)) \X (0..n) -> SUBSET (Int \X Int \X Int)] :
           /\ threeSum1(a) = UNION {f[<<i, i + 1, Len(sorted(a))>>] : i \in Positions(sorted(a))}
           /\ \A p \in (1..n) \X (1..(n + 1)) \X (0..n) : f[p] = IF p[2] >= p[3] THEN {}
                ELSE IF sorted(a)[p[1]] + sorted(a)[p[2]] + sorted(a)[p[3]] = 0
                  THEN {<<sorted(a)[p[1]], sorted(a)[p[2]], sorted(a)[p[3]]>>} \union f[<<p[1], p[2] + 1, p[3] - 1>>]
                ELSE IF sorted(a)[p[1]] + sorted(a)[p[2]] + sorted(a)[p[3]] < 0 THEN f[<<p[1], p[2] + 1, p[3]>>]
                ELSE f[<<p[1], p[2], p[3] - 1>>]
PROOF
  <1>. DEFINE D == Positions(sorted(a)) \X (1..(Len(sorted(a)) + 1)) \X (0..Len(sorted(a)))
              V == SUBSET (Int \X Int \X Int)
              rank == [p \in D |-> IF p[3] < p[2] THEN 0 ELSE p[3] - p[2] + 1]
              Body(f, p) == IF p[2] >= p[3] THEN {}
                ELSE IF sorted(a)[p[1]] + sorted(a)[p[2]] + sorted(a)[p[3]] = 0
                  THEN {<<sorted(a)[p[1]], sorted(a)[p[2]], sorted(a)[p[3]]>>} \union f[<<p[1], p[2] + 1, p[3] - 1>>]
                ELSE IF sorted(a)[p[1]] + sorted(a)[p[2]] + sorted(a)[p[3]] < 0 THEN f[<<p[1], p[2] + 1, p[3]>>]
                ELSE f[<<p[1], p[2], p[3] - 1>>]
              F == [p \in D |-> [g \in [D -> V] |-> Body(g, p)]]
              Eq(f) == f = [p \in D |-> Body(f, p)]
              s == CHOOSE f : Eq(f)
  <1>1. D = (1..n) \X (1..(n + 1)) \X (0..n)
    BY ArrayFacts
  <1>2. threeSum1(a) = UNION {s[<<i, i + 1, Len(sorted(a))>>] : i \in Positions(sorted(a))}
    BY DEF threeSum1
  <1>3. V # {} /\ rank \in [D -> Nat]
    <2>1. \A p \in (1..n) \X (1..(n + 1)) \X (0..n) : (IF p[3] < p[2] THEN 0 ELSE p[3] - p[2] + 1) \in Nat
      OBVIOUS
    <2>. QED
      BY <1>1, <2>1
  <1>4. ASSUME NEW p \in D, NEW g \in [D -> V] PROVE Body(g, p) \in V
    <2>1. p[1] \in 1..n /\ p[2] \in 1..(n + 1) /\ p[3] \in 0..n
      BY <1>1
    <2>2. CASE p[2] >= p[3]
      BY <2>1, <2>2
    <2>3. CASE ~(p[2] >= p[3])
      <3>. DEFINE p1 == <<p[1], p[2] + 1, p[3] - 1>>
                  p2 == <<p[1], p[2] + 1, p[3]>>
                  p3 == <<p[1], p[2], p[3] - 1>>
      <3>1. p1 \in D /\ p2 \in D /\ p3 \in D
        BY <1>1, <2>1, <2>3
      <3>2. g[p1] \in V /\ g[p2] \in V /\ g[p3] \in V
        <4>. HIDE DEF D, V, p1, p2, p3
        <4>. QED
          BY <3>1
      <3>3. {<<sorted(a)[p[1]], sorted(a)[p[2]], sorted(a)[p[3]]>>} \in V
        <4>1. p[2] \in 1..n /\ p[3] \in 1..n
          BY <2>1, <2>3
        <4>. QED
          BY <2>1, <4>1 DEF Rows
      <3>4. Body(g, p) \in {{<<sorted(a)[p[1]], sorted(a)[p[2]], sorted(a)[p[3]]>>} \union g[p1], g[p2], g[p3]}
        <4>. HIDE DEF V
        <4>. QED
          BY <2>3, Zenon
      <3>. DEFINE t == {<<sorted(a)[p[1]], sorted(a)[p[2]], sorted(a)[p[3]]>>}
      <3>. HIDE DEF Body, D, t, p1, p2, p3
      <3>5. t \union g[p1] \in V /\ g[p2] \in V /\ g[p3] \in V
        BY <3>2, <3>3 DEF t
      <3>. QED
        BY <3>4, <3>5 DEF t
    <2>. QED
      BY <2>2, <2>3
  <1>5. ASSUME NEW p \in D, NEW g, NEW h \in [D -> V], \A y \in D : rank[y] < rank[p] => g[y] = h[y]
        PROVE  Body(g, p) = Body(h, p)
    <2>1. p[1] \in 1..n /\ p[2] \in 1..(n + 1) /\ p[3] \in 0..n
      BY <1>1
    <2>2. CASE p[2] >= p[3]
      BY <2>1, <2>2
    <2>3. CASE ~(p[2] >= p[3])
      <3>. DEFINE p1 == <<p[1], p[2] + 1, p[3] - 1>>
                  p2 == <<p[1], p[2] + 1, p[3]>>
                  p3 == <<p[1], p[2], p[3] - 1>>
      <3>1. p1 \in D /\ p2 \in D /\ p3 \in D
        BY <1>1, <2>1, <2>3
      <3>2. rank[p1] < rank[p] /\ rank[p2] < rank[p] /\ rank[p3] < rank[p]
        <4>1. /\ rank[p] = p[3] - p[2] + 1
              /\ rank[p1] = IF p[3] - 1 < p[2] + 1 THEN 0 ELSE p[3] - 1 - (p[2] + 1) + 1
              /\ rank[p2] = IF p[3] < p[2] + 1 THEN 0 ELSE p[3] - (p[2] + 1) + 1
              /\ rank[p3] = IF p[3] - 1 < p[2] THEN 0 ELSE p[3] - 1 - p[2] + 1
          BY <2>1, <2>3, <3>1
        <4>. HIDE DEF rank, p1, p2, p3
        <4>. QED
          BY <2>1, <2>3, <4>1, SMTT(20)
      <3>3. g[p1] = h[p1] /\ g[p2] = h[p2] /\ g[p3] = h[p3]
        <4>. HIDE DEF D, rank, p1, p2, p3
        <4>. QED
          BY <1>5, <3>1, <3>2
      <3>. QED
        BY <2>3, <3>3
    <2>. QED
      BY <2>2, <2>3
  <1>6. PICK q \in [D -> V] : \A p \in D : q[p] = Body(q, p)
    <2>1. F \in [D -> [[D -> V] -> V]] /\ \A p \in D : \A g \in [D -> V] : F[p][g] = Body(g, p)
      <3>. HIDE DEF D, V, Body
      <3>. QED
        BY <1>4
    <2>2. Local(D, V, rank, F)
      <3>. HIDE DEF D, V, rank, F, Body
      <3>1. ASSUME NEW x \in D, NEW g \in [D -> V], NEW h \in [D -> V],
                   \A y \in D : rank[y] < rank[x] => g[y] = h[y]
            PROVE  F[x][g] = F[x][h]
        <4>1. Body(g, x) = Body(h, x)
          BY <1>5, <3>1
        <4>. QED
          BY <2>1, <4>1
      <3>. QED
        BY <2>1, <3>1 DEF Local
    <2>3. PICK q : Solution(D, V, F, q)
      <3>. HIDE DEF D, V, rank, F
      <3>. QED
        BY <1>3, <2>2, Recursion
    <2>. HIDE DEF D, V, rank, F, Body
    <2>. QED
      BY <2>1, <2>3 DEF Solution
  <1>7. Eq(s)
    <2>1. Eq(q)
      <3>. HIDE DEF D, V, Body
      <3>. QED
        BY <1>6
    <2>. HIDE DEF Eq
    <2>. QED
      BY <2>1, Zenon
  <1>8. \A p \in D : s[p] = Body(s, p)
    <2>. HIDE DEF D, V, Body, s
    <2>. QED
      BY <1>7
  <1>9. D \subseteq {p \in D : s[p] = q[p]}
    <2>1. RankedIn(D, rank, {p \in D : s[p] = q[p]})
      <3>. HIDE DEF D, V, Body, s, rank
      <3>. QED
        BY <1>5, <1>6, <1>8 DEF RankedIn
    <2>. HIDE DEF D, V, Body, s, rank
    <2>. QED
      BY <1>3, <2>1, ByRank
  <1>10. s \in [D -> V]
    <2>. HIDE DEF D, V, Body
    <2>. QED
      BY <1>6, <1>7, <1>9
  <1>. HIDE DEF s, D
  <1>. QED
    BY <1>1, <1>2, <1>8, <1>10

\* threeSum1: the pointers find every pair behind each number.
LEMMA ThreeSum1Triples ==
  ASSUME NEW n \in Nat, NEW a \in Rows(n)
  PROVE  threeSum1(a) = Triples(n, sorted(a))
PROOF
  <1>. DEFINE D == (1..n) \X (1..(n + 1)) \X (0..n)
              rank == [p \in D |-> IF p[3] < p[2] THEN 0 ELSE p[3] - p[2] + 1]
              s == sorted(a)
  <1>0. s \in Rows(n) /\ Ascending(n, s) /\ D = (1..n) \X (1..(n + 1)) \X (0..n)
    BY SortedSorts DEF Sorts
  <1>1. PICK f \in [D -> SUBSET (Int \X Int \X Int)] :
          /\ threeSum1(a) = UNION {f[<<i, i + 1, Len(s)>>] : i \in Positions(s)}
          /\ \A p \in D : f[p] = IF p[2] >= p[3] THEN {}
                ELSE IF s[p[1]] + s[p[2]] + s[p[3]] = 0
                  THEN {<<s[p[1]], s[p[2]], s[p[3]]>>} \union f[<<p[1], p[2] + 1, p[3] - 1>>]
                ELSE IF s[p[1]] + s[p[2]] + s[p[3]] < 0 THEN f[<<p[1], p[2] + 1, p[3]>>]
                ELSE f[<<p[1], p[2], p[3] - 1>>]
    BY <1>0, ThreeSum1Steps
  <1>. HIDE DEF s
  <1>. DEFINE P(p) == f[p] = With(s[p[1]], PairsAt(s, s[p[1]], 0, p[2], p[3]))
              S == {p \in D : P(p)}
  <1>2. rank \in [D -> Nat]
    OBVIOUS
  <1>3. ASSUME NEW p \in D, \A y \in D : rank[y] < rank[p] => y \in S PROVE p \in S
    <2>1. p[1] \in 1..n /\ p[2] \in 1..(n + 1) /\ p[3] \in 0..n
      OBVIOUS
    <2>2. CASE p[2] >= p[3]
      <3>1. f[p] = {}
        BY <1>1, <2>2
      <3>2. PairsAt(s, s[p[1]], 0, p[2], p[3]) = {}
        BY <2>1, <2>2, PairsNone
      <3>. QED
        BY <3>1, <3>2, WithFacts
    <2>3. CASE ~(p[2] >= p[3])
      <3>. DEFINE p1 == <<p[1], p[2] + 1, p[3] - 1>>
                  p2 == <<p[1], p[2] + 1, p[3]>>
                  p3 == <<p[1], p[2], p[3] - 1>>
      <3>1. p1 \in D /\ p2 \in D /\ p3 \in D
        BY <2>1, <2>3
      <3>2. rank[p1] < rank[p] /\ rank[p2] < rank[p] /\ rank[p3] < rank[p]
        <4>1. /\ rank[p] = p[3] - p[2] + 1
              /\ rank[p1] = IF p[3] - 1 < p[2] + 1 THEN 0 ELSE p[3] - 1 - (p[2] + 1) + 1
              /\ rank[p2] = IF p[3] < p[2] + 1 THEN 0 ELSE p[3] - (p[2] + 1) + 1
              /\ rank[p3] = IF p[3] - 1 < p[2] THEN 0 ELSE p[3] - 1 - p[2] + 1
          BY <2>1, <2>3, <3>1
        <4>. HIDE DEF rank, p1, p2, p3
        <4>. QED
          BY <2>1, <2>3, <4>1
      <3>. DEFINE c == s[p[1]]
                  x == p[2]
                  y == p[3]
                  x1 == x + 1
                  y1 == y - 1
      <3>3. P(p1) /\ P(p2) /\ P(p3)
        <4>. HIDE DEF P, rank, D, p1, p2, p3
        <4>. QED
          BY <1>3, <3>1, <3>2
      <3>4. /\ f[p1] = With(c, PairsAt(s, c, 0, x1, y1))
            /\ f[p2] = With(c, PairsAt(s, c, 0, x1, y))
            /\ f[p3] = With(c, PairsAt(s, c, 0, x, y1))
        BY <3>3
      <3>5. f[p] = IF c + s[x] + s[y] = 0 THEN {<<c, s[x], s[y]>>} \union f[p1]
                   ELSE IF c + s[x] + s[y] < 0 THEN f[p2] ELSE f[p3]
        BY <1>1, <2>3
      <3>6. x \in 1..n /\ y \in 1..n /\ x < y /\ x1 = x + 1 /\ y1 = y - 1 /\ c \in Int
        <4>1. x \in 1..n /\ y \in 1..n /\ x < y
          BY <2>1, <2>3
        <4>2. c \in Int
          BY <1>0, <2>1 DEF Rows
        <4>. QED
          BY <4>1, <4>2
      <3>. HIDE DEF c, x, y, x1, y1, p1, p2, p3
      <3>7. s[x] \in Int /\ s[y] \in Int /\ 0 \in Int
        BY <1>0, <3>6, SMTT(20) DEF Rows
      <3>8. f[p] = With(c, PairsAt(s, c, 0, x, y))
        <4>1. CASE c + s[x] + s[y] = 0
          <5>1. Inside(s, x, y, x1, y1)
            BY <3>6 DEF Inside
          <5>2. PairsAt(s, c, 0, x, y) = {<<s[x], s[y]>>} \union PairsAt(s, c, 0, x1, y1)
            BY <1>0, <3>6, <4>1, <5>1, PairsFound
          <5>3. f[p] = {<<c, s[x], s[y]>>} \union With(c, PairsAt(s, c, 0, x1, y1))
            BY <3>4, <3>5, <4>1
          <5>. DEFINE t == {<<s[x], s[y]>>}
                      Z == PairsAt(s, c, 0, x1, y1)
          <5>4. With(c, t) = {<<c, s[x], s[y]>>}
            BY WithFacts
          <5>. HIDE DEF t, Z
          <5>5. With(c, t \union Z) = With(c, t) \union With(c, Z)
            BY WithFacts
          <5>. QED
            BY <5>2, <5>3, <5>4, <5>5 DEF t, Z
        <4>2. CASE c + s[x] + s[y] < 0
          <5>0. Short(s, c, 0, x, y)
            BY <4>2 DEF Short
          <5>1. PairsAt(s, c, 0, x, y) = PairsAt(s, c, 0, x1, y)
            BY <1>0, <3>6, <3>7, <5>0, PairsFromLeft
          <5>2. f[p] = f[p2]
            BY <3>5, <3>6, <3>7, <4>2
          <5>. QED
            BY <3>4, <5>1, <5>2
        <4>3. CASE c + s[x] + s[y] > 0
          <5>0. Long(s, c, 0, x, y)
            BY <4>3 DEF Long
          <5>1. PairsAt(s, c, 0, x, y) = PairsAt(s, c, 0, x, y1)
            BY <1>0, <3>6, <3>7, <5>0, PairsFromRight
          <5>2. f[p] = f[p3]
            BY <3>5, <3>6, <3>7, <4>3
          <5>. QED
            BY <3>4, <5>1, <5>2
        <4>. QED
          BY <3>6, <3>7, <4>1, <4>2, <4>3
      <3>. QED
        BY <3>8 DEF c, x, y
    <2>. QED
      BY <2>2, <2>3
  <1>4. D \subseteq S
    <2>1. RankedIn(D, rank, S)
      <3>. HIDE DEF D, rank, S
      <3>. QED
        BY <1>3 DEF RankedIn
    <2>. HIDE DEF D, rank, S
    <2>. QED
      BY <1>2, <2>1, ByRank
  <1>5. \A m \in 1..n : f[<<m, m + 1, n>>] = With(s[m], PairsAt(s, s[m], 0, m + 1, n))
    <2>. SUFFICES ASSUME NEW m \in 1..n PROVE f[<<m, m + 1, n>>] = With(s[m], PairsAt(s, s[m], 0, m + 1, n))
      OBVIOUS
    <2>. DEFINE p == <<m, m + 1, n>>
    <2>1. p \in D /\ p[1] = m /\ p[2] = m + 1 /\ p[3] = n
      OBVIOUS
    <2>. HIDE DEF p, D
    <2>2. P(p)
      BY <1>4, <2>1
    <2>. QED
      BY <2>1, <2>2 DEF p
  <1>6. Len(s) = n /\ Positions(s) = 1..n
    BY <1>0, ArrayFacts
  <1>7. threeSum1(a) = UNION {With(s[m], PairsAt(s, s[m], 0, m + 1, n)) : m \in 1..n}
    <2>. HIDE DEF D
    <2>1. {f[<<i, i + 1, Len(s)>>] : i \in Positions(s)} = {f[<<i, i + 1, n>>] : i \in 1..n}
      BY <1>6
    <2>2. {f[<<i, i + 1, n>>] : i \in 1..n} = {With(s[m], PairsAt(s, s[m], 0, m + 1, n)) : m \in 1..n}
      BY <1>5
    <2>. QED
      BY <1>1, <2>1, <2>2
  <1>8. Triples(n, s) = UNION {With(s[m], PairsAt(s, s[m], 0, m + 1, n)) : m \in 1..n}
    BY <1>0, TriplesWith
  <1>. QED
    BY <1>7, <1>8 DEF s
-----------------------------------------------------------------------------
(***************************************************************************)
(* The pairs that each of the pointers finds are listed once.              *)
(***************************************************************************)
\* A sequence that lists the members of S, each of them once.
Lists(V, q, S) ==
  /\ q \in Seq(V) /\ {q[k] : k \in 1..Len(q)} = S
  /\ \A k, l \in 1..Len(q) : q[k] = q[l] => k = l

\* The empty list.
LEMMA ListsNone ==
  ASSUME NEW V PROVE Lists(V, <<>>, {})
PROOF
  BY DEF Lists

\* The list of one.
LEMMA ListsOne ==
  ASSUME NEW V, NEW x \in V PROVE Lists(V, <<x>>, {x})
PROOF
  <1>. DEFINE q == <<x>>
  <1>1. q \in Seq(V) /\ Len(q) = 1 /\ q[1] = x
    OBVIOUS
  <1>2. \A k \in 1..1 : k = 1
    OBVIOUS
  <1>3. 1 \in 1..1
    OBVIOUS
  <1>. HIDE DEF q
  <1>4. {q[k] : k \in 1..1} = {x}
    BY <1>1, <1>2, <1>3
  <1>5. Lists(V, q, {x})
    BY <1>1, <1>2, <1>4 DEF Lists
  <1>. QED
    BY <1>5 DEF q

\* The list of two sets without a common member.
LEMMA ListsJoin ==
  ASSUME NEW V, NEW p, NEW q, NEW A, NEW B, Lists(V, p, A), Lists(V, q, B), A \cap B = {}
  PROVE  Lists(V, p \o q, A \union B)
PROOF
  <1>. DEFINE r == p \o q
              m == Len(p)
              n == Len(q)
  <1>1. p \in Seq(V) /\ q \in Seq(V) /\ A = {p[k] : k \in 1..m} /\ B = {q[k] : k \in 1..n}
    BY DEF Lists
  <1>2. r \in Seq(V) /\ Len(r) = m + n /\ m \in Nat /\ n \in Nat
    BY <1>1
  <1>3. /\ \A k \in 1..m : r[k] = p[k]
        /\ \A k \in (m + 1)..(m + n) : r[k] = q[k - m]
    <2>1. \A k \in 1..(m + n) : r[k] = IF k <= m THEN p[k] ELSE q[k - m]
      BY <1>1, ConcatProperties
    <2>. HIDE DEF r, m, n
    <2>2. \A k \in 1..m : k <= m /\ k \in 1..(m + n)
      BY <1>2
    <2>3. \A k \in (m + 1)..(m + n) : ~(k <= m) /\ k \in 1..(m + n)
      BY <1>2
    <2>. QED
      BY <2>1, <2>2, <2>3
  <1>4. /\ \A k, l \in 1..m : p[k] = p[l] => k = l
        /\ \A k, l \in 1..n : q[k] = q[l] => k = l
    BY DEF Lists
  <1>. HIDE DEF r, m, n
  <1>5. \A k \in 1..m : k \in 1..(m + n)
    BY <1>2
  <1>6. \A k \in 1..n : k + m \in (m + 1)..(m + n) /\ k + m \in 1..(m + n) /\ k + m - m = k
    BY <1>2
  <1>7. \A k \in 1..(m + n) : k \in 1..m \/ (k \in (m + 1)..(m + n) /\ k - m \in 1..n /\ k - m + m = k)
    BY <1>2
  <1>8. {r[k] : k \in 1..(m + n)} = A \union B
    <2>1. ASSUME NEW k \in 1..(m + n) PROVE r[k] \in A \union B
      BY <1>1, <1>3, <1>7
    <2>2. ASSUME NEW x \in A PROVE \E k \in 1..(m + n) : x = r[k]
      BY <1>1, <1>3, <1>5
    <2>3. ASSUME NEW x \in B PROVE \E k \in 1..(m + n) : x = r[k]
      <3>1. PICK k \in 1..n : x = q[k]
        BY <1>1
      <3>. DEFINE i == k + m
      <3>2. i \in (m + 1)..(m + n) /\ i \in 1..(m + n) /\ i - m = k
        BY <1>2
      <3>. HIDE DEF i
      <3>. QED
        BY <1>3, <3>1, <3>2
    <2>. QED
      BY <2>1, <2>2, <2>3
  <1>9. ASSUME NEW k \in 1..(m + n), NEW l \in 1..(m + n), r[k] = r[l] PROVE k = l
    <2>1. \A i \in 1..m : p[i] \in A
      BY <1>1
    <2>2. \A i \in 1..n : q[i] \in B
      BY <1>1
    <2>3. CASE k \in 1..m /\ l \in 1..m
      BY <1>3, <1>4, <1>9, <2>3
    <2>4. CASE k \notin 1..m /\ l \notin 1..m
      <3>1. q[k - m] = q[l - m] /\ k - m \in 1..n /\ l - m \in 1..n
        BY <1>3, <1>7, <1>9, <2>4
      <3>2. k - m = l - m
        BY <1>4, <3>1
      <3>. QED
        BY <1>2, <3>2
    <2>5. CASE k \in 1..m /\ l \notin 1..m
      <3>1. r[k] \in A /\ r[l] \in B
        BY <1>3, <1>7, <2>1, <2>2, <2>5
      <3>. QED
        BY <1>9, <3>1
    <2>6. CASE k \notin 1..m /\ l \in 1..m
      <3>1. r[k] \in B /\ r[l] \in A
        BY <1>3, <1>7, <2>1, <2>2, <2>6
      <3>. QED
        BY <1>9, <3>1
    <2>. QED
      BY <2>3, <2>4, <2>5, <2>6
  <1>10. Lists(V, r, A \union B)
    BY <1>2, <1>8, <1>9 DEF Lists
  <1>. QED
    BY <1>10 DEF r

\* A list is as long as its set has members.
LEMMA ListsCount ==
  ASSUME NEW V, NEW q, NEW S, Lists(V, q, S)
  PROVE  Len(q) = Cardinality(S)
PROOF
  <1>. DEFINE n == Len(q)
  <1>1. n \in Nat /\ S = {q[k] : k \in 1..n} /\ \A k, l \in 1..n : q[k] = q[l] => k = l
    BY DEF Lists
  <1>. HIDE DEF n
  <1>2. IsFiniteSet(1..n) /\ Cardinality(1..n) = n
    <2>1. 1 \in Int /\ n \in Int /\ (1 > n => n = 0) /\ n - 1 + 1 = n
      BY <1>1
    <2>. QED
      BY <2>1, FS_Interval
  <1>3. ExistsBijection(1..n, S)
    <2>. DEFINE f == [k \in 1..n |-> q[k]]
    <2>1. f \in [1..n -> S]
      BY <1>1
    <2>2. \A k, l \in 1..n : f[k] = f[l] => k = l
      BY <1>1
    <2>3. \A x \in S : \E k \in 1..n : f[k] = x
      BY <1>1
    <2>. HIDE DEF f
    <2>. QED
      BY <2>1, <2>2, <2>3 DEF ExistsBijection, Bijection, Injection, Surjection, IsInjective
  <1>4. Cardinality(S) = n
    BY <1>2, <1>3, FS_Bijection
  <1>. QED
    BY <1>4 DEF n

\* A number in front of a pair.
LEMMA OneAndTwo ==
  ASSUME NEW c, NEW x, NEW y PROVE <<c>> \o <<x, y>> = <<c, x, y>>
PROOF
  <1>. DEFINE f == <<c>>
              g == <<x, y>>
              h == <<c, x, y>>
              V == {c, x, y}
  <1>1. f \in Seq(V) /\ Len(f) = 1 /\ g \in Seq(V) /\ Len(g) = 2 /\ h \in Seq(V) /\ Len(h) = 3
    OBVIOUS
  <1>2. f[1] = c /\ g[1] = x /\ g[2] = y /\ h[1] = c /\ h[2] = x /\ h[3] = y
    OBVIOUS
  <1>. HIDE DEF f, g, h, V
  <1>3. /\ f \o g \in Seq(V) /\ Len(f \o g) = Len(f) + Len(g)
        /\ \A k \in 1..(Len(f) + Len(g)) : (f \o g)[k] = IF k <= Len(f) THEN f[k] ELSE g[k - Len(f)]
    BY <1>1, ConcatProperties
  <1>4. /\ Len(f \o g) = 3
        /\ (f \o g)[1] = f[1] /\ (f \o g)[2] = g[1] /\ (f \o g)[3] = g[2]
    BY <1>1, <1>3
  <1>5. \A k \in 1..3 : k = 1 \/ k = 2 \/ k = 3
    OBVIOUS
  <1>6. \A k \in 1..3 : (f \o g)[k] = h[k]
    BY <1>2, <1>4, <1>5
  <1>7. f \o g = h
    BY <1>1, <1>3, <1>4, <1>6, SeqEqual
  <1>. QED
    BY <1>7 DEF f, g, h

\* A number in front of every pair of a list.
LEMMA ListsPrefixed ==
  ASSUME NEW c \in Int, NEW q, NEW Z, Lists(Int \X Int, q, Z)
  PROVE  Lists(Int \X Int \X Int, Prefixed(<<c>>, q), With(c, Z))
PROOF
  <1>. DEFINE n == Len(q)
              r == Prefixed(<<c>>, q)
  <1>1. /\ q \in Seq(Int \X Int) /\ n \in Nat /\ Z = {q[k] : k \in 1..n}
        /\ \A k, l \in 1..n : q[k] = q[l] => k = l
    BY DEF Lists
  <1>2. DOMAIN q = 1..n /\ \A k \in 1..n : q[k] \in Int \X Int
    BY <1>1
  <1>3. r = [k \in 1..n |-> <<c>> \o q[k]]
    BY <1>2 DEF Prefixed
  <1>4. \A x, y \in Int : <<c>> \o <<x, y>> = <<c, x, y>>
    BY OneAndTwo
  <1>5. \A k \in 1..n : r[k] = <<c, q[k][1], q[k][2]>>
    <2>. SUFFICES ASSUME NEW k \in 1..n PROVE r[k] = <<c, q[k][1], q[k][2]>>
      OBVIOUS
    <2>1. PICK x \in Int, y \in Int : q[k] = <<x, y>>
      BY <1>2
    <2>2. r[k] = <<c>> \o q[k]
      BY <1>3
    <2>3. r[k] = <<c, x, y>>
      BY <1>4, <2>1, <2>2
    <2>. QED
      BY <2>1, <2>3
  <1>6. ASSUME NEW k \in 1..n PROVE r[k] \in Int \X Int \X Int
    <2>1. q[k][1] \in Int /\ q[k][2] \in Int
      BY <1>2
    <2>2. r[k] = <<c, q[k][1], q[k][2]>>
      BY <1>5
    <2>. HIDE DEF r, n
    <2>. QED
      BY <2>1, <2>2
  <1>7. r \in Seq(Int \X Int \X Int) /\ Len(r) = n
    <2>1. r \in [1..n -> Int \X Int \X Int]
      BY <1>3, <1>6
    <2>. HIDE DEF r, n
    <2>. QED
      BY <1>1, <2>1, SeqOf
  <1>. HIDE DEF r, n
  <1>8. {r[k] : k \in 1..n} = With(c, Z)
    <2>1. {r[k] : k \in 1..n} = {<<c, q[k][1], q[k][2]>> : k \in 1..n}
      BY <1>5
    <2>2. {<<c, q[k][1], q[k][2]>> : k \in 1..n} = {<<c, z[1], z[2]>> : z \in Z}
      BY <1>1
    <2>. QED
      BY <2>1, <2>2 DEF With
  <1>9. ASSUME NEW k \in 1..n, NEW l \in 1..n, r[k] = r[l] PROVE k = l
    <2>1. q[k][1] = q[l][1] /\ q[k][2] = q[l][2]
      BY <1>5, <1>9
    <2>2. q[k] = q[l]
      BY <1>2, <2>1
    <2>. QED
      BY <1>1, <2>2
  <1>10. Lists(Int \X Int \X Int, r, With(c, Z))
    BY <1>7, <1>8, <1>9 DEF Lists
  <1>. QED
    BY <1>10 DEF r

\* The pointers pass the numbers equal to those at them.
LEMMA PassLeftFacts ==
  ASSUME NEW n \in Nat, NEW a \in Rows(n), NEW x \in 1..n, NEW y \in 1..n, x <= y
  PROVE  /\ passLeft(a, x, y) \in x..y
         /\ passLeft(a, x, y) = y \/ a[passLeft(a, x, y)] # a[passLeft(a, x, y) + 1]
         /\ \A k \in x..passLeft(a, x, y) : a[k] = a[x]
PROOF
  <1>. DEFINE S == {k \in x..y : k = y \/ a[k] # a[k + 1]}
              m == Min(S)
  <1>1. m \in S /\ \A k \in S : m <= k
    <2>1. y \in S /\ S \in SUBSET Int /\ x \in Int /\ \A k \in S : x <= k
      OBVIOUS
    <2>. HIDE DEF S
    <2>. QED
      BY <2>1, LeastOf
  <1>2. m \in x..y /\ (m = y \/ a[m] # a[m + 1])
    <2>. HIDE DEF m
    <2>. QED
      BY <1>1
  <1>. HIDE DEF m
  <1>3. ASSUME NEW k \in (x + 1)..m, a[k - 1] = a[x] PROVE a[k] = a[x]
    <2>. DEFINE l == k - 1
    <2>1. l \in x..y /\ l # y /\ ~(m <= l) /\ l + 1 = k
      BY <1>2
    <2>. HIDE DEF l
    <2>2. l \notin S
      BY <1>1, <2>1
    <2>3. a[l] = a[l + 1]
      BY <2>1, <2>2
    <2>. QED
      BY <1>3, <2>1, <2>3 DEF l
  <1>. DEFINE E == {k \in x..m : a[k] = a[x]}
  <1>4. Upward(x, m, E)
    <2>1. x \in E
      BY <1>2
    <2>2. \A k \in (x + 1)..m : k - 1 \in E => k \in E
      BY <1>3
    <2>. HIDE DEF E
    <2>. QED
      BY <2>1, <2>2 DEF Upward
  <1>5. x..m \subseteq E
    <2>. HIDE DEF E
    <2>. QED
      BY <1>2, <1>4, AlongInterval
  <1>6. \A k \in x..m : a[k] = a[x]
    BY <1>5
  <1>. QED
    BY <1>2, <1>6 DEF m, passLeft

\* The same from the right.
LEMMA PassRightFacts ==
  ASSUME NEW n \in Nat, NEW a \in Rows(n), NEW x \in 1..n, NEW y \in 1..n, x <= y
  PROVE  passRight(a, x, y) \in x..y /\ \A k \in passRight(a, x, y)..y : a[k] = a[y]
PROOF
  <1>. DEFINE S == {k \in x..y : k = x \/ a[k] # a[k - 1]}
              m == Max(S)
  <1>1. m \in S /\ \A k \in S : k <= m
    <2>1. x \in S /\ S \in SUBSET Int /\ y \in Int /\ \A k \in S : k <= y
      OBVIOUS
    <2>. HIDE DEF S
    <2>. QED
      BY <2>1, GreatestOf
  <1>2. m \in x..y
    <2>. HIDE DEF m
    <2>. QED
      BY <1>1
  <1>. HIDE DEF m
  <1>3. ASSUME NEW k \in (m + 1)..y, a[k - 1] = a[m] PROVE a[k] = a[m]
    <2>1. k \in x..y /\ k # x /\ ~(k <= m)
      BY <1>2
    <2>2. k \notin S
      BY <1>1, <2>1
    <2>3. a[k] = a[k - 1]
      BY <2>1, <2>2
    <2>. QED
      BY <1>3, <2>3
  <1>. DEFINE E == {k \in m..y : a[k] = a[m]}
  <1>4. Upward(m, y, E)
    <2>1. m \in E
      BY <1>2
    <2>2. \A k \in (m + 1)..y : k - 1 \in E => k \in E
      BY <1>2, <1>3
    <2>. HIDE DEF E
    <2>. QED
      BY <2>1, <2>2 DEF Upward
  <1>5. m..y \subseteq E
    <2>. HIDE DEF E
    <2>. QED
      BY <1>2, <1>4, AlongInterval
  <1>6. \A k \in m..y : a[k] = a[m]
    BY <1>5
  <1>7. y \in m..y
    BY <1>2
  <1>8. \A k \in m..y : a[k] = a[y]
    BY <1>6, <1>7
  <1>. QED
    BY <1>2, <1>8 DEF m, passRight

\* Where the pointers go on.
LEMMA PassEqualFacts ==
  ASSUME NEW n \in Nat, NEW a \in Rows(n), NEW x \in 1..n, NEW y \in 1..n, x < y
  PROVE  /\ passEqual(a, x, y)[1] \in x..y /\ passEqual(a, x, y)[2] \in x..y
         /\ Inside(a, x, y, passEqual(a, x, y)[1] + 1, passEqual(a, x, y)[2] - 1)
         /\ passEqual(a, x, y)[1] = y \/ a[x] # a[passEqual(a, x, y)[1] + 1]
PROOF
  <1>. DEFINE l == passLeft(a, x, y)
              r == passRight(a, l, y)
  <1>1. passEqual(a, x, y) = <<l, r>>
    BY DEF passEqual
  <1>2. l \in x..y /\ (l = y \/ a[l] # a[l + 1]) /\ \A k \in x..l : a[k] = a[x]
    BY PassLeftFacts
  <1>. HIDE DEF l
  <1>3. r \in l..y /\ \A k \in r..y : a[k] = a[y]
    <2>1. l \in 1..n /\ l <= y
      BY <1>2
    <2>. QED
      BY <2>1, PassRightFacts
  <1>. HIDE DEF r
  <1>4. l \in x..y /\ r \in x..y /\ l \in x..l
    BY <1>2, <1>3
  <1>5. Inside(a, x, y, l + 1, r - 1)
    <2>1. l + 1 \in Int /\ r - 1 \in Int /\ x < l + 1 /\ r - 1 < y
      BY <1>4
    <2>2. \A k \in x..y : k < l + 1 => k \in x..l
      BY <1>4
    <2>3. \A k \in x..y : k > r - 1 => k \in r..y
      BY <1>4
    <2>. QED
      BY <1>2, <1>3, <2>1, <2>2, <2>3 DEF Inside
  <1>6. l = y \/ a[x] # a[l + 1]
    BY <1>2, <1>4
  <1>. QED
    BY <1>1, <1>4, <1>5, <1>6

\* The two pointers that pass equal numbers.
PairsRun(n, a, c, v, first, last) ==
  \E f \in [(1..(n + 1)) \X (0..n) -> Seq(Int \X Int)] :
    /\ pairs(a, c, v, first, last) = f[<<first, last>>]
    /\ \A p \in (1..(n + 1)) \X (0..n) : f[p] = IF p[1] >= p[2] THEN <<>>
         ELSE IF c + a[p[1]] + a[p[2]] = v
           THEN <<(<<a[p[1]], a[p[2]]>>)>> \o f[<<passEqual(a, p[1], p[2])[1] + 1, passEqual(a, p[1], p[2])[2] - 1>>]
         ELSE IF c + a[p[1]] + a[p[2]] < v THEN f[<<p[1] + 1, p[2]>>]
         ELSE f[<<p[1], p[2] - 1>>]

\* The steps of the two pointers.
LEMMA PairsSteps ==
  ASSUME NEW n \in Nat,
         NEW a \in Rows(n),
         NEW c \in Int,
         NEW v \in Int,
         NEW first,
         NEW last
  PROVE  PairsRun(n, a, c, v, first, last)
PROOF
  <1>. DEFINE D == (1..(Len(a) + 1)) \X (0..Len(a))
              V == Seq(Int \X Int)
              rank == [p \in D |-> IF p[2] < p[1] THEN 0 ELSE p[2] - p[1] + 1]
              Body(f, p) == IF p[1] >= p[2] THEN <<>>
                ELSE IF c + a[p[1]] + a[p[2]] = v
                  THEN <<(<<a[p[1]], a[p[2]]>>)>> \o f[<<passEqual(a, p[1], p[2])[1] + 1, passEqual(a, p[1], p[2])[2] - 1>>]
                ELSE IF c + a[p[1]] + a[p[2]] < v THEN f[<<p[1] + 1, p[2]>>]
                ELSE f[<<p[1], p[2] - 1>>]
              F == [p \in D |-> [g \in [D -> V] |-> Body(g, p)]]
              Eq(f) == f = [p \in D |-> Body(f, p)]
              s == CHOOSE f : Eq(f)
  <1>1. D = (1..(n + 1)) \X (0..n)
    BY ArrayFacts
  <1>2. pairs(a, c, v, first, last) = s[<<first, last>>]
    BY DEF pairs
  <1>3. V # {} /\ rank \in [D -> Nat]
    <2>1. \A p \in (1..(n + 1)) \X (0..n) : (IF p[2] < p[1] THEN 0 ELSE p[2] - p[1] + 1) \in Nat
      OBVIOUS
    <2>. QED
      BY <1>1, <2>1, EmptySeq
  <1>4. ASSUME NEW p \in D, NEW g \in [D -> V] PROVE Body(g, p) \in V
    <2>1. p[1] \in 1..(n + 1) /\ p[2] \in 0..n
      BY <1>1
    <2>2. CASE p[1] >= p[2]
      BY <2>1, <2>2, EmptySeq
    <2>3. CASE ~(p[1] >= p[2])
      <3>. DEFINE x == p[1]
                  y == p[2]
                  i == passEqual(a, x, y)[1]
                  j == passEqual(a, x, y)[2]
                  p1 == <<i + 1, j - 1>>
                  p2 == <<x + 1, y>>
                  p3 == <<x, y - 1>>
      <3>0. x \in 1..n /\ y \in 1..n /\ x < y
        BY <2>1, <2>3
      <3>b. /\ i \in x..y /\ j \in x..y /\ Inside(a, x, y, i + 1, j - 1)
            /\ i = y \/ a[x] # a[i + 1]
        <4>. HIDE DEF x, y
        <4>. QED
          BY <3>0, PassEqualFacts
      <3>. HIDE DEF x, y, i, j
      <3>1. p1 \in D /\ p2 \in D /\ p3 \in D
        <4>0. /\ i + 1 \in 1..(n + 1) /\ x + 1 \in 1..(n + 1) /\ x \in 1..(n + 1)
              /\ j - 1 \in 0..n /\ y - 1 \in 0..n /\ y \in 0..n
          BY <3>0, <3>b
        <4>1. p1 \in (1..(n + 1)) \X (0..n) /\ p2 \in (1..(n + 1)) \X (0..n) /\ p3 \in (1..(n + 1)) \X (0..n)
          BY <4>0
        <4>. HIDE DEF D, p1, p2, p3
        <4>. QED
          BY <1>1, <4>1
      <3>2. g[p1] \in V /\ g[p2] \in V /\ g[p3] \in V
        <4>. HIDE DEF D, V, p1, p2, p3
        <4>. QED
          BY <3>1
      <3>. DEFINE t == <<(<<a[p[1]], a[p[2]]>>)>>
      <3>3. t \in V
        <4>1. a[p[1]] \in Int /\ a[p[2]] \in Int
          BY <3>0 DEF Rows, x, y
        <4>. QED
          BY <4>1
      <3>4. Body(g, p) \in {t \o g[p1], g[p2], g[p3]}
        <4>. HIDE DEF V
        <4>. QED
          BY <2>3, Zenon DEF x, y, i, j
      <3>5. \A q, r \in V : q \o r \in V
        OBVIOUS
      <3>. HIDE DEF Body, D, t, p1, p2, p3, V
      <3>. QED
        BY <3>2, <3>3, <3>4, <3>5
    <2>. QED
      BY <2>2, <2>3
  <1>5. ASSUME NEW p \in D, NEW g, NEW h \in [D -> V], \A y \in D : rank[y] < rank[p] => g[y] = h[y]
        PROVE  Body(g, p) = Body(h, p)
    <2>1. p[1] \in 1..(n + 1) /\ p[2] \in 0..n
      BY <1>1
    <2>2. CASE p[1] >= p[2]
      BY <2>1, <2>2
    <2>3. CASE ~(p[1] >= p[2])
      <3>. DEFINE x == p[1]
                  y == p[2]
                  i == passEqual(a, x, y)[1]
                  j == passEqual(a, x, y)[2]
                  p1 == <<i + 1, j - 1>>
                  p2 == <<x + 1, y>>
                  p3 == <<x, y - 1>>
      <3>0. x \in 1..n /\ y \in 1..n /\ x < y
        BY <2>1, <2>3
      <3>b. /\ i \in x..y /\ j \in x..y /\ Inside(a, x, y, i + 1, j - 1)
            /\ i = y \/ a[x] # a[i + 1]
        <4>. HIDE DEF x, y
        <4>. QED
          BY <3>0, PassEqualFacts
      <3>. HIDE DEF x, y, i, j
      <3>1. p1 \in D /\ p2 \in D /\ p3 \in D
        <4>0. /\ i + 1 \in 1..(n + 1) /\ x + 1 \in 1..(n + 1) /\ x \in 1..(n + 1)
              /\ j - 1 \in 0..n /\ y - 1 \in 0..n /\ y \in 0..n
          BY <3>0, <3>b
        <4>1. p1 \in (1..(n + 1)) \X (0..n) /\ p2 \in (1..(n + 1)) \X (0..n) /\ p3 \in (1..(n + 1)) \X (0..n)
          BY <4>0
        <4>. HIDE DEF D, p1, p2, p3
        <4>. QED
          BY <1>1, <4>1
      <3>2. rank[p1] < rank[p] /\ rank[p2] < rank[p] /\ rank[p3] < rank[p]
        <4>1. /\ rank[p] = IF y < x THEN 0 ELSE y - x + 1
              /\ rank[p1] = IF j - 1 < i + 1 THEN 0 ELSE j - 1 - (i + 1) + 1
              /\ rank[p2] = IF y < x + 1 THEN 0 ELSE y - (x + 1) + 1
              /\ rank[p3] = IF y - 1 < x THEN 0 ELSE y - 1 - x + 1
          <5>1. rank[p] = IF y < x THEN 0 ELSE y - x + 1
            BY DEF x, y
          <5>. HIDE DEF D
          <5>. QED
            BY <3>1, <5>1
        <4>. HIDE DEF rank, p1, p2, p3
        <4>. QED
          BY <3>0, <3>b, <4>1, SMTT(20)
      <3>3. g[p1] = h[p1] /\ g[p2] = h[p2] /\ g[p3] = h[p3]
        <4>. HIDE DEF D, rank, p1, p2, p3
        <4>. QED
          BY <1>5, <3>1, <3>2
      <3>. QED
        BY <2>3, <3>3 DEF x, y, i, j
    <2>. QED
      BY <2>2, <2>3
  <1>6. PICK q \in [D -> V] : \A p \in D : q[p] = Body(q, p)
    <2>1. F \in [D -> [[D -> V] -> V]] /\ \A p \in D : \A g \in [D -> V] : F[p][g] = Body(g, p)
      <3>. HIDE DEF D, V, Body
      <3>. QED
        BY <1>4
    <2>2. Local(D, V, rank, F)
      <3>. HIDE DEF D, V, rank, F, Body
      <3>1. ASSUME NEW x \in D, NEW g \in [D -> V], NEW h \in [D -> V],
                   \A y \in D : rank[y] < rank[x] => g[y] = h[y]
            PROVE  F[x][g] = F[x][h]
        <4>1. Body(g, x) = Body(h, x)
          BY <1>5, <3>1
        <4>. QED
          BY <2>1, <4>1
      <3>. QED
        BY <2>1, <3>1 DEF Local
    <2>3. PICK q : Solution(D, V, F, q)
      <3>. HIDE DEF D, V, rank, F
      <3>. QED
        BY <1>3, <2>2, Recursion
    <2>. HIDE DEF D, V, rank, F, Body
    <2>. QED
      BY <2>1, <2>3 DEF Solution
  <1>7. Eq(s)
    <2>1. Eq(q)
      <3>. HIDE DEF D, V, Body
      <3>. QED
        BY <1>6
    <2>. HIDE DEF Eq
    <2>. QED
      BY <2>1, Zenon
  <1>8. \A p \in D : s[p] = Body(s, p)
    <2>. HIDE DEF D, V, Body, s
    <2>. QED
      BY <1>7
  <1>9. D \subseteq {p \in D : s[p] = q[p]}
    <2>1. RankedIn(D, rank, {p \in D : s[p] = q[p]})
      <3>. HIDE DEF D, V, Body, s, rank
      <3>. QED
        BY <1>5, <1>6, <1>8 DEF RankedIn
    <2>. HIDE DEF D, V, Body, s, rank
    <2>. QED
      BY <1>3, <2>1, ByRank
  <1>10. s \in [D -> V]
    <2>. HIDE DEF D, V, Body
    <2>. QED
      BY <1>6, <1>7, <1>9
  <1>. HIDE DEF s, D
  <1>. QED
    BY <1>1, <1>2, <1>8, <1>10 DEF PairsRun

\* pairs lists the pairs between its two positions, each of them once.
LEMMA PairsLists ==
  ASSUME NEW n \in Nat, NEW a \in Rows(n), Ascending(n, a), NEW c \in Int, NEW v \in Int,
         NEW first \in 1..(n + 1), NEW last \in 0..n
  PROVE  Lists(Int \X Int, pairs(a, c, v, first, last), PairsAt(a, c, v, first, last))
PROOF
  <1>. DEFINE D == (1..(n + 1)) \X (0..n)
              rank == [p \in D |-> IF p[2] < p[1] THEN 0 ELSE p[2] - p[1] + 1]
  <1>0. D = (1..(n + 1)) \X (0..n)
    OBVIOUS
  <1>1. PICK f \in [D -> Seq(Int \X Int)] :
          /\ pairs(a, c, v, first, last) = f[<<first, last>>]
          /\ \A p \in D : f[p] = IF p[1] >= p[2] THEN <<>>
                ELSE IF c + a[p[1]] + a[p[2]] = v
                  THEN <<(<<a[p[1]], a[p[2]]>>)>> \o f[<<passEqual(a, p[1], p[2])[1] + 1, passEqual(a, p[1], p[2])[2] - 1>>]
                ELSE IF c + a[p[1]] + a[p[2]] < v THEN f[<<p[1] + 1, p[2]>>]
                ELSE f[<<p[1], p[2] - 1>>]
    <2>1. PairsRun(n, a, c, v, first, last)
      BY PairsSteps
    <2>. QED
      BY <2>1 DEF PairsRun
  <1>. DEFINE P(p) == Lists(Int \X Int, f[p], PairsAt(a, c, v, p[1], p[2]))
              S == {p \in D : P(p)}
  <1>2. rank \in [D -> Nat]
    OBVIOUS
  <1>3. ASSUME NEW p \in D, \A y \in D : rank[y] < rank[p] => y \in S PROVE p \in S
    <2>1. p[1] \in 1..(n + 1) /\ p[2] \in 0..n
      BY <1>0
    <2>2. CASE p[1] >= p[2]
      <3>1. f[p] = <<>>
        BY <1>1, <2>2
      <3>2. PairsAt(a, c, v, p[1], p[2]) = {}
        BY <2>1, <2>2, PairsNone
      <3>. QED
        BY <3>1, <3>2, ListsNone
    <2>3. CASE ~(p[1] >= p[2])
      <3>. DEFINE x == p[1]
                  y == p[2]
                  i == passEqual(a, x, y)[1]
                  j == passEqual(a, x, y)[2]
                  p1 == <<i + 1, j - 1>>
                  p2 == <<x + 1, y>>
                  p3 == <<x, y - 1>>
      <3>0. x \in 1..n /\ y \in 1..n /\ x < y
        BY <2>1, <2>3
      <3>b. /\ i \in x..y /\ j \in x..y /\ Inside(a, x, y, i + 1, j - 1)
            /\ i = y \/ a[x] # a[i + 1]
        <4>. HIDE DEF x, y
        <4>. QED
          BY <3>0, PassEqualFacts
      <3>. HIDE DEF x, y, i, j
      <3>1. p1 \in D /\ p2 \in D /\ p3 \in D
        <4>0. /\ i + 1 \in 1..(n + 1) /\ x + 1 \in 1..(n + 1) /\ x \in 1..(n + 1)
              /\ j - 1 \in 0..n /\ y - 1 \in 0..n /\ y \in 0..n
          BY <3>0, <3>b
        <4>1. p1 \in (1..(n + 1)) \X (0..n) /\ p2 \in (1..(n + 1)) \X (0..n) /\ p3 \in (1..(n + 1)) \X (0..n)
          BY <4>0
        <4>. HIDE DEF D, p1, p2, p3
        <4>. QED
          BY <1>0, <4>1
      <3>2. rank[p1] < rank[p] /\ rank[p2] < rank[p] /\ rank[p3] < rank[p]
        <4>1. /\ rank[p] = IF y < x THEN 0 ELSE y - x + 1
              /\ rank[p1] = IF j - 1 < i + 1 THEN 0 ELSE j - 1 - (i + 1) + 1
              /\ rank[p2] = IF y < x + 1 THEN 0 ELSE y - (x + 1) + 1
              /\ rank[p3] = IF y - 1 < x THEN 0 ELSE y - 1 - x + 1
          <5>1. rank[p] = IF y < x THEN 0 ELSE y - x + 1
            BY DEF x, y
          <5>. HIDE DEF D
          <5>. QED
            BY <3>1, <5>1
        <4>. HIDE DEF rank, p1, p2, p3
        <4>. QED
          BY <3>0, <3>b, <4>1
      <3>. DEFINE x1 == i + 1
                  y1 == j - 1
                  x2 == x + 1
                  y3 == y - 1
      <3>3. P(p1) /\ P(p2) /\ P(p3)
        <4>. HIDE DEF P, rank, D, p1, p2, p3
        <4>. QED
          BY <1>3, <3>1, <3>2
      <3>4. /\ Lists(Int \X Int, f[p1], PairsAt(a, c, v, x1, y1))
            /\ Lists(Int \X Int, f[p2], PairsAt(a, c, v, x2, y))
            /\ Lists(Int \X Int, f[p3], PairsAt(a, c, v, x, y3))
        BY <3>3
      <3>5. f[p] = IF c + a[x] + a[y] = v THEN <<(<<a[x], a[y]>>)>> \o f[p1]
                   ELSE IF c + a[x] + a[y] < v THEN f[p2] ELSE f[p3]
        BY <1>1, <2>3 DEF x, y, i, j
      <3>6. x \in 1..n /\ y \in 1..n /\ x < y /\ x2 = x + 1 /\ y3 = y - 1
        BY <3>0
      <3>8. /\ x1 \in Int /\ x < x1 /\ y1 \in Int /\ y1 < y /\ Inside(a, x, y, x1, y1)
            /\ \A k \in x1..y1 : a[k] # a[x]
        <4>1. x1 \in Int /\ x < x1 /\ y1 \in Int /\ y1 < y /\ Inside(a, x, y, x1, y1)
          BY <3>b DEF Inside
        <4>2. x1 - 1 = y \/ a[x] # a[x1]
          BY <3>0, <3>b
        <4>. HIDE DEF x1, y1
        <4>3. ASSUME NEW k \in x1..y1 PROVE a[k] # a[x]
          <5>1. x1 \in 1..n /\ k \in 1..n /\ x <= x1 /\ x1 <= k /\ x1 - 1 # y
            BY <3>6, <4>1
          <5>2. a[x] <= a[x1] /\ a[x1] <= a[k] /\ a[x] \in Int /\ a[x1] \in Int /\ a[k] \in Int
            BY <3>6, <5>1 DEF Ascending, Rows
          <5>. QED
            BY <4>2, <5>1, <5>2
        <4>. QED
          BY <4>1, <4>3
      <3>. HIDE DEF x1, y1, x2, y3, p1, p2, p3, D, P, S, rank
      <3>9. a[x] \in Int /\ a[y] \in Int /\ c \in Int /\ v \in Int
        BY <3>6 DEF Rows
      <3>10. Lists(Int \X Int, f[p], PairsAt(a, c, v, x, y))
        <4>1. CASE c + a[x] + a[y] = v
          <5>0. PairsAt(a, c, v, x, y) = {<<a[x], a[y]>>} \union PairsAt(a, c, v, x1, y1)
            BY <3>6, <3>8, <4>1, PairsFound
          <5>. DEFINE t == <<a[x], a[y]>>
                      Z == PairsAt(a, c, v, x1, y1)
          <5>1. PairsAt(a, c, v, x, y) = {t} \union Z
            BY <5>0
          <5>2. f[p] = <<t>> \o f[p1]
            BY <3>5, <4>1
          <5>3. {t} \cap Z = {}
            <6>1. ASSUME NEW z \in Z PROVE z # t
              <7>1. PICK l \in x1..y1, k \in x1..y1 : z = <<a[l], a[k]>>
                BY DEF PairsAt
              <7>. QED
                BY <3>8, <7>1
            <6>. HIDE DEF t, Z
            <6>. QED
              BY <6>1
          <5>4. t \in Int \X Int
            BY <3>9
          <5>5. Lists(Int \X Int, f[p1], Z)
            BY <3>4
          <5>. HIDE DEF t, Z
          <5>6. Lists(Int \X Int, <<t>>, {t})
            BY <5>4, ListsOne
          <5>7. Lists(Int \X Int, <<t>> \o f[p1], {t} \union Z)
            BY <5>3, <5>5, <5>6, ListsJoin
          <5>. QED
            BY <5>1, <5>2, <5>7
        <4>2. CASE c + a[x] + a[y] < v
          <5>0. Short(a, c, v, x, y)
            BY <4>2 DEF Short
          <5>1. PairsAt(a, c, v, x, y) = PairsAt(a, c, v, x2, y)
            BY <3>6, <3>9, <5>0, PairsFromLeft
          <5>2. f[p] = f[p2]
            BY <3>5, <3>9, <4>2
          <5>. QED
            BY <3>4, <5>1, <5>2
        <4>3. CASE c + a[x] + a[y] > v
          <5>0. Long(a, c, v, x, y)
            BY <4>3 DEF Long
          <5>1. PairsAt(a, c, v, x, y) = PairsAt(a, c, v, x, y3)
            BY <3>6, <3>9, <5>0, PairsFromRight
          <5>2. f[p] = f[p3]
            BY <3>5, <3>9, <4>3
          <5>. QED
            BY <3>4, <5>1, <5>2
        <4>4. c + a[x] + a[y] = v \/ c + a[x] + a[y] < v \/ c + a[x] + a[y] > v
          <5>. DEFINE e == c + a[x] + a[y]
          <5>1. e \in Int /\ v \in Int
            BY <3>9
          <5>. HIDE DEF e
          <5>2. e = v \/ e < v \/ e > v
            BY <5>1
          <5>. QED
            BY <5>2 DEF e
        <4>. QED
          BY <4>1, <4>2, <4>3, <4>4
      <3>. QED
        BY <3>10 DEF x, y, P, S
    <2>. QED
      BY <2>2, <2>3
  <1>4. D \subseteq S
    <2>1. RankedIn(D, rank, S)
      <3>. HIDE DEF D, rank, S
      <3>. QED
        BY <1>3 DEF RankedIn
    <2>. HIDE DEF D, rank, S
    <2>. QED
      BY <1>2, <2>1, ByRank
  <1>. DEFINE p == <<first, last>>
  <1>5. p \in D /\ p[1] = first /\ p[2] = last
    OBVIOUS
  <1>. HIDE DEF D, p
  <1>6. P(p)
    BY <1>4, <1>5
  <1>. QED
    BY <1>1, <1>5, <1>6 DEF p

\* The triples found so far, and those that start at k, if its number is a new one.
Extended(s, b, k) ==
  IF k > 1 /\ s[k] = s[k - 1] THEN b
  ELSE b \o Prefixed(<<s[k]>>, pairs(s, s[k], 0, k + 1, Len(s)))

\* The pairs behind a number are listed once, and so are the triples with it.
LEMMA ExtendedBy ==
  ASSUME NEW n \in Nat, NEW s \in Rows(n), Ascending(n, s), NEW k \in 1..n
  PROVE  Lists(Int \X Int \X Int, Prefixed(<<s[k]>>, pairs(s, s[k], 0, k + 1, Len(s))),
               With(s[k], PairsAt(s, s[k], 0, k + 1, n)))
PROOF
  <1>. DEFINE c == s[k]
              m == k + 1
              q == pairs(s, c, 0, m, n)
  <1>1. c \in Int /\ m \in 1..(n + 1) /\ n \in 0..n /\ 0 \in Int
    BY DEF Rows
  <1>2. Len(s) = n
    BY ArrayFacts
  <1>. HIDE DEF c, m
  <1>3. Lists(Int \X Int, q, PairsAt(s, c, 0, m, n))
    BY <1>1, PairsLists
  <1>. HIDE DEF q
  <1>4. Lists(Int \X Int \X Int, Prefixed(<<c>>, q), With(c, PairsAt(s, c, 0, m, n)))
    BY <1>1, <1>3, ListsPrefixed
  <1>. QED
    BY <1>2, <1>4 DEF c, m, q

\* The triples found stay a sequence of triples.
LEMMA ExtendedIn ==
  ASSUME NEW n \in Nat, NEW s \in Rows(n), Ascending(n, s), NEW k \in 1..n,
         NEW b \in Seq(Int \X Int \X Int)
  PROVE  Extended(s, b, k) \in Seq(Int \X Int \X Int)
PROOF
  <1>. DEFINE q == Prefixed(<<s[k]>>, pairs(s, s[k], 0, k + 1, Len(s)))
              Z == With(s[k], PairsAt(s, s[k], 0, k + 1, n))
              V == Int \X Int \X Int
  <1>1. Lists(V, q, Z)
    BY ExtendedBy
  <1>2. Extended(s, b, k) = b \/ Extended(s, b, k) = b \o q
    BY DEF Extended
  <1>. HIDE DEF q, Z
  <1>3. q \in Seq(V)
    BY <1>1 DEF Lists
  <1>. HIDE DEF V
  <1>4. b \in Seq(V)
    BY DEF V
  <1>5. b \o q \in Seq(V)
    BY <1>3, <1>4
  <1>. QED
    BY <1>2, <1>4, <1>5 DEF V

\* A round for every number.
LEMMA ThreeSum2Rounds ==
  ASSUME NEW n \in Nat,
         NEW a \in Rows(n),
         sorted(a) \in Rows(n),
         Ascending(n, sorted(a))
  PROVE  \E r \in [0..n -> Seq(Int \X Int \X Int)] :
           /\ r[0] = <<>> /\ threeSum2(a) = r[n]
           /\ \A k \in 1..n : r[k] = Extended(sorted(a), r[k - 1], k)
PROOF
  <1>. DEFINE V == Seq(Int \X Int \X Int)
              last == Len(sorted(a))
              D == (1 - 1)..last
              Op(b, k) == Extended(sorted(a), b, k)
              G == [k \in 1..last |-> [b \in V |-> Op(b, k)]]
              Eq(r) == r = [k \in D |-> IF k < 1 THEN <<>> ELSE Op(r[k - 1], k)]
              s == CHOOSE r : Eq(r)
  <1>1. /\ last = n /\ last \in Int /\ 1 \in Int /\ 1 <= last + 1
        /\ 1 - 1 = 0 /\ D = 0..n /\ <<>> \in V
    BY ArrayFacts, EmptySeq
  <1>2. threeSum2(a) = (IF last < 1 THEN <<>> ELSE s[last])
    BY DEF threeSum2, For, Extended
  <1>3. ASSUME NEW k \in 1..last, NEW b \in V PROVE Op(b, k) \in V /\ G[k][b] = Op(b, k)
    <2>0. Op(b, k) \in V
      <3>. DEFINE o == sorted(a)
      <3>1. k \in 1..n /\ o \in Rows(n) /\ Ascending(n, o) /\ b \in Seq(Int \X Int \X Int)
        BY <1>1
      <3>. HIDE DEF o, V
      <3>2. Extended(o, b, k) \in Seq(Int \X Int \X Int)
        BY <3>1, ExtendedIn
      <3>. QED
        BY <3>2 DEF o, V
    <2>. QED
      BY <2>0
  <1>4. PICK q \in [D -> V] : \A k \in D : q[k] = IF k < 1 THEN <<>> ELSE G[k][q[k - 1]]
    <2>1. LoopBody(1, last, V, G)
      <3>. HIDE DEF G, V, Op, last
      <3>. QED
        BY <1>3 DEF LoopBody
    <2>. DEFINE B == <<>>
    <2>2. B \in V
      BY <1>1
    <2>3. PICK q : LoopRun(1, last, V, B, G, q)
      <3>. HIDE DEF G, V, last, B
      <3>. QED
        BY <1>1, <2>1, <2>2, LoopExists
    <2>. HIDE DEF G, V, last, B
    <2>4. q \in [D -> V] /\ \A k \in D : q[k] = IF k < 1 THEN B ELSE G[k][q[k - 1]]
      BY <2>3 DEF LoopRun
    <2>. QED
      BY <2>4 DEF B
  <1>5. Eq(q)
    <2>1. ASSUME NEW k \in D PROVE q[k] = IF k < 1 THEN <<>> ELSE Op(q[k - 1], k)
      <3>1. k >= 1 => k \in 1..last /\ k - 1 \in D /\ q[k - 1] \in V
        <4>. HIDE DEF G, V, Op, last
        <4>. QED
          BY <1>1, <1>4
      <3>2. k \in Int
        BY <1>1
      <3>. HIDE DEF G, V, Op, D, last
      <3>. QED
        BY <1>1, <1>3, <1>4, <3>1, <3>2
    <2>. HIDE DEF G, V, Op, D
    <2>. QED
      BY <1>4, <2>1
  <1>6. Eq(s)
    <2>. HIDE DEF Eq
    <2>. QED
      BY <1>5, Zenon
  <1>7. ASSUME NEW k \in D PROVE s[k] = IF k < 1 THEN <<>> ELSE Op(s[k - 1], k)
    <2>. HIDE DEF G, V, Op, D, s
    <2>. QED
      BY <1>6
  <1>8. 0..last \subseteq {k \in D : s[k] \in V}
    <2>1. Upward(0, last, {k \in D : s[k] \in V})
      <3>. HIDE DEF V, Op, s, G, last
      <3>. QED
        BY <1>1, <1>3, <1>7 DEF Upward
    <2>. HIDE DEF s, V, D, last
    <2>. QED
      BY <1>1, <2>1, AlongInterval
  <1>9. s \in [0..n -> V]
    <2>. HIDE DEF V, Op, last
    <2>. QED
      BY <1>1, <1>6, <1>8
  <1>. HIDE DEF s, D, Op, last
  <1>10. 0 \in D /\ s[0] = <<>>
    BY <1>1, <1>7
  <1>11. threeSum2(a) = s[n]
    <2>1. CASE last < 1
      BY <1>1, <1>2, <1>10, <2>1
    <2>2. CASE ~(last < 1)
      BY <1>1, <1>2, <2>2
    <2>. QED
      BY <2>1, <2>2
  <1>12. \A k \in 1..n : s[k] = Op(s[k - 1], k)
    BY <1>1, <1>7
  <1>. QED
    BY <1>9, <1>10, <1>11, <1>12 DEF Op

\* threeSum2: the triples that start with one number are no others.
LEMMA ThreeSum2Lists ==
  ASSUME NEW n \in Nat, NEW a \in Rows(n)
  PROVE  Lists(Int \X Int \X Int, threeSum2(a), Triples(n, sorted(a)))
PROOF
  <1>. DEFINE s == sorted(a)
              V == Int \X Int \X Int
  <1>0. s \in Rows(n) /\ Ascending(n, s)
    BY SortedSorts DEF Sorts
  <1>1. PICK r \in [0..n -> Seq(V)] :
           /\ r[0] = <<>> /\ threeSum2(a) = r[n]
           /\ \A k \in 1..n : r[k] = Extended(s, r[k - 1], k)
    BY <1>0, ThreeSum2Rounds
  <1>. HIDE DEF s
  <1>2. \A k \in 1..n : s[k] \in Int
    BY <1>0 DEF Rows
  <1>. DEFINE S == {k \in 0..n : Lists(V, r[k], TriplesUpTo(n, s, k))}
  <1>3. 0 \in S
    <2>1. TriplesUpTo(n, s, 0) = {} /\ 0 \in 0..n
      BY <1>0, TriplesWith
    <2>2. Lists(V, <<>>, {})
      <3>. HIDE DEF V
      <3>. QED
        BY ListsNone
    <2>. HIDE DEF V
    <2>. QED
      BY <1>1, <2>1, <2>2
  <1>4. ASSUME NEW k \in 1..n, k - 1 \in S PROVE k \in S
    <2>. DEFINE m == k - 1
                c == s[k]
                q == Prefixed(<<c>>, pairs(s, c, 0, k + 1, Len(s)))
                Z == With(c, PairsAt(s, c, 0, k + 1, n))
    <2>1. Lists(V, r[m], TriplesUpTo(n, s, m)) /\ m \in Int /\ k \in 0..n /\ m = k - 1
      BY <1>4
    <2>2. r[k] = IF k > 1 /\ s[k] = s[m] THEN r[m] ELSE r[m] \o q
      BY <1>1 DEF Extended
    <2>3. TriplesUpTo(n, s, k) = TriplesUpTo(n, s, m) \union Z
      BY <1>0, TriplesWith
    <2>4. Lists(V, q, Z)
      BY <1>0, ExtendedBy
    <2>5. \A t \in Z : t[1] = c
      BY DEF With
    <2>6. CASE k > 1 /\ s[k] = s[m]
      <3>1. TriplesUpTo(n, s, k) \subseteq TriplesUpTo(n, s, m)
        <4>. SUFFICES ASSUME NEW t \in TriplesUpTo(n, s, k) PROVE t \in TriplesUpTo(n, s, m)
          OBVIOUS
        <4>1. PICK x \in 1..n, y \in 1..n, z \in 1..n :
                 /\ x <= k /\ x < y /\ y < z /\ s[x] + s[y] + s[z] = 0
                 /\ t = <<s[x], s[y], s[z]>>
          BY DEF TriplesUpTo
        <4>2. t \in Int \X Int \X Int
          BY DEF TriplesUpTo
        <4>. DEFINE w == IF x = k THEN m ELSE x
        <4>3. w \in 1..n /\ w <= m /\ w < y /\ s[w] = s[x]
          BY <2>6, <4>1, SMTT(20)
        <4>. HIDE DEF w, m
        <4>4. s[w] + s[y] + s[z] = 0 /\ t = <<s[w], s[y], s[z]>>
          BY <4>1, <4>3
        <4>. QED
          BY <4>1, <4>2, <4>3, <4>4 DEF TriplesUpTo
      <3>2. TriplesUpTo(n, s, k) = TriplesUpTo(n, s, m)
        <4>. HIDE DEF Z, m
        <4>. QED
          BY <2>3, <3>1
      <3>3. r[k] = r[m]
        BY <2>2, <2>6
      <3>. HIDE DEF V, m
      <3>. QED
        BY <2>1, <3>2, <3>3
    <2>7. CASE ~(k > 1 /\ s[k] = s[m])
      <3>1. TriplesUpTo(n, s, m) \cap Z = {}
        <4>. SUFFICES ASSUME NEW t \in TriplesUpTo(n, s, m), t \in Z PROVE FALSE
          OBVIOUS
        <4>1. PICK x \in 1..n, y \in 1..n, z \in 1..n : x <= m /\ t = <<s[x], s[y], s[z]>>
          BY DEF TriplesUpTo
        <4>2. t[1] = s[x] /\ t[1] = s[k]
          <5>1. t[1] = s[x]
            BY <4>1
          <5>2. t[1] = c
            <6>. HIDE DEF Z, c
            <6>. QED
              BY <2>5
          <5>. QED
            BY <5>1, <5>2
        <4>3. m \in 1..n /\ k > 1 /\ m <= k
          BY <4>1
        <4>4. s[x] <= s[m] /\ s[m] <= s[k] /\ s[m] # s[k]
          <5>. HIDE DEF m
          <5>. QED
            BY <1>0, <2>7, <4>1, <4>3 DEF Ascending
        <4>. HIDE DEF m
        <4>. QED
          BY <1>2, <4>2, <4>3, <4>4
      <3>2. r[k] = r[m] \o q
        BY <2>2, <2>7
      <3>. HIDE DEF V, m, q, Z
      <3>3. Lists(V, r[m] \o q, TriplesUpTo(n, s, m) \union Z)
        BY <2>1, <2>4, <3>1, ListsJoin
      <3>. QED
        BY <2>1, <2>3, <3>2, <3>3
    <2>. QED
      BY <2>6, <2>7
  <1>5. Upward(0, n, S)
    <2>1. \A k \in (0 + 1)..n : k - 1 \in S => k \in S
      <3>. HIDE DEF S
      <3>. QED
        BY <1>4
    <2>. HIDE DEF S
    <2>. QED
      BY <1>3, <2>1 DEF Upward
  <1>6. n \in S
    <2>. HIDE DEF S
    <2>1. 0..n \subseteq S
      BY <1>5, AlongInterval
    <2>. QED
      BY <2>1
  <1>7. Lists(V, r[n], TriplesUpTo(n, s, n))
    BY <1>6
  <1>. QED
    BY <1>1, <1>7 DEF Triples, s

\* The functions for a sum problem agree.
LEMMA SumsAgreeOn ==
  ASSUME NEW n \in Nat, nums \in Rows(n), Numbers \subseteq Int
  PROVE  SumsAgree
PROOF
  <1>. DEFINE s == sorted(nums)
              triples == threeSum2(nums)
              Pair(a, v, j, k) == j # k /\ a[j] + a[k] = v
              Answers(a, v, answer) ==
                IF \E j, k \in Positions(a) : Pair(a, v, j, k)
                  THEN Len(answer) = 2 /\ Pair(a, v, answer[1], answer[2])
                  ELSE answer = <<>>
              Order(answer) == answer = <<>> \/ answer[1] < answer[2]
  <1>1. Sorts(n, nums, s)
    BY SortedSorts
  <1>2. s \in Rows(n) /\ Ascending(n, s)
    BY <1>1 DEF Sorts
  <1>3. threeSum(nums) = Triples(n, s)
    <2>. HIDE DEF s
    <2>. QED
      BY <1>1, ThreeSumTriples
  <1>4. threeSum1(nums) = Triples(n, s)
    BY ThreeSum1Triples
  <1>5. Lists(Int \X Int \X Int, triples, Triples(n, s))
    BY ThreeSum2Lists
  <1>. HIDE DEF s, triples
  <1>6. {triples[k] : k \in DOMAIN triples} = threeSum(nums) /\ Len(triples) = Cardinality(threeSum(nums))
    <2>1. DOMAIN triples = 1..Len(triples) /\ {triples[k] : k \in 1..Len(triples)} = Triples(n, s)
      BY <1>5 DEF Lists
    <2>2. Len(triples) = Cardinality(Triples(n, s))
      BY <1>5, ListsCount
    <2>. QED
      BY <1>3, <2>1, <2>2
  <1>7. ASSUME NEW a \in Rows(n), NEW v, NEW answer, Answer(n, a, v, answer)
        PROVE  Answers(a, v, answer)
    <2>1. Positions(a) = 1..n
      BY ArrayFacts
    <2>. QED
      BY <1>7, <2>1 DEF Answer
  <1>8. ASSUME NEW v \in Numbers
        PROVE  /\ \A answer \in {twoSum(nums, v), twoSum1(nums, v), twoSum2(nums, v)} :
                    Answers(nums, v, answer)
               /\ \A answer \in {twoSum(s, v), twoSumSearch(s, v), twoSumPointers(s, v)} :
                    Answers(s, v, answer) /\ Order(answer)
    <2>0. v \in Int
      OBVIOUS
    <2>1. Answer(n, nums, v, twoSum(nums, v))
      BY <2>0, TwoSumAnswers
    <2>2. Answer(n, nums, v, twoSum1(nums, v))
      BY <2>0, TwoSum1Answers
    <2>3. Answer(n, nums, v, twoSum2(nums, v))
      BY <2>0, TwoSum2Answers
    <2>4. Answer(n, s, v, twoSum(s, v)) /\ InOrder(twoSum(s, v))
      BY <1>2, <2>0, TwoSumAnswers
    <2>5. Answer(n, s, v, twoSumSearch(s, v)) /\ InOrder(twoSumSearch(s, v))
      BY <1>2, <2>0, TwoSumSearchAnswers
    <2>6. Answer(n, s, v, twoSumPointers(s, v)) /\ InOrder(twoSumPointers(s, v))
      BY <1>2, <2>0, TwoSumPointersAnswers
    <2>7. \A answer : InOrder(answer) => Order(answer)
      BY DEF InOrder
    <2>. HIDE DEF Answers, Order
    <2>8. /\ Answers(nums, v, twoSum(nums, v)) /\ Answers(nums, v, twoSum1(nums, v))
          /\ Answers(nums, v, twoSum2(nums, v))
      BY <1>7, <2>1, <2>2, <2>3
    <2>9. /\ Answers(s, v, twoSum(s, v)) /\ Answers(s, v, twoSumSearch(s, v))
          /\ Answers(s, v, twoSumPointers(s, v))
      BY <1>2, <1>7, <2>4, <2>5, <2>6
    <2>10. Order(twoSum(s, v)) /\ Order(twoSumSearch(s, v)) /\ Order(twoSumPointers(s, v))
      BY <2>4, <2>5, <2>6, <2>7
    <2>. QED
      BY <2>8, <2>9, <2>10
  <1>9. nums # <<>> => /\ maxSubArray1(nums) = maxSubArray(nums)
                       /\ maxSubArray2(nums) = maxSubArray(nums)
    <2>. SUFFICES ASSUME nums # <<>> PROVE /\ maxSubArray1(nums) = maxSubArray(nums)
                                           /\ maxSubArray2(nums) = maxSubArray(nums)
      OBVIOUS
    <2>1. n >= 1
      BY RowsEmpty
    <2>. QED
      BY <2>1, SubArraysAgree
  <1>10. threeSum1(nums) = threeSum(nums)
    BY <1>3, <1>4
  <1>. QED
    BY <1>6, <1>8, <1>9, <1>10 DEF SumsAgree, s, triples
-----------------------------------------------------------------------------
\* An array of numbers, or none before the touch.
ArrayInv == \E n \in Nat : nums \in [1..n -> Numbers]

\* The invariant of the application.
THEOREM Invariant == Spec => []ArrayInv
PROOF
  <1>1. Init => ArrayInv
    <2>. SUFFICES ASSUME Init PROVE nums \in [1..0 -> Numbers]
      BY DEF ArrayInv
    <2>1. <<>> \in Seq(Numbers) /\ Len(<<>>) = 0
      BY EmptySeq
    <2>. QED
      BY <2>1, LenProperties DEF Init
  <1>2. ArrayInv /\ [Next]_nums => ArrayInv'
    <2>1. CASE Touch
      <3>1. PICK n \in 1..MaxLength : nums' \in [1..n -> Numbers]
        BY <2>1 DEF Touch
      <3>. QED
        BY <3>1 DEF ArrayInv, Numbers
    <2>2. CASE UNCHANGED nums
      BY <2>2 DEF ArrayInv, Numbers
    <2>. QED
      BY <2>1, <2>2 DEF Next
  <1>. QED
    BY <1>1, <1>2, PTL DEF Spec

\* The numbers are integers, so that the array is one of those the lemmas are about.
LEMMA ArrayIs ==
  ASSUME AlgorithmsAssumption, ArrayInv
  PROVE  Numbers \subseteq Int /\ \E n \in Nat : nums \in Rows(n)
PROOF
  <1>1. Numbers \subseteq Int
    BY DEF AlgorithmsAssumption, Numbers
  <1>2. PICK n \in Nat : nums \in [1..n -> Numbers]
    BY DEF ArrayInv
  <1>3. nums \in [1..n -> Int]
    <2>. HIDE DEF Numbers
    <2>. QED
      BY <1>1, <1>2
  <1>. QED
    BY <1>1, <1>3 DEF Rows

\* All the sorts return the sorted array, and both binary searches find what is in it.
THEOREM SortsAgreeHolds == ASSUME AlgorithmsAssumption PROVE Spec => []SortsAgree
PROOF
  <1>1. ArrayInv => SortsAgree
    BY ArrayIs, SortsAgreeOn
  <1>. QED
    BY <1>1, Invariant, PTL

\* The functions for a sum problem find what there is to find, and agree.
THEOREM SumsAgreeHolds == ASSUME AlgorithmsAssumption PROVE Spec => []SumsAgree
PROOF
  <1>1. ArrayInv => SumsAgree
    BY ArrayIs, SumsAgreeOn
  <1>. QED
    BY <1>1, Invariant, PTL
=============================================================================
