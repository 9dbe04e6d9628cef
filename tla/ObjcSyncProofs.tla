---------------------------- MODULE ObjcSyncProofs ----------------------------
(***************************************************************************)
(* Proofs about ObjcSync, for every finite set of threads and of objects,  *)
(* and whatever the bounds on what the threads do, which TypeCorrect is    *)
(* about.                                                                  *)
(***************************************************************************)
EXTENDS ObjcSync, FiniteSetTheorems, TLAPS

Labels == {"idle", "cache", "decrement", "walk", "done", "enter", "try", "unlock"}

\* The ranges, without the bounds.
Types ==
  /\ listp \in 0..Cardinality(Locks)
  /\ object \in [Nodes -> Locks \union {Nobody}] /\ threadCount \in [Nodes -> Int]
  /\ mutex \in [Nodes -> [owner : Clients \union {Nobody}, depth : Nat]]
  /\ lockp \in Clients \union {Nobody}
  /\ cache \in [Clients -> [Nodes -> Nat]]
  /\ at \in [Clients -> Labels]
  /\ obj \in [Clients -> Locks \union {Nobody}] /\ why \in [Clients -> {"enter", "try", "exit"}]
  /\ p \in [Clients -> Nodes \union {NoNode}] /\ firstUnused \in [Clients -> Nodes \union {NoNode}]
  /\ inside \in [Clients -> [Locks -> Nat]] /\ stray \in [Nodes -> Nat]

\* The nodes in the list have different objects, and the others have not been used yet.
List ==
  /\ \A n \in Nodes : n <= listp => object[n] \in Locks
  /\ \A m, n \in Nodes : m <= listp /\ n <= listp /\ object[m] = object[n] => m = n
  /\ \A n \in Nodes : n > listp => threadCount[n] = 0 /\ mutex[n].owner = Nobody

\* In the slow path, under the spinlock; and between the cache and the mutex.
Walking == {"walk", "done"}
Exiting(t) == at[t] \in {"decrement", "unlock"}
Entering(t) == at[t] \in {"enter", "try"}

\* The node that a thread has come to is that of its object, as long as it has a share of it.
Place(t) ==
  /\ at[t] # "idle" => obj[t] \in Locks
  /\ lockp = t <=> at[t] \in Walking
  /\ Entering(t) => why[t] = at[t] /\ p[t] # NoNode /\ Cached(t, p[t], obj[t])
  /\ Exiting(t) => /\ why[t] = "exit" /\ p[t] # NoNode /\ p[t] <= listp
                   /\ cache[t][p[t]] > 0 \/ at[t] = "decrement" => object[p[t]] = obj[t]
                   /\ \A n \in Nodes : Cached(t, n, obj[t]) => n = p[t]
  /\ at[t] = "decrement" => cache[t][p[t]] = 0
  /\ at[t] \in Walking => /\ p[t] <= listp
                          /\ \A n \in Nodes : ~Cached(t, n, obj[t])
  /\ at[t] = "walk" => /\ \A n \in Nodes : n > p[t] /\ n <= listp => object[n] # obj[t]
                       /\ firstUnused[t] # NoNode => /\ firstUnused[t] <= listp
                                                     /\ threadCount[firstUnused[t]] = 0
  /\ at[t] = "done" => p[t] # NoNode /\ object[p[t]] = obj[t]

Places == \A t \in Clients : Place(t)

Bit(b) == IF b THEN 1 ELSE 0

\* What the owner of a mutex knows of it: the depth is the number of its enters, each of which is
\* in its cache, with one more on the way in and one less on the way out.
Owned(n, t) ==
  /\ mutex[n].depth > 0
  /\ mutex[n].depth + Bit(Entering(t) /\ p[t] = n) <= cache[t][n] + Bit(Exiting(t) /\ p[t] = n)
  /\ inside[t][IF Exiting(t) /\ p[t] = n THEN obj[t] ELSE object[n]] = mutex[n].depth

Mutexes ==
  /\ \A n \in Nodes : mutex[n].owner = Nobody => mutex[n].depth = 0
  /\ \A n \in Nodes, t \in Clients : mutex[n].owner = t => Owned(n, t)
  /\ \A t \in Clients, o \in Locks :
       inside[t][o] > 0 => \E n \in Nodes : /\ mutex[n].owner = t
                                            /\ o = IF Exiting(t) /\ p[t] = n THEN obj[t] ELSE object[n]

(***************************************************************************)
(* The inductive invariant.  A node changes its object only if its share   *)
(* count is 0, and so SyncDataBalance keeps it for the threads that have   *)
(* it in their cache, among them the owner of its mutex unless it is just  *)
(* leaving.                                                                *)
(***************************************************************************)
IInv == Types /\ List /\ Places /\ SyncDataBalance /\ Mutexes
-----------------------------------------------------------------------------
\* The nodes are the numbers up to that of the objects.
LEMMA NodesFacts == /\ Cardinality(Locks) \in Nat /\ NoNode \notin Nodes /\ NoNode = 0
                    /\ \A n \in Nodes : n \in Nat /\ n > 0
                    /\ \A n \in Nat : n \in Nodes <=> 0 < n /\ n <= Cardinality(Locks)
PROOF
  <1>1. Cardinality(Locks) \in Nat
    BY SyncAssumption, FS_CardinalityType
  <1>. QED
    BY <1>1 DEF Nodes, NoNode

\* A function of functions, changed at one place.
LEMMA ChangedTwice ==
  ASSUME NEW S, NEW T, NEW V, NEW f \in [S -> [T -> V]], NEW s \in S, NEW x \in T, NEW v \in V
  PROVE  [f EXCEPT ![s][x] = v] \in [S -> [T -> V]]
PROOF
  OBVIOUS

\* The head of the list is one of them, or none.
LEMMA ListFacts == Types => listp \in Nat /\ listp <= Cardinality(Locks)
PROOF
  BY NodesFacts DEF Types

\* A set that changes by one element at most.
LEMMA OneElement ==
  ASSUME NEW S, NEW S2, IsFiniteSet(S), NEW x, S2 \ {x} = S \ {x}
  PROVE  /\ Cardinality(S) \in Nat /\ Cardinality(S2) \in Nat
         /\ Cardinality(S2) = Cardinality(S) + Bit(x \in S2) - Bit(x \in S)
PROOF
  <1>. USE DEF Bit
  <1>0. Cardinality(S) \in Nat
    BY FS_CardinalityType
  <1>1. CASE x \in S2 /\ x \notin S
    <2>1. S2 = S \union {x}
      BY <1>1
    <2>. QED
      BY <1>0, <1>1, <2>1, FS_AddElement
  <1>2. CASE x \notin S2 /\ x \in S
    <2>1. S2 = S \ {x}
      BY <1>2
    <2>2. IsFiniteSet(S2) /\ Cardinality(S2) = Cardinality(S) - 1
      BY <1>2, <2>1, FS_RemoveElement
    <2>3. Cardinality(S2) \in Nat
      BY <2>2, FS_CardinalityType
    <2>. QED
      BY <1>0, <1>2, <2>2, <2>3
  <1>3. CASE x \in S2 <=> x \in S
    <2>1. S2 = S
      BY <1>3
    <2>. QED
      BY <1>0, <1>3, <2>1
  <1>. QED
    BY <1>1, <1>2, <1>3

\* The exits that have found a node in the list.
Passing(n) == {t \in Clients : p[t] = n /\ at[t] = "done" /\ why[t] = "exit"}

\* The node of a user is in use, and in the list.
LEMMA InUse ==
  ASSUME Types, SyncDataBalance, List, NEW n \in Nodes
  PROVE  /\ threadCount[n] \in Nat
         /\ \A t \in Users(n) : threadCount[n] > 0 /\ n <= listp
         /\ \A t \in Clients : cache[t][n] > 0 => threadCount[n] > 0 /\ n <= listp
PROOF
  <1>1. IsFiniteSet(Users(n)) /\ IsFiniteSet(Passing(n))
    <2>1. Users(n) \subseteq Clients /\ Passing(n) \subseteq Clients
      BY DEF Users, Passing
    <2>. QED
      BY <2>1, SyncAssumption, FS_Subset
  <1>2. Cardinality(Users(n)) \in Nat /\ Cardinality(Passing(n)) \in Nat
    BY <1>1, FS_CardinalityType
  <1>3. threadCount[n] = Cardinality(Users(n)) + stray[n] + Cardinality(Passing(n))
    BY DEF SyncDataBalance, Passing
  <1>4. stray[n] \in Nat
    BY DEF Types
  <1>5. ASSUME NEW t \in Users(n) PROVE threadCount[n] > 0
    <2>1. Cardinality(Users(n)) # 0
      BY <1>1, <1>5, FS_EmptySet
    <2>. QED
      BY <1>2, <1>3, <1>4, <2>1
  <1>6. threadCount[n] > 0 => n <= listp
    <2>1. listp \in Nat /\ n \in Nat
      BY NodesFacts, ListFacts
    <2>. QED
      BY <2>1 DEF List
  <1>7. ASSUME NEW t \in Clients, cache[t][n] > 0 PROVE t \in Users(n)
    BY <1>7 DEF Users
  <1>. QED
    BY <1>2, <1>3, <1>4, <1>5, <1>6, <1>7

\* There are as many nodes as objects, and so there is one for an object that has none.
LEMMA NodeLeft ==
  ASSUME Types, List, NEW o \in Locks, \A n \in Nodes : n <= listp => object[n] # o
  PROVE  listp + 1 \in Nodes
PROOF
  <1>. DEFINE N == Cardinality(Locks)
  <1>1. listp \in Nat /\ listp <= N /\ N \in Nat
    BY NodesFacts DEF Types
  <1>. SUFFICES ASSUME listp = N PROVE FALSE
    <2>1. listp < N => listp + 1 \in Nodes
      BY <1>1, NodesFacts
    <2>. QED
      BY <1>1, <2>1
  <1>. DEFINE S == 1..(listp + 1)
              f == [k \in S |-> IF k = listp + 1 THEN o ELSE object[k]]
  <1>2. IsFiniteSet(S) /\ Cardinality(S) = listp + 1
    <2>1. 1 \in Int /\ listp + 1 \in Int /\ ~(1 > listp + 1) /\ listp + 1 - 1 + 1 = listp + 1
      BY <1>1
    <2>. QED
      BY <2>1, FS_Interval
  <1>3. f \in [S -> Locks]
    BY <1>1, NodesFacts DEF List
  <1>4. PICK k, l \in S : k # l /\ f[k] = f[l]
    <2>. HIDE DEF S, f
    <2>. QED
      BY <1>1, <1>2, <1>3, SyncAssumption, FS_PigeonHole
  <1>. QED
    BY <1>1, <1>4, NodesFacts DEF List

\* The node that an enter takes for an object that has none is not in use.
LEMMA ChosenNode ==
  ASSUME IInv, NEW t \in Clients, at[t] = "walk", p[t] = NoNode
  PROVE  /\ Choose(t) \in Nodes /\ threadCount[Choose(t)] = 0
         /\ Choose(t) <= listp + 1
         /\ \A n \in Nodes : n <= listp => object[n] # obj[t]
         /\ obj[t] \in Locks
PROOF
  <1>1. Place(t) /\ Types /\ List
    BY DEF IInv, Places
  <1>2. /\ obj[t] \in Locks
        /\ \A n \in Nodes : n <= listp => object[n] # obj[t]
    BY <1>1, NodesFacts DEF Place, NoNode
  <1>3. listp + 1 \in Nodes
    BY <1>1, <1>2, NodeLeft
  <1>4. threadCount[listp + 1] = 0
    BY <1>1, <1>3, NodesFacts DEF List, Types
  <1>5. CASE firstUnused[t] = NoNode
    BY <1>2, <1>3, <1>4, <1>5, <1>1 DEF Choose, Types
  <1>6. CASE firstUnused[t] # NoNode
    <2>1. firstUnused[t] \in Nodes /\ firstUnused[t] \in Nat /\ listp \in Nat
      BY <1>1, <1>6, NodesFacts DEF Types
    <2>2. firstUnused[t] <= listp /\ threadCount[firstUnused[t]] = 0
      BY <1>1, <1>6 DEF Place
    <2>3. Choose(t) = firstUnused[t]
      BY <1>6 DEF Choose
    <2>4. firstUnused[t] <= listp + 1
      BY <2>1, <2>2
    <2>. QED
      BY <1>2, <2>1, <2>2, <2>3, <2>4
  <1>. QED
    BY <1>5, <1>6
-----------------------------------------------------------------------------
(***************************************************************************)
(* The types.                                                              *)
(***************************************************************************)
LEMMA ReturnTypes ==
  ASSUME Types, NEW t \in Clients, Return(t)
  PROVE  /\ at' \in [Clients -> Labels]
         /\ obj' \in [Clients -> Locks \union {Nobody}] /\ why' \in [Clients -> {"enter", "try", "exit"}]
         /\ p' \in [Clients -> Nodes \union {NoNode}] /\ firstUnused' \in [Clients -> Nodes \union {NoNode}]
PROOF
  BY DEF Return, Goto, Types, Labels

\* A step keeps the types.
LEMMA TypesStep == ASSUME IInv, Next PROVE Types'
PROOF
  <1>0. Types
    BY DEF IInv
  <1>a. PICK t \in Clients : Step(t) \/ \E o \in Locks, call \in {"enter", "try", "exit"} : Call(t, o, call)
    BY DEF Next
  <1>1. CASE \E o \in Locks, call \in {"enter", "try", "exit"} : Call(t, o, call)
    BY <1>0, <1>1 DEF Call, Goto, Types, Labels, list
  <1>2. CASE Hit(t)
    <2>1. PICK n \in Nodes : /\ Cached(t, n, obj[t])
                             /\ p' = [p EXCEPT ![t] = n]
                             /\ cache' = [cache EXCEPT ![t][n] = IF why[t] = "exit" THEN @ - 1 ELSE @ + 1]
      BY <1>2 DEF Hit
    <2>2. cache[t][n] \in Nat \ {0}
      <3>1. cache[t][n] \in Nat /\ cache[t][n] > 0
        BY <1>0, <2>1 DEF Types, Cached
      <3>. QED
        BY <3>1
    <2>3. cache' \in [Clients -> [Nodes -> Nat]]
      <3>1. (IF why[t] = "exit" THEN cache[t][n] - 1 ELSE cache[t][n] + 1) \in Nat
        BY <2>2
      <3>2. n \in Nodes /\ cache \in [Clients -> [Nodes -> Nat]]
        BY <1>0 DEF Types
      <3>. QED
        BY <2>1, <3>1, <3>2, ChangedTwice
    <2>4. at' \in [Clients -> Labels]
      BY <1>0, <1>2 DEF Hit, Goto, Types, Labels
    <2>5. p' \in [Clients -> Nodes \union {NoNode}]
      BY <1>0, <2>1 DEF Types
    <2>. QED
      BY <1>0, <1>2, <2>3, <2>4, <2>5 DEF Hit, Types, list
  <1>3. CASE Decrement(t)
    <2>0. p[t] \in Nodes /\ threadCount[p[t]] - 1 \in Int
      <3>1. p[t] \in Nodes
        BY <1>0, <1>3 DEF IInv, Places, Place, Exiting, Decrement, Types
      <3>. QED
        BY <1>0, <3>1 DEF Types
    <2>1. at' \in [Clients -> Labels] /\ threadCount' \in [Nodes -> Int]
      BY <1>0, <1>3, <2>0 DEF Decrement, Goto, Types, Labels
    <2>. QED
      BY <1>0, <1>3, <2>1 DEF Decrement, Types, locals
  <1>4. CASE Miss(t)
    <2>1. listp \in Nodes \union {NoNode}
      BY <1>0, NodesFacts, ListFacts
    <2>2. /\ p' \in [Clients -> Nodes \union {NoNode}] /\ firstUnused' \in [Clients -> Nodes \union {NoNode}]
          /\ at' \in [Clients -> Labels] /\ lockp' \in Clients \union {Nobody}
      BY <1>0, <1>4, <2>1 DEF Miss, Goto, Types, Labels
    <2>. QED
      BY <1>0, <1>4, <2>2 DEF Miss, Types, list
  <1>5. CASE Walk(t)
    <2>1. p[t] \in Nodes
      BY <1>0, <1>5 DEF Walk, Types
    <2>2. p[t] - 1 \in Nodes \union {NoNode}
      BY <2>1, NodesFacts
    <2>3. p' \in [Clients -> Nodes \union {NoNode}] /\ firstUnused' \in [Clients -> Nodes \union {NoNode}]
      BY <1>0, <1>5, <2>1, <2>2 DEF Walk, Types
    <2>4. at' \in [Clients -> Labels]
      BY <1>0, <1>5 DEF Walk, Goto, Types, Labels
    <2>5. threadCount' \in [Nodes -> Int]
      <3>1. threadCount[p[t]] + 1 \in Int
        BY <1>0, <2>1 DEF Types
      <3>. QED
        BY <1>0, <1>5, <3>1 DEF Walk, Types
    <2>. QED
      BY <1>0, <1>5, <2>3, <2>4, <2>5 DEF Walk, Types
  <1>6. CASE WalkEnds(t)
    <2>1. CASE why[t] = "exit"
      BY <1>0, <1>6, <2>1, ReturnTypes DEF WalkEnds, Types, list
    <2>2. CASE why[t] # "exit"
      <3>1. Choose(t) \in Nodes /\ Choose(t) \in 0..Cardinality(Locks) /\ obj[t] \in Locks
        BY <1>6, NodesFacts, ChosenNode DEF WalkEnds
      <3>2. p' \in [Clients -> Nodes \union {NoNode}] /\ at' \in [Clients -> Labels]
        BY <1>0, <1>6, <2>2, <3>1 DEF WalkEnds, Goto, Types, Labels
      <3>3. object' \in [Nodes -> Locks \union {Nobody}] /\ threadCount' \in [Nodes -> Int]
        <4>1. object' = [object EXCEPT ![Choose(t)] = obj[t]] /\ threadCount' = [threadCount EXCEPT ![Choose(t)] = 1]
          BY <1>6, <2>2 DEF WalkEnds
        <4>2. object \in [Nodes -> Locks \union {Nobody}] /\ threadCount \in [Nodes -> Int]
          BY <1>0 DEF Types
        <4>. QED
          BY <3>1, <4>1, <4>2
      <3>4. listp' \in 0..Cardinality(Locks)
        BY <1>0, <1>6, <2>2, <3>1 DEF WalkEnds, Types
      <3>. QED
        BY <1>0, <1>6, <2>2, <3>2, <3>3, <3>4 DEF WalkEnds, Types
    <2>. QED
      BY <2>1, <2>2
  <1>7. CASE DoneWalk(t)
    <2>1. CASE why[t] = "exit"
      <3>1. stray' \in [Nodes -> Nat] /\ lockp' = Nobody /\ Return(t)
        BY <1>0, <1>7, <2>1 DEF DoneWalk, Types
      <3>. QED
        BY <1>0, <1>7, <2>1, <3>1, ReturnTypes DEF DoneWalk, Types, list
    <2>2. CASE why[t] # "exit"
      <3>1. cache' \in [Clients -> [Nodes -> Nat]]
        <4>1. p[t] \in Nodes /\ cache \in [Clients -> [Nodes -> Nat]]
          BY <1>0, <1>7 DEF IInv, Places, Place, DoneWalk, Types
        <4>2. cache' = [cache EXCEPT ![t][p[t]] = 1] /\ 1 \in Nat
          BY <1>7, <2>2 DEF DoneWalk
        <4>. QED
          BY <4>1, <4>2, ChangedTwice, Zenon
      <3>2. why[t] \in Labels
        BY <1>0, <2>2 DEF Types, Labels
      <3>3. at' \in [Clients -> Labels] /\ firstUnused' \in [Clients -> Nodes \union {NoNode}] /\ lockp' = Nobody
        BY <1>0, <1>7, <2>2, <3>2 DEF DoneWalk, Goto, Types
      <3>. QED
        BY <1>0, <1>7, <2>2, <3>1, <3>3 DEF DoneWalk, Types, list
    <2>. QED
      BY <2>1, <2>2
  <1>8. CASE MutexLock(t) \/ MutexTryLock(t)
    <2>1. mutex' \in [Nodes -> [owner : Clients \union {Nobody}, depth : Nat]] /\ inside' \in [Clients -> [Locks -> Nat]]
      <3>1. p[t] \in Nodes /\ obj[t] \in Locks
        BY <1>0, <1>8 DEF IInv, Places, Place, Entering, MutexLock, MutexTryLock, Types
      <3>2. mutex[p[t]] \in [owner : Clients \union {Nobody}, depth : Nat] /\ inside[t][obj[t]] \in Nat
        BY <1>0, <3>1 DEF Types
      <3>3. CASE MutexLocked(t)
        <4>1. [owner |-> t, depth |-> mutex[p[t]].depth + 1] \in [owner : Clients \union {Nobody}, depth : Nat]
          BY <3>2
        <4>2. mutex' \in [Nodes -> [owner : Clients \union {Nobody}, depth : Nat]]
          BY <1>0, <3>1, <3>3, <4>1 DEF MutexLocked, Types
        <4>3. inside' \in [Clients -> [Locks -> Nat]]
          <5>1. inside \in [Clients -> [Locks -> Nat]] /\ inside[t][obj[t]] + 1 \in Nat
            BY <1>0, <3>2 DEF Types
          <5>. QED
            BY <3>1, <3>3, <5>1, ChangedTwice DEF MutexLocked
        <4>. QED
          BY <4>2, <4>3
      <3>4. CASE UNCHANGED <<mutex, inside>>
        BY <1>0, <3>4 DEF Types
      <3>. QED
        BY <1>8, <3>3, <3>4 DEF MutexLock, MutexTryLock
    <2>2. Return(t)
      BY <1>8 DEF MutexLock, MutexTryLock
    <2>. QED
      BY <1>0, <1>8, <2>1, <2>2, ReturnTypes DEF MutexLock, MutexTryLock, Types, list
  <1>9. CASE MutexTryUnlock(t)
    <2>1. CASE mutex[p[t]].owner = t
      <3>1. p[t] \in Nodes /\ Owned(p[t], t) /\ Exiting(t) /\ obj[t] \in Locks
        <4>1. p[t] \in Nodes /\ Exiting(t) /\ obj[t] \in Locks
          BY <1>9, <1>0 DEF IInv, Places, Place, Exiting, MutexTryUnlock, Types
        <4>. QED
          BY <2>1, <4>1 DEF IInv, Mutexes
      <3>2. mutex[p[t]].depth \in Nat \ {0} /\ inside[t][obj[t]] \in Nat \ {0}
        <4>1. mutex[p[t]].depth \in Nat /\ inside[t][obj[t]] \in Nat
          BY <1>0, <3>1 DEF Types
        <4>. QED
          BY <3>1, <4>1 DEF Owned
      <3>3. mutex[p[t]].depth - 1 \in Nat /\ inside[t][obj[t]] - 1 \in Nat
        BY <3>2
      <3>4. inside' \in [Clients -> [Locks -> Nat]]
        <4>1. inside \in [Clients -> [Locks -> Nat]]
          BY <1>0 DEF Types
        <4>2. inside' = [inside EXCEPT ![t][obj[t]] = inside[t][obj[t]] - 1]
          BY <1>9, <2>1 DEF MutexTryUnlock
        <4>. QED
          BY <3>1, <3>3, <4>1, <4>2, ChangedTwice, Zenon
      <3>5. mutex' \in [Nodes -> [owner : Clients \union {Nobody}, depth : Nat]]
        <4>1. [owner |-> IF mutex[p[t]].depth = 1 THEN Nobody ELSE t, depth |-> mutex[p[t]].depth - 1]
                \in [owner : Clients \union {Nobody}, depth : Nat]
          BY <3>3
        <4>. QED
          BY <1>0, <1>9, <2>1, <4>1 DEF MutexTryUnlock, Types
      <3>. QED
        BY <1>0, <1>9, <3>4, <3>5, ReturnTypes DEF MutexTryUnlock, Types, list
    <2>2. CASE mutex[p[t]].owner # t
      BY <1>0, <1>9, <2>2, ReturnTypes DEF MutexTryUnlock, Types, list
    <2>. QED
      BY <2>1, <2>2
  <1>. QED
    BY <1>a, <1>1, <1>2, <1>3, <1>4, <1>5, <1>6, <1>7, <1>8, <1>9 DEF Step
-----------------------------------------------------------------------------
\* A step changes the locals, the cache and the history of one thread.
Apart(t) ==
  \A u \in Clients \ {t} :
    /\ cache'[u] = cache[u] /\ at'[u] = at[u] /\ obj'[u] = obj[u] /\ why'[u] = why[u]
    /\ p'[u] = p[u] /\ firstUnused'[u] = firstUnused[u] /\ inside'[u] = inside[u]

\* A step of t leaves the locals, the cache and the history of the others alone.
LEMMA StepsApart ==
  ASSUME Types, NEW t \in Clients,
         Step(t) \/ \E o \in Locks, call \in {"enter", "try", "exit"} : Call(t, o, call)
  PROVE  Apart(t)
PROOF
  <1>. USE DEF Types, Apart, Goto, Return
  <1>1. CASE \E o \in Locks, call \in {"enter", "try", "exit"} : Call(t, o, call)
    BY <1>1 DEF Call
  <1>2. CASE Hit(t)
    BY <1>2 DEF Hit
  <1>3. CASE Decrement(t)
    BY <1>3 DEF Decrement, locals
  <1>4. CASE Miss(t)
    BY <1>4 DEF Miss
  <1>5. CASE Walk(t)
    BY <1>5 DEF Walk
  <1>6. CASE WalkEnds(t)
    BY <1>6 DEF WalkEnds
  <1>7. CASE DoneWalk(t)
    BY <1>7 DEF DoneWalk
  <1>8. CASE MutexLock(t)
    BY <1>8 DEF MutexLock, MutexLocked
  <1>9. CASE MutexTryLock(t)
    BY <1>9 DEF MutexTryLock, MutexLocked
  <1>10. CASE MutexTryUnlock(t)
    BY <1>10 DEF MutexTryUnlock
  <1>. QED
    BY <1>1, <1>2, <1>3, <1>4, <1>5, <1>6, <1>7, <1>8, <1>9, <1>10 DEF Step
-----------------------------------------------------------------------------
(***************************************************************************)
(* The share counts.                                                       *)
(***************************************************************************)
IsUser(t, n) == \/ cache[t][n] > 0
                \/ p[t] = n /\ (at[t] = "decrement" \/ (at[t] = "done" /\ why[t] # "exit"))
IsPassing(t, n) == p[t] = n /\ at[t] = "done" /\ why[t] = "exit"

\* The shares of one thread change, and with them the count.
LEMMA SharesMove ==
  ASSUME Types, SyncDataBalance, NEW t \in Clients, Apart(t), Types',
         \A n \in Nodes :
           threadCount'[n] - stray'[n] - Bit(IsUser(t, n)') - Bit(IsPassing(t, n)')
             = threadCount[n] - stray[n] - Bit(IsUser(t, n)) - Bit(IsPassing(t, n))
  PROVE  SyncDataBalance'
PROOF
  <1>. SUFFICES ASSUME NEW n \in Nodes
                PROVE  threadCount'[n] = Cardinality(Users(n)') + stray'[n] + Cardinality(Passing(n)')
    BY DEF SyncDataBalance, Passing
  <1>1. IsFiniteSet(Users(n)) /\ IsFiniteSet(Passing(n))
    <2>1. Users(n) \subseteq Clients /\ Passing(n) \subseteq Clients
      BY DEF Users, Passing
    <2>. QED
      BY <2>1, SyncAssumption, FS_Subset
  <1>2. Users(n)' \ {t} = Users(n) \ {t} /\ Passing(n)' \ {t} = Passing(n) \ {t}
    BY DEF Users, Passing, Apart
  <1>3. /\ Cardinality(Users(n)) \in Nat /\ Cardinality(Users(n)') \in Nat
        /\ Cardinality(Users(n)') = Cardinality(Users(n)) + Bit(t \in Users(n)') - Bit(t \in Users(n))
    BY <1>1, <1>2, OneElement
  <1>4. /\ Cardinality(Passing(n)) \in Nat /\ Cardinality(Passing(n)') \in Nat
        /\ Cardinality(Passing(n)') = Cardinality(Passing(n)) + Bit(t \in Passing(n)') - Bit(t \in Passing(n))
    BY <1>1, <1>2, OneElement
  <1>5. /\ Bit(t \in Users(n)) = Bit(IsUser(t, n)) /\ Bit(t \in Users(n)') = Bit(IsUser(t, n)')
        /\ Bit(t \in Passing(n)) = Bit(IsPassing(t, n)) /\ Bit(t \in Passing(n)') = Bit(IsPassing(t, n)')
    <2>1. /\ (t \in Users(n) <=> IsUser(t, n)) /\ (t \in Users(n)' <=> IsUser(t, n)')
          /\ (t \in Passing(n) <=> IsPassing(t, n)) /\ (t \in Passing(n)' <=> IsPassing(t, n)')
      BY DEF Users, Passing, IsUser, IsPassing
    <2>. QED
      BY <2>1 DEF Bit
  <1>6. threadCount[n] = Cardinality(Users(n)) + stray[n] + Cardinality(Passing(n))
    BY DEF SyncDataBalance, Passing
  <1>7. threadCount[n] \in Int /\ threadCount'[n] \in Int /\ stray[n] \in Int /\ stray'[n] \in Int
    BY DEF Types
  <1>8. /\ Bit(IsUser(t, n)) \in Int /\ Bit(IsUser(t, n)') \in Int
        /\ Bit(IsPassing(t, n)) \in Int /\ Bit(IsPassing(t, n)') \in Int
    BY DEF Bit
  <1>9. threadCount'[n] - stray'[n] - Bit(IsUser(t, n)') - Bit(IsPassing(t, n)')
          = threadCount[n] - stray[n] - Bit(IsUser(t, n)) - Bit(IsPassing(t, n))
    OBVIOUS
  <1>. DEFINE U == Cardinality(Users(n))   U2 == Cardinality(Users(n)')
              P == Cardinality(Passing(n)) P2 == Cardinality(Passing(n)')
              u == Bit(IsUser(t, n))       u2 == Bit(IsUser(t, n)')
              q == Bit(IsPassing(t, n))    q2 == Bit(IsPassing(t, n)')
  <1>10. U \in Int /\ U2 \in Int /\ U2 = U + u2 - u
    BY <1>3, <1>5
  <1>11. P \in Int /\ P2 \in Int /\ P2 = P + q2 - q
    BY <1>4, <1>5
  <1>12. /\ threadCount[n] = U + stray[n] + P
         /\ threadCount'[n] - stray'[n] - u2 - q2 = threadCount[n] - stray[n] - u - q
         /\ u \in Int /\ u2 \in Int /\ q \in Int /\ q2 \in Int
    BY <1>6, <1>8, <1>9
  <1>. HIDE DEF U, U2, P, P2, u, u2, q, q2
  <1>13. threadCount'[n] = U2 + stray'[n] + P2
    BY <1>7, <1>10, <1>11, <1>12
  <1>. QED
    BY <1>13 DEF U2, P2

\* A step that changes neither the counts nor who uses a node keeps the balance.
LEMMA SharesStay ==
  ASSUME Types, SyncDataBalance, NEW t \in Clients, Apart(t), Types', UNCHANGED <<threadCount, stray>>,
         \A n \in Nodes : (IsUser(t, n)' <=> IsUser(t, n)) /\ (IsPassing(t, n)' <=> IsPassing(t, n))
  PROVE  SyncDataBalance'
PROOF
  <1>1. ASSUME NEW n \in Nodes
        PROVE  threadCount'[n] - stray'[n] - Bit(IsUser(t, n)') - Bit(IsPassing(t, n)')
                 = threadCount[n] - stray[n] - Bit(IsUser(t, n)) - Bit(IsPassing(t, n))
    <2>1. Bit(IsUser(t, n)') = Bit(IsUser(t, n)) /\ Bit(IsPassing(t, n)') = Bit(IsPassing(t, n))
      BY DEF Bit
    <2>. QED
      BY <2>1
  <1>. QED
    BY <1>1, SharesMove

\* A step keeps the balance of the share counts.
LEMMA BalanceStep == ASSUME IInv, Next, Types' PROVE SyncDataBalance'
PROOF
  <1>0. Types /\ SyncDataBalance /\ List /\ Places
    BY DEF IInv
  <1>a. PICK t \in Clients : Step(t) \/ \E o \in Locks, call \in {"enter", "try", "exit"} : Call(t, o, call)
    BY DEF Next
  <1>b. Apart(t) /\ Place(t)
    BY <1>0, <1>a, StepsApart DEF Places
  <1>c. ASSUME UNCHANGED <<threadCount, stray>>,
               \A n \in Nodes : (IsUser(t, n)' <=> IsUser(t, n)) /\ (IsPassing(t, n)' <=> IsPassing(t, n))
        PROVE  SyncDataBalance'
    BY <1>0, <1>b, <1>c, SharesStay
  <1>1. CASE \E o \in Locks, call \in {"enter", "try", "exit"} : Call(t, o, call)
    BY <1>0, <1>1, <1>c DEF Call, Goto, IsUser, IsPassing, Types, list
  <1>2. CASE Hit(t)
    <2>1. PICK n \in Nodes : /\ Cached(t, n, obj[t])
                             /\ p' = [p EXCEPT ![t] = n]
                             /\ cache' = [cache EXCEPT ![t][n] = IF why[t] = "exit" THEN @ - 1 ELSE @ + 1]
                             /\ Goto(t, IF why[t] # "exit" THEN why[t] ELSE IF cache[t][n] = 1 THEN "decrement" ELSE "unlock")
      BY <1>2 DEF Hit
    <2>2. cache[t][n] \in Nat /\ cache[t][n] > 0
      BY <1>0, <2>1 DEF Types, Cached
    <2>3. cache'[t][n] = (IF why[t] = "exit" THEN cache[t][n] - 1 ELSE cache[t][n] + 1)
          /\ \A m \in Nodes \ {n} : cache'[t][m] = cache[t][m]
      BY <1>0, <2>1 DEF Types
    <2>4. p'[t] = n /\ at[t] = "cache" /\ why' = why
          /\ at'[t] = IF why[t] # "exit" THEN why[t] ELSE IF cache[t][n] = 1 THEN "decrement" ELSE "unlock"
      BY <1>0, <1>2, <2>1 DEF Types, Hit, Goto
    <2>5. ASSUME NEW m \in Nodes PROVE IsUser(t, m)' <=> IsUser(t, m)
      <3>1. CASE m = n
        BY <2>2, <2>3, <2>4, <3>1 DEF IsUser
      <3>2. CASE m # n
        BY <2>3, <2>4, <3>2 DEF IsUser
      <3>. QED
        BY <3>1, <3>2
    <2>6. ASSUME NEW m \in Nodes PROVE IsPassing(t, m)' <=> IsPassing(t, m)
      BY <1>0, <2>4 DEF IsPassing, Types
    <2>. QED
      BY <1>2, <1>c, <2>5, <2>6 DEF Hit, list
  <1>3. CASE Decrement(t)
    <2>1. /\ threadCount' = [threadCount EXCEPT ![p[t]] = threadCount[p[t]] - 1] /\ p[t] \in Nodes
          /\ at[t] = "decrement" /\ at'[t] = "unlock" /\ UNCHANGED <<cache, p, why, stray>> /\ cache[t][p[t]] = 0
      BY <1>0, <1>b, <1>3 DEF Decrement, Goto, Types, Place, Exiting, locals
    <2>2. ASSUME NEW n \in Nodes
          PROVE  threadCount'[n] - stray'[n] - Bit(IsUser(t, n)') - Bit(IsPassing(t, n)')
                   = threadCount[n] - stray[n] - Bit(IsUser(t, n)) - Bit(IsPassing(t, n))
      <3>1. threadCount[n] \in Int /\ stray[n] \in Int
        BY <1>0 DEF Types
      <3>2. CASE n = p[t]
        BY <1>0, <2>1, <3>1, <3>2 DEF IsUser, IsPassing, Bit, Types
      <3>3. CASE n # p[t]
        BY <1>0, <2>1, <3>1, <3>3 DEF IsUser, IsPassing, Bit, Types
      <3>. QED
        BY <3>2, <3>3
    <2>. QED
      BY <1>0, <1>b, <2>2, SharesMove
  <1>4. CASE Miss(t)
    BY <1>0, <1>4, <1>c DEF Miss, Goto, IsUser, IsPassing, Types, list
  <1>5. CASE Walk(t)
    <2>1. CASE object[p[t]] = obj[t]
      <3>1. /\ threadCount' = [threadCount EXCEPT ![p[t]] = threadCount[p[t]] + 1] /\ p[t] \in Nodes
            /\ at[t] = "walk" /\ at'[t] = "done" /\ UNCHANGED <<cache, p, why, stray>> /\ cache[t][p[t]] \in Nat
            /\ ~(cache[t][p[t]] > 0)
        BY <1>0, <1>b, <1>5, <2>1 DEF Walk, Goto, Types, Place, Walking, Cached
      <3>2. ASSUME NEW n \in Nodes
            PROVE  threadCount'[n] - stray'[n] - Bit(IsUser(t, n)') - Bit(IsPassing(t, n)')
                     = threadCount[n] - stray[n] - Bit(IsUser(t, n)) - Bit(IsPassing(t, n))
        <4>1. threadCount[n] \in Int /\ stray[n] \in Int
          BY <1>0 DEF Types
        <4>2. CASE n = p[t]
          BY <1>0, <3>1, <4>1, <4>2 DEF IsUser, IsPassing, Bit, Types
        <4>3. CASE n # p[t]
          BY <1>0, <3>1, <4>1, <4>3 DEF IsUser, IsPassing, Bit, Types
        <4>. QED
          BY <4>2, <4>3
      <3>. QED
        BY <1>0, <1>b, <3>2, SharesMove
    <2>2. CASE object[p[t]] # obj[t]
      BY <1>0, <1>5, <1>c, <2>2 DEF Walk, IsUser, IsPassing, Types
    <2>. QED
      BY <2>1, <2>2
  <1>6. CASE WalkEnds(t)
    <2>1. CASE why[t] = "exit"
      BY <1>0, <1>6, <1>c, <2>1 DEF WalkEnds, Return, Goto, IsUser, IsPassing, Types, list
    <2>2. CASE why[t] # "exit"
      <3>0. Choose(t) \in Nodes /\ threadCount[Choose(t)] = 0 /\ at[t] = "walk" /\ p[t] = NoNode
        BY <1>6, ChosenNode DEF WalkEnds
      <3>1. /\ threadCount' = [threadCount EXCEPT ![Choose(t)] = 1] /\ p'[t] = Choose(t)
            /\ at'[t] = "done" /\ UNCHANGED <<cache, why, stray>>
        BY <1>0, <1>6, <2>2 DEF WalkEnds, Goto, Types
      <3>2. cache[t][Choose(t)] \in Nat /\ ~(cache[t][Choose(t)] > 0)
        <4>1. cache[t][Choose(t)] \in Nat
          BY <1>0, <3>0 DEF Types
        <4>. QED
          BY <1>0, <3>0, <4>1, InUse
      <3>3. ASSUME NEW n \in Nodes
            PROVE  threadCount'[n] - stray'[n] - Bit(IsUser(t, n)') - Bit(IsPassing(t, n)')
                     = threadCount[n] - stray[n] - Bit(IsUser(t, n)) - Bit(IsPassing(t, n))
        <4>1. threadCount[n] \in Int /\ stray[n] \in Int
          BY <1>0 DEF Types
        <4>2. CASE n = Choose(t)
          BY <1>0, <2>2, <3>0, <3>1, <3>2, <4>1, <4>2, NodesFacts DEF IsUser, IsPassing, Bit, Types
        <4>3. CASE n # Choose(t)
          BY <1>0, <2>2, <3>0, <3>1, <4>1, <4>3, NodesFacts DEF IsUser, IsPassing, Bit, Types
        <4>. QED
          BY <4>2, <4>3
      <3>. QED
        BY <1>0, <1>b, <3>3, SharesMove
    <2>. QED
      BY <2>1, <2>2
  <1>7. CASE DoneWalk(t)
    <2>0. p[t] \in Nodes /\ at[t] = "done" /\ cache[t][p[t]] \in Nat /\ ~(cache[t][p[t]] > 0)
      BY <1>0, <1>b, <1>7 DEF DoneWalk, Types, Place, Walking, Cached
    <2>1. CASE why[t] = "exit"
      <3>1. /\ stray' = [stray EXCEPT ![p[t]] = stray[p[t]] + 1] /\ UNCHANGED <<threadCount, cache>>
            /\ at'[t] = "idle" /\ why'[t] = "exit"
        BY <1>0, <1>7, <2>1 DEF DoneWalk, Return, Goto, Types, list
      <3>2. ASSUME NEW n \in Nodes
            PROVE  threadCount'[n] - stray'[n] - Bit(IsUser(t, n)') - Bit(IsPassing(t, n)')
                     = threadCount[n] - stray[n] - Bit(IsUser(t, n)) - Bit(IsPassing(t, n))
        <4>1. threadCount[n] \in Int /\ stray[n] \in Int
          BY <1>0 DEF Types
        <4>2. CASE n = p[t]
          BY <1>0, <2>0, <2>1, <3>1, <4>1, <4>2 DEF IsUser, IsPassing, Bit, Types
        <4>3. CASE n # p[t]
          BY <1>0, <2>0, <2>1, <3>1, <4>1, <4>3 DEF IsUser, IsPassing, Bit, Types
        <4>. QED
          BY <4>2, <4>3
      <3>. QED
        BY <1>0, <1>b, <3>2, SharesMove
    <2>2. CASE why[t] # "exit"
      <3>1. /\ cache'[t][p[t]] = 1 /\ \A m \in Nodes \ {p[t]} : cache'[t][m] = cache[t][m]
            /\ at'[t] = why[t] /\ at'[t] \in {"enter", "try"} /\ UNCHANGED <<threadCount, stray, why, p>>
        BY <1>0, <1>7, <2>0, <2>2 DEF DoneWalk, Goto, Types, list
      <3>2. ASSUME NEW n \in Nodes PROVE (IsUser(t, n)' <=> IsUser(t, n)) /\ (IsPassing(t, n)' <=> IsPassing(t, n))
        <4>1. CASE n = p[t]
          BY <2>0, <2>2, <3>1, <4>1 DEF IsUser, IsPassing
        <4>2. CASE n # p[t]
          BY <2>0, <2>2, <3>1, <4>2 DEF IsUser, IsPassing
        <4>. QED
          BY <4>1, <4>2
      <3>. QED
        BY <1>c, <3>1, <3>2
    <2>. QED
      BY <2>1, <2>2
  <1>8. CASE MutexLock(t) \/ MutexTryLock(t) \/ MutexTryUnlock(t)
    <2>1. Return(t) /\ UNCHANGED <<threadCount, stray, cache>> /\ at[t] \in {"enter", "try", "unlock"}
      BY <1>8 DEF MutexLock, MutexTryLock, MutexTryUnlock, list
    <2>. QED
      BY <1>0, <1>c, <2>1 DEF Return, Goto, IsUser, IsPassing, Types
  <1>. QED
    BY <1>a, <1>1, <1>2, <1>3, <1>4, <1>5, <1>6, <1>7, <1>8 DEF Step
-----------------------------------------------------------------------------
(***************************************************************************)
(* The list.                                                               *)
(***************************************************************************)
StepOf(t) == Step(t) \/ \E o \in Locks, call \in {"enter", "try", "exit"} : Call(t, o, call)

\* A step that changes the list is the end of a walk.
LEMMA ListMoves ==
  ASSUME NEW t \in Clients, StepOf(t)
  PROVE  UNCHANGED <<listp, object>> \/ (WalkEnds(t) /\ why[t] # "exit")
PROOF
  BY DEF StepOf, Step, Call, Hit, Decrement, Miss, Walk, WalkEnds, DoneWalk, MutexLock, MutexTryLock,
         MutexTryUnlock, list

\* A step that changes the share counts.
LEMMA CountMoves ==
  ASSUME NEW t \in Clients, StepOf(t)
  PROVE  \/ UNCHANGED threadCount \/ Decrement(t)
         \/ Walk(t) /\ object[p[t]] = obj[t]
         \/ WalkEnds(t) /\ why[t] # "exit"
PROOF
  BY DEF StepOf, Step, Call, Hit, Miss, Walk, WalkEnds, DoneWalk, MutexLock, MutexTryLock,
         MutexTryUnlock, list

\* What a step of t does not do to a node in use, to the list while another has the spinlock, and
\* to the spinlock of another.
LEMMA OthersKept ==
  ASSUME IInv, NEW t \in Clients, StepOf(t)
  PROVE  /\ listp <= listp'
         /\ \A n \in Nodes : threadCount[n] > 0 => object'[n] = object[n]
         /\ lockp # t => /\ UNCHANGED <<listp, object>>
                         /\ \A n \in Nodes : threadCount[n] = 0 => threadCount'[n] = 0
         /\ \A u \in Clients \ {t} : lockp' = u <=> lockp = u
PROOF
  <1>0. Types /\ List /\ Place(t) /\ SyncDataBalance /\ listp \in Nat
    BY ListFacts DEF IInv, Places
  <1>1. /\ WalkEnds(t) => at[t] = "walk" /\ p[t] = NoNode /\ lockp = t
        /\ Walk(t) => lockp = t
    BY <1>0 DEF WalkEnds, Walk, Place, Walking
  <1>2. listp <= listp' /\ \A n \in Nodes : threadCount[n] > 0 => object'[n] = object[n]
    <2>1. CASE UNCHANGED <<listp, object>>
      BY <1>0, <2>1
    <2>2. CASE WalkEnds(t) /\ why[t] # "exit"
      <3>1. /\ Choose(t) \in Nodes /\ Choose(t) \in Nat /\ threadCount[Choose(t)] = 0
        BY <1>1, <2>2, ChosenNode, NodesFacts
      <3>2. /\ object' = [object EXCEPT ![Choose(t)] = obj[t]]
            /\ listp' = IF Choose(t) > listp THEN Choose(t) ELSE listp
        BY <2>2 DEF WalkEnds
      <3>. QED
        BY <1>0, <3>1, <3>2 DEF Types
    <2>. QED
      BY <2>1, <2>2, ListMoves
  <1>3. ASSUME lockp # t
        PROVE  UNCHANGED <<listp, object>> /\ \A n \in Nodes : threadCount[n] = 0 => threadCount'[n] = 0
    <2>1. UNCHANGED <<listp, object>>
      BY <1>1, <1>3, ListMoves
    <2>2. CASE UNCHANGED threadCount
      BY <2>1, <2>2
    <2>3. CASE Decrement(t)
      <3>1. p[t] \in Nodes /\ t \in Users(p[t])
        BY <1>0, <2>3 DEF Decrement, Place, Exiting, Users, Types
      <3>2. threadCount[p[t]] > 0
        BY <1>0, <3>1, InUse
      <3>. QED
        BY <1>0, <2>1, <2>3, <3>1, <3>2 DEF Decrement, Types
    <2>. QED
      BY <1>1, <1>3, <2>2, <2>3, CountMoves
  <1>4. ASSUME NEW u \in Clients \ {t} PROVE lockp' = u <=> lockp = u
    <2>1. \/ UNCHANGED lockp
          \/ lockp = Nobody /\ lockp' = t
          \/ at[t] \in Walking /\ lockp' = Nobody
      BY DEF StepOf, Step, Call, Hit, Decrement, Miss, Walk, WalkEnds, DoneWalk, MutexLock, MutexTryLock,
             MutexTryUnlock, Walking
    <2>2. at[t] \in Walking => lockp = t
      BY <1>0 DEF Place
    <2>. QED
      BY <2>1, <2>2, SyncAssumption
  <1>. QED
    BY <1>2, <1>3, <1>4

\* Mutexes are locked and unlocked by their owner, on nodes in the list.
LEMMA MutexMoves ==
  ASSUME IInv, NEW t \in Clients, StepOf(t)
  PROVE  \/ UNCHANGED mutex
         \/ /\ p[t] \in Nodes /\ p[t] <= listp
            /\ mutex[p[t]].owner \in {t, Nobody} /\ mutex'[p[t]].owner \in {t, Nobody}
            /\ \A n \in Nodes \ {p[t]} : mutex'[n] = mutex[n]
PROOF
  <1>0. Types /\ List /\ Place(t) /\ SyncDataBalance /\ listp \in Nat
    BY ListFacts DEF IInv, Places
  <1>1. UNCHANGED mutex \/ (at[t] \in {"enter", "try", "unlock"}
                            /\ mutex[p[t]].owner \in {t, Nobody}
                            /\ \E m \in [owner : {t, Nobody}, depth : Int] : mutex' = [mutex EXCEPT ![p[t]] = m])
    <2>1. CASE MutexLock(t) \/ MutexTryLock(t)
      <3>1. p[t] \in Nodes
        BY <1>0, <2>1 DEF MutexLock, MutexTryLock, Place, Entering, Types
      <3>2. mutex[p[t]].depth + 1 \in Int
        BY <1>0, <3>1 DEF Types
      <3>. QED
        BY <2>1, <3>2 DEF MutexLock, MutexTryLock, MutexLocked, Free
    <2>2. CASE MutexTryUnlock(t)
      <3>1. p[t] \in Nodes
        BY <1>0, <2>2 DEF MutexTryUnlock, Place, Exiting, Types
      <3>2. mutex[p[t]].depth - 1 \in Int
        BY <1>0, <3>1 DEF Types
      <3>. QED
        BY <2>2, <3>2 DEF MutexTryUnlock
    <2>. QED
      BY <2>1, <2>2 DEF StepOf, Step, Call, Hit, Decrement, Miss, Walk, WalkEnds, DoneWalk
  <1>2. at[t] \in {"enter", "try", "unlock"} => p[t] \in Nodes /\ p[t] <= listp
    <2>1. at[t] \in {"enter", "try"} => p[t] \in Nodes /\ cache[t][p[t]] > 0
      BY <1>0 DEF Place, Entering, Cached, Types
    <2>2. at[t] = "unlock" => p[t] \in Nodes /\ p[t] <= listp
      BY <1>0 DEF Place, Exiting, Types
    <2>. QED
      BY <1>0, <2>1, <2>2, InUse
  <1>. QED
    BY <1>0, <1>1, <1>2 DEF Types

\* A step keeps the list: a node is given only to an object that has none.
LEMMA ListStep == ASSUME IInv, Next, Types' PROVE List'
PROOF
  <1>0. Types /\ List /\ SyncDataBalance /\ Places /\ listp \in Nat /\ listp' \in Nat
    BY ListFacts, NodesFacts DEF IInv, Types
  <1>a. PICK t \in Clients : StepOf(t)
    BY DEF Next, StepOf
  <1>b. Place(t)
    BY <1>0 DEF Places
  <1>1. ASSUME NEW n \in Nodes, n > listp' PROVE threadCount'[n] = 0 /\ mutex'[n].owner = Nobody
    <2>1. n \in Nat /\ n > listp /\ threadCount[n] = 0 /\ mutex[n].owner = Nobody
      <3>1. n \in Nat /\ n > listp
        BY <1>0, <1>a, <1>1, NodesFacts, OthersKept
      <3>. QED
        BY <1>0, <3>1 DEF List
    <2>2. mutex'[n].owner = Nobody
      <3>1. p[t] \in Nodes /\ p[t] <= listp => n # p[t]
        BY <1>0, <2>1, NodesFacts
      <3>. QED
        BY <1>a, <2>1, <3>1, MutexMoves
    <2>3. threadCount'[n] = 0
      <3>1. CASE UNCHANGED threadCount
        BY <2>1, <3>1
      <3>2. CASE Decrement(t) \/ Walk(t)
        <4>1. p[t] \in Nodes /\ p[t] <= listp
          BY <1>0, <1>b, <3>2 DEF Decrement, Walk, Place, Exiting, Walking, Types
        <4>2. n # p[t]
          BY <1>0, <2>1, <4>1, NodesFacts
        <4>. QED
          BY <1>0, <2>1, <3>2, <4>1, <4>2 DEF Decrement, Walk, Types
      <3>3. CASE WalkEnds(t) /\ why[t] # "exit"
        <4>1. Choose(t) \in Nodes /\ Choose(t) \in Nat
          BY <3>3, ChosenNode, NodesFacts DEF WalkEnds
        <4>2. /\ threadCount' = [threadCount EXCEPT ![Choose(t)] = 1]
              /\ listp' = IF Choose(t) > listp THEN Choose(t) ELSE listp
          BY <3>3 DEF WalkEnds
        <4>3. n # Choose(t)
          BY <1>0, <1>1, <2>1, <4>1, <4>2
        <4>. QED
          BY <1>0, <2>1, <4>1, <4>2, <4>3 DEF Types
      <3>. QED
        BY <1>a, <3>1, <3>2, <3>3, CountMoves
    <2>. QED
      BY <2>2, <2>3
  <1>2. /\ \A n \in Nodes : n <= listp' => object'[n] \in Locks
        /\ \A m, n \in Nodes : m <= listp' /\ n <= listp' /\ object'[m] = object'[n] => m = n
    <2>1. CASE UNCHANGED <<listp, object>>
      BY <1>0, <2>1 DEF List
    <2>2. CASE WalkEnds(t) /\ why[t] # "exit"
      <3>1. /\ Choose(t) \in Nodes /\ Choose(t) \in Nat /\ Choose(t) <= listp + 1
            /\ obj[t] \in Locks /\ \A n \in Nodes : n <= listp => object[n] # obj[t]
        BY <2>2, ChosenNode, NodesFacts DEF WalkEnds
      <3>2. /\ object' = [object EXCEPT ![Choose(t)] = obj[t]]
            /\ listp' = IF Choose(t) > listp THEN Choose(t) ELSE listp
        BY <2>2 DEF WalkEnds
      <3>3. \A n \in Nodes : n <= listp' /\ n # Choose(t) => n <= listp /\ object'[n] = object[n]
        <4>. SUFFICES ASSUME NEW n \in Nodes, n <= listp', n # Choose(t)
                      PROVE  n <= listp /\ object'[n] = object[n]
          OBVIOUS
        <4>1. n \in Nat
          BY NodesFacts
        <4>2. n <= listp
          BY <1>0, <3>1, <3>2, <4>1
        <4>3. object'[n] = object[n]
          BY <1>0, <3>2 DEF Types
        <4>. QED
          BY <4>2, <4>3
      <3>4. object'[Choose(t)] = obj[t]
        BY <1>0, <3>1, <3>2 DEF Types
      <3>5. ASSUME NEW m \in Nodes, NEW n \in Nodes, m <= listp', n <= listp', object'[m] = object'[n]
            PROVE  m = n
        <4>1. CASE m # Choose(t) /\ n # Choose(t)
          BY <1>0, <3>3, <3>5, <4>1 DEF List
        <4>2. CASE m = Choose(t) \/ n = Choose(t)
          BY <3>1, <3>3, <3>4, <3>5, <4>2
        <4>. QED
          BY <4>1, <4>2
      <3>6. ASSUME NEW n \in Nodes, n <= listp' PROVE object'[n] \in Locks
        BY <1>0, <3>1, <3>3, <3>4, <3>6 DEF List
      <3>. QED
        BY <3>5, <3>6
    <2>. QED
      BY <1>a, <2>1, <2>2, ListMoves
  <1>. QED
    BY <1>1, <1>2 DEF List
-----------------------------------------------------------------------------
(***************************************************************************)
(* The places.                                                             *)
(***************************************************************************)
\* The place of a thread, when another has made a step.
LEMMA PlaceOther ==
  ASSUME IInv, NEW t \in Clients, StepOf(t), NEW u \in Clients \ {t}, Types'
  PROVE  Place(u)'
PROOF
  <1>0. Types /\ List /\ SyncDataBalance /\ Place(u) /\ Place(t) /\ listp \in Nat /\ listp' \in Nat
    BY ListFacts, NodesFacts DEF IInv, Places, Types
  <1>1. /\ cache'[u] = cache[u] /\ at'[u] = at[u] /\ obj'[u] = obj[u] /\ why'[u] = why[u]
        /\ p'[u] = p[u] /\ firstUnused'[u] = firstUnused[u]
    BY <1>0, StepsApart DEF StepOf, Apart
  <1>2. /\ listp <= listp'
        /\ \A n \in Nodes : threadCount[n] > 0 => object'[n] = object[n]
        /\ lockp' = u <=> lockp = u
    BY OthersKept
  <1>3. \A n \in Nodes : cache[u][n] > 0 => object'[n] = object[n]
    BY <1>0, <1>2, InUse
  <1>4. \A n \in Nodes : Cached(u, n, obj[u])' <=> Cached(u, n, obj[u])
    BY <1>1, <1>3 DEF Cached
  <1>5. at[u] \in Walking => /\ UNCHANGED <<listp, object>>
                             /\ \A n \in Nodes : threadCount[n] = 0 => threadCount'[n] = 0
    BY <1>0, OthersKept DEF Place
  <1>6. p[u] # NoNode => p[u] \in Nodes /\ p[u] \in Nat
    BY <1>0, NodesFacts DEF Types
  <1>7. firstUnused[u] # NoNode => firstUnused[u] \in Nodes
    BY <1>0 DEF Types
  <1>8. /\ at'[u] # "idle" => obj'[u] \in Locks
        /\ lockp' = u <=> at'[u] \in Walking
        /\ at'[u] = "decrement" => cache'[u][p'[u]] = 0
    BY <1>0, <1>1, <1>2 DEF Place
  <1>9. Entering(u)' => why'[u] = at'[u] /\ p'[u] # NoNode /\ Cached(u, p[u], obj[u])'
    BY <1>0, <1>1, <1>4, <1>6 DEF Place, Entering
  <1>10. Exiting(u)' => /\ why'[u] = "exit" /\ p'[u] # NoNode /\ p'[u] <= listp'
                        /\ cache'[u][p'[u]] > 0 \/ at'[u] = "decrement" => object'[p'[u]] = obj'[u]
                        /\ \A n \in Nodes : Cached(u, n, obj[u])' => n = p'[u]
    <2>. SUFFICES ASSUME Exiting(u)
                  PROVE  /\ why[u] = "exit" /\ p[u] # NoNode /\ p[u] <= listp'
                         /\ cache[u][p[u]] > 0 \/ at[u] = "decrement" => object'[p[u]] = obj[u]
                         /\ \A n \in Nodes : Cached(u, n, obj[u]) => n = p[u]
      BY <1>1, <1>4 DEF Exiting
    <2>1. /\ why[u] = "exit" /\ p[u] # NoNode /\ p[u] <= listp
          /\ cache[u][p[u]] > 0 \/ at[u] = "decrement" => object[p[u]] = obj[u]
          /\ \A n \in Nodes : Cached(u, n, obj[u]) => n = p[u]
      BY <1>0 DEF Place
    <2>2. p[u] <= listp'
      BY <1>0, <1>2, <1>6, <2>1
    <2>3. at[u] = "decrement" => threadCount[p[u]] > 0
      <3>1. at[u] = "decrement" => u \in Users(p[u])
        BY DEF Users
      <3>. QED
        BY <1>0, <1>6, <2>1, <3>1, InUse
    <2>. QED
      BY <1>2, <1>3, <1>6, <2>1, <2>2, <2>3
  <1>11. at'[u] \in Walking => /\ p'[u] <= listp' /\ \A n \in Nodes : ~Cached(u, n, obj[u])'
    BY <1>0, <1>1, <1>4, <1>5 DEF Place
  <1>12. at'[u] = "walk" => /\ \A n \in Nodes : n > p'[u] /\ n <= listp' => object'[n] # obj'[u]
                            /\ firstUnused'[u] # NoNode => /\ firstUnused'[u] <= listp'
                                                           /\ threadCount'[firstUnused'[u]] = 0
    <2>. SUFFICES ASSUME at[u] = "walk"
                  PROVE  /\ \A n \in Nodes : n > p[u] /\ n <= listp' => object'[n] # obj[u]
                         /\ firstUnused[u] # NoNode => firstUnused[u] <= listp' /\ threadCount'[firstUnused[u]] = 0
      BY <1>1
    <2>. QED
      BY <1>0, <1>5, <1>7 DEF Place, Walking
  <1>13. at'[u] = "done" => p'[u] # NoNode /\ object'[p'[u]] = obj'[u]
    BY <1>0, <1>1, <1>5 DEF Place, Walking
  <1>. QED
    BY <1>1, <1>8, <1>9, <1>10, <1>11, <1>12, <1>13 DEF Place, Cached

\* A thread that returns has no place to keep.
LEMMA PlaceReturned ==
  ASSUME Types, NEW t \in Clients, Return(t), lockp' # t
  PROVE  Place(t)'
PROOF
  <1>1. at'[t] = "idle"
    BY DEF Types, Return, Goto
  <1>. QED
    BY <1>1 DEF Place, Entering, Exiting, Walking

\* The place of the thread that makes the step.
LEMMA PlaceSelf ==
  ASSUME IInv, NEW t \in Clients, StepOf(t), Types'
  PROVE  Place(t)'
PROOF
  <1>0. Types /\ List /\ SyncDataBalance /\ Place(t) /\ listp \in Nat /\ listp' \in Nat
    BY ListFacts, NodesFacts DEF IInv, Places, Types
  <1>n. t # Nobody
    BY SyncAssumption
  <1>1. CASE \E o \in Locks, call \in {"enter", "try", "exit"} : Call(t, o, call)
    <2>1. at[t] = "idle" /\ at'[t] = "cache" /\ obj'[t] \in Locks /\ lockp' = lockp
      BY <1>0, <1>1 DEF Call, Goto, Types
    <2>2. lockp # t
      BY <1>0, <2>1 DEF Place, Walking
    <2>. QED
      BY <2>1, <2>2 DEF Place, Entering, Exiting, Walking
  <1>2. CASE Hit(t)
    <2>1. PICK n \in Nodes : /\ Cached(t, n, obj[t])
                             /\ p' = [p EXCEPT ![t] = n]
                             /\ cache' = [cache EXCEPT ![t][n] = IF why[t] = "exit" THEN @ - 1 ELSE @ + 1]
                             /\ Goto(t, IF why[t] # "exit" THEN why[t] ELSE IF cache[t][n] = 1 THEN "decrement" ELSE "unlock")
      BY <1>2 DEF Hit
    <2>2. cache[t][n] \in Nat /\ cache[t][n] > 0 /\ object[n] = obj[t] /\ n # NoNode /\ n <= listp
      BY <1>0, <2>1, NodesFacts, InUse DEF Types, Cached
    <2>3. /\ cache'[t][n] = (IF why[t] = "exit" THEN cache[t][n] - 1 ELSE cache[t][n] + 1)
          /\ \A m \in Nodes \ {n} : cache'[t][m] = cache[t][m]
      BY <1>0, <2>1 DEF Types
    <2>4. /\ p'[t] = n /\ at[t] = "cache" /\ UNCHANGED <<listp, object, lockp, obj, why>>
          /\ at'[t] = IF why[t] # "exit" THEN why[t] ELSE IF cache[t][n] = 1 THEN "decrement" ELSE "unlock"
      BY <1>0, <1>2, <2>1 DEF Types, Hit, Goto, list
    <2>5. obj[t] \in Locks /\ lockp # t /\ why[t] \in {"enter", "try", "exit"}
      BY <1>0, <2>4 DEF Place, Walking, Types
    <2>6. ASSUME NEW m \in Nodes, cache'[t][m] > 0, object[m] = obj[t] PROVE m = n
      <3>1. ASSUME m # n PROVE FALSE
        <4>1. m <= listp
          BY <1>0, <2>3, <2>6, <3>1, InUse
        <4>. QED
          BY <1>0, <2>2, <2>6, <3>1, <4>1 DEF List
      <3>. QED
        BY <3>1
    <2>7. CASE why[t] # "exit"
      <3>1. at'[t] = why[t] /\ at'[t] \in {"enter", "try"} /\ cache'[t][n] > 0
        BY <2>2, <2>3, <2>4, <2>5, <2>7
      <3>. QED
        BY <2>2, <2>4, <2>5, <3>1 DEF Place, Entering, Exiting, Walking, Cached
    <2>8. CASE why[t] = "exit"
      <3>1. /\ at'[t] \in {"decrement", "unlock"}
            /\ at'[t] = "decrement" => cache'[t][n] = 0
        BY <2>2, <2>3, <2>4, <2>8
      <3>2. \A m \in Nodes : Cached(t, m, obj[t])' => m = n
        BY <2>4, <2>6 DEF Cached
      <3>. QED
        BY <2>2, <2>4, <2>5, <2>8, <3>1, <3>2 DEF Place, Entering, Exiting, Walking, Cached
    <2>. QED
      BY <2>7, <2>8
  <1>3. CASE Decrement(t)
    <2>1. /\ at[t] = "decrement" /\ at'[t] = "unlock"
          /\ UNCHANGED <<listp, object, lockp, obj, why, p, cache>>
      BY <1>0, <1>3 DEF Decrement, Goto, Types, locals
    <2>2. cache[t][p[t]] = 0
      BY <1>0, <2>1 DEF Place
    <2>. QED
      BY <1>0, <2>1, <2>2 DEF Place, Entering, Exiting, Walking, Cached
  <1>4. CASE Miss(t)
    <2>1. /\ at[t] = "cache" /\ at'[t] = "walk" /\ lockp' = t /\ p'[t] = listp /\ firstUnused'[t] = NoNode
          /\ UNCHANGED <<listp, object, obj, why, cache>> /\ \A n \in Nodes : ~Cached(t, n, obj[t])
      BY <1>0, <1>4 DEF Miss, Goto, Types, list
    <2>2. \A n \in Nodes : ~(n > listp /\ n <= listp)
      BY <1>0, NodesFacts
    <2>3. obj[t] \in Locks
      BY <1>0, <2>1 DEF Place
    <2>. QED
      BY <1>0, <2>1, <2>2, <2>3 DEF Place, Entering, Exiting, Walking, Cached
  <1>5. CASE Walk(t)
    <2>1. /\ at[t] = "walk" /\ lockp = t /\ p[t] \in Nodes /\ p[t] \in Nat /\ p[t] <= listp /\ obj[t] \in Locks
          /\ UNCHANGED <<listp, object, lockp, obj, why, cache>>
          /\ \A n \in Nodes : ~Cached(t, n, obj[t])
          /\ \A n \in Nodes : n > p[t] /\ n <= listp => object[n] # obj[t]
      BY <1>0, <1>5, NodesFacts DEF Walk, Place, Walking, Types
    <2>2. CASE object[p[t]] = obj[t]
      <3>1. at'[t] = "done" /\ p'[t] = p[t]
        BY <1>0, <1>5, <2>2 DEF Walk, Goto, Types
      <3>. QED
        BY <2>1, <2>2, <3>1, NodesFacts DEF Place, Entering, Exiting, Walking, Cached
    <2>3. CASE object[p[t]] # obj[t]
      <3>1. /\ at'[t] = "walk" /\ p'[t] = p[t] - 1 /\ threadCount' = threadCount
            /\ firstUnused'[t] = IF firstUnused[t] = NoNode /\ threadCount[p[t]] = 0 THEN p[t] ELSE firstUnused[t]
        BY <1>0, <1>5, <2>1, <2>3 DEF Walk, Types
      <3>2. ASSUME NEW n \in Nodes, n > p[t] - 1, n <= listp PROVE object[n] # obj[t]
        <4>1. n = p[t] \/ n > p[t]
          BY <2>1, <3>2, NodesFacts
        <4>. QED
          BY <2>1, <2>3, <3>2, <4>1
      <3>3. firstUnused'[t] # NoNode => firstUnused'[t] <= listp /\ threadCount[firstUnused'[t]] = 0
        BY <1>0, <2>1, <3>1 DEF Place
      <3>4. p[t] - 1 <= listp
        BY <1>0, <2>1
      <3>. QED
        BY <2>1, <3>1, <3>2, <3>3, <3>4 DEF Place, Entering, Exiting, Walking, Cached
    <2>. QED
      BY <2>2, <2>3
  <1>6. CASE WalkEnds(t)
    <2>1. CASE why[t] = "exit"
      BY <1>0, <1>6, <1>n, <2>1, PlaceReturned DEF WalkEnds
    <2>2. CASE why[t] # "exit"
      <3>1. /\ Choose(t) \in Nodes /\ Choose(t) \in Nat /\ threadCount[Choose(t)] = 0 /\ obj[t] \in Locks
            /\ Choose(t) # NoNode
        BY <1>6, ChosenNode, NodesFacts DEF WalkEnds
      <3>2. /\ object' = [object EXCEPT ![Choose(t)] = obj[t]]
            /\ listp' = (IF Choose(t) > listp THEN Choose(t) ELSE listp)
            /\ p'[t] = Choose(t) /\ at[t] = "walk" /\ at'[t] = "done" /\ UNCHANGED <<lockp, obj, why, cache>>
        BY <1>0, <1>6, <2>2 DEF WalkEnds, Goto, Types
      <3>3. lockp = t /\ \A n \in Nodes : ~Cached(t, n, obj[t])
        BY <1>0, <3>2 DEF Place, Walking
      <3>4. object'[Choose(t)] = obj[t] /\ \A n \in Nodes \ {Choose(t)} : object'[n] = object[n]
        BY <1>0, <3>1, <3>2 DEF Types
      <3>5. ~(cache[t][Choose(t)] > 0)
        BY <1>0, <3>1, InUse
      <3>6. \A n \in Nodes : ~Cached(t, n, obj[t])'
        BY <3>2, <3>3, <3>4, <3>5 DEF Cached
      <3>7. Choose(t) <= listp'
        BY <1>0, <3>1, <3>2
      <3>. QED
        BY <3>1, <3>2, <3>3, <3>4, <3>6, <3>7 DEF Place, Entering, Exiting, Walking, Cached
    <2>. QED
      BY <2>1, <2>2
  <1>7. CASE DoneWalk(t)
    <2>0. /\ at[t] = "done" /\ p[t] \in Nodes /\ p[t] # NoNode /\ object[p[t]] = obj[t] /\ obj[t] \in Locks
          /\ lockp' = Nobody
      BY <1>0, <1>7 DEF DoneWalk, Place, Walking, Types
    <2>1. CASE why[t] = "exit"
      BY <1>0, <1>7, <1>n, <2>0, <2>1, PlaceReturned DEF DoneWalk
    <2>2. CASE why[t] # "exit"
      <3>1. /\ cache'[t][p[t]] = 1 /\ at'[t] = why[t] /\ at'[t] \in {"enter", "try"}
            /\ UNCHANGED <<why, p, obj, object>>
        BY <1>0, <1>7, <2>0, <2>2 DEF DoneWalk, Goto, Types, list
      <3>. QED
        BY <1>n, <2>0, <3>1 DEF Place, Entering, Exiting, Walking, Cached
    <2>. QED
      BY <2>1, <2>2
  <1>8. CASE MutexLock(t) \/ MutexTryLock(t) \/ MutexTryUnlock(t)
    <2>1. Return(t) /\ lockp' = lockp /\ at[t] \notin Walking
      BY <1>8 DEF MutexLock, MutexTryLock, MutexTryUnlock, Walking
    <2>. QED
      BY <1>0, <2>1, PlaceReturned DEF Place
  <1>. QED
    BY <1>1, <1>2, <1>3, <1>4, <1>5, <1>6, <1>7, <1>8 DEF StepOf, Step

\* A step keeps the places of all threads.
LEMMA PlacesStep == ASSUME IInv, Next, Types' PROVE Places'
PROOF
  <1>1. PICK t \in Clients : StepOf(t)
    BY DEF Next, StepOf
  <1>2. ASSUME NEW u \in Clients PROVE Place(u)'
    <2>1. CASE u = t
      BY <1>1, <2>1, PlaceSelf
    <2>2. CASE u # t
      BY <1>1, <2>2, PlaceOther
    <2>. QED
      BY <2>1, <2>2
  <1>. QED
    BY <1>2 DEF Places
-----------------------------------------------------------------------------
(***************************************************************************)
(* The mutexes.                                                            *)
(***************************************************************************)
\* Where the node of a mutex is found that t has: by its object, or by the exit in progress.
Name(t, n) == IF Exiting(t) /\ p[t] = n THEN obj[t] ELSE object[n]

\* What Mutexes says of one thread.
OwnedBy(t) ==
  /\ \A n \in Nodes : mutex[n].owner = t => Owned(n, t)
  /\ \A o \in Locks : inside[t][o] > 0 => \E n \in Nodes : mutex[n].owner = t /\ o = Name(t, n)

\* Mutexes, one thread at a time.
LEMMA MutexesParts ==
  /\ Mutexes <=> /\ \A n \in Nodes : mutex[n].owner = Nobody => mutex[n].depth = 0
                 /\ \A t \in Clients : OwnedBy(t)
  /\ Mutexes' <=> /\ \A n \in Nodes : mutex'[n].owner = Nobody => mutex'[n].depth = 0
                  /\ \A t \in Clients : OwnedBy(t)'
PROOF
  BY DEF Mutexes, OwnedBy, Name

\* The owner of a mutex that is not about to leave has the node in its cache.
LEMMA OwnerCaches ==
  ASSUME Types, List, SyncDataBalance, NEW t \in Clients, OwnedBy(t), NEW n \in Nodes, mutex[n].owner = t
  PROVE  /\ mutex[n].depth \in Nat /\ mutex[n].depth > 0 /\ cache[t][n] \in Nat
         /\ mutex[n].depth + Bit(Entering(t) /\ p[t] = n) <= cache[t][n] + Bit(Exiting(t) /\ p[t] = n)
         /\ inside[t][Name(t, n)] = mutex[n].depth
         /\ ~(Exiting(t) /\ p[t] = n) => cache[t][n] > 0 /\ threadCount[n] > 0 /\ n <= listp
PROOF
  <1>1. mutex[n].depth \in Nat /\ cache[t][n] \in Nat
    BY DEF Types
  <1>2. /\ mutex[n].depth > 0
        /\ mutex[n].depth + Bit(Entering(t) /\ p[t] = n) <= cache[t][n] + Bit(Exiting(t) /\ p[t] = n)
        /\ inside[t][Name(t, n)] = mutex[n].depth
    BY DEF OwnedBy, Owned, Name
  <1>3. ~(Exiting(t) /\ p[t] = n) => cache[t][n] > 0
    BY <1>1, <1>2 DEF Bit
  <1>. QED
    BY <1>1, <1>2, <1>3, InUse

\* The mutexes of a thread, when another has made a step.
LEMMA OwnedOther ==
  ASSUME IInv, NEW t \in Clients, StepOf(t), NEW u \in Clients \ {t}, Types'
  PROVE  OwnedBy(u)'
PROOF
  <1>0. Types /\ List /\ SyncDataBalance /\ OwnedBy(u)
    BY MutexesParts DEF IInv
  <1>1. /\ cache'[u] = cache[u] /\ at'[u] = at[u] /\ obj'[u] = obj[u] /\ p'[u] = p[u] /\ inside'[u] = inside[u]
    BY <1>0, StepsApart DEF StepOf, Apart
  <1>2. (Exiting(u)' <=> Exiting(u)) /\ (Entering(u)' <=> Entering(u))
    BY <1>1 DEF Exiting, Entering
  <1>3. \A n \in Nodes : mutex[n].owner = u \/ mutex'[n].owner = u => mutex'[n] = mutex[n]
    <2>1. u # t /\ u # Nobody
      BY SyncAssumption
    <2>. QED
      BY <2>1, MutexMoves
  <1>4. \A n \in Nodes : mutex[n].owner = u => Name(u, n)' = Name(u, n)
    <2>1. \A n \in Nodes : mutex[n].owner = u /\ ~(Exiting(u) /\ p[u] = n) => object'[n] = object[n]
      BY <1>0, OwnerCaches, OthersKept
    <2>. QED
      BY <1>1, <1>2, <2>1 DEF Name
  <1>5. ASSUME NEW n \in Nodes, mutex'[n].owner = u PROVE Owned(n, u)'
    <2>1. mutex'[n] = mutex[n] /\ mutex[n].owner = u /\ Name(u, n)' = Name(u, n)
      BY <1>3, <1>4, <1>5
    <2>2. Owned(n, u)
      BY <1>0, <2>1 DEF OwnedBy
    <2>3. /\ Bit(Entering(u) /\ p[u] = n)' = Bit(Entering(u) /\ p[u] = n)
          /\ Bit(Exiting(u) /\ p[u] = n)' = Bit(Exiting(u) /\ p[u] = n)
      BY <1>1, <1>2 DEF Bit
    <2>. QED
      BY <1>1, <2>1, <2>2, <2>3 DEF Owned, Name
  <1>6. ASSUME NEW o \in Locks, inside'[u][o] > 0
        PROVE  \E n \in Nodes : mutex'[n].owner = u /\ o = Name(u, n)'
    <2>1. PICK n \in Nodes : mutex[n].owner = u /\ o = Name(u, n)
      BY <1>0, <1>1, <1>6 DEF OwnedBy
    <2>. QED
      BY <1>3, <1>4, <2>1
  <1>. QED
    BY <1>5, <1>6 DEF OwnedBy

\* The mutexes of the thread that makes the step, when the step leaves the mutexes alone.
LEMMA OwnedKept ==
  ASSUME IInv, NEW t \in Clients, UNCHANGED <<mutex, inside>>,
         \A n \in Nodes : mutex[n].owner = t =>
           /\ Name(t, n)' = Name(t, n)
           /\ mutex[n].depth + Bit(Entering(t)' /\ p'[t] = n) <= cache'[t][n] + Bit(Exiting(t)' /\ p'[t] = n)
  PROVE  OwnedBy(t)'
PROOF
  <1>0. Types /\ List /\ SyncDataBalance /\ OwnedBy(t)
    BY MutexesParts DEF IInv
  <1>1. ASSUME NEW n \in Nodes, mutex'[n].owner = t PROVE Owned(n, t)'
    <2>1. mutex[n].owner = t /\ mutex'[n] = mutex[n] /\ inside'[t] = inside[t]
      BY <1>1
    <2>2. mutex[n].depth > 0 /\ inside[t][Name(t, n)] = mutex[n].depth
      BY <1>0, <2>1, OwnerCaches
    <2>. QED
      BY <2>1, <2>2 DEF Owned, Name, Bit
  <1>2. ASSUME NEW o \in Locks, inside'[t][o] > 0
        PROVE  \E n \in Nodes : mutex'[n].owner = t /\ o = Name(t, n)'
    <2>1. PICK n \in Nodes : mutex[n].owner = t /\ o = Name(t, n)
      BY <1>0, <1>2 DEF OwnedBy
    <2>. QED
      BY <2>1
  <1>. QED
    BY <1>1, <1>2 DEF OwnedBy

\* A step that leaves the mutexes, the cache and the objects alone, and comes to no mutex.
LEMMA OwnedStays ==
  ASSUME IInv, NEW t \in Clients, UNCHANGED <<mutex, inside>>, ~Entering(t)', ~Exiting(t)',
         \A n \in Nodes : mutex[n].owner = t =>
           /\ ~(Exiting(t) /\ p[t] = n)
           /\ cache'[t][n] = cache[t][n] /\ object'[n] = object[n]
  PROVE  OwnedBy(t)'
PROOF
  <1>0. Types /\ List /\ SyncDataBalance /\ OwnedBy(t)
    BY MutexesParts DEF IInv
  <1>1. ASSUME NEW n \in Nodes, mutex[n].owner = t
        PROVE  /\ Name(t, n)' = Name(t, n)
               /\ mutex[n].depth + Bit(Entering(t)' /\ p'[t] = n) <= cache'[t][n] + Bit(Exiting(t)' /\ p'[t] = n)
    <2>1. /\ mutex[n].depth \in Nat /\ cache[t][n] \in Nat
          /\ mutex[n].depth + Bit(Entering(t) /\ p[t] = n) <= cache[t][n] + Bit(Exiting(t) /\ p[t] = n)
      BY <1>0, <1>1, OwnerCaches
    <2>2. Bit(Entering(t)' /\ p'[t] = n) = 0 /\ Bit(Exiting(t)' /\ p'[t] = n) = 0
      BY DEF Bit
    <2>3. Bit(Exiting(t) /\ p[t] = n) = 0 /\ Bit(Entering(t) /\ p[t] = n) \in {0, 1}
      BY <1>1 DEF Bit
    <2>4. mutex[n].depth <= cache[t][n]
      BY <2>1, <2>3
    <2>5. Name(t, n)' = object'[n] /\ Name(t, n) = object[n]
      BY <1>1 DEF Name
    <2>. QED
      BY <1>1, <2>1, <2>2, <2>4, <2>5
  <1>. QED
    BY <1>1, OwnedKept

\* The thread comes to the mutex of the object, or leaves it.
LEMMA OwnedMoves ==
  ASSUME IInv, NEW t \in Clients, StepOf(t), UNCHANGED <<mutex, inside>>, Types'
  PROVE  OwnedBy(t)'
PROOF
  <1>0. Types /\ List /\ SyncDataBalance /\ Place(t) /\ OwnedBy(t)
    BY MutexesParts DEF IInv, Places
  <1>a. ASSUME at[t] \in {"idle", "cache", "walk", "done"}
        PROVE  ~Entering(t) /\ ~Exiting(t)
    BY <1>a DEF Entering, Exiting
  <1>b. ASSUME Return(t)
        PROVE  ~Entering(t)' /\ ~Exiting(t)'
    BY <1>0, <1>b DEF Return, Goto, Entering, Exiting, Types
  <1>c. ASSUME NEW n \in Nodes, mutex[n].owner = t, ~(Exiting(t) /\ p[t] = n)
        PROVE  cache[t][n] > 0 /\ threadCount[n] > 0 /\ n <= listp
    BY <1>0, <1>c, OwnerCaches
  <1>1. CASE \E o \in Locks, call \in {"enter", "try", "exit"} : Call(t, o, call)
    <2>1. at[t] = "idle" /\ at'[t] = "cache" /\ UNCHANGED <<cache, object>>
      BY <1>0, <1>1 DEF Call, Goto, Types, list
    <2>. QED
      BY <1>a, <2>1, OwnedStays DEF Entering, Exiting
  <1>2. CASE Hit(t)
    <2>1. PICK n \in Nodes : /\ Cached(t, n, obj[t])
                             /\ p' = [p EXCEPT ![t] = n]
                             /\ cache' = [cache EXCEPT ![t][n] = IF why[t] = "exit" THEN @ - 1 ELSE @ + 1]
                             /\ Goto(t, IF why[t] # "exit" THEN why[t] ELSE IF cache[t][n] = 1 THEN "decrement" ELSE "unlock")
      BY <1>2 DEF Hit
    <2>2. /\ cache'[t][n] = (IF why[t] = "exit" THEN cache[t][n] - 1 ELSE cache[t][n] + 1)
          /\ \A m \in Nodes \ {n} : cache'[t][m] = cache[t][m]
      BY <1>0, <2>1 DEF Types
    <2>3. /\ p'[t] = n /\ at[t] = "cache" /\ UNCHANGED <<object, obj, why>> /\ object[n] = obj[t]
          /\ at'[t] = IF why[t] # "exit" THEN why[t] ELSE IF cache[t][n] = 1 THEN "decrement" ELSE "unlock"
      BY <1>0, <1>2, <2>1 DEF Types, Hit, Goto, list, Cached
    <2>4. /\ why[t] # "exit" => Entering(t)' /\ ~Exiting(t)'
          /\ why[t] = "exit" => Exiting(t)' /\ ~Entering(t)'
      BY <1>0, <2>3 DEF Types, Entering, Exiting
    <2>5. ASSUME NEW m \in Nodes, mutex[m].owner = t
          PROVE  /\ Name(t, m)' = Name(t, m)
                 /\ mutex[m].depth + Bit(Entering(t)' /\ p'[t] = m) <= cache'[t][m] + Bit(Exiting(t)' /\ p'[t] = m)
      <3>1. /\ mutex[m].depth \in Nat /\ cache[t][m] \in Nat
            /\ mutex[m].depth + Bit(Entering(t) /\ p[t] = m) <= cache[t][m] + Bit(Exiting(t) /\ p[t] = m)
        BY <1>0, <2>5, OwnerCaches
      <3>2. ~Entering(t) /\ ~Exiting(t)
        BY <1>a, <2>3
      <3>3. mutex[m].depth <= cache[t][m]
        BY <3>1, <3>2 DEF Bit
      <3>4. Name(t, m)' = Name(t, m)
        BY <2>3, <3>2 DEF Name
      <3>5. CASE m # n
        <4>1. Bit(Entering(t)' /\ p'[t] = m) = 0 /\ Bit(Exiting(t)' /\ p'[t] = m) = 0
          BY <2>3, <3>5 DEF Bit
        <4>. QED
          BY <2>2, <3>1, <3>3, <3>4, <3>5, <4>1
      <3>6. CASE m = n /\ why[t] # "exit"
        <4>1. Bit(Entering(t)' /\ p'[t] = m) = 1 /\ Bit(Exiting(t)' /\ p'[t] = m) = 0
          BY <2>3, <2>4, <3>6 DEF Bit
        <4>2. cache'[t][m] = cache[t][m] + 1
          BY <2>2, <3>6
        <4>. QED
          BY <3>1, <3>3, <3>4, <4>1, <4>2
      <3>7. CASE m = n /\ why[t] = "exit"
        <4>1. Bit(Entering(t)' /\ p'[t] = m) = 0 /\ Bit(Exiting(t)' /\ p'[t] = m) = 1
          BY <2>3, <2>4, <3>7 DEF Bit
        <4>2. cache'[t][m] = cache[t][m] - 1
          BY <2>2, <3>7
        <4>. QED
          BY <3>1, <3>3, <3>4, <4>1, <4>2
      <3>. QED
        BY <3>5, <3>6, <3>7
    <2>. QED
      BY <2>5, OwnedKept
  <1>3. CASE Decrement(t)
    <2>1. at[t] = "decrement" /\ at'[t] = "unlock" /\ UNCHANGED <<cache, object, obj, p>>
      BY <1>0, <1>3 DEF Decrement, Goto, Types, locals
    <2>2. Exiting(t) /\ Exiting(t)' /\ ~Entering(t) /\ ~Entering(t)'
      BY <2>1 DEF Exiting, Entering
    <2>3. ASSUME NEW m \in Nodes, mutex[m].owner = t
          PROVE  /\ Name(t, m)' = Name(t, m)
                 /\ mutex[m].depth + Bit(Entering(t)' /\ p'[t] = m) <= cache'[t][m] + Bit(Exiting(t)' /\ p'[t] = m)
      <3>1. mutex[m].depth + Bit(Entering(t) /\ p[t] = m) <= cache[t][m] + Bit(Exiting(t) /\ p[t] = m)
        BY <1>0, <2>3, OwnerCaches
      <3>2. /\ Bit(Entering(t)' /\ p'[t] = m) = Bit(Entering(t) /\ p[t] = m)
            /\ Bit(Exiting(t)' /\ p'[t] = m) = Bit(Exiting(t) /\ p[t] = m)
        BY <2>1, <2>2 DEF Bit
      <3>. QED
        BY <2>1, <2>2, <3>1, <3>2 DEF Name
    <2>. QED
      BY <2>3, OwnedKept
  <1>4. CASE Miss(t)
    <2>1. at[t] = "cache" /\ at'[t] = "walk" /\ UNCHANGED <<cache, object>>
      BY <1>0, <1>4 DEF Miss, Goto, Types, list
    <2>. QED
      BY <1>a, <2>1, OwnedStays DEF Entering, Exiting
  <1>5. CASE Walk(t)
    <2>1. at[t] = "walk" /\ at'[t] \in {"walk", "done"} /\ UNCHANGED <<cache, object>>
      BY <1>0, <1>5 DEF Walk, Goto, Types
    <2>. QED
      BY <1>a, <2>1, OwnedStays DEF Entering, Exiting
  <1>6. CASE WalkEnds(t)
    <2>1. CASE why[t] = "exit"
      <3>1. at[t] = "walk" /\ Return(t) /\ UNCHANGED <<cache, object>>
        BY <1>6, <2>1 DEF WalkEnds, list
      <3>. QED
        BY <1>a, <1>b, <3>1, OwnedStays
    <2>2. CASE why[t] # "exit"
      <3>1. Choose(t) \in Nodes /\ threadCount[Choose(t)] = 0
        BY <1>6, ChosenNode DEF WalkEnds
      <3>2. /\ object' = [object EXCEPT ![Choose(t)] = obj[t]] /\ at[t] = "walk" /\ at'[t] = "done"
            /\ UNCHANGED cache
        BY <1>0, <1>6, <2>2 DEF WalkEnds, Goto, Types
      <3>3. ~Entering(t) /\ ~Exiting(t) /\ ~Entering(t)' /\ ~Exiting(t)'
        BY <1>a, <3>2 DEF Entering, Exiting
      <3>4. ASSUME NEW m \in Nodes, mutex[m].owner = t PROVE object'[m] = object[m]
        <4>1. m # Choose(t)
          BY <1>c, <3>1, <3>3, <3>4
        <4>. QED
          BY <1>0, <3>2, <4>1 DEF Types
      <3>. QED
        BY <3>2, <3>3, <3>4, OwnedStays
    <2>. QED
      BY <2>1, <2>2
  <1>7. CASE DoneWalk(t)
    <2>1. CASE why[t] = "exit"
      <3>1. at[t] = "done" /\ Return(t) /\ UNCHANGED <<cache, object>>
        BY <1>7, <2>1 DEF DoneWalk, list
      <3>. QED
        BY <1>a, <1>b, <3>1, OwnedStays
    <2>2. CASE why[t] # "exit"
      <3>1. /\ at[t] = "done" /\ p[t] \in Nodes /\ ~Cached(t, p[t], obj[t]) /\ object[p[t]] = obj[t]
        BY <1>0, <1>7 DEF DoneWalk, Place, Walking, Types
      <3>2. /\ \A m \in Nodes \ {p[t]} : cache'[t][m] = cache[t][m]
            /\ at'[t] = why[t] /\ UNCHANGED <<object, p>> /\ why[t] \in {"enter", "try"}
        BY <1>0, <1>7, <2>2, <3>1 DEF DoneWalk, Goto, Types, list
      <3>3. ~Entering(t) /\ ~Exiting(t) /\ ~Exiting(t)'
        BY <1>a, <3>1, <3>2 DEF Exiting
      <3>4. ASSUME NEW m \in Nodes, mutex[m].owner = t
            PROVE  /\ Name(t, m)' = Name(t, m)
                   /\ mutex[m].depth + Bit(Entering(t)' /\ p'[t] = m) <= cache'[t][m] + Bit(Exiting(t)' /\ p'[t] = m)
        <4>1. m # p[t]
          BY <1>c, <3>1, <3>3, <3>4 DEF Cached
        <4>2. mutex[m].depth + Bit(Entering(t) /\ p[t] = m) <= cache[t][m] + Bit(Exiting(t) /\ p[t] = m)
          BY <1>0, <3>4, OwnerCaches
        <4>3. /\ Bit(Entering(t)' /\ p'[t] = m) = 0 /\ Bit(Exiting(t)' /\ p'[t] = m) = 0
              /\ Bit(Entering(t) /\ p[t] = m) = 0 /\ Bit(Exiting(t) /\ p[t] = m) = 0
          BY <3>2, <4>1 DEF Bit
        <4>. QED
          BY <3>2, <3>3, <4>1, <4>2, <4>3 DEF Name
      <3>. QED
        BY <3>4, OwnedKept
    <2>. QED
      BY <2>1, <2>2
  <1>8. CASE MutexLock(t) \/ MutexTryLock(t)
    <2>1. Return(t) /\ at[t] \in {"enter", "try"} /\ UNCHANGED <<cache, object>>
      BY <1>8 DEF MutexLock, MutexTryLock, list
    <2>2. ~Exiting(t)
      BY <2>1 DEF Exiting
    <2>. QED
      BY <1>b, <2>1, <2>2, OwnedStays
  <1>9. CASE MutexTryUnlock(t)
    <2>1. Return(t) /\ at[t] = "unlock" /\ UNCHANGED <<cache, object>>
      BY <1>9 DEF MutexTryUnlock, list
    <2>2. p[t] \in Nodes
      BY <1>0, <2>1 DEF Place, Exiting, Types
    <2>3. mutex[p[t]].owner # t
      <3>1. ASSUME mutex[p[t]].owner = t PROVE FALSE
        <4>1. mutex[p[t]].depth \in Nat
          BY <1>0, <2>2 DEF Types
        <4>2. mutex'[p[t]].depth = mutex[p[t]].depth - 1
          BY <1>0, <1>9, <2>2, <3>1 DEF MutexTryUnlock, Types
        <4>. QED
          BY <4>1, <4>2
      <3>. QED
        BY <3>1
    <2>. QED
      BY <1>b, <2>1, <2>3, OwnedStays
  <1>. QED
    BY <1>1, <1>2, <1>3, <1>4, <1>5, <1>6, <1>7, <1>8, <1>9 DEF StepOf, Step

\* The mutex is locked: it was free, and then the thread was not inside the object, or its own.
LEMMA OwnedLocked ==
  ASSUME IInv, NEW t \in Clients, MutexLock(t) \/ MutexTryLock(t), MutexLocked(t), Free(t), Types'
  PROVE  OwnedBy(t)' /\ mutex'[p[t]].owner = t
PROOF
  <1>. DEFINE n == p[t]
              o == obj[t]
  <1>0. Types /\ List /\ SyncDataBalance /\ Place(t) /\ OwnedBy(t)
    BY MutexesParts DEF IInv, Places
  <1>1. Return(t) /\ Entering(t) /\ UNCHANGED <<cache, object>>
    BY DEF MutexLock, MutexTryLock, Entering, list
  <1>2. ~Entering(t)' /\ ~Exiting(t)' /\ ~Exiting(t)
    BY <1>0, <1>1 DEF Return, Goto, Entering, Exiting, Types
  <1>3. n \in Nodes /\ o \in Locks /\ cache[t][n] > 0 /\ object[n] = o
    BY <1>0, <1>1 DEF Place, Entering, Cached, Types
  <1>4. n <= listp /\ cache[t][n] \in Nat /\ mutex[n].depth \in Nat /\ inside[t][o] \in Nat
    BY <1>0, <1>3, InUse DEF Types
  <1>5. /\ mutex'[n] = [owner |-> t, depth |-> mutex[n].depth + 1]
        /\ \A m \in Nodes \ {n} : mutex'[m] = mutex[m]
    BY <1>0, <1>3 DEF MutexLocked, Types
  <1>6. /\ inside'[t][o] = inside[t][o] + 1
        /\ \A k \in Locks \ {o} : inside'[t][k] = inside[t][k]
    BY <1>0, <1>3 DEF MutexLocked, Types
  <1>7. \A m \in Nodes : Name(t, m)' = object[m] /\ Name(t, m) = object[m]
    BY <1>1, <1>2 DEF Name
  <1>8. ASSUME NEW m \in Nodes \ {n}, mutex[m].owner = t PROVE object[m] \in Locks /\ object[m] # o
    <2>1. m <= listp
      BY <1>0, <1>2, <1>8, OwnerCaches
    <2>. QED
      BY <1>0, <1>3, <1>4, <1>8, <2>1 DEF List
  <1>9. mutex[n].depth + 1 <= cache[t][n] /\ inside[t][o] = mutex[n].depth
    <2>1. CASE mutex[n].owner = t
      <3>1. /\ mutex[n].depth + Bit(Entering(t) /\ p[t] = n) <= cache[t][n] + Bit(Exiting(t) /\ p[t] = n)
            /\ inside[t][Name(t, n)] = mutex[n].depth
        BY <1>0, <1>3, <2>1, OwnerCaches
      <3>2. Bit(Entering(t) /\ p[t] = n) = 1 /\ Bit(Exiting(t) /\ p[t] = n) = 0
        BY <1>1, <1>2 DEF Bit
      <3>. QED
        BY <1>3, <1>4, <1>7, <3>1, <3>2
    <2>2. CASE mutex[n].owner = Nobody
      <3>1. mutex[n].depth = 0
        BY <1>3, <2>2 DEF IInv, Mutexes
      <3>2. ~(inside[t][o] > 0)
        <4>1. ASSUME inside[t][o] > 0 PROVE FALSE
          <5>1. PICK m \in Nodes : mutex[m].owner = t /\ o = Name(t, m)
            BY <1>0, <1>3, <4>1 DEF OwnedBy
          <5>2. m # n
            BY <2>2, <5>1, SyncAssumption
          <5>. QED
            BY <1>7, <1>8, <5>1, <5>2
        <4>. QED
          BY <4>1
      <3>. QED
        BY <1>3, <1>4, <3>1, <3>2
    <2>. QED
      BY <2>1, <2>2 DEF Free
  <1>. HIDE DEF n, o
  <1>10. ASSUME NEW m \in Nodes, mutex'[m].owner = t PROVE Owned(m, t)'
    <2>1. Bit(Entering(t)' /\ p'[t] = m) = 0 /\ Bit(Exiting(t)' /\ p'[t] = m) = 0
      BY <1>2 DEF Bit
    <2>2. mutex'[m].depth > 0 /\ mutex'[m].depth <= cache[t][m] /\ inside'[t][object[m]] = mutex'[m].depth
      <3>1. CASE m = n
        BY <1>3, <1>4, <1>5, <1>6, <1>9, <3>1
      <3>2. CASE m # n
        <4>1. mutex'[m] = mutex[m] /\ mutex[m].owner = t
          BY <1>5, <1>10, <3>2
        <4>2. object[m] \in Locks /\ object[m] # o
          BY <1>8, <3>2, <4>1
        <4>3. /\ mutex[m].depth \in Nat /\ mutex[m].depth > 0 /\ cache[t][m] \in Nat
              /\ mutex[m].depth + Bit(Entering(t) /\ p[t] = m) <= cache[t][m] + Bit(Exiting(t) /\ p[t] = m)
              /\ inside[t][Name(t, m)] = mutex[m].depth
          BY <1>0, <4>1, OwnerCaches
        <4>4. Bit(Exiting(t) /\ p[t] = m) = 0 /\ Bit(Entering(t) /\ p[t] = m) \in {0, 1}
          BY <1>2 DEF Bit
        <4>5. mutex[m].depth <= cache[t][m]
          BY <4>3, <4>4
        <4>. QED
          BY <1>6, <1>7, <4>1, <4>2, <4>3, <4>5
      <3>. QED
        BY <3>1, <3>2
    <2>3. mutex'[m].depth \in Nat /\ cache[t][m] \in Nat
      BY <1>0 DEF Types
    <2>4. cache' = cache /\ Name(t, m)' = object[m]
      BY <1>1, <1>7
    <2>5. mutex'[m].depth + Bit(Entering(t)' /\ p'[t] = m) <= cache'[t][m] + Bit(Exiting(t)' /\ p'[t] = m)
      BY <2>1, <2>2, <2>3, <2>4
    <2>6. inside'[t][Name(t, m)'] = mutex'[m].depth
      BY <2>2, <2>4
    <2>. QED
      BY <2>2, <2>5, <2>6 DEF Owned, Name
  <1>11. ASSUME NEW k \in Locks, inside'[t][k] > 0
         PROVE  \E m \in Nodes : mutex'[m].owner = t /\ k = Name(t, m)'
    <2>1. CASE k = o
      BY <1>3, <1>5, <1>7, <2>1
    <2>2. CASE k # o
      <3>1. PICK m \in Nodes : mutex[m].owner = t /\ k = Name(t, m)
        BY <1>0, <1>6, <1>11, <2>2 DEF OwnedBy
      <3>2. m # n
        BY <1>3, <1>7, <2>2, <3>1
      <3>. QED
        BY <1>5, <1>7, <3>1, <3>2
    <2>. QED
      BY <2>1, <2>2
  <1>12. OwnedBy(t)'
    BY <1>10, <1>11 DEF OwnedBy
  <1>. QED
    BY <1>5, <1>12 DEF n

\* The mutex is unlocked: the last exit leaves the object, and any other keeps the node.
LEMMA OwnedUnlocked ==
  ASSUME IInv, NEW t \in Clients, MutexTryUnlock(t), mutex[p[t]].owner = t, Types'
  PROVE  OwnedBy(t)' /\ (mutex'[p[t]].owner = Nobody => mutex'[p[t]].depth = 0)
PROOF
  <1>. DEFINE n == p[t]
              o == obj[t]
  <1>0. Types /\ List /\ SyncDataBalance /\ Place(t) /\ OwnedBy(t)
    BY MutexesParts DEF IInv, Places
  <1>1. Return(t) /\ at[t] = "unlock" /\ Exiting(t) /\ ~Entering(t) /\ UNCHANGED <<cache, object>>
    BY DEF MutexTryUnlock, Exiting, Entering, list
  <1>2. ~Entering(t)' /\ ~Exiting(t)'
    BY <1>0, <1>1 DEF Return, Goto, Entering, Exiting, Types
  <1>3. /\ n \in Nodes /\ o \in Locks
        /\ cache[t][n] > 0 => object[n] = o
        /\ \A m \in Nodes : Cached(t, m, o) => m = n
    BY <1>0, <1>1 DEF Place, Exiting, Types
  <1>4. cache[t][n] \in Nat /\ mutex[n].depth \in Nat /\ inside[t][o] \in Nat
    BY <1>0, <1>3 DEF Types
  <1>5. /\ mutex'[n] = [owner |-> IF mutex[n].depth = 1 THEN Nobody ELSE t, depth |-> mutex[n].depth - 1]
        /\ \A m \in Nodes \ {n} : mutex'[m] = mutex[m]
    BY <1>0, <1>3 DEF MutexTryUnlock, Types
  <1>6. /\ inside'[t][o] = inside[t][o] - 1
        /\ \A k \in Locks \ {o} : inside'[t][k] = inside[t][k]
    BY <1>0, <1>3 DEF MutexTryUnlock, Types
  <1>7. /\ \A m \in Nodes : Name(t, m)' = object[m]
        /\ \A m \in Nodes \ {n} : Name(t, m) = object[m]
        /\ Name(t, n) = o
    BY <1>1, <1>2 DEF Name
  <1>8. mutex[n].depth > 0 /\ mutex[n].depth <= cache[t][n] + 1 /\ inside[t][o] = mutex[n].depth
    <2>1. /\ mutex[n].depth > 0
          /\ mutex[n].depth + Bit(Entering(t) /\ p[t] = n) <= cache[t][n] + Bit(Exiting(t) /\ p[t] = n)
          /\ inside[t][Name(t, n)] = mutex[n].depth
      BY <1>0, <1>3, OwnerCaches
    <2>2. Bit(Entering(t) /\ p[t] = n) = 0 /\ Bit(Exiting(t) /\ p[t] = n) = 1
      BY <1>1 DEF Bit
    <2>. QED
      BY <1>4, <1>7, <2>1, <2>2
  <1>9. ASSUME NEW m \in Nodes \ {n}, mutex[m].owner = t
        PROVE  /\ object[m] \in Locks /\ object[m] # o
               /\ mutex[m].depth > 0 /\ mutex[m].depth <= cache[t][m] /\ inside[t][object[m]] = mutex[m].depth
    <2>1. /\ mutex[m].depth \in Nat /\ mutex[m].depth > 0 /\ cache[t][m] \in Nat
          /\ mutex[m].depth + Bit(Entering(t) /\ p[t] = m) <= cache[t][m] + Bit(Exiting(t) /\ p[t] = m)
          /\ inside[t][Name(t, m)] = mutex[m].depth
          /\ cache[t][m] > 0 /\ m <= listp
      BY <1>0, <1>9, OwnerCaches
    <2>2. Bit(Entering(t) /\ p[t] = m) = 0 /\ Bit(Exiting(t) /\ p[t] = m) = 0
      BY <1>9 DEF Bit
    <2>3. object[m] \in Locks /\ object[m] # o
      BY <1>0, <1>3, <1>9, <2>1 DEF List, Cached
    <2>. QED
      BY <1>7, <2>1, <2>2, <2>3
  <1>. HIDE DEF n, o
  <1>10. ASSUME NEW m \in Nodes, mutex'[m].owner = t PROVE Owned(m, t)'
    <2>1. Bit(Entering(t)' /\ p'[t] = m) = 0 /\ Bit(Exiting(t)' /\ p'[t] = m) = 0
      BY <1>2 DEF Bit
    <2>2. mutex'[m].depth > 0 /\ mutex'[m].depth <= cache[t][m] /\ inside'[t][object[m]] = mutex'[m].depth
      <3>1. CASE m = n
        <4>1. mutex[n].depth # 1
          BY <1>5, <1>10, <3>1, SyncAssumption
        <4>2. mutex[n].depth - 1 > 0 /\ mutex[n].depth - 1 <= cache[t][n] /\ cache[t][n] > 0
          BY <1>4, <1>8, <4>1
        <4>3. inside'[t][object[n]] = mutex[n].depth - 1
          BY <1>3, <1>6, <1>8, <4>2
        <4>. QED
          BY <1>5, <3>1, <4>2, <4>3
      <3>2. CASE m # n
        <4>1. mutex'[m] = mutex[m] /\ mutex[m].owner = t
          BY <1>5, <1>10, <3>2
        <4>. QED
          BY <1>6, <1>9, <3>2, <4>1
      <3>. QED
        BY <3>1, <3>2
    <2>3. mutex'[m].depth \in Nat /\ cache[t][m] \in Nat
      BY <1>0 DEF Types
    <2>4. cache' = cache /\ Name(t, m)' = object[m]
      BY <1>1, <1>7
    <2>5. mutex'[m].depth + Bit(Entering(t)' /\ p'[t] = m) <= cache'[t][m] + Bit(Exiting(t)' /\ p'[t] = m)
      BY <2>1, <2>2, <2>3, <2>4
    <2>6. inside'[t][Name(t, m)'] = mutex'[m].depth
      BY <2>2, <2>4
    <2>. QED
      BY <2>2, <2>5, <2>6 DEF Owned, Name
  <1>11. ASSUME NEW k \in Locks, inside'[t][k] > 0
         PROVE  \E m \in Nodes : mutex'[m].owner = t /\ k = Name(t, m)'
    <2>1. CASE k = o
      <3>1. mutex[n].depth - 1 > 0
        BY <1>6, <1>8, <1>11, <2>1
      <3>2. mutex[n].depth # 1 /\ cache[t][n] > 0
        BY <1>4, <1>8, <3>1
      <3>. QED
        BY <1>3, <1>5, <1>7, <2>1, <3>2
    <2>2. CASE k # o
      <3>1. PICK m \in Nodes : mutex[m].owner = t /\ k = Name(t, m)
        BY <1>0, <1>6, <1>11, <2>2 DEF OwnedBy
      <3>2. m # n
        BY <1>7, <2>2, <3>1
      <3>. QED
        BY <1>5, <1>7, <3>1, <3>2
    <2>. QED
      BY <2>1, <2>2
  <1>12. OwnedBy(t)'
    BY <1>10, <1>11 DEF OwnedBy
  <1>13. mutex'[n].owner = Nobody => mutex'[n].depth = 0
    BY <1>4, <1>5, SyncAssumption
  <1>. QED
    BY <1>12, <1>13 DEF n

\* A step keeps what the owners of the mutexes know of them.
LEMMA MutexesStep == ASSUME IInv, Next, Types' PROVE Mutexes'
PROOF
  <1>0. Types /\ Mutexes /\ Places
    BY DEF IInv
  <1>a. PICK t \in Clients : StepOf(t)
    BY DEF Next, StepOf
  <1>b. \/ UNCHANGED <<mutex, inside>>
        \/ (MutexLock(t) \/ MutexTryLock(t)) /\ MutexLocked(t) /\ Free(t)
        \/ MutexTryUnlock(t) /\ mutex[p[t]].owner = t
    BY <1>a DEF StepOf, Step, Call, Hit, Decrement, Miss, Walk, WalkEnds, DoneWalk, MutexLock, MutexTryLock,
                MutexTryUnlock
  <1>1. OwnedBy(t)'
    BY <1>0, <1>a, <1>b, OwnedMoves, OwnedLocked, OwnedUnlocked DEF IInv
  <1>2. ASSUME NEW n \in Nodes, mutex'[n].owner = Nobody PROVE mutex'[n].depth = 0
    <2>1. CASE mutex'[n] = mutex[n]
      BY <1>0, <1>2, <2>1 DEF Mutexes
    <2>2. CASE mutex'[n] # mutex[n]
      <3>1. n = p[t]
        BY <1>a, <2>2, MutexMoves
      <3>2. t # Nobody
        BY SyncAssumption
      <3>. QED
        BY <1>0, <1>2, <1>b, <2>2, <3>1, <3>2, OwnedLocked, OwnedUnlocked
    <2>. QED
      BY <2>1, <2>2
  <1>3. ASSUME NEW u \in Clients PROVE OwnedBy(u)'
    <2>1. CASE u = t
      BY <1>1, <2>1
    <2>2. CASE u # t
      BY <1>0, <1>a, <2>2, OwnedOther
    <2>. QED
      BY <2>1, <2>2
  <1>. QED
    BY <1>2, <1>3, MutexesParts
-----------------------------------------------------------------------------
\* The invariant holds at the start.
LEMMA InitInvariant == Init => IInv
PROOF
  <1>. SUFFICES ASSUME Init PROVE IInv
    OBVIOUS
  <1>0. /\ listp = 0 /\ lockp = Nobody /\ \A t \in Clients : t # Nobody
        /\ \A n \in Nodes : object[n] = Nobody /\ threadCount[n] = 0 /\ stray[n] = 0
        /\ \A n \in Nodes : mutex[n].owner = Nobody /\ mutex[n].depth = 0
        /\ \A t \in Clients : at[t] = "idle" /\ p[t] = NoNode /\ \A n \in Nodes : cache[t][n] = 0
        /\ \A t \in Clients, o \in Locks : inside[t][o] = 0
    BY SyncAssumption DEF Init, NoNode
  <1>1. Types
    BY NodesFacts DEF Init, Types, Labels, NoNode
  <1>2. List
    BY <1>0, NodesFacts DEF List
  <1>3. Places
    BY <1>0 DEF Places, Place, Entering, Exiting, Walking
  <1>4. SyncDataBalance
    <2>. SUFFICES ASSUME NEW n \in Nodes
                  PROVE  threadCount[n] = Cardinality(Users(n)) + stray[n] + Cardinality(Passing(n))
      BY DEF SyncDataBalance, Passing
    <2>1. Users(n) = {} /\ Passing(n) = {}
      BY <1>0 DEF Users, Passing
    <2>2. Cardinality({}) = 0
      BY FS_EmptySet
    <2>. QED
      BY <1>0, <2>1, <2>2
  <1>5. Mutexes
    BY <1>0 DEF Mutexes
  <1>. QED
    BY <1>1, <1>2, <1>3, <1>4, <1>5 DEF IInv

\* The invariant is inductive.
LEMMA StepInvariant == IInv /\ [Next]_vars => IInv'
PROOF
  <1>1. ASSUME IInv, Next PROVE IInv'
    <2>1. Types'
      BY <1>1, TypesStep
    <2>. QED
      BY <1>1, <2>1, ListStep, PlacesStep, BalanceStep, MutexesStep DEF IInv
  <1>2. ASSUME IInv, UNCHANGED vars PROVE IInv'
    <2>. USE <1>2 DEF vars, list, locals
    <2>1. Types'
      BY DEF IInv, Types
    <2>2. List'
      BY DEF IInv, List
    <2>3. Places'
      BY DEF IInv, Places, Place, Entering, Exiting, Cached
    <2>4. SyncDataBalance'
      BY DEF IInv, SyncDataBalance, Users
    <2>5. Mutexes'
      BY DEF IInv, Mutexes, Owned, Entering, Exiting
    <2>. QED
      BY <2>1, <2>2, <2>3, <2>4, <2>5 DEF IInv
  <1>. QED
    BY <1>1, <1>2

\* The inductive invariant holds of the code of objc-sync.mm in every state.
THEOREM Invariant == Spec => []IInv
PROOF
  BY InitInvariant, StepInvariant, PTL DEF Spec

(***************************************************************************)
(* threadCount counts the threads that use a node, and the exits that      *)
(* found it in the list and never gave their share back: id2data gives a   *)
(* node to another object only when no thread has it in a cache.           *)
(***************************************************************************)
THEOREM SyncDataBalanceHolds == Spec => []SyncDataBalance
PROOF
  <1>1. IInv => SyncDataBalance
    BY DEF IInv
  <1>. QED
    BY <1>1, Invariant, PTL

\* The mutex through which a thread is inside an object.
LEMMA InsideThrough ==
  ASSUME IInv, NEW t \in Clients, NEW o \in Locks, inside[t][o] > 0, ~Leaving(t, o)
  PROVE  \E n \in Nodes : Cached(t, n, o) /\ mutex[n].owner = t /\ n <= listp
PROOF
  <1>0. Types /\ List /\ SyncDataBalance /\ Place(t) /\ OwnedBy(t)
    BY MutexesParts DEF IInv, Places
  <1>1. PICK n \in Nodes : mutex[n].owner = t /\ o = Name(t, n)
    BY <1>0 DEF OwnedBy
  <1>2. CASE Exiting(t) /\ p[t] = n
    <2>1. at[t] = "unlock" /\ cache[t][n] # 0 /\ cache[t][n] \in Nat /\ obj[t] = o
      BY <1>0, <1>1, <1>2 DEF Name, Leaving, Exiting, Types
    <2>2. cache[t][n] > 0
      BY <2>1
    <2>. QED
      BY <1>0, <1>1, <1>2, <2>1, <2>2, InUse DEF Place, Cached
  <1>3. CASE ~(Exiting(t) /\ p[t] = n)
    BY <1>0, <1>1, <1>3, OwnerCaches DEF Name, Cached
  <1>. QED
    BY <1>2, <1>3

\* Two threads inside an object are one: there is one node for the object, and one owner of its mutex.
LEMMA OneInside ==
  ASSUME IInv, NEW o \in Locks, NEW t \in Clients, Inside(t, o), NEW u \in Clients, Inside(u, o)
  PROVE  t = u
PROOF
  <1>1. PICK m \in Nodes : Cached(t, m, o) /\ mutex[m].owner = t /\ m <= listp
    BY InsideThrough DEF Inside
  <1>2. PICK n \in Nodes : Cached(u, n, o) /\ mutex[n].owner = u /\ n <= listp
    BY InsideThrough DEF Inside
  <1>3. m = n
    BY <1>1, <1>2 DEF IInv, List, Cached
  <1>. QED
    BY <1>1, <1>2, <1>3

(***************************************************************************)
(* @synchronized excludes: never two threads inside one object, whatever   *)
(* nodes change their objects in the list; and the result of               *)
(* objc_sync_exit tells a thread that is inside from one that is not.      *)
(***************************************************************************)
THEOREM MutualExclusionHolds == Spec => []MutualExclusion
PROOF
  <1>1. IInv => MutualExclusion
    <2>. SUFFICES ASSUME IInv PROVE MutualExclusion
      OBVIOUS
    <2>0. Types /\ List /\ SyncDataBalance /\ Places /\ Mutexes
      BY DEF IInv
    <2>1. ASSUME NEW o \in Locks PROVE Cardinality({t \in Clients : Inside(t, o)}) <= 1
      <3>. DEFINE S == {t \in Clients : Inside(t, o)}
      <3>1. CASE S = {}
        <4>1. Cardinality(S) = 0
          BY <3>1, FS_EmptySet
        <4>. QED
          BY <4>1
      <3>2. CASE S # {}
        <4>1. PICK t \in Clients : Inside(t, o)
          BY <3>2
        <4>2. S = {t}
          BY <4>1, OneInside
        <4>3. Cardinality(S) = 1
          BY <4>2, FS_Singleton
        <4>. QED
          BY <4>3
      <3>. QED
        BY <3>1, <3>2
    <2>2. \A t \in Clients, o \in Locks : Inside(t, o) => \E n \in Nodes : Cached(t, n, o) /\ mutex[n].owner = t
      BY InsideThrough DEF Inside
    <2>3. \A m, n \in 1..listp : m # n => object[m] # object[n]
      <3>1. \A n \in 1..listp : n \in Nodes /\ n <= listp
        BY <2>0, ListFacts, NodesFacts
      <3>. QED
        BY <2>0, <3>1 DEF List
    <2>4. ASSUME NEW t \in Clients, at[t] = "unlock"
          PROVE  mutex[p[t]].owner = t <=> inside[t][obj[t]] > 0
      <3>0. Place(t) /\ OwnedBy(t) /\ Exiting(t)
        BY <2>0, <2>4, MutexesParts DEF Places, Exiting
      <3>1. p[t] \in Nodes /\ obj[t] \in Locks /\ \A n \in Nodes : Cached(t, n, obj[t]) => n = p[t]
        BY <2>0, <2>4, <3>0 DEF Place, Types
      <3>2. ASSUME mutex[p[t]].owner = t PROVE inside[t][obj[t]] > 0
        BY <3>0, <3>1, <3>2 DEF OwnedBy, Owned
      <3>3. ASSUME inside[t][obj[t]] > 0 PROVE mutex[p[t]].owner = t
        <4>1. PICK n \in Nodes : mutex[n].owner = t /\ obj[t] = Name(t, n)
          BY <3>0, <3>1, <3>3 DEF OwnedBy
        <4>2. n = p[t]
          <5>1. ASSUME n # p[t] PROVE Cached(t, n, obj[t])
            BY <2>0, <3>0, <4>1, <5>1, OwnerCaches DEF Name, Cached
          <5>. QED
            BY <3>1, <5>1
        <4>. QED
          BY <4>1, <4>2
      <3>. QED
        BY <3>2, <3>3
    <2>5. ASSUME NEW t \in Clients, at[t] \in {"walk", "done"}
          PROVE  inside[t][obj[t]] = 0
      <3>0. Place(t) /\ ~Exiting(t)
        BY <2>0, <2>5 DEF Places, Exiting
      <3>1. obj[t] \in Locks /\ (\A n \in Nodes : ~Cached(t, n, obj[t])) /\ inside[t][obj[t]] \in Nat
        BY <2>0, <2>5, <3>0 DEF Place, Walking, Types
      <3>2. ~Leaving(t, obj[t])
        BY <2>5 DEF Leaving
      <3>3. ~(inside[t][obj[t]] > 0)
        BY <3>1, <3>2, InsideThrough
      <3>. QED
        BY <3>1, <3>3
    <2>. QED
      BY <2>1, <2>2, <2>3, <2>4, <2>5 DEF MutualExclusion
  <1>. QED
    BY <1>1, Invariant, PTL
-----------------------------------------------------------------------------
(***************************************************************************)
(* The bounds: what Call lets the threads begin stays within MaxOpen and   *)
(* MaxStray until they are through with it.                                *)
(***************************************************************************)
\* An exit that will not find its object in the cache.
Straying(t) ==
  /\ at[t] # "idle" /\ why[t] = "exit" /\ ~Exiting(t)
  /\ \A n \in Nodes : ~Cached(t, n, obj[t])

\* There is room for the enter that a thread is about to make, and in the cache it gives up from.
Room(t) ==
  /\ \A n \in Nodes : cache[t][n] <= MaxOpen
  /\ at[t] = "cache" /\ why[t] # "exit" => \A n \in Nodes : cache[t][n] < MaxOpen
  /\ Exiting(t) => cache[t][p[t]] < MaxOpen

\* A stray exit is alone, and there is room for it.
Strays ==
  /\ \A n \in Nodes : stray[n] <= MaxStray
  /\ \A t \in Clients : Straying(t) => \A n \in Nodes : stray[n] < MaxStray
  /\ \A t, u \in Clients : Straying(t) /\ Straying(u) => t = u

Bounds == (\A t \in Clients : Room(t)) /\ Strays

\* A thread that may enter once more has room in its cache.
LEMMA OpenRoom ==
  ASSUME Types, NEW t \in Clients, \A n \in Nodes : cache[t][n] <= MaxOpen, Open(t) < MaxOpen
  PROVE  \A n \in Nodes : cache[t][n] < MaxOpen
PROOF
  <1>0. MaxOpen \in Nat \ {0}
    BY SyncAssumption
  <1>. SUFFICES ASSUME NEW n \in Nodes, cache[t][n] = MaxOpen PROVE FALSE
    <2>1. \A n \in Nodes : cache[t][n] \in Nat
      BY DEF Types
    <2>. QED
      BY <1>0, <2>1
  <1>. DEFINE E == {e \in Nodes \X (1..MaxOpen) : e[2] <= cache[t][e[1]]}
              S == {n} \X (1..MaxOpen)
  <1>1. IsFiniteSet(1..MaxOpen) /\ Cardinality(1..MaxOpen) = MaxOpen
    BY <1>0, FS_Interval
  <1>2. IsFiniteSet(Nodes)
    BY NodesFacts, FS_Interval DEF Nodes
  <1>3. IsFiniteSet({n}) /\ Cardinality({n}) = 1
    BY FS_Singleton
  <1>4. Cardinality(S) = MaxOpen
    <2>1. Cardinality(S) = Cardinality({n}) * Cardinality(1..MaxOpen)
      BY <1>1, <1>3, FS_Product
    <2>. HIDE DEF S
    <2>. QED
      BY <1>0, <1>1, <1>3, <2>1
  <1>5. IsFiniteSet(E)
    <2>1. IsFiniteSet(Nodes \X (1..MaxOpen))
      BY <1>1, <1>2, FS_Product
    <2>2. E \subseteq Nodes \X (1..MaxOpen)
      OBVIOUS
    <2>. QED
      BY <2>1, <2>2, FS_Subset
  <1>6. S \subseteq E
    BY <1>0
  <1>7. Cardinality(S) <= Cardinality(E) /\ Cardinality(E) \in Nat
    BY <1>5, <1>6, FS_Subset, FS_CardinalityType
  <1>8. Cardinality(E) < MaxOpen
    BY DEF Open
  <1>. HIDE DEF E, S
  <1>. QED
    BY <1>0, <1>4, <1>7, <1>8

\* Where a step leaves the cache of the thread that makes it.
LEMMA RoomStep == ASSUME IInv, NEW t \in Clients, StepOf(t), Room(t), Types' PROVE Room(t)'
PROOF
  <1>0. Types /\ MaxOpen \in Nat \ {0} /\ \A n \in Nodes : cache[t][n] \in Nat /\ cache[t][n] <= MaxOpen
    BY SyncAssumption DEF IInv, Types, Room
  <1>1. CASE \E o \in Locks, call \in {"enter", "try", "exit"} : Call(t, o, call)
    <2>1. PICK o \in Locks, call \in {"enter", "try", "exit"} : Call(t, o, call)
      BY <1>1
    <2>2. cache' = cache /\ at'[t] = "cache" /\ why'[t] = call
      BY <1>0, <2>1 DEF Call, Goto, Types
    <2>3. call # "exit" => \A n \in Nodes : cache[t][n] < MaxOpen
      BY <1>0, <2>1, OpenRoom DEF Call
    <2>. QED
      BY <1>0, <2>2, <2>3 DEF Room, Exiting
  <1>2. CASE Hit(t)
    <2>1. PICK n \in Nodes : /\ Cached(t, n, obj[t])
                             /\ p' = [p EXCEPT ![t] = n]
                             /\ cache' = [cache EXCEPT ![t][n] = IF why[t] = "exit" THEN @ - 1 ELSE @ + 1]
                             /\ Goto(t, IF why[t] # "exit" THEN why[t]
                                        ELSE IF cache[t][n] = 1 THEN "decrement" ELSE "unlock")
      BY <1>2 DEF Hit
    <2>2. /\ p'[t] = n /\ cache'[t][n] = IF why[t] = "exit" THEN cache[t][n] - 1 ELSE cache[t][n] + 1
          /\ \A m \in Nodes \ {n} : cache'[t][m] = cache[t][m]
      BY <1>0, <2>1 DEF Types
    <2>3. /\ at'[t] # "cache" /\ at[t] = "cache"
          /\ why[t] # "exit" => at'[t] \in {"enter", "try"}
      BY <1>0, <1>2, <2>1 DEF Hit, Goto, Types
    <2>4. why[t] # "exit" => cache[t][n] < MaxOpen
      BY <2>3 DEF Room
    <2>5. cache'[t][n] <= MaxOpen /\ (why[t] = "exit" => cache'[t][n] < MaxOpen)
      BY <1>0, <2>2, <2>4
    <2>. QED
      BY <1>0, <2>2, <2>3, <2>5 DEF Room, Exiting
  <1>3. CASE Decrement(t)
    BY <1>0, <1>3 DEF Decrement, Goto, Room, Exiting, Types, locals
  <1>4. CASE Miss(t) \/ Walk(t)
    <2>1. cache' = cache /\ at'[t] \in Walking
      BY <1>0, <1>4 DEF Miss, Walk, Goto, Types, Walking
    <2>. QED
      BY <1>0, <2>1 DEF Room, Exiting, Walking
  <1>5. CASE WalkEnds(t) \/ MutexLock(t) \/ MutexTryLock(t) \/ MutexTryUnlock(t)
    <2>1. cache' = cache /\ at'[t] \in {"idle", "done"}
      BY <1>0, <1>5 DEF WalkEnds, MutexLock, MutexTryLock, MutexTryUnlock, Return, Goto, Types
    <2>. QED
      BY <1>0, <2>1 DEF Room, Exiting
  <1>6. CASE DoneWalk(t)
    <2>1. CASE why[t] = "exit"
      <3>1. cache' = cache /\ at'[t] = "idle"
        BY <1>0, <1>6, <2>1 DEF DoneWalk, Return, Goto, Types
      <3>. QED
        BY <1>0, <3>1 DEF Room, Exiting
    <2>2. CASE why[t] # "exit"
      <3>1. at'[t] \in {"enter", "try"} /\ cache' = [cache EXCEPT ![t][p[t]] = 1]
        BY <1>0, <1>6, <2>2 DEF DoneWalk, Goto, Types
      <3>2. \A n \in Nodes : cache'[t][n] \in {1, cache[t][n]}
        BY <1>0, <3>1 DEF Types
      <3>. QED
        BY <1>0, <3>1, <3>2 DEF Room, Exiting
    <2>. QED
      BY <2>1, <2>2
  <1>. QED
    BY <1>1, <1>2, <1>3, <1>4, <1>5, <1>6 DEF StepOf, Step

\* An exit strays from the start of the call, when Call has let it, or not at all.
LEMMA StrayingBegins ==
  ASSUME IInv, NEW t \in Clients, StepOf(t), Types'
  PROVE  /\ \A u \in Clients \ {t} : Straying(u)' => Straying(u)
         /\ Straying(t)' => \/ Straying(t)
                            \/ /\ \A n \in Nodes : stray[n] < MaxStray
                               /\ \A u \in Clients : at[u] = "idle" \/ why[u] # "exit"
                               /\ UNCHANGED stray
PROOF
  <1>0. Types /\ Apart(t) /\ List /\ SyncDataBalance
    BY StepsApart DEF IInv, StepOf
  <1>1. \A u \in Clients, n \in Nodes, o \in Locks : Cached(u, n, o) => object'[n] = o
    BY <1>0, OthersKept, InUse DEF Cached
  <1>2. ASSUME NEW u \in Clients \ {t}, Straying(u)' PROVE Straying(u)
    <2>1. at'[u] = at[u] /\ why'[u] = why[u] /\ obj'[u] = obj[u] /\ cache'[u] = cache[u]
      BY <1>0 DEF Apart
    <2>2. at[u] # "idle" /\ why[u] = "exit" /\ ~Exiting(u) /\ obj[u] \in Locks
      BY <1>2, <2>1 DEF Straying, Exiting, IInv, Places, Place
    <2>3. ASSUME NEW n \in Nodes, Cached(u, n, obj[u]) PROVE FALSE
      BY <1>1, <1>2, <2>1, <2>2, <2>3 DEF Straying, Cached
    <2>. QED
      BY <2>2, <2>3 DEF Straying
  <1>3. ASSUME Straying(t)', Step(t) PROVE Straying(t)
    <2>1. at'[t] # "idle" /\ at'[t] \notin {"decrement", "unlock"} /\ why'[t] = "exit"
      BY <1>3 DEF Straying, Exiting
    <2>2. \/ Miss(t) \/ Walk(t)
      BY <1>0, <1>3, <2>1 DEF Step, Hit, Decrement, WalkEnds, DoneWalk, MutexLock, MutexTryLock,
                               MutexTryUnlock, Return, Goto, Types
    <2>3. /\ at[t] \in {"cache", "walk"} /\ why'[t] = why[t] /\ obj'[t] = obj[t]
          /\ cache' = cache /\ object' = object
      BY <2>2 DEF Miss, Walk, list
    <2>. QED
      BY <1>3, <2>1, <2>3 DEF Straying, Exiting, Cached
  <1>4. ASSUME Straying(t)', NEW o \in Locks, NEW call \in {"enter", "try", "exit"}, Call(t, o, call)
        PROVE  /\ \A n \in Nodes : stray[n] < MaxStray
               /\ \A u \in Clients : at[u] = "idle" \/ why[u] # "exit"
               /\ UNCHANGED stray
    <2>1. why'[t] = call /\ obj'[t] = o /\ UNCHANGED <<cache, object, stray>>
      BY <1>0, <1>4 DEF Call, Types, list
    <2>2. call = "exit" /\ ~\E n \in Nodes : Cached(t, n, o)
      BY <1>4, <2>1 DEF Straying, Cached
    <2>. QED
      BY <1>4, <2>1, <2>2 DEF Call
  <1>. QED
    BY <1>2, <1>3, <1>4 DEF StepOf

\* Only a stray exit leaves a share behind, and then it is over.
LEMMA StraysMove ==
  ASSUME IInv, NEW t \in Clients, StepOf(t), Types'
  PROVE  \/ UNCHANGED stray
         \/ /\ Straying(t) /\ ~Straying(t)'
            /\ \A n \in Nodes : stray'[n] \in {stray[n], stray[n] + 1}
PROOF
  <1>0. Types /\ Place(t)
    BY DEF IInv, Places
  <1>1. UNCHANGED stray \/ (DoneWalk(t) /\ why[t] = "exit")
    BY DEF StepOf, Step, Call, Hit, Decrement, Miss, Walk, WalkEnds, DoneWalk, MutexLock, MutexTryLock,
           MutexTryUnlock
  <1>2. ASSUME DoneWalk(t), why[t] = "exit"
        PROVE  /\ Straying(t) /\ ~Straying(t)'
               /\ \A n \in Nodes : stray'[n] \in {stray[n], stray[n] + 1}
    <2>1. Straying(t)
      BY <1>0, <1>2 DEF DoneWalk, Place, Walking, Straying, Exiting
    <2>2. at'[t] = "idle" /\ stray' = [stray EXCEPT ![p[t]] = @ + 1]
      BY <1>0, <1>2 DEF DoneWalk, Return, Goto, Types
    <2>3. \A n \in Nodes : stray'[n] \in {stray[n], stray[n] + 1}
      BY <1>0, <2>2 DEF Types
    <2>. QED
      BY <2>1, <2>2, <2>3 DEF Straying
  <1>. QED
    BY <1>1, <1>2

\* A step keeps the bounds.
LEMMA BoundsStep == ASSUME IInv, Bounds, Next, Types' PROVE Bounds'
PROOF
  <1>1. PICK t \in Clients : StepOf(t)
    BY DEF Next, StepOf
  <1>0. Types /\ Apart(t) /\ MaxStray \in Nat /\ Strays
    BY <1>1, StepsApart, SyncAssumption DEF IInv, StepOf, Bounds
  <1>2. ASSUME NEW u \in Clients PROVE Room(u)'
    <2>1. CASE u = t
      BY <1>1, <2>1, RoomStep DEF Bounds
    <2>2. CASE u # t
      BY <1>0, <2>2 DEF Bounds, Room, Exiting, Apart
    <2>. QED
      BY <2>1, <2>2
  <1>3. Strays'
    <2>0. \A n \in Nodes : stray[n] \in Nat
      BY <1>0 DEF Types
    <2>1. \A u, v \in Clients : Straying(u)' /\ Straying(v)' => u = v
      <3>1. \A u \in Clients : (at[u] = "idle" \/ why[u] # "exit") => ~Straying(u)
        BY DEF Straying
      <3>2. \/ Straying(t)' => Straying(t)
            \/ \A u \in Clients \ {t} : ~Straying(u)'
        BY <1>1, <3>1, StrayingBegins
      <3>. QED
        BY <1>0, <1>1, <3>2, StrayingBegins DEF Strays
    <2>2. CASE UNCHANGED stray
      <3>1. \A u \in Clients : Straying(u)' => \A n \in Nodes : stray[n] < MaxStray
        BY <1>0, <1>1, StrayingBegins DEF Strays
      <3>. QED
        BY <1>0, <2>1, <2>2, <3>1 DEF Strays
    <2>3. CASE /\ Straying(t) /\ ~Straying(t)'
               /\ \A n \in Nodes : stray'[n] \in {stray[n], stray[n] + 1}
      <3>1. \A u \in Clients : ~Straying(u)'
        BY <1>0, <1>1, <2>3, StrayingBegins DEF Strays
      <3>2. \A n \in Nodes : stray[n] < MaxStray
        BY <1>0, <2>3 DEF Strays
      <3>3. \A n \in Nodes : stray'[n] <= MaxStray
        BY <1>0, <2>0, <2>3, <3>2
      <3>. QED
        BY <2>1, <3>1, <3>3 DEF Strays
    <2>. QED
      BY <1>1, <2>2, <2>3, StraysMove
  <1>. QED
    BY <1>2, <1>3 DEF Bounds

\* What a client knows of its enters has a bound, since they are all in its cache.
LEMMA InsideBound ==
  ASSUME IInv, Bounds, NEW t \in Clients, NEW o \in Locks
  PROVE  inside[t][o] <= MaxOpen
PROOF
  <1>0. Types /\ List /\ SyncDataBalance /\ OwnedBy(t) /\ Room(t) /\ MaxOpen \in Nat
    BY MutexesParts, SyncAssumption DEF IInv, Bounds
  <1>1. CASE inside[t][o] > 0
    <2>1. PICK n \in Nodes : mutex[n].owner = t /\ o = Name(t, n)
      BY <1>0, <1>1 DEF OwnedBy
    <2>2. /\ mutex[n].depth \in Nat /\ cache[t][n] \in Nat
          /\ mutex[n].depth + Bit(Entering(t) /\ p[t] = n) <= cache[t][n] + Bit(Exiting(t) /\ p[t] = n)
          /\ inside[t][o] = mutex[n].depth
      BY <1>0, <2>1, OwnerCaches
    <2>3. cache[t][n] + Bit(Exiting(t) /\ p[t] = n) <= MaxOpen
      BY <1>0, <2>2 DEF Room, Bit
    <2>. QED
      BY <1>0, <2>2, <2>3 DEF Bit
  <1>2. CASE ~(inside[t][o] > 0)
    BY <1>0, <1>2 DEF Types
  <1>. QED
    BY <1>1, <1>2

(***************************************************************************)
(* The types with their bounds: a lockCount and the depth of a thread in   *)
(* an object stay within the enters that the thread has made, though nodes *)
(* are handed on and a failed objc_sync_try_enter leaves a node behind;    *)
(* and threadCount is never negative.                                      *)
(***************************************************************************)
THEOREM TypeCorrect == Spec => []TypeOK
PROOF
  <1>1. Init => Bounds
    <2>. SUFFICES ASSUME Init PROVE Bounds
      OBVIOUS
    <2>1. /\ \A t \in Clients : at[t] = "idle" /\ \A n \in Nodes : cache[t][n] = 0
          /\ \A n \in Nodes : stray[n] = 0
      BY DEF Init
    <2>2. MaxOpen \in Nat /\ MaxStray \in Nat
      BY SyncAssumption
    <2>. QED
      BY <2>1, <2>2 DEF Bounds, Room, Strays, Straying, Exiting
  <1>2. IInv /\ IInv' /\ Bounds /\ [Next]_vars => Bounds'
    <2>1. ASSUME IInv, IInv', Bounds, Next PROVE Bounds'
      BY <2>1, BoundsStep DEF IInv
    <2>2. ASSUME Bounds, UNCHANGED vars PROVE Bounds'
      BY <2>2 DEF Bounds, Room, Strays, Straying, Exiting, Cached, vars
    <2>. QED
      BY <2>1, <2>2
  <1>3. IInv /\ Bounds => TypeOK
    <2>. SUFFICES ASSUME IInv, Bounds PROVE TypeOK
      OBVIOUS
    <2>0. Types /\ List /\ SyncDataBalance /\ MaxOpen \in Nat /\ MaxStray \in Nat
      BY SyncAssumption DEF IInv
    <2>1. threadCount \in [Nodes -> Nat]
      BY <2>0, InUse DEF Types
    <2>2. cache \in [Clients -> [Nodes -> 0..MaxOpen]]
      <3>1. \A t \in Clients, n \in Nodes : cache[t][n] \in 0..MaxOpen
        BY <2>0 DEF Bounds, Room, Types
      <3>. QED
        BY <2>0, <3>1 DEF Types
    <2>3. inside \in [Clients -> [Locks -> 0..MaxOpen]]
      <3>1. \A t \in Clients, o \in Locks : inside[t][o] \in 0..MaxOpen
        BY <2>0, InsideBound DEF Types
      <3>. QED
        BY <2>0, <3>1 DEF Types
    <2>4. stray \in [Nodes -> 0..MaxStray]
      BY <2>0 DEF Bounds, Strays, Types
    <2>. QED
      BY <2>0, <2>1, <2>2, <2>3, <2>4 DEF Types, TypeOK, Labels
  <1>. QED
    BY <1>1, <1>2, <1>3, Invariant, PTL DEF Spec
=============================================================================
