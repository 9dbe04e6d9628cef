-------------------------------- MODULE ObjcSync --------------------------------
(***************************************************************************)
(* @synchronized of the Objective-C runtime (objc-sync.mm), which the lock *)
(* demo uses: objc_sync_enter, objc_sync_try_enter and objc_sync_exit find *)
(* the recursive mutex of an object in the thread's own cache or in a list *)
(* under a spinlock, where a node that no thread uses is given to another  *)
(* object.  A thread gives its share of the node up before it unlocks the  *)
(* mutex.  One list, that of objects which hash to the same stripe.        *)
(***************************************************************************)
EXTENDS Integers, FiniteSets

CONSTANTS Clients,  \* the threads
          Locks,    \* the objects
          MaxOpen,  \* bound: enters of a thread that it has not exited
          MaxStray, \* bound: exits of an object whose node is not in the cache of the caller, for
            \* each node; they begin when no other exit is in progress
          Nobody

ASSUME SyncAssumption ==
  /\ IsFiniteSet(Clients) /\ IsFiniteSet(Locks) /\ Nobody \notin Clients \union Locks
  /\ MaxOpen \in Nat \ {0} /\ MaxStray \in Nat

Nodes == 1..Cardinality(Locks)   \* there are never two nodes with the same object
NoNode == 0

VARIABLES
  listp,       \* the head of the list: the nodes are 1..listp, each before the smaller ones
  object,      \* object[n]
  threadCount, \* threadCount[n]
  mutex,       \* mutex[n]: the owner and the depth
  lockp,       \* the owner of the spinlock
  cache,       \* cache[t][n]: the lockCount, 0 for a node that is not in the cache of t
  at,          \* at[t]: the line of t
  obj, why,    \* obj[t] and why[t]: the object and the kind of the call
  p,           \* p[t]: the node where the walk is, and then the result of id2data
  firstUnused, \* firstUnused[t]
  inside,      \* history: inside[t][o]: enters minus exits, as their results told the client
  stray        \* history: stray[n]: exits that found node n only in the list

list == <<listp, object, threadCount>>
locals == <<obj, why, p, firstUnused>>
vars == <<listp, object, threadCount, mutex, lockp, cache, at, obj, why, p, firstUnused, inside, stray>>

Goto(t, line) == at' = [at EXCEPT ![t] = line]

\* The call returns, and its locals are gone.
Return(t) == /\ Goto(t, "idle")
             /\ obj' = [obj EXCEPT ![t] = Nobody] /\ why' = [why EXCEPT ![t] = "exit"]
             /\ p' = [p EXCEPT ![t] = NoNode] /\ firstUnused' = [firstUnused EXCEPT ![t] = NoNode]

Cached(t, n, o) == cache[t][n] > 0 /\ object[n] = o
-----------------------------------------------------------------------------
Init == /\ listp = NoNode
        /\ object = [n \in Nodes |-> Nobody] /\ threadCount = [n \in Nodes |-> 0]
        /\ mutex = [n \in Nodes |-> [owner |-> Nobody, depth |-> 0]]
        /\ lockp = Nobody
        /\ cache = [t \in Clients |-> [n \in Nodes |-> 0]]
        /\ at = [t \in Clients |-> "idle"]
        /\ obj = [t \in Clients |-> Nobody] /\ why = [t \in Clients |-> "exit"]
        /\ p = [t \in Clients |-> NoNode] /\ firstUnused = [t \in Clients |-> NoNode]
        /\ inside = [t \in Clients |-> [o \in Locks |-> 0]]
        /\ stray = [n \in Nodes |-> 0]

Open(t) == Cardinality({e \in Nodes \X (1..MaxOpen) : e[2] <= cache[t][e[1]]})

\* objc_sync_enter, objc_sync_try_enter or objc_sync_exit; an exit may be one too many.
Call(t, o, call) ==
  /\ at[t] = "idle"
  /\ IF call = "exit"
       THEN \/ \E n \in Nodes : Cached(t, n, o)
            \/ /\ \A n \in Nodes : stray[n] < MaxStray
               /\ \A u \in Clients : at[u] = "idle" \/ why[u] # "exit"
       ELSE Open(t) < MaxOpen
  /\ obj' = [obj EXCEPT ![t] = o] /\ why' = [why EXCEPT ![t] = call]
  /\ Goto(t, "cache")
  /\ UNCHANGED <<list, mutex, lockp, cache, p, firstUnused, inside, stray>>

\* Mutation: every exit gives the share of the thread up, not only the last.
Hit_Decrement(t) ==
  /\ at[t] = "cache"
  /\ \E n \in Nodes :
       /\ Cached(t, n, obj[t])
       /\ p' = [p EXCEPT ![t] = n]
       /\ cache' = [cache EXCEPT ![t][n] = IF why[t] = "exit" THEN @ - 1 ELSE @ + 1]
       /\ Goto(t, IF why[t] # "exit" THEN why[t] ELSE "decrement")
  /\ UNCHANGED <<list, mutex, lockp, obj, why, firstUnused, inside, stray>>

\* id2data, the two caches of the thread: the last exit takes the node out, and will give up
\* the share of the thread.
Hit(t) ==
  /\ at[t] = "cache"
  /\ \E n \in Nodes :
       /\ Cached(t, n, obj[t])
       /\ p' = [p EXCEPT ![t] = n]
       /\ cache' = [cache EXCEPT ![t][n] = IF why[t] = "exit" THEN @ - 1 ELSE @ + 1]
       /\ Goto(t, IF why[t] # "exit" THEN why[t] ELSE IF cache[t][n] = 1 THEN "decrement" ELSE "unlock")
  /\ UNCHANGED <<list, mutex, lockp, obj, why, firstUnused, inside, stray>>

\* OSAtomicDecrement32Barrier(&result->threadCount), without the spinlock
Decrement(t) ==
  /\ at[t] = "decrement"
  /\ threadCount' = [threadCount EXCEPT ![p[t]] = @ - 1]
  /\ Goto(t, "unlock")
  /\ UNCHANGED <<listp, object, mutex, lockp, cache, locals, inside, stray>>

\* Nothing in the caches: the walk of the list begins, under the spinlock.
Miss(t) ==
  /\ at[t] = "cache" /\ ~\E n \in Nodes : Cached(t, n, obj[t])
  /\ lockp = Nobody /\ lockp' = t
  /\ p' = [p EXCEPT ![t] = listp] /\ firstUnused' = [firstUnused EXCEPT ![t] = NoNode]
  /\ Goto(t, "walk")
  /\ UNCHANGED <<list, mutex, cache, obj, why, inside, stray>>

\* Mutation: a thread that finds a node in the list is not counted.
Walk_Uncounted(t) ==
  /\ at[t] = "walk" /\ p[t] # NoNode
  /\ IF object[p[t]] = obj[t]
       THEN Goto(t, "done") /\ UNCHANGED <<threadCount, p, firstUnused>>
       ELSE /\ p' = [p EXCEPT ![t] = @ - 1]
            /\ firstUnused' = [firstUnused EXCEPT ![t] =
                                 IF @ = NoNode /\ threadCount[p[t]] = 0 THEN p[t] ELSE @]
            /\ UNCHANGED <<threadCount, at>>
  /\ UNCHANGED <<listp, object, mutex, lockp, cache, obj, why, inside, stray>>

\* One node of the walk
Walk(t) ==
  /\ at[t] = "walk" /\ p[t] # NoNode
  /\ IF object[p[t]] = obj[t]
       THEN /\ threadCount' = [threadCount EXCEPT ![p[t]] = @ + 1]
            /\ Goto(t, "done") /\ UNCHANGED <<p, firstUnused>>
       ELSE /\ p' = [p EXCEPT ![t] = @ - 1]
            /\ firstUnused' = [firstUnused EXCEPT ![t] =
                                 IF @ = NoNode /\ threadCount[p[t]] = 0 THEN p[t] ELSE @]
            /\ UNCHANGED <<threadCount, at>>
  /\ UNCHANGED <<listp, object, mutex, lockp, cache, obj, why, inside, stray>>

\* Mutation: the first node that was passed on the way, used or not.
Choose_Used(t) == IF listp # NoNode THEN listp ELSE listp + 1

\* The node for an object that has none: an unused one, or else a new one
Choose(t) == IF firstUnused[t] # NoNode THEN firstUnused[t] ELSE listp + 1

\* The walk has found no node: an exit returns, an enter takes one.
WalkEnds(t) ==
  /\ at[t] = "walk" /\ p[t] = NoNode
  /\ IF why[t] = "exit"
       THEN lockp' = Nobody /\ Return(t) /\ UNCHANGED list
       ELSE /\ p' = [p EXCEPT ![t] = Choose(t)]
            /\ object' = [object EXCEPT ![Choose(t)] = obj[t]]
            /\ threadCount' = [threadCount EXCEPT ![Choose(t)] = 1]
            /\ listp' = IF Choose(t) > listp THEN Choose(t) ELSE listp
            /\ Goto(t, "done") /\ UNCHANGED <<lockp, obj, why, firstUnused>>
  /\ UNCHANGED <<mutex, cache, inside, stray>>

\* The node is found: an enter saves it in the cache.  An exit has nothing to unlock and
\* returns, but the share of the node it took in the walk stays taken.
DoneWalk(t) ==
  /\ at[t] = "done"
  /\ lockp' = Nobody
  /\ IF why[t] = "exit"
       THEN /\ stray' = [stray EXCEPT ![p[t]] = @ + 1]
            /\ Return(t) /\ UNCHANGED cache
       ELSE /\ cache' = [cache EXCEPT ![t][p[t]] = 1]
            /\ Goto(t, why[t])
            /\ firstUnused' = [firstUnused EXCEPT ![t] = NoNode]
            /\ UNCHANGED <<obj, why, p, stray>>
  /\ UNCHANGED <<list, mutex, inside>>

Free(t) == mutex[p[t]].owner \in {t, Nobody}

MutexLocked(t) ==
  /\ mutex' = [mutex EXCEPT ![p[t]] = [owner |-> t, depth |-> @.depth + 1]]
  /\ inside' = [inside EXCEPT ![t][obj[t]] = @ + 1]

\* data->mutex.lock(), and objc_sync_enter returns
MutexLock(t) ==
  /\ at[t] = "enter" /\ Free(t)
  /\ MutexLocked(t)
  /\ Return(t)
  /\ UNCHANGED <<list, lockp, cache, stray>>

\* data->mutex.tryLock(): a thread that fails keeps the node in its cache.
MutexTryLock(t) ==
  /\ at[t] = "try"
  /\ IF Free(t) THEN MutexLocked(t) ELSE UNCHANGED <<mutex, inside>>
  /\ Return(t)
  /\ UNCHANGED <<list, lockp, cache, stray>>

\* data->mutex.tryUnlock(): objc_sync_exit reports whether the thread was the owner.
MutexTryUnlock(t) ==
  /\ at[t] = "unlock"
  /\ LET m == mutex[p[t]] IN
     IF m.owner = t
       THEN /\ mutex' = [mutex EXCEPT ![p[t]] = [owner |-> IF m.depth = 1 THEN Nobody ELSE t,
                                                 depth |-> m.depth - 1]]
            /\ inside' = [inside EXCEPT ![t][obj[t]] = @ - 1]
       ELSE UNCHANGED <<mutex, inside>>
  /\ Return(t)
  /\ UNCHANGED <<list, lockp, cache, stray>>

Step(t) == \/ Hit(t) \/ Decrement(t) \/ Miss(t) \/ Walk(t) \/ WalkEnds(t) \/ DoneWalk(t)
           \/ MutexLock(t) \/ MutexTryLock(t) \/ MutexTryUnlock(t)

Next == \E t \in Clients : Step(t) \/ \E o \in Locks, call \in {"enter", "try", "exit"} : Call(t, o, call)

Spec == Init /\ [][Next]_vars
-----------------------------------------------------------------------------
TypeOK ==
  /\ listp \in 0..Cardinality(Locks)
  /\ object \in [Nodes -> Locks \union {Nobody}] /\ threadCount \in [Nodes -> Nat]
  /\ mutex \in [Nodes -> [owner : Clients \union {Nobody}, depth : Nat]]
  /\ lockp \in Clients \union {Nobody}
  /\ cache \in [Clients -> [Nodes -> 0..MaxOpen]]
  /\ at \in [Clients -> {"idle", "cache", "decrement", "walk", "done", "enter", "try", "unlock"}]
  /\ obj \in [Clients -> Locks \union {Nobody}] /\ why \in [Clients -> {"enter", "try", "exit"}]
  /\ p \in [Clients -> Nodes \union {NoNode}] /\ firstUnused \in [Clients -> Nodes \union {NoNode}]
  /\ inside \in [Clients -> [Locks -> 0..MaxOpen]] /\ stray \in [Nodes -> 0..MaxStray]

\* t has begun to leave the object for good: it gives up its node before the mutex.
Leaving(t, o) == obj[t] = o /\ (at[t] = "decrement" \/ (at[t] = "unlock" /\ cache[t][p[t]] = 0))
Inside(t, o) == inside[t][o] > 0 /\ ~Leaving(t, o)

(***************************************************************************)
(* Two threads are never inside one object: a thread that is stays on the  *)
(* node on which the others look for it, since nodes are given only to     *)
(* objects that have none.  And objc_sync_exit reports success exactly to  *)
(* a thread that is inside.                                                *)
(***************************************************************************)
MutualExclusion ==
  /\ \A o \in Locks : Cardinality({t \in Clients : Inside(t, o)}) <= 1
  /\ \A t \in Clients, o \in Locks :
       Inside(t, o) => \E n \in Nodes : Cached(t, n, o) /\ mutex[n].owner = t
  /\ \A m, n \in 1..listp : m # n => object[m] # object[n]
  /\ \A t \in Clients :
       /\ at[t] = "unlock" => (mutex[p[t]].owner = t <=> inside[t][obj[t]] > 0)
       /\ at[t] \in {"walk", "done"} /\ why[t] = "exit" => inside[t][obj[t]] = 0

\* The threads that use a node: it is in their cache, on the way into it or just out of it.
Users(n) == {t \in Clients : \/ cache[t][n] > 0
                             \/ p[t] = n /\ (at[t] = "decrement" \/ (at[t] = "done" /\ why[t] # "exit"))}

(***************************************************************************)
(* threadCount, "number of THREADS using this block", is that number, and  *)
(* one more for each exit that found the node in the list: it falls to 0,  *)
(* and the node changes its object, only when no thread has it in a cache  *)
(* ("id2data cache is buggy").                                             *)
(***************************************************************************)
SyncDataBalance ==
  \A n \in Nodes :
    threadCount[n] = Cardinality(Users(n)) + stray[n]
                       + Cardinality({t \in Clients : p[t] = n /\ at[t] = "done" /\ why[t] = "exit"})
=============================================================================
