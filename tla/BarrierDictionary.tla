--------------------------- MODULE BarrierDictionary ---------------------------
(***************************************************************************)
(* GCDBarrierPersion of GCDBarrierController.m: a mutable dictionary that  *)
(* is written by barrier blocks and read by synchronous blocks on one      *)
(* concurrent queue ("many readers, one writer").                          *)
(*                                                                         *)
(* NSMutableDictionary is not thread safe: setObject:forKey: takes two     *)
(* steps, and what a read finds between them is Torn.                      *)
(***************************************************************************)
EXTENDS DispatchQueue

CONSTANTS Threads,    \* the callers
          Keys, Objects,
          Nil,        \* no object
          Torn,       \* the contents of an entry that is being written
          MaxQueued   \* bound on the blocks waiting in the queue

DictionaryAssumption ==
  /\ IsFiniteSet(Threads) /\ MaxQueued \in Nat
  /\ Nil \notin Objects /\ Torn \notin Objects /\ Nil # Torn

VARIABLES userCenterDic,
          synchronizationQueue,
          temp,  \* temp[t]: the block variable of safeObjectForKey, and its result
          pc     \* pc[t]: "idle", "sync" (in dispatch_sync) or "return" (its block has run)

vars == <<userCenterDic, synchronizationQueue, temp, pc>>

Write(key, obj) == [op |-> "set", key |-> key, obj |-> obj]
Read(t, key) == [op |-> "get", key |-> key, thread |-> t]
Writes == {Write(key, obj) : key \in Keys, obj \in Objects}
Reads == {Read(t, key) : t \in Threads, key \in Keys}
-----------------------------------------------------------------------------
Init == /\ userCenterDic = [key \in Keys |-> Nil]
        /\ synchronizationQueue = EmptyQueue
        /\ temp = [t \in Threads |-> Nil]
        /\ pc = [t \in Threads |-> "idle"]

\* Mutation of setSafeObject: dispatch_async for dispatch_barrier_async.
setSafeObject_NoBarrier(t, key, obj) ==
  /\ pc[t] = "idle" /\ Len(synchronizationQueue.items) < MaxQueued
  /\ synchronizationQueue' = Async(synchronizationQueue, Write(key, obj))
  /\ UNCHANGED <<userCenterDic, temp, pc>>

\* setSafeObject:forKey:sleepIn:callBack: returns when its block is queued.
setSafeObject(t, key, obj) ==
  /\ pc[t] = "idle" /\ Len(synchronizationQueue.items) < MaxQueued
  /\ synchronizationQueue' = BarrierAsync(synchronizationQueue, Write(key, obj))
  /\ UNCHANGED <<userCenterDic, temp, pc>>

\* safeObjectForKey: enters dispatch_sync, with temp nil.
safeObjectForKey(t, key) ==
  /\ pc[t] = "idle"
  /\ synchronizationQueue' = Async(synchronizationQueue, Read(t, key))
  /\ temp' = [temp EXCEPT ![t] = Nil]
  /\ pc' = [pc EXCEPT ![t] = "sync"]
  /\ UNCHANGED userCenterDic

\* Mutation of StartBlock: waiting writes overtake waiting reads.
StartBlock_WritersFirst ==
  LET q == synchronizationQueue
      writes == {i \in 1..Len(q.items) : q.items[i].work.op = "set"}
      first == IF writes = {} THEN 1 ELSE CHOOSE i \in writes : \A j \in writes : i <= j
      ordered == [q EXCEPT !.items = <<q.items[first]>> \o SubSeq(@, 1, first - 1)
                                       \o SubSeq(@, first + 1, Len(@))]
  IN /\ q.items # <<>>
     /\ CanStart(ordered, Cardinality(Threads) + MaxQueued + 1)
     /\ synchronizationQueue' = Start(ordered)
     /\ UNCHANGED <<userCenterDic, temp, pc>>

\* Every reader may run at once; the queue sets no limit to synchronous readers.
StartBlock ==
  /\ CanStart(synchronizationQueue, Cardinality(Threads) + MaxQueued + 1)
  /\ synchronizationQueue' = Start(synchronizationQueue)
  /\ UNCHANGED <<userCenterDic, temp, pc>>

\* After its sleep the barrier block is inside setObject:forKey: ...
SetBegins(key, obj) ==
  /\ Running(synchronizationQueue, Write(key, obj))
  /\ userCenterDic[key] # Torn
  /\ userCenterDic' = [userCenterDic EXCEPT ![key] = Torn]
  /\ UNCHANGED <<synchronizationQueue, temp, pc>>

\* ... and leaves it; it calls callBack and ends.
SetEnds(key, obj) ==
  /\ Running(synchronizationQueue, Write(key, obj))
  /\ userCenterDic[key] = Torn
  /\ userCenterDic' = [userCenterDic EXCEPT ![key] = obj]
  /\ synchronizationQueue' = Done(synchronizationQueue, Write(key, obj))
  /\ UNCHANGED <<temp, pc>>

\* The block of the reader.
ReadBlock(t, key) ==
  /\ Running(synchronizationQueue, Read(t, key)) /\ pc[t] = "sync"
  /\ temp' = [temp EXCEPT ![t] = userCenterDic[key]]
  /\ pc' = [pc EXCEPT ![t] = "return"]
  /\ UNCHANGED <<userCenterDic, synchronizationQueue>>

\* dispatch_sync gives back its share of the queue, and safeObjectForKey: returns temp.
ReadReturns(t, key) ==
  /\ Running(synchronizationQueue, Read(t, key)) /\ pc[t] = "return"
  /\ synchronizationQueue' = Done(synchronizationQueue, Read(t, key))
  /\ pc' = [pc EXCEPT ![t] = "idle"]
  /\ UNCHANGED <<userCenterDic, temp>>

\* The steps the queue and the blocks on it take by themselves.
WriteStep == \E key \in Keys, obj \in Objects : SetBegins(key, obj) \/ SetEnds(key, obj)
ReadStep(t) == \E key \in Keys : ReadBlock(t, key) \/ ReadReturns(t, key)

Next == \/ \E t \in Threads, key \in Keys : \/ \E obj \in Objects : setSafeObject(t, key, obj)
                                            \/ safeObjectForKey(t, key)
        \/ StartBlock
        \/ WriteStep
        \/ \E t \in Threads : ReadStep(t)

\* The queue goes on draining, and the blocks on it end.
Fairness == /\ WF_vars(StartBlock) /\ WF_vars(WriteStep)
            /\ \A t \in Threads : WF_vars(ReadStep(t))

Spec == Init /\ [][Next]_vars
FairSpec == Spec /\ Fairness
-----------------------------------------------------------------------------
TypeOK ==
  /\ userCenterDic \in [Keys -> Objects \union {Nil, Torn}]
  /\ synchronizationQueue.items \in Seq({Item(w, TRUE) : w \in Writes}
                                          \union {Item(r, FALSE) : r \in Reads})
  /\ synchronizationQueue.running \subseteq {Item(w, TRUE) : w \in Writes}
                                              \union {Item(r, FALSE) : r \in Reads}
  /\ temp \in [Threads -> Objects \union {Nil}]
  /\ pc \in [Threads -> {"idle", "sync", "return"}]

\* The blocks that are running or wait, in the order in which they take effect.
RunningWrites == {i \in synchronizationQueue.running : i.work.op = "set"}
Before(key, n) == {i \in 1..n : /\ synchronizationQueue.items[i].work.op = "set"
                                /\ synchronizationQueue.items[i].work.key = key}

\* What the dictionary will hold for key once the first n waiting blocks have run.
Eventually(key, n) ==
  IF Before(key, n) # {}
    THEN LET last == CHOOSE i \in Before(key, n) : \A j \in Before(key, n) : j <= i
         IN synchronizationQueue.items[last].work.obj
    ELSE IF \E i \in RunningWrites : i.work.key = key
      THEN (CHOOSE i \in RunningWrites : i.work.key = key).work.obj
      ELSE userCenterDic[key]

\* What a read in progress will answer: everything queued before it, nothing after.
Promised(t) ==
  LET queued == {i \in 1..Len(synchronizationQueue.items) :
                   \E key \in Keys : synchronizationQueue.items[i].work = Read(t, key)}
  IN IF pc[t] # "sync" THEN temp[t]
     ELSE IF queued # {}
       THEN LET i == CHOOSE i \in queued : TRUE
            IN Eventually(synchronizationQueue.items[i].work.key, i)
       ELSE LET key == CHOOSE key \in Keys : Running(synchronizationQueue, Read(t, key))
            IN userCenterDic[key]

(***************************************************************************)
(* The dictionary is atomic although its writes are asynchronous: a write  *)
(* counts from the moment setSafeObject is called, a read answers what     *)
(* was written up to the moment safeObjectForKey is called, so a thread    *)
(* always reads its own writes, and no read sees half of one.              *)
(***************************************************************************)
Abstract == INSTANCE AtomicDictionary WITH
  contents <- [key \in Keys |-> Eventually(key, Len(synchronizationQueue.items))],
  answer <- [t \in Threads |-> Promised(t)]

AtomicSpec == Abstract!Spec

\* A write block runs alone: no other write and no read is inside the dictionary.
OneWriter == RunningWrites # {} => Cardinality(synchronizationQueue.running) = 1

(***************************************************************************)
(* A reader that waits behind writes is not starved by the writes that     *)
(* other threads keep queueing: safeObjectForKey returns.                  *)
(***************************************************************************)
ReadsReturn == \A t \in Threads : (pc[t] = "sync") ~> (pc[t] = "idle")
=============================================================================
