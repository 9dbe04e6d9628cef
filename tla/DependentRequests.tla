--------------------------- MODULE DependentRequests ---------------------------
(***************************************************************************)
(* Requests that are asynchronous made to run one after the other: a chain *)
(* sends a request, waits for its callback, and only then sends the next.  *)
(*   - testGCDSemaphoreDependency and testGCDGroupDependency of            *)
(*     NSOperationController.m (testAsyncToSync of GCDController.m is the  *)
(*     former) run the chain in a block on the global queue;               *)
(*   - testGroup1 of GCDController.m runs it on the main thread.           *)
(* A request (loadDataPar:) sleeps in a block on the same global queue,    *)
(* then calls back on the main queue.  Every touch starts another chain,   *)
(* and all of them share self.identifier.                                  *)
(***************************************************************************)
EXTENDS DispatchQueue

CONSTANTS Chains,       \* the touches, each of which starts a chain once
          GroupChains,  \* the chains that wait on a group, the others on a semaphore
          MainChains,   \* the chains that run on the main thread
          Stages,       \* requests of a chain (4, or 3 in GCDController)
          Workers       \* threads the kernel gives the global queue at most (64)

ChainsAssumption == /\ IsFiniteSet(Chains)
                    /\ MainChains \subseteq GroupChains /\ GroupChains \subseteq Chains
                    /\ Stages \in Nat \ {0} /\ Workers \in Nat \ {0}

VARIABLES identifier,  \* the property self.identifier
          main, global, \* the two queues; what runs on main holds the main thread
          pc,          \* pc[c]: "idle", "ready" (to send), "wait" or "done"
          stage,       \* stage[c]: waits that have returned
          num,         \* num[c]: the argument of the request in progress
          entered,     \* entered[c]: the count of the chain's group
          permits,     \* permits[c]: the value of the chain's semaphore
          callbacks,   \* history: callbacks[c] that have run
          notified     \* history: chains whose last block has run

vars == <<identifier, main, global, pc, stage, num, entered, permits, callbacks, notified>>

Work(op, c) == [op |-> op, chain |-> c]
-----------------------------------------------------------------------------
Init == /\ identifier = 1
        /\ main = EmptyQueue /\ global = EmptyQueue
        /\ pc = [c \in Chains |-> "idle"]
        /\ stage = [c \in Chains |-> 0]
        /\ num = [c \in Chains |-> 0]
        /\ entered = [c \in Chains |-> 0]
        /\ permits = [c \in Chains |-> 0]
        /\ callbacks = [c \in Chains |-> 0]
        /\ notified = {}

\* touchesBegan: on the main thread, between two blocks of the main queue, calls one
\* of the test methods (the commit at hand calls testGCDGroupDependency).
Touch(c) ==
  /\ pc[c] = "idle" /\ main.running = {}
  /\ pc' = [pc EXCEPT ![c] = "ready"]
  /\ IF c \in MainChains
       THEN main' = [main EXCEPT !.running = {Item(Work("chain", c), FALSE)}] /\ UNCHANGED global
       ELSE global' = Async(global, Work("chain", c)) /\ UNCHANGED main
  /\ UNCHANGED <<identifier, stage, num, entered, permits, callbacks, notified>>

\* The block of chain c has a thread.
OnThread(c) == Running(main, Work("chain", c)) \/ Running(global, Work("chain", c))

\* The next request: dispatch_group_enter, then loadDataPar: with the result so far
\* (testGroup1 passes 1, 2 and 3).
Request(c) ==
  /\ OnThread(c) /\ pc[c] = "ready" /\ stage[c] < Stages
  /\ num' = [num EXCEPT ![c] = IF c \in MainChains THEN stage[c] + 1 ELSE identifier]
  /\ entered' = IF c \in GroupChains THEN [entered EXCEPT ![c] = @ + 1] ELSE entered
  /\ global' = Async(global, Work("load", c))
  /\ pc' = [pc EXCEPT ![c] = "wait"]
  /\ UNCHANGED <<identifier, main, stage, permits, callbacks, notified>>

\* The block of loadDataPar: has slept, and sends its callback to the main queue.
Load(c) ==
  /\ Running(global, Work("load", c))
  /\ global' = Done(global, Work("load", c))
  /\ main' = Async(main, Work("callback", c))
  /\ UNCHANGED <<identifier, pc, stage, num, entered, permits, callbacks, notified>>

\* Mutation of Callback: it forgets to signal the semaphore.
Callback_NoSignal(c) ==
  /\ Running(main, Work("callback", c))
  /\ main' = Done(main, Work("callback", c))
  /\ identifier' = IF c \in MainChains THEN identifier ELSE num[c] + 1
  /\ callbacks' = [callbacks EXCEPT ![c] = @ + 1]
  /\ entered' = IF c \in GroupChains THEN [entered EXCEPT ![c] = @ - 1] ELSE entered
  /\ UNCHANGED <<global, pc, stage, num, permits, notified>>

\* The callback: the result becomes the identifier, and the chain is woken.
Callback(c) ==
  /\ Running(main, Work("callback", c))
  /\ main' = Done(main, Work("callback", c))
  /\ identifier' = IF c \in MainChains THEN identifier ELSE num[c] + 1
  /\ callbacks' = [callbacks EXCEPT ![c] = @ + 1]
  /\ IF c \in GroupChains
       THEN entered' = [entered EXCEPT ![c] = @ - 1] /\ UNCHANGED permits
       ELSE permits' = [permits EXCEPT ![c] = @ + 1] /\ UNCHANGED entered
  /\ UNCHANGED <<global, pc, stage, num, notified>>

\* Mutation of Wait: DISPATCH_TIME_NOW for DISPATCH_TIME_FOREVER.
Wait_Now(c) ==
  /\ pc[c] = "wait"
  /\ pc' = [pc EXCEPT ![c] = "ready"]
  /\ stage' = [stage EXCEPT ![c] = @ + 1]
  /\ UNCHANGED <<identifier, main, global, num, entered, permits, callbacks, notified>>

\* dispatch_group_wait, or dispatch_semaphore_wait, without a time limit.
Wait(c) ==
  /\ pc[c] = "wait"
  /\ IF c \in GroupChains
       THEN entered[c] = 0 /\ UNCHANGED permits
       ELSE permits[c] > 0 /\ permits' = [permits EXCEPT ![c] = @ - 1]
  /\ pc' = [pc EXCEPT ![c] = "ready"]
  /\ stage' = [stage EXCEPT ![c] = @ + 1]
  /\ UNCHANGED <<identifier, main, global, num, entered, callbacks, notified>>

\* Mutation of Finish: the last wait left out.
Finish_Early(c) ==
  /\ OnThread(c)
  /\ \/ pc[c] = "ready" /\ stage[c] = Stages
     \/ pc[c] = "wait" /\ stage[c] = Stages - 1
  /\ pc' = [pc EXCEPT ![c] = "done"]
  /\ main' = Async(Done(main, Work("chain", c)), Work("notify", c))
  /\ global' = Done(global, Work("chain", c))
  /\ UNCHANGED <<identifier, stage, num, entered, permits, callbacks, notified>>

\* dispatch_group_notify on the now empty group, or dispatch_async: both to the main queue.
Finish(c) ==
  /\ OnThread(c) /\ pc[c] = "ready" /\ stage[c] = Stages
  /\ pc' = [pc EXCEPT ![c] = "done"]
  /\ main' = Async(Done(main, Work("chain", c)), Work("notify", c))
  /\ global' = Done(global, Work("chain", c))
  /\ UNCHANGED <<identifier, stage, num, entered, permits, callbacks, notified>>

\* "notify: all tasks are complete".
Notify(c) ==
  /\ Running(main, Work("notify", c))
  /\ main' = Done(main, Work("notify", c))
  /\ notified' = notified \union {c}
  /\ UNCHANGED <<identifier, global, pc, stage, num, entered, permits, callbacks>>

StartMain == /\ CanStart(main, 1) /\ main' = Start(main)
             /\ UNCHANGED <<identifier, global, pc, stage, num, entered, permits, callbacks, notified>>

StartGlobal == /\ CanStart(global, Workers) /\ global' = Start(global)
               /\ UNCHANGED <<identifier, main, pc, stage, num, entered, permits, callbacks, notified>>

ChainStep(c) == Request(c) \/ Wait(c) \/ Finish(c)
BlockStep(c) == Load(c) \/ Callback(c) \/ Notify(c)

Next == \/ \E c \in Chains : Touch(c) \/ ChainStep(c) \/ BlockStep(c)
        \/ StartMain \/ StartGlobal

\* The queues go on draining, and a thread that is not waiting keeps running.
Fairness == /\ WF_vars(StartMain) /\ WF_vars(StartGlobal)
            /\ \A c \in Chains : WF_vars(ChainStep(c)) /\ WF_vars(BlockStep(c))

Spec == Init /\ [][Next]_vars
FairSpec == Spec /\ Fairness
-----------------------------------------------------------------------------
Items(ops) == {Item(Work(op, c), FALSE) : op \in ops, c \in Chains}

TypeOK ==
  /\ identifier \in 1..(1 + Cardinality(Chains) * Stages)
  /\ main.items \in Seq(Items({"callback", "notify"}))
  /\ global.items \in Seq(Items({"chain", "load"}))
  /\ main.running \subseteq Items({"chain", "callback", "notify"})
  /\ global.running \subseteq Items({"chain", "load"})
  /\ pc \in [Chains -> {"idle", "ready", "wait", "done"}]
  /\ stage \in [Chains -> 0..Stages] /\ callbacks \in [Chains -> 0..Stages]
  /\ entered \in [Chains -> 0..1] /\ permits \in [Chains -> 0..1]
  /\ num \in [Chains -> 0..(Cardinality(Chains) * Stages)]
  /\ notified \subseteq Chains

(***************************************************************************)
(* A chain sends a request only after the callback of the one before has   *)
(* run, a chain that has self.identifier to itself finds there what that   *)
(* callback wrote, and the block that reports the end runs last.           *)
(***************************************************************************)
RequestsInOrder ==
  /\ \A c \in Chains :
       /\ pc[c] = "ready" => callbacks[c] = stage[c]
       /\ (pc[c] # "idle" /\ c \notin MainChains
             /\ \A d \in Chains \ (MainChains \union {c}) : pc[d] = "idle")
            => identifier = 1 + callbacks[c]
  /\ \A c \in notified : callbacks[c] = Stages

Waiting(c) == pc[c] = "wait" /\ callbacks[c] = stage[c]
InQueue(q, work) == \E i \in 1..Len(q.items) : q.items[i].work = work

\* The main thread waits for a callback that only the main thread can run.
MainBlocked == \E c \in MainChains : Waiting(c)

\* Every worker waits for a request that only a worker can run.
WorkersBlocked ==
  /\ Cardinality(global.running) = Workers
  /\ \A item \in global.running : /\ item.work.op = "chain"
                                  /\ Waiting(item.work.chain)
                                  /\ InQueue(global, Work("load", item.work.chain))

(***************************************************************************)
(* Every chain reports its end, or hangs for good in one of two ways: a    *)
(* chain was started on the main thread ("testGroup1 blocks the thread     *)
(* when it is used here", says the comment in loadDataPar:), or the chains *)
(* took all the threads the kernel grants the global queue.                *)
(***************************************************************************)
ChainsComplete ==
  \A c \in Chains :
    (pc[c] # "idle") ~> (c \in notified \/ []MainBlocked \/ []WorkersBlocked)
=============================================================================
