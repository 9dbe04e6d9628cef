--------------------------- MODULE BoundedConcurrency ---------------------------
(***************************************************************************)
(* A semaphore that bounds the tasks at work on a concurrent queue         *)
(* (GCDController.m).  In runMaxThreadCountWithGCD the blocks of a serial  *)
(* queue wait for a permit, each holding a thread meanwhile, and hand a    *)
(* task over; in runMaxCountInGroupWithGCD the caller waits itself, and a  *)
(* group tells when the last task is done, as in runGroupWithGCD, which    *)
(* has no semaphore.  A task signals the semaphore as the last line of its *)
(* block, which is not yet its end.                                        *)
(***************************************************************************)
EXTENDS Naturals, Sequences, FiniteSets

CONSTANTS Tasks,    \* iterations of the loop (100 and 10)
          Limit,    \* the value of the semaphore (2)
          Workers   \* threads of the root queue (64)

\* A thread for the serial queue, and one for its tasks.
BoundedAssumption == Tasks \in Nat /\ Limit \in Nat \ {0} /\ Workers \in Nat \ {0, 1}

VARIABLES method,    \* the method that was called: "none", "serial", "group" or "unlimited"
          i,         \* iterations of its loop that have ended
          serial,    \* the blocks on the serial queue
          waiting,   \* the block of the serial queue that has a thread, {} or one
          semaphore,
          queue,     \* the concurrent queue
          working,   \* the tasks that have a thread, before their signal
          ending,    \* ... and after it
          ended,     \* history
          notified

vars == <<method, i, serial, waiting, semaphore, queue, working, ending, ended, notified>>

ThreadsTaken == Cardinality(waiting) + Cardinality(working) + Cardinality(ending)
-----------------------------------------------------------------------------
Init == /\ method = "none" /\ i = 0
        /\ serial = <<>> /\ waiting = {}
        /\ semaphore = Limit
        /\ queue = <<>> /\ working = {} /\ ending = {} /\ ended = {}
        /\ notified = FALSE

Touch ==
  /\ method = "none"
  /\ method' \in {"serial", "group", "unlimited"}
  /\ UNCHANGED <<i, serial, waiting, semaphore, queue, working, ending, ended, notified>>

\* The loop of runMaxThreadCountWithGCD
Enqueue ==
  /\ method = "serial" /\ i < Tasks
  /\ i' = i + 1
  /\ serial' = Append(serial, i + 1)
  /\ UNCHANGED <<method, waiting, semaphore, queue, working, ending, ended, notified>>

\* The serial queue starts its next block, which waits for a permit with its thread.
StartSerial ==
  /\ serial # <<>> /\ waiting = {} /\ ThreadsTaken < Workers
  /\ waiting' = {Head(serial)} /\ serial' = Tail(serial)
  /\ UNCHANGED <<method, i, semaphore, queue, working, ending, ended, notified>>

\* Mutation: the wait is in the task, not before it is handed over.
HandOver_Unlimited ==
  /\ waiting # {}
  /\ \E t \in waiting : queue' = Append(queue, t)
  /\ waiting' = {}
  /\ UNCHANGED <<method, i, serial, semaphore, working, ending, ended, notified>>

HandOver ==
  /\ semaphore > 0 /\ waiting # {}
  /\ semaphore' = semaphore - 1
  /\ \E t \in waiting : queue' = Append(queue, t)
  /\ waiting' = {}
  /\ UNCHANGED <<method, i, serial, working, ending, ended, notified>>

\* The loops of runMaxCountInGroupWithGCD and runGroupWithGCD
GroupAsync ==
  /\ method \in {"group", "unlimited"} /\ i < Tasks
  /\ IF method = "group" THEN semaphore > 0 /\ semaphore' = semaphore - 1
                         ELSE UNCHANGED semaphore
  /\ i' = i + 1
  /\ queue' = Append(queue, i + 1)
  /\ UNCHANGED <<method, serial, waiting, working, ending, ended, notified>>

StartTask ==
  /\ queue # <<>> /\ ThreadsTaken < Workers
  /\ working' = working \union {Head(queue)} /\ queue' = Tail(queue)
  /\ UNCHANGED <<method, i, serial, waiting, semaphore, ending, ended, notified>>

\* Mutation: a task keeps its permit.
Signal_None ==
  \E t \in working : /\ working' = working \ {t} /\ ending' = ending \union {t}
                     /\ UNCHANGED <<method, i, serial, waiting, semaphore, queue, ended, notified>>

Signal ==
  \E t \in working : /\ working' = working \ {t} /\ ending' = ending \union {t}
                     /\ semaphore' = IF method = "unlimited" THEN semaphore ELSE semaphore + 1
                     /\ UNCHANGED <<method, i, serial, waiting, queue, ended, notified>>

\* The block of a task returns, and its thread is free; in the group it leaves the group.
End ==
  \E t \in ending : /\ ending' = ending \ {t} /\ ended' = ended \union {t}
                    /\ UNCHANGED <<method, i, serial, waiting, semaphore, queue, working, notified>>

\* Mutation: the group is empty when the permits are back.
GroupEmpty_Permits == semaphore = Limit

GroupEmpty == Cardinality(ended) = i

\* dispatch_group_notify, which the caller reaches after the loop
Notify ==
  /\ method \in {"group", "unlimited"} /\ i = Tasks /\ GroupEmpty /\ ~notified
  /\ notified' = TRUE
  /\ UNCHANGED <<method, i, serial, waiting, semaphore, queue, working, ending, ended>>

Next == \/ Touch \/ Enqueue \/ StartSerial \/ HandOver \/ GroupAsync
        \/ StartTask \/ Signal \/ End \/ Notify

\* The loops go on, the queues get the threads there are, and blocks that do not wait end.
Fairness == /\ WF_vars(Enqueue) /\ WF_vars(GroupAsync) /\ WF_vars(StartSerial) /\ WF_vars(HandOver)
            /\ WF_vars(StartTask) /\ WF_vars(Signal) /\ WF_vars(End) /\ WF_vars(Notify)

Spec == Init /\ [][Next]_vars
FairSpec == Spec /\ Fairness
-----------------------------------------------------------------------------
TypeOK ==
  /\ method \in {"none", "serial", "group", "unlimited"} /\ i \in 0..Tasks
  /\ serial \in Seq(1..Tasks) /\ queue \in Seq(1..Tasks)
  /\ waiting \subseteq 1..Tasks /\ working \subseteq 1..Tasks
  /\ ending \subseteq 1..Tasks /\ ended \subseteq 1..Tasks
  /\ semaphore \in 0..Limit /\ notified \in BOOLEAN

\* In the methods with a semaphore at most Limit tasks are on the concurrent queue or at work,
\* and no permit is lost, however many tasks there are: the queue never asks for more threads.
\* The block of dispatch_group_notify runs after the last task has ended, not only signalled.
TasksAccounted ==
  /\ method # "unlimited" => semaphore + Len(queue) + Cardinality(working) = Limit
  /\ notified => ended = 1..Tasks

\* The block of the serial queue that waits for a permit holds a thread, and yet every task
\* gets one and ends.
TasksEnd == method # "none" ~> ended = 1..Tasks /\ (method = "serial" \/ notified)
=============================================================================
