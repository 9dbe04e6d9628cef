--------------------------------- MODULE Demos ---------------------------------
(***************************************************************************)
(* The demonstrations of the application: the user opens one of them, and  *)
(* it runs on its own state while that of the others stays as it was.      *)
(***************************************************************************)
EXTENDS Naturals, Sequences, FiniteSets

CONSTANTS
  Chains, GroupChains, MainChains, Stages, Workers,  \* DependentRequests
  Cells, maxQueueLength,                             \* ImageTaskQueue
  SyncCalls, AsyncCalls, NoCall,                     \* SyncNetwork
  Tasks, Limit,                                      \* BoundedConcurrency, with Workers
  MaxLength, Greatest,                               \* Algorithms
  Threads, Keys, Objects, Nil, Torn, MaxQueued       \* BarrierDictionary

VARIABLES
  demo,  \* the demonstration that is open, or "none"
  identifier, requests_main, global, pc, stage, num, entered, permits, callbacks, requests_notified,
  tasks, subviews, visible, reusable, lost, later,
  main, main_queue, network, session, handler, sync_semaphore, semaphore1,
  tapped, returned, called_back, overtaken,
  method, i, serial, waiting, semaphore, queue, working, ending, ended, notified,
  nums,
  userCenterDic, synchronizationQueue, temp, reader_pc

requests == <<identifier, requests_main, global, pc, stage, num, entered, permits, callbacks,
              requests_notified>>
images == <<tasks, subviews, visible, reusable, lost, later>>
net == <<main, main_queue, network, session, handler, sync_semaphore, semaphore1,
         tapped, returned, called_back, overtaken>>
bounded == <<method, i, serial, waiting, semaphore, queue, working, ending, ended, notified>>
dictionary == <<userCenterDic, synchronizationQueue, temp, reader_pc>>
vars == <<demo, requests, images, net, bounded, nums, dictionary>>

Requests == INSTANCE DependentRequests WITH main <- requests_main, notified <- requests_notified
Images == INSTANCE ImageTaskQueue
Network == INSTANCE SyncNetwork WITH semaphore <- sync_semaphore
Bounded == INSTANCE BoundedConcurrency
Algos == INSTANCE Algorithms
Dictionary == INSTANCE BarrierDictionary WITH pc <- reader_pc

ASSUME DemosAssumption ==
  /\ Requests!ChainsAssumption /\ Images!QueueAssumption /\ Network!CallsAssumption
  /\ Bounded!BoundedAssumption /\ Algos!AlgorithmsAssumption /\ Dictionary!DictionaryAssumption
-----------------------------------------------------------------------------
Init == /\ demo = "none"
        /\ Requests!Init /\ Images!Init /\ Network!Init /\ Bounded!Init
        /\ Algos!Init /\ Dictionary!Init

Open == /\ demo = "none"
        /\ demo' \in {"requests", "images", "network", "bounded", "algorithms", "dictionary"}
        /\ UNCHANGED <<requests, images, net, bounded, nums, dictionary>>

RequestsStep == /\ demo = "requests" /\ Requests!Next
                /\ UNCHANGED <<demo, images, net, bounded, nums, dictionary>>
ImagesStep == /\ demo = "images" /\ Images!Next
              /\ UNCHANGED <<demo, requests, net, bounded, nums, dictionary>>
NetworkStep == /\ demo = "network" /\ Network!Next
               /\ UNCHANGED <<demo, requests, images, bounded, nums, dictionary>>
BoundedStep == /\ demo = "bounded" /\ Bounded!Next
               /\ UNCHANGED <<demo, requests, images, net, nums, dictionary>>
AlgorithmsStep == /\ demo = "algorithms" /\ Algos!Next
                  /\ UNCHANGED <<demo, requests, images, net, bounded, dictionary>>
DictionaryStep == /\ demo = "dictionary" /\ Dictionary!Next
                  /\ UNCHANGED <<demo, requests, images, net, bounded, nums>>

Next == Open \/ RequestsStep \/ ImagesStep \/ NetworkStep \/ BoundedStep
        \/ AlgorithmsStep \/ DictionaryStep

\* A demonstration that is not open has nothing to do that its fairness would ask for.
Fairness == Requests!Fairness /\ Images!Fairness /\ Network!Fairness /\ Bounded!Fairness
            /\ Dictionary!Fairness

FairSpec == Init /\ [][Next]_vars /\ Fairness
-----------------------------------------------------------------------------
\* The types of all the demonstrations; what each property says stands in its module.
TypeOK == /\ Requests!TypeOK /\ Images!TypeOK /\ Network!TypeOK
          /\ Bounded!TypeOK /\ Dictionary!TypeOK

\* DependentRequests: a request leaves after the callback of the one before it, the report last.
RequestsInOrder == Requests!RequestsInOrder

\* DependentRequests: every chain reports its end, unless the main thread or all the workers
\* are blocked for good.
ChainsComplete == Requests!ChainsComplete

\* ImageTaskQueue: an image of a visible cell is there, queued or dropped, and only the tasks
\* of old rows are dropped.
ImageOrTask == Images!ImageOrTask

\* ImageTaskQueue: the views of a cell do not pile up without limit.
ViewsBounded == Images!ViewsBounded

\* ImageTaskQueue: a cell that stays visible gets its images.
ImagesArrive == Images!ImagesArrive

\* SyncNetwork: calls return and then their callbacks run, unless a tap that came in too early
\* has blocked the two threads for good.
CallsEnd == Network!CallsEnd

\* BoundedConcurrency: permits and tasks in progress add up to the limit, and the group
\* reports after the last task has ended.
TasksAccounted == Bounded!TasksAccounted

\* BoundedConcurrency: every task ends.
TasksEnd == Bounded!TasksEnd

\* Algorithms: the sorts and searches do their work, and the functions for one sum problem give
\* the same answers.
AlgorithmsAgree == Algos!SortsAgree /\ Algos!SumsAgree

\* BarrierDictionary: it implements AtomicDictionary.
AtomicSpec == Dictionary!AtomicSpec

\* BarrierDictionary: a read is not starved by writes.
ReadsReturn == Dictionary!ReadsReturn
=============================================================================
