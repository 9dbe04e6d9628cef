------------------------------ MODULE DemosProofs ------------------------------
(***************************************************************************)
(* The demonstrations side by side keep what each of them keeps by itself, *)
(* since one that is open takes its own steps and the others stay as they  *)
(* are.  The bounded tasks, the image table, the dictionary, the dependent *)
(* requests and the network calls are proved about here; what is proved of *)
(* the algorithms in AlgorithmsProofs holds of the application, where the  *)
(* operators of an instance and of the one in Demos are the same.          *)
(***************************************************************************)
EXTENDS Demos, FiniteSetTheorems, WellFoundedInduction, TLAPS

AlgorithmsDemo == INSTANCE AlgorithmsProofs
-----------------------------------------------------------------------------
(***************************************************************************)
(* The bounded tasks, for every number of tasks, permits and threads.      *)
(***************************************************************************)
Elements(s) == {s[k] : k \in 1..Len(s)}
Increasing(s) == \A k, l \in 1..Len(s) : k < l => s[k] < s[l]
AllBefore(S, T) == \A s \in S, t \in T : s < t

TasksStarted == working \union ending \union ended

\* A task keeps its place in the line: behind the tasks that were submitted before it.
TaskLine ==
  /\ Increasing(serial) /\ Increasing(queue)
  /\ Elements(serial) \union Elements(queue) \union waiting \union TasksStarted \subseteq 1..i
  /\ AllBefore(TasksStarted, Elements(queue))
  /\ AllBefore(TasksStarted, waiting) /\ AllBefore(Elements(queue), waiting)
  /\ AllBefore(TasksStarted, Elements(serial)) /\ AllBefore(Elements(queue), Elements(serial))
  /\ AllBefore(waiting, Elements(serial))
  /\ method # "serial" => serial = <<>> /\ waiting = {}

\* The permits, and what there is before a method is called.
TaskPermits ==
  /\ IF method = "unlimited" THEN semaphore = Limit
                             ELSE semaphore + Len(queue) + Cardinality(working) = Limit
  /\ method = "none" => semaphore = Limit /\ queue = <<>> /\ working = {}
  /\ notified => ended = 1..Tasks

\* The ranges; that there are never more permits than Limit follows from Permits.
TaskTypes ==
  /\ method \in {"none", "serial", "group", "unlimited"} /\ i \in 0..Tasks
  /\ serial \in Seq(1..Tasks) /\ queue \in Seq(1..Tasks)
  /\ waiting \subseteq 1..Tasks /\ working \subseteq 1..Tasks
  /\ ending \subseteq 1..Tasks /\ ended \subseteq 1..Tasks
  /\ semaphore \in Nat /\ notified \in BOOLEAN

(***************************************************************************)
(* The inductive invariant.  The line is needed since a set of tasks grows *)
(* by one only if the task that comes in is not there already.             *)
(***************************************************************************)
TaskInv == TaskTypes /\ TaskLine /\ TaskPermits
-----------------------------------------------------------------------------
\* The number of elements is the same in the instance.
LEMMA SameCardinality == \A S : Bounded!Cardinality(S) = Cardinality(S)
PROOF
  BY DEF Bounded!Cardinality, Cardinality

\* What comes to the end of a sequence is one more element of it.
LEMMA Appended ==
  ASSUME NEW S, NEW s \in Seq(S), NEW x \in S
  PROVE  /\ Append(s, x) \in Seq(S) /\ Len(Append(s, x)) = Len(s) + 1
         /\ Elements(Append(s, x)) = Elements(s) \union {x}
PROOF
  <1>1. Append(s, x) \in Seq(S) /\ Len(Append(s, x)) = Len(s) + 1 /\ Len(s) \in Nat
    OBVIOUS
  <1>2. \A k \in 1..Len(s) : Append(s, x)[k] = s[k]
    OBVIOUS
  <1>3. Append(s, x)[Len(s) + 1] = x
    OBVIOUS
  <1>4. 1..(Len(s) + 1) = (1..Len(s)) \union {Len(s) + 1}
    BY <1>1
  <1>. QED
    BY <1>1, <1>2, <1>3, <1>4, Zenon DEF Elements

\* A larger number at the end leaves a sequence increasing.
LEMMA IncreasingAppended ==
  ASSUME NEW s \in Seq(Nat), NEW x \in Nat, Increasing(s), \A y \in Elements(s) : y < x
  PROVE  Increasing(Append(s, x))
PROOF
  <1>1. Len(Append(s, x)) = Len(s) + 1 /\ Len(s) \in Nat
    OBVIOUS
  <1>. SUFFICES ASSUME NEW k \in 1..(Len(s) + 1), NEW l \in 1..(Len(s) + 1), k < l
                PROVE  Append(s, x)[k] < Append(s, x)[l]
    BY <1>1 DEF Increasing
  <1>2. k \in 1..Len(s) /\ Append(s, x)[k] = s[k] /\ s[k] \in Elements(s)
    BY <1>1 DEF Elements
  <1>3. CASE l = Len(s) + 1
    BY <1>2, <1>3
  <1>4. CASE l # Len(s) + 1
    <2>1. l \in 1..Len(s) /\ Append(s, x)[l] = s[l]
      BY <1>1, <1>4
    <2>. QED
      BY <1>2, <2>1 DEF Increasing
  <1>. QED
    BY <1>3, <1>4

\* The head of a sequence, and what is left.
LEMMA TakenFirst ==
  ASSUME NEW S, NEW s \in Seq(S), s # <<>>
  PROVE  /\ Head(s) \in S /\ Head(s) \in Elements(s)
         /\ Tail(s) \in Seq(S) /\ Len(Tail(s)) = Len(s) - 1 /\ Len(s) \in Nat \ {0}
         /\ Elements(Tail(s)) \subseteq Elements(s)
PROOF
  <1>1. /\ Tail(s) \in Seq(S) /\ Len(Tail(s)) = Len(s) - 1 /\ Len(s) \in Nat \ {0}
        /\ Head(s) = s[1]
        /\ \A k \in 1..(Len(s) - 1) : Tail(s)[k] = s[k + 1]
    OBVIOUS
  <1>2. 1 \in 1..Len(s) /\ s[1] \in S
    BY <1>1
  <1>3. \A k \in 1..(Len(s) - 1) : k + 1 \in 1..Len(s)
    BY <1>1
  <1>. QED
    BY <1>1, <1>2, <1>3 DEF Elements

\* What is left of an increasing sequence is larger than its head.
LEMMA IncreasingTaken ==
  ASSUME NEW s \in Seq(Nat), s # <<>>, Increasing(s)
  PROVE  Increasing(Tail(s)) /\ \A y \in Elements(Tail(s)) : Head(s) < y
PROOF
  <1>1. /\ Len(Tail(s)) = Len(s) - 1 /\ Len(s) \in Nat \ {0}
        /\ Head(s) = s[1]
        /\ \A k \in 1..(Len(s) - 1) : Tail(s)[k] = s[k + 1]
    OBVIOUS
  <1>2. \A k \in 1..(Len(s) - 1) : k + 1 \in 1..Len(s) /\ 1 < k + 1
    BY <1>1
  <1>3. ASSUME NEW k \in 1..(Len(s) - 1), NEW l \in 1..(Len(s) - 1), k < l PROVE Tail(s)[k] < Tail(s)[l]
    <2>1. k + 1 < l + 1
      BY <1>1, <1>3
    <2>. QED
      BY <1>1, <1>2, <2>1 DEF Increasing
  <1>4. ASSUME NEW k \in 1..(Len(s) - 1) PROVE Head(s) < Tail(s)[k]
    <2>1. 1 \in 1..Len(s)
      BY <1>1
    <2>. QED
      BY <1>1, <1>2, <2>1 DEF Increasing
  <1>. QED
    BY <1>1, <1>3, <1>4 DEF Increasing, Elements

\* The sequence that holds nothing.
LEMMA EmptySequence == Elements(<<>>) = {} /\ Increasing(<<>>) /\ Len(<<>>) = 0
PROOF
  BY DEF Elements, Increasing

\* The tasks are finitely many.
LEMMA TasksFinite ==
  ASSUME Bounded!BoundedAssumption, TaskTypes
  PROVE  /\ IsFiniteSet(working) /\ Cardinality(working) \in Nat
         /\ IsFiniteSet(1..Tasks) /\ Cardinality(1..Tasks) = Tasks
PROOF
  <1>1. IsFiniteSet(1..Tasks) /\ Cardinality(1..Tasks) = Tasks
    <2>1. Tasks \in Nat /\ 1 \in Int /\ Tasks \in Int /\ Tasks - 1 + 1 = Tasks /\ (1 > Tasks => Tasks = 0)
      BY DEF Bounded!BoundedAssumption
    <2>. QED
      BY <2>1, FS_Interval
  <1>2. IsFiniteSet(working)
    BY <1>1, FS_Subset DEF TaskTypes
  <1>. QED
    BY <1>1, <1>2, FS_CardinalityType
-----------------------------------------------------------------------------
\* A step keeps the types.
LEMMA TaskTypesStep == ASSUME Bounded!BoundedAssumption, TaskTypes, [Bounded!Next]_bounded PROVE TaskTypes'
PROOF
  <1>0. i < Tasks => i + 1 \in 1..Tasks /\ i + 1 \in 0..Tasks
    BY DEF Bounded!BoundedAssumption, TaskTypes
  <1>. USE DEF TaskTypes
  <1>1. CASE UNCHANGED bounded
    BY <1>1 DEF bounded
  <1>2. CASE Bounded!Touch
    BY <1>2 DEF Bounded!Touch
  <1>3. CASE Bounded!Enqueue
    BY <1>0, <1>3, Appended DEF Bounded!Enqueue
  <1>4. CASE Bounded!StartSerial
    BY <1>4, TakenFirst DEF Bounded!StartSerial
  <1>5. CASE Bounded!HandOver
    <2>1. PICK t \in waiting : queue' = Append(queue, t)
      BY <1>5 DEF Bounded!HandOver
    <2>2. queue' \in Seq(1..Tasks)
      BY <2>1, Appended
    <2>3. semaphore' \in Nat
      BY <1>5 DEF Bounded!HandOver
    <2>. QED
      BY <1>5, <2>2, <2>3 DEF Bounded!HandOver
  <1>6. CASE Bounded!GroupAsync
    <2>1. queue' \in Seq(1..Tasks) /\ i' \in 0..Tasks
      BY <1>0, <1>6, Appended DEF Bounded!GroupAsync
    <2>2. semaphore' \in Nat
      BY <1>6 DEF Bounded!GroupAsync
    <2>. QED
      BY <1>6, <2>1, <2>2 DEF Bounded!GroupAsync
  <1>7. CASE Bounded!StartTask
    BY <1>7, TakenFirst DEF Bounded!StartTask
  <1>8. CASE Bounded!Signal
    BY <1>8 DEF Bounded!Signal
  <1>9. CASE Bounded!End
    BY <1>9 DEF Bounded!End
  <1>10. CASE Bounded!Notify
    BY <1>10 DEF Bounded!Notify
  <1>. QED
    BY <1>1, <1>2, <1>3, <1>4, <1>5, <1>6, <1>7, <1>8, <1>9, <1>10 DEF Bounded!Next

\* A step keeps the line.
LEMMA TaskLineStep == ASSUME Bounded!BoundedAssumption, TaskInv, [Bounded!Next]_bounded, TaskTypes' PROVE TaskLine'
PROOF
  <1>0. TaskTypes /\ TaskLine /\ i \in Nat /\ Tasks \in Nat
    BY DEF TaskInv, TaskTypes, Bounded!BoundedAssumption
  <1>s. serial \in Seq(Nat) /\ queue \in Seq(Nat) /\ \A k \in 1..Tasks : k \in Nat
    <2>1. Seq(1..Tasks) \subseteq Seq(Nat)
      BY <1>0
    <2>. QED
      BY <1>0, <2>1 DEF TaskTypes
  <1>b. \A k \in 1..i : k < i + 1 /\ k \in 1..(i + 1) /\ k \in Nat
    BY <1>0
  <1>1. CASE UNCHANGED bounded
    BY <1>0, <1>1 DEF bounded, TaskLine, TasksStarted
  <1>2. CASE Bounded!Touch
    BY <1>0, <1>2 DEF Bounded!Touch, TaskLine, TasksStarted
  <1>3. CASE Bounded!Enqueue
    <2>1. /\ Elements(serial') = Elements(serial) \union {i + 1} /\ Increasing(serial')
          /\ UNCHANGED <<method, queue, waiting, working, ending, ended>> /\ i' = i + 1 /\ method = "serial"
      <3>1. \A y \in Elements(serial) : y < i + 1
        BY <1>0, <1>b DEF TaskLine
      <3>2. i + 1 \in Nat /\ Increasing(serial)
        BY <1>0 DEF TaskLine
      <3>. QED
        BY <1>3, <1>s, <3>1, <3>2, Appended, IncreasingAppended DEF Bounded!Enqueue
    <2>2. TasksStarted' = TasksStarted
      BY <2>1 DEF TasksStarted
    <2>3. i + 1 \in 1..(i + 1)
      BY <1>0
    <2>. QED
      BY <1>0, <1>b, <2>1, <2>2, <2>3 DEF TaskLine, AllBefore
  <1>4. CASE Bounded!StartSerial
    <2>1. /\ waiting = {} /\ waiting' = {Head(serial)} /\ serial' = Tail(serial) /\ serial # <<>>
          /\ UNCHANGED <<method, i, queue, working, ending, ended>>
      BY <1>4 DEF Bounded!StartSerial
    <2>2. Head(serial) \in Elements(serial) /\ Elements(Tail(serial)) \subseteq Elements(serial)
      BY <1>s, <2>1, TakenFirst
    <2>3. Increasing(Tail(serial)) /\ \A y \in Elements(Tail(serial)) : Head(serial) < y
      BY <1>0, <1>s, <2>1, IncreasingTaken DEF TaskLine
    <2>4. TasksStarted' = TasksStarted /\ method = "serial"
      BY <1>0, <2>1 DEF TasksStarted, TaskLine
    <2>. QED
      BY <1>0, <2>1, <2>2, <2>3, <2>4 DEF TaskLine, AllBefore
  <1>5. CASE Bounded!HandOver
    <2>1. PICK t \in waiting : queue' = Append(queue, t)
      BY <1>5 DEF Bounded!HandOver
    <2>2. waiting' = {} /\ UNCHANGED <<method, i, serial, working, ending, ended>>
      BY <1>5 DEF Bounded!HandOver
    <2>3. t \in Nat /\ \A y \in Elements(queue) : y < t
      BY <1>0, <1>s, <2>1 DEF TaskLine, AllBefore, TaskTypes
    <2>4. Elements(queue') = Elements(queue) \union {t} /\ Increasing(queue')
      <3>1. Increasing(queue)
        BY <1>0 DEF TaskLine
      <3>. QED
        BY <1>s, <2>1, <2>3, <3>1, Appended, IncreasingAppended
    <2>5. TasksStarted' = TasksStarted
      BY <2>2 DEF TasksStarted
    <2>. QED
      BY <1>0, <2>1, <2>2, <2>4, <2>5 DEF TaskLine, AllBefore
  <1>6. CASE Bounded!GroupAsync
    <2>1. /\ queue' = Append(queue, i + 1) /\ i' = i + 1 /\ method # "serial"
          /\ UNCHANGED <<method, serial, waiting, working, ending, ended>>
      BY <1>6 DEF Bounded!GroupAsync
    <2>2. serial = <<>> /\ waiting = {} /\ Elements(serial) = {}
      BY <1>0, <2>1, EmptySequence DEF TaskLine
    <2>3. i + 1 \in Nat /\ i + 1 \in 1..(i + 1) /\ \A y \in Elements(queue) : y < i + 1
      BY <1>0, <1>b DEF TaskLine
    <2>4. Elements(queue') = Elements(queue) \union {i + 1} /\ Increasing(queue')
      <3>1. Increasing(queue)
        BY <1>0 DEF TaskLine
      <3>. QED
        BY <1>s, <2>1, <2>3, <3>1, Appended, IncreasingAppended
    <2>5. TasksStarted' = TasksStarted
      BY <2>1 DEF TasksStarted
    <2>. QED
      BY <1>0, <1>b, <2>1, <2>2, <2>3, <2>4, <2>5 DEF TaskLine, AllBefore
  <1>7. CASE Bounded!StartTask
    <2>1. /\ queue # <<>> /\ queue' = Tail(queue) /\ working' = working \union {Head(queue)}
          /\ UNCHANGED <<method, i, serial, waiting, ending, ended>>
      BY <1>7 DEF Bounded!StartTask
    <2>2. Head(queue) \in Elements(queue) /\ Elements(Tail(queue)) \subseteq Elements(queue)
      BY <1>s, <2>1, TakenFirst
    <2>3. Increasing(Tail(queue)) /\ \A y \in Elements(Tail(queue)) : Head(queue) < y
      BY <1>0, <1>s, <2>1, IncreasingTaken DEF TaskLine
    <2>4. TasksStarted' = TasksStarted \union {Head(queue)}
      BY <2>1 DEF TasksStarted
    <2>. QED
      BY <1>0, <2>1, <2>2, <2>3, <2>4 DEF TaskLine, AllBefore
  <1>8. CASE Bounded!Signal \/ Bounded!End \/ Bounded!Notify
    <2>1. TasksStarted' = TasksStarted /\ UNCHANGED <<method, i, serial, waiting, queue>>
      BY <1>8 DEF Bounded!Signal, Bounded!End, Bounded!Notify, TasksStarted
    <2>. QED
      BY <1>0, <2>1 DEF TaskLine
  <1>. QED
    BY <1>1, <1>2, <1>3, <1>4, <1>5, <1>6, <1>7, <1>8 DEF Bounded!Next

\* A step keeps the permits.
LEMMA TaskPermitsStep == ASSUME Bounded!BoundedAssumption, TaskInv, [Bounded!Next]_bounded, TaskTypes' PROVE TaskPermits'
PROOF
  <1>0. /\ TaskTypes /\ TaskLine /\ TaskPermits /\ Limit \in Nat /\ semaphore \in Nat /\ semaphore' \in Nat
        /\ Len(queue) \in Nat /\ Cardinality(working) \in Nat /\ IsFiniteSet(working)
    <2>1. TaskTypes /\ TaskLine /\ TaskPermits /\ Limit \in Nat
      BY DEF TaskInv, Bounded!BoundedAssumption
    <2>2. semaphore \in Nat /\ semaphore' \in Nat /\ queue \in Seq(1..Tasks)
      BY <2>1 DEF TaskTypes
    <2>3. Len(queue) \in Nat
      BY <2>2
    <2>. QED
      BY <2>1, <2>2, <2>3, TasksFinite
  <1>1. CASE UNCHANGED bounded
    BY <1>0, <1>1 DEF bounded, TaskPermits
  <1>2. CASE Bounded!Touch
    <2>1. semaphore = Limit /\ queue = <<>> /\ working = {} /\ UNCHANGED <<semaphore, queue, working, ended, notified>>
          /\ method' # "none"
      BY <1>0, <1>2 DEF Bounded!Touch, TaskPermits
    <2>2. Len(queue) = 0 /\ Cardinality(working) = 0
      BY <2>1, FS_EmptySet
    <2>. QED
      BY <1>0, <2>1, <2>2 DEF TaskPermits
  <1>3. CASE Bounded!Enqueue \/ Bounded!StartSerial
    BY <1>0, <1>3 DEF Bounded!Enqueue, Bounded!StartSerial, TaskPermits
  <1>4. CASE Bounded!HandOver
    <2>1. PICK t \in waiting : queue' = Append(queue, t)
      BY <1>4 DEF Bounded!HandOver
    <2>2. /\ semaphore' = semaphore - 1 /\ UNCHANGED <<method, working, ended, notified>>
          /\ method = "serial"
      BY <1>0, <1>4 DEF Bounded!HandOver, TaskLine
    <2>3. Len(queue') = Len(queue) + 1
      BY <1>0, <2>1, Appended DEF TaskTypes
    <2>. QED
      BY <1>0, <2>2, <2>3 DEF TaskPermits
  <1>5. CASE Bounded!GroupAsync
    <2>1. /\ IF method = "group" THEN semaphore' = semaphore - 1 ELSE semaphore' = semaphore
          /\ queue' = Append(queue, i + 1)
          /\ method \in {"group", "unlimited"} /\ UNCHANGED <<method, working, ended, notified>>
      BY <1>5 DEF Bounded!GroupAsync
    <2>2. Len(queue') = Len(queue) + 1
      BY <1>0, <2>1
    <2>. QED
      BY <1>0, <2>1, <2>2 DEF TaskPermits
  <1>6. CASE Bounded!StartTask
    <2>1. /\ queue # <<>> /\ queue' = Tail(queue) /\ working' = working \union {Head(queue)}
          /\ UNCHANGED <<method, semaphore, ended, notified>> /\ method # "none"
      BY <1>0, <1>6 DEF Bounded!StartTask, TaskPermits
    <2>2. Len(queue') = Len(queue) - 1 /\ Head(queue) \in Elements(queue) /\ Head(queue) \in 1..Tasks
      BY <1>0, <2>1, TakenFirst DEF TaskTypes
    <2>3. Head(queue) \notin working
      <3>1. Head(queue) \in Nat
        BY <2>2
      <3>2. ~(Head(queue) < Head(queue))
        BY <3>1
      <3>. QED
        BY <1>0, <2>2, <3>2 DEF TaskLine, AllBefore, TasksStarted
    <2>4. Cardinality(working') = Cardinality(working) + 1
      BY <1>0, <2>1, <2>3, FS_AddElement
    <2>. QED
      BY <1>0, <2>1, <2>2, <2>4 DEF TaskPermits
  <1>7. CASE Bounded!Signal
    <2>1. PICK t \in working :
            /\ working' = working \ {t}
            /\ semaphore' = IF method = "unlimited" THEN semaphore ELSE semaphore + 1
            /\ UNCHANGED <<method, queue, ended, notified>>
      BY <1>7 DEF Bounded!Signal
    <2>2. Cardinality(working') = Cardinality(working) - 1
      BY <1>0, <2>1, FS_RemoveElement
    <2>3. method # "none"
      BY <1>0, <2>1 DEF TaskPermits
    <2>. QED
      BY <1>0, <2>1, <2>2, <2>3 DEF TaskPermits
  <1>8. CASE Bounded!End
    <2>1. ended \subseteq ended' /\ UNCHANGED <<method, semaphore, queue, working, notified>>
      BY <1>8 DEF Bounded!End
    <2>2. ended' \subseteq 1..Tasks
      BY DEF TaskTypes
    <2>. QED
      BY <1>0, <2>1, <2>2 DEF TaskPermits
  <1>9. CASE Bounded!Notify
    <2>1. i = Tasks /\ Cardinality(ended) = i /\ UNCHANGED <<method, semaphore, queue, working, ended>>
      BY <1>9, SameCardinality DEF Bounded!Notify, Bounded!GroupEmpty
    <2>2. ended = 1..Tasks
      BY <1>0, <2>1, TasksFinite, FS_Subset DEF TaskTypes
    <2>. QED
      BY <1>0, <2>1, <2>2 DEF TaskPermits
  <1>. QED
    BY <1>1, <1>2, <1>3, <1>4, <1>5, <1>6, <1>7, <1>8, <1>9 DEF Bounded!Next
-----------------------------------------------------------------------------
\* The invariant holds at the start.
LEMMA TaskInvInit == ASSUME Bounded!BoundedAssumption PROVE Bounded!Init => TaskInv
PROOF
  <1>. SUFFICES ASSUME Bounded!Init PROVE TaskInv
    OBVIOUS
  <1>1. TaskTypes
    <2>1. <<>> \in Seq(1..Tasks) /\ 0 \in 0..Tasks /\ Limit \in Nat
      BY DEF Bounded!BoundedAssumption
    <2>. QED
      BY <2>1 DEF Bounded!Init, TaskTypes
  <1>2. TaskLine
    BY EmptySequence DEF Bounded!Init, TaskLine, AllBefore, TasksStarted
  <1>3. TaskPermits
    BY EmptySequence, FS_EmptySet DEF Bounded!Init, TaskPermits, Bounded!BoundedAssumption
  <1>. QED
    BY <1>1, <1>2, <1>3 DEF TaskInv

\* The steps of the bounded tasks are those of their method, and no other touches them.
LEMMA BoundedAlone == [Next]_vars => [Bounded!Next]_bounded
PROOF
  <1>. SUFFICES ASSUME [Next]_vars PROVE [Bounded!Next]_bounded
    OBVIOUS
  <1>1. CASE BoundedStep
    BY <1>1 DEF BoundedStep
  <1>2. CASE ~BoundedStep
    BY <1>2 DEF Next, Open, RequestsStep, ImagesStep, NetworkStep, AlgorithmsStep, DictionaryStep, vars
  <1>. QED
    BY <1>1, <1>2

\* The invariant of the bounded tasks.
THEOREM TaskInvariant == FairSpec => []TaskInv
PROOF
  <1>1. Bounded!BoundedAssumption
    BY DemosAssumption
  <1>2. Init => TaskInv
    BY <1>1, TaskInvInit DEF Init
  <1>3. TaskInv /\ [Next]_vars => TaskInv'
    BY <1>1, BoundedAlone, TaskTypesStep, TaskLineStep, TaskPermitsStep DEF TaskInv
  <1>. QED
    BY <1>2, <1>3, PTL DEF FairSpec

\* There are never more permits than the semaphore was created with.
LEMMA TaskTypesHold ==
  ASSUME TaskInv
  PROVE  Bounded!TypeOK
PROOF
  <1>1. TaskTypes /\ TaskPermits /\ queue \in Seq(1..Tasks) /\ Limit \in Nat /\ Bounded!BoundedAssumption
    BY DemosAssumption DEF TaskInv, TaskTypes, Bounded!BoundedAssumption
  <1>2. Len(queue) \in Nat /\ Cardinality(working) \in Nat
    BY <1>1, TasksFinite
  <1>3. semaphore \in 0..Limit
    BY <1>1, <1>2 DEF TaskTypes, TaskPermits
  <1>. QED
    BY <1>1, <1>3 DEF TaskTypes, Bounded!TypeOK

\* runMaxThreadCountWithGCD and its variants: no more than Limit tasks are on the concurrent queue
\* or at work, no permit is lost, and the group is notified after the last task has ended.
THEOREM TasksAccountedHolds == FairSpec => []TasksAccounted
PROOF
  <1>1. TaskInv => TasksAccounted
    BY SameCardinality DEF TaskInv, TaskPermits, TasksAccounted, Bounded!TasksAccounted
  <1>. QED
    BY <1>1, TaskInvariant, PTL

-----------------------------------------------------------------------------
(***************************************************************************)
(* The image table, for every finite set of cells and every length of the  *)
(* queue.                                                                  *)
(***************************************************************************)
\* The instance of ImageTaskQueue counts as this module does.
LEMMA SameNumber == \A S : Images!Cardinality(S) = Cardinality(S)
PROOF
  BY DEF Images!Cardinality, Cardinality

\* The tasks by their age: the task that n others have come after.
Task(q, n) == q[Len(q) - n]
Ages(q, task) == {n \in 0..(Len(q) - 1) : Task(q, n) = task}

\* Rows of three tasks come into the queue, so the age of a task tells its tag.
InRows(q) == \A n \in 0..(Len(q) - 1) : Task(q, n)[2] = 4 - (n % 3)

\* How many tasks have come since a tag of the row the cell shows.
Since(c, tag) == 3 * later[c] + (4 - tag)

\* The youngest task of a cell and a tag in the queue is that of the row the cell shows.
Youngest ==
  \A c \in Cells, tag \in Images!Tags : \A n \in Ages(tasks, <<c, tag>>) :
    later[c] < Images!RowsQueued => Since(c, tag) <= n /\ Since(c, tag) \in Ages(tasks, <<c, tag>>)

(***************************************************************************)
(* The inductive invariant.  The views of a cell stay bounded because of   *)
(* what the queue can hold of one kind, which InRows tells; the tasks of   *)
(* recent rows are not dropped because they are younger than any other of  *)
(* their kind, which Youngest tells.                                       *)
(***************************************************************************)
ImagesInv == Images!TypeOK /\ InRows(tasks) /\ Youngest /\ Images!ImageOrTask /\ Images!ViewsBounded
-----------------------------------------------------------------------------
\* The rows that fill the queue.
LEMMA Rows ==
  ASSUME Images!QueueAssumption
  PROVE  /\ maxQueueLength \in Nat \ {0} /\ Images!RowsQueued \in Nat \ {0}
         /\ 3 * Images!RowsQueued >= maxQueueLength
         /\ (maxQueueLength - 1) \div 3 = Images!RowsQueued - 1
PROOF
  BY DEF Images!QueueAssumption, Images!RowsQueued

\* A task of the queue, by its place and by its age.
LEMMA AgesFacts ==
  ASSUME NEW S, NEW q \in Seq(S), NEW task
  PROVE  /\ Images!InQueue(q, task) <=> Ages(q, task) # {}
         /\ IsFiniteSet(Ages(q, task)) /\ Cardinality(Ages(q, task)) \in Nat
         /\ Cardinality({k \in 1..Len(q) : q[k] = task}) = Cardinality(Ages(q, task))
PROOF
  <1>. DEFINE P == {k \in 1..Len(q) : q[k] = task}
              A == Ages(q, task)
              f == [k \in P |-> Len(q) - k]
  <1>0. Len(q) \in Nat
    OBVIOUS
  <1>1. \A k \in 1..Len(q) : Len(q) - k \in 0..(Len(q) - 1) /\ Len(q) - (Len(q) - k) = k
    BY <1>0
  <1>2. \A n \in 0..(Len(q) - 1) : Len(q) - n \in 1..Len(q) /\ Len(q) - (Len(q) - n) = n
    BY <1>0
  <1>3. \A k \in P : Len(q) - k \in A
    BY <1>1 DEF Ages, Task
  <1>4. \A n \in A : Len(q) - n \in P
    BY <1>2 DEF Ages, Task
  <1>5. Images!InQueue(q, task) <=> A # {}
    BY <1>3, <1>4 DEF Images!InQueue
  <1>6. IsFiniteSet(P)
    <2>1. IsFiniteSet(1..Len(q)) /\ P \subseteq 1..Len(q)
      BY <1>0, FS_Interval
    <2>. QED
      BY <2>1, FS_Subset
  <1>7. f \in Bijection(P, A)
    <2>1. f \in [P -> A]
      BY <1>3
    <2>2. \A k, j \in P : f[k] = f[j] => k = j
      BY <1>0
    <2>3. \A n \in A : \E k \in P : f[k] = n
      BY <1>2, <1>4 DEF Ages
    <2>. HIDE DEF A, f, P
    <2>. QED
      BY <2>1, <2>2, <2>3, Zenon DEF Bijection, Injection, Surjection, IsInjective
  <1>8. IsFiniteSet(A) /\ Cardinality(A) = Cardinality(P)
    <2>1. ExistsBijection(P, A)
      BY <1>7, Zenon DEF ExistsBijection
    <2>. HIDE DEF A, f, P
    <2>. QED
      BY <1>6, <2>1, FS_Bijection, Zenon
  <1>. QED
    BY <1>5, <1>8, FS_CardinalityType

\* The queue r is q with a task that has come into it; when it was full the oldest has gone.
Added(q, task, r) ==
  /\ Len(r) = IF Len(q) = maxQueueLength THEN maxQueueLength ELSE Len(q) + 1
  /\ Task(r, 0) = task
  /\ \A n \in Nat : n > 0 /\ n < Len(r) => Task(r, n) = Task(q, n - 1)

\* What addTask does.
LEMMA AddTask ==
  ASSUME Images!QueueAssumption, NEW S, NEW q \in Seq(S), Len(q) <= maxQueueLength, NEW task \in S
  PROVE  /\ Images!addTask(q, task) \in Seq(S) /\ Len(Images!addTask(q, task)) <= maxQueueLength
         /\ Added(q, task, Images!addTask(q, task))
PROOF
  <1>. DEFINE l == Len(q)
              q2 == Append(q, task)
              r == Images!addTask(q, task)
  <1>0. maxQueueLength \in Nat \ {0} /\ l \in Nat
    BY DEF Images!QueueAssumption
  <1>1. /\ q2 \in Seq(S) /\ Len(q2) = l + 1 /\ q2[l + 1] = task /\ q2 # <<>>
        /\ \A k \in 1..l : q2[k] = q[k]
    OBVIOUS
  <1>2. CASE l = maxQueueLength
    <2>1. r = Tail(q2)
      BY <1>0, <1>1, <1>2 DEF Images!addTask
    <2>2. r \in Seq(S) /\ Len(r) = l /\ \A k \in 1..l : r[k] = q2[k + 1]
      <3>. HIDE DEF q2, r
      <3>. QED
        BY <1>0, <1>1, <2>1
    <2>3. Task(r, 0) = task
      <3>1. l \in 1..l /\ l - 0 = l
        BY <1>0, <1>2
      <3>. QED
        BY <1>1, <2>2, <3>1 DEF Task
    <2>4. ASSUME NEW n \in Nat, n > 0, n < Len(r) PROVE Task(r, n) = Task(q, n - 1)
      <3>1. l - n \in 1..l /\ (l - n) + 1 \in 1..l /\ l - (n - 1) = (l - n) + 1
        BY <1>0, <2>2, <2>4
      <3>. QED
        BY <1>1, <2>2, <3>1 DEF Task
    <2>. QED
      BY <1>0, <1>2, <2>2, <2>3, <2>4 DEF Added
  <1>3. CASE l # maxQueueLength
    <2>1. r = q2
      BY <1>0, <1>1, <1>3 DEF Images!addTask
    <2>2. r \in Seq(S) /\ Len(r) = l + 1 /\ \A k \in 1..l : r[k] = q[k]
      BY <1>1, <2>1
    <2>3. Task(r, 0) = task
      <3>1. (l + 1) - 0 = l + 1
        BY <1>0
      <3>. QED
        BY <1>1, <2>1, <3>1 DEF Task
    <2>4. ASSUME NEW n \in Nat, n > 0, n < Len(r) PROVE Task(r, n) = Task(q, n - 1)
      <3>1. (l + 1) - n \in 1..l /\ l - (n - 1) = (l + 1) - n
        BY <1>0, <2>2, <2>4
      <3>. QED
        BY <2>2, <3>1 DEF Task
    <2>. QED
      BY <1>0, <1>3, <2>2, <2>3, <2>4 DEF Added
  <1>. QED
    BY <1>2, <1>3

\* A row comes into the queue.
LEMMA AddRow ==
  ASSUME Images!QueueAssumption, Images!TypeOK, NEW c \in Cells, Images!cellForRow(c)
  PROVE  /\ tasks' \in Seq(Cells \X Images!Tags) /\ Len(tasks') <= maxQueueLength
         /\ Len(tasks) \in Nat /\ Len(tasks') \in Nat
         /\ Len(tasks') <= Len(tasks) + 3
         /\ Len(tasks') < Len(tasks) + 3 => Len(tasks') = maxQueueLength
         /\ \A n \in 0..2 : n < Len(tasks') => Task(tasks', n) = <<c, 4 - n>>
         /\ \A n \in Nat : n > 2 /\ n < Len(tasks') =>
              n - 3 < Len(tasks) /\ Task(tasks', n) = Task(tasks, n - 3)
PROOF
  <1>. DEFINE q0 == tasks
              q1 == Images!addTask(q0, <<c, 2>>)
              q2 == Images!addTask(q1, <<c, 3>>)
              q3 == Images!addTask(q2, <<c, 4>>)
              max == maxQueueLength
  <1>0. /\ max \in Nat \ {0} /\ q0 \in Seq(Cells \X Images!Tags) /\ Len(q0) <= max /\ Len(q0) \in Nat
        /\ <<c, 2>> \in Cells \X Images!Tags /\ <<c, 3>> \in Cells \X Images!Tags /\ <<c, 4>> \in Cells \X Images!Tags
    BY DEF Images!QueueAssumption, Images!TypeOK, Images!Tags
  <1>4. tasks' = q3
    BY DEF Images!cellForRow
  <1>. HIDE DEF q0, q3, max
  <1>1. q1 \in Seq(Cells \X Images!Tags) /\ Len(q1) <= max /\ Added(q0, <<c, 2>>, q1)
    BY <1>0, AddTask DEF max
  <1>. HIDE DEF q1
  <1>2. q2 \in Seq(Cells \X Images!Tags) /\ Len(q2) <= max /\ Added(q1, <<c, 3>>, q2)
    BY <1>0, <1>1, AddTask DEF max
  <1>. HIDE DEF q2
  <1>3. q3 \in Seq(Cells \X Images!Tags) /\ Len(q3) <= max /\ Added(q2, <<c, 4>>, q3)
    BY <1>0, <1>2, AddTask DEF q3, max
  <1>5. /\ Len(q1) \in Nat /\ Len(q2) \in Nat /\ Len(q3) \in Nat
        /\ Len(q1) <= max /\ Len(q2) <= max /\ Len(q3) <= max
        /\ Len(q3) <= Len(q2) + 1 /\ Len(q2) <= Len(q1) + 1 /\ Len(q1) <= Len(q0) + 1
        /\ Len(q3) <= Len(q0) + 3 /\ (Len(q3) < Len(q0) + 3 => Len(q3) = max)
    BY <1>0, <1>1, <1>2, <1>3 DEF Added, max
  <1>6. ASSUME NEW n \in 0..2, n < Len(q3) PROVE Task(q3, n) = <<c, 4 - n>>
    <2>1. CASE n = 0
      BY <1>3, <2>1 DEF Added
    <2>2. CASE n = 1
      <3>1. Task(q3, 1) = Task(q2, 0)
        BY <1>3, <1>6, <2>2 DEF Added
      <3>. QED
        BY <1>2, <2>2, <3>1 DEF Added
    <2>3. CASE n = 2
      <3>1. Task(q3, 2) = Task(q2, 1) /\ 1 < Len(q2)
        BY <1>3, <1>5, <1>6, <2>3 DEF Added
      <3>2. Task(q2, 1) = Task(q1, 0)
        BY <1>2, <3>1 DEF Added
      <3>. QED
        BY <1>1, <2>3, <3>1, <3>2 DEF Added
    <2>. QED
      BY <2>1, <2>2, <2>3
  <1>7. ASSUME NEW n \in Nat, n > 2, n < Len(q3)
        PROVE  n - 3 < Len(q0) /\ Task(q3, n) = Task(q0, n - 3)
    <2>1. n - 1 \in Nat /\ n - 2 \in Nat /\ (n - 1) - 1 = n - 2 /\ (n - 2) - 1 = n - 3
      BY <1>7
    <2>2. n - 1 < Len(q2) /\ n - 2 < Len(q1) /\ n - 3 < Len(q0)
      BY <1>0, <1>5, <1>7
    <2>3. Task(q3, n) = Task(q2, n - 1)
      BY <1>3, <1>7 DEF Added
    <2>4. Task(q2, n - 1) = Task(q1, n - 2)
      BY <1>2, <1>7, <2>1, <2>2 DEF Added
    <2>5. Task(q1, n - 2) = Task(q0, n - 3)
      BY <1>1, <1>7, <2>1, <2>2 DEF Added
    <2>. QED
      BY <2>2, <2>3, <2>4, <2>5
  <1>. QED
    BY <1>0, <1>3, <1>4, <1>5, <1>6, <1>7 DEF q0, max

\* Where the tasks of a row of c are afterwards.
LEMMA RowAges ==
  ASSUME Images!QueueAssumption, Images!TypeOK, NEW c \in Cells, Images!cellForRow(c)
  PROVE  /\ \A n \in 0..2 : n < Len(tasks') => n \in Ages(tasks', <<c, 4 - n>>)
         /\ \A d \in Cells, tag \in Images!Tags : \A n \in Ages(tasks', <<d, tag>>) :
              (d = c /\ n = 4 - tag) \/ (n > 2 /\ n - 3 \in Ages(tasks, <<d, tag>>))
         /\ \A d \in Cells, tag \in Images!Tags : \A n \in Ages(tasks, <<d, tag>>) :
              n + 3 < Len(tasks') => n + 3 \in Ages(tasks', <<d, tag>>)
PROOF
  <1>0. Len(tasks) \in Nat /\ Len(tasks') \in Nat
    BY AddRow
  <1>1. \A n \in 0..2 : n < Len(tasks') => Task(tasks', n) = <<c, 4 - n>>
    BY AddRow
  <1>2. \A n \in Nat : n > 2 /\ n < Len(tasks') =>
          n - 3 < Len(tasks) /\ Task(tasks', n) = Task(tasks, n - 3)
    BY AddRow
  <1>3. ASSUME NEW n \in 0..2, n < Len(tasks') PROVE n \in Ages(tasks', <<c, 4 - n>>)
    BY <1>0, <1>1, <1>3 DEF Ages
  <1>4. ASSUME NEW d \in Cells, NEW tag \in Images!Tags, NEW n \in Ages(tasks', <<d, tag>>)
        PROVE  (d = c /\ n = 4 - tag) \/ (n > 2 /\ n - 3 \in Ages(tasks, <<d, tag>>))
    <2>1. n \in Nat /\ n < Len(tasks') /\ Task(tasks', n) = <<d, tag>>
      BY <1>0 DEF Ages
    <2>2. CASE n > 2
      BY <1>0, <1>2, <2>1, <2>2 DEF Ages
    <2>3. CASE n \in 0..2
      <3>1. <<d, tag>> = <<c, 4 - n>>
        BY <1>1, <2>1, <2>3
      <3>. QED
        BY <2>3, <3>1 DEF Images!Tags
    <2>. QED
      BY <2>1, <2>2, <2>3
  <1>5. ASSUME NEW d \in Cells, NEW tag \in Images!Tags, NEW n \in Ages(tasks, <<d, tag>>),
               n + 3 < Len(tasks')
        PROVE  n + 3 \in Ages(tasks', <<d, tag>>)
    <2>1. n \in Nat /\ Task(tasks, n) = <<d, tag>>
      BY <1>0 DEF Ages
    <2>2. n + 3 \in Nat /\ n + 3 > 2 /\ (n + 3) - 3 = n
      BY <2>1
    <2>3. Task(tasks', n + 3) = <<d, tag>>
      BY <1>2, <1>5, <2>1, <2>2
    <2>. QED
      BY <1>0, <1>5, <2>2, <2>3 DEF Ages
  <1>. QED
    BY <1>3, <1>4, <1>5

\* The age of a task tells its tag.
LEMMA AgeTellsTag ==
  ASSUME NEW S, NEW q \in Seq(S), InRows(q), NEW d, NEW tag \in Images!Tags, NEW n \in Ages(q, <<d, tag>>)
  PROVE  n \in Nat /\ n < Len(q) /\ n = 3 * (n \div 3) + (4 - tag) /\ n >= 4 - tag
PROOF
  <1>1. n \in 0..(Len(q) - 1) /\ Task(q, n)[2] = tag /\ Len(q) \in Nat
    BY DEF Ages
  <1>2. tag = 4 - (n % 3)
    BY <1>1 DEF InRows
  <1>3. n \in Nat /\ tag \in 2..4
    BY <1>1 DEF Images!Tags
  <1>. QED
    BY <1>1, <1>2, <1>3

\* A set whose elements are, less three, in another one has no more elements.
LEMMA Shifted ==
  ASSUME NEW A \in SUBSET Nat, NEW B, IsFiniteSet(B), \A n \in A : n - 3 \in B
  PROVE  Cardinality(A) <= Cardinality(B)
PROOF
  <1>. DEFINE f == [n \in A |-> n - 3]
  <1>1. f \in [A -> B]
    OBVIOUS
  <1>2. \A m, n \in A : f[m] = f[n] => m = n
    OBVIOUS
  <1>. HIDE DEF f
  <1>3. f \in Injection(A, B)
    BY <1>1, <1>2, Zenon DEF Injection, IsInjective
  <1>. QED
    BY <1>3, FS_Injection, Zenon

\* A queue of rows holds no more tasks of one kind than RowsQueued.
LEMMA AgesBounded ==
  ASSUME Images!QueueAssumption, NEW S, NEW q \in Seq(S), Len(q) <= maxQueueLength, InRows(q),
         NEW d, NEW tag \in Images!Tags
  PROVE  Cardinality(Ages(q, <<d, tag>>)) <= Images!RowsQueued
PROOF
  <1>. DEFINE A == Ages(q, <<d, tag>>)
              B == 0..(Images!RowsQueued - 1)
              f == [n \in A |-> n \div 3]
  <1>1. \A n \in A : n \in Nat /\ n < Len(q) /\ n = 3 * (n \div 3) + (4 - tag)
    BY AgeTellsTag
  <1>2. f \in [A -> B]
    <2>1. ASSUME NEW n \in A PROVE n \div 3 \in B
      <3>a. n \in Nat /\ n < Len(q)
        BY <1>1
      <3>b. Len(q) \in Nat
        OBVIOUS
      <3>c. maxQueueLength \in Nat \ {0} /\ Images!RowsQueued \in Nat \ {0}
        BY Rows
      <3>1. n \in Nat /\ n <= maxQueueLength - 1
        BY <3>a, <3>b, <3>c
      <3>2. n \div 3 <= (maxQueueLength - 1) \div 3
        BY <3>1, <3>c
      <3>. QED
        BY <3>1, <3>2, <3>c, Rows
    <2>. QED
      BY <2>1
  <1>3. \A m, n \in A : f[m] = f[n] => m = n
    <2>. HIDE DEF A
    <2>. QED
      BY <1>1
  <1>4. f \in Injection(A, B)
    <2>. HIDE DEF f, A, B
    <2>. QED
      BY <1>2, <1>3, Zenon DEF Injection, IsInjective
  <1>5. IsFiniteSet(B) /\ Cardinality(B) = Images!RowsQueued
    <2>1. Images!RowsQueued \in Nat \ {0} /\ 0 <= Images!RowsQueued - 1 /\ Images!RowsQueued - 1 \in Int
      BY Rows
    <2>2. IsFiniteSet(B) /\ Cardinality(B) = (Images!RowsQueued - 1) - 0 + 1
      BY <2>1, FS_Interval
    <2>. QED
      BY <2>1, <2>2
  <1>6. Cardinality(A) <= Cardinality(B)
    <2>. HIDE DEF f, A, B
    <2>. QED
      BY <1>4, <1>5, FS_Injection, Zenon
  <1>. QED
    BY <1>5, <1>6

-----------------------------------------------------------------------------
\* cellForRow keeps the order of the queue.
LEMMA RowOrder ==
  ASSUME Images!QueueAssumption, ImagesInv, NEW c \in Cells, Images!cellForRow(c)
  PROVE  Images!TypeOK' /\ InRows(tasks')
PROOF
  <1>1. Images!TypeOK'
    <2>1. tasks' \in Seq(Cells \X Images!Tags) /\ Len(tasks') <= maxQueueLength
      BY AddRow DEF ImagesInv
    <2>2. subviews' \in [Cells -> [Images!Tags -> Nat]]
      <3>1. subviews[c] \in [Images!Tags -> Nat]
        BY DEF ImagesInv, Images!TypeOK
      <3>2. Images!Cleared(subviews[c]) \in [Images!Tags -> Nat]
        BY <3>1 DEF Images!Cleared
      <3>. QED
        BY <3>2 DEF ImagesInv, Images!TypeOK, Images!cellForRow
    <2>3. lost' \in [Cells -> SUBSET Images!Tags]
      BY DEF ImagesInv, Images!TypeOK, Images!cellForRow
    <2>4. later' \in [Cells -> 0..Images!RowsQueued]
      BY Rows DEF ImagesInv, Images!TypeOK, Images!cellForRow
    <2>5. visible' \subseteq Cells /\ reusable' \subseteq Cells \ visible'
      BY DEF ImagesInv, Images!TypeOK, Images!cellForRow
    <2>. QED
      BY <2>1, <2>2, <2>3, <2>4, <2>5 DEF Images!TypeOK
  <1>2. InRows(tasks')
    <2>. SUFFICES ASSUME NEW n \in 0..(Len(tasks') - 1)
                  PROVE  Task(tasks', n)[2] = 4 - (n % 3)
      BY DEF InRows
    <2>0. Len(tasks) \in Nat /\ Len(tasks') \in Nat
      BY AddRow DEF ImagesInv
    <2>1. n \in Nat /\ n < Len(tasks')
      BY <2>0
    <2>2. CASE n > 2
      <3>1. n - 3 < Len(tasks) /\ Task(tasks', n) = Task(tasks, n - 3)
        BY <2>1, <2>2, AddRow DEF ImagesInv
      <3>2. n - 3 \in 0..(Len(tasks) - 1)
        BY <2>0, <2>1, <2>2, <3>1
      <3>3. Task(tasks, n - 3)[2] = 4 - ((n - 3) % 3)
        BY <3>2 DEF ImagesInv, InRows
      <3>4. (n - 3) % 3 = n % 3
        BY <2>1, <2>2
      <3>. QED
        BY <3>1, <3>3, <3>4
    <2>3. CASE n \in 0..2
      <3>1. Task(tasks', n) = <<c, 4 - n>>
        BY <2>1, <2>3, AddRow DEF ImagesInv
      <3>2. n % 3 = n
        BY <2>3
      <3>. QED
        BY <3>1, <3>2
    <2>. QED
      BY <2>1, <2>2, <2>3
  <1>. QED
    BY <1>1, <1>2

\* cellForRow leaves the youngest task of a kind where its row is.
LEMMA RowYoungest ==
  ASSUME Images!QueueAssumption, ImagesInv, NEW c \in Cells, Images!cellForRow(c)
  PROVE  Youngest'
PROOF
  <1>. SUFFICES ASSUME NEW d \in Cells, NEW tag \in Images!Tags, NEW n \in Ages(tasks', <<d, tag>>),
                       later'[d] < Images!RowsQueued
                PROVE  /\ 3 * later'[d] + (4 - tag) <= n
                       /\ 3 * later'[d] + (4 - tag) \in Ages(tasks', <<d, tag>>)
    BY DEF Youngest, Since
  <1>0. tasks' \in Seq(Cells \X Images!Tags) /\ InRows(tasks') /\ Images!TypeOK
    BY RowOrder DEF Images!TypeOK, ImagesInv
  <1>1. n \in Nat /\ n < Len(tasks') /\ n >= 4 - tag /\ Len(tasks') \in Nat
    BY <1>0, AgeTellsTag
  <1>2. tag \in 2..4 /\ 4 - tag \in 0..2 /\ 4 - (4 - tag) = tag
    BY DEF Images!Tags
  <1>3. Images!RowsQueued \in Nat /\ later[d] \in Nat
    BY <1>0, Rows DEF Images!TypeOK
  <1>4. CASE d = c
    <2>1. later'[d] = 0
      BY <1>4 DEF Images!cellForRow
    <2>2. 4 - tag \in Ages(tasks', <<c, 4 - (4 - tag)>>)
      <3>1. 4 - tag < Len(tasks')
        BY <1>1, <1>2
      <3>. QED
        BY <1>0, <1>2, <3>1, RowAges
    <2>. QED
      BY <1>1, <1>2, <1>4, <2>1, <2>2
  <1>5. CASE d # c
    <2>1. later[d] < Images!RowsQueued /\ later'[d] = later[d] + 1
      BY <1>3, <1>5 DEF Images!cellForRow
    <2>2. n > 2 /\ n - 3 \in Ages(tasks, <<d, tag>>)
      BY <1>0, <1>5, RowAges
    <2>3. Since(d, tag) <= n - 3 /\ Since(d, tag) \in Ages(tasks, <<d, tag>>)
      BY <2>1, <2>2 DEF ImagesInv, Youngest
    <2>4. Since(d, tag) \in Nat /\ Since(d, tag) + 3 = 3 * later'[d] + (4 - tag)
      BY <1>2, <1>3, <2>1 DEF Since
    <2>5. Since(d, tag) + 3 <= n
      BY <1>1, <2>3, <2>4
    <2>6. Since(d, tag) + 3 \in Ages(tasks', <<d, tag>>)
      <3>1. Since(d, tag) + 3 < Len(tasks')
        BY <1>1, <2>4, <2>5
      <3>. QED
        BY <1>0, <2>3, <3>1, RowAges
    <2>. QED
      BY <2>4, <2>5, <2>6
  <1>. QED
    BY <1>4, <1>5

\* cellForRow queues the images of the cell, and drops a task only for enough later ones.
LEMMA RowImages ==
  ASSUME Images!QueueAssumption, ImagesInv, NEW c \in Cells, Images!cellForRow(c)
  PROVE  Images!ImageOrTask'
PROOF
  <1>0. /\ Images!TypeOK /\ Images!TypeOK' /\ tasks \in Seq(Cells \X Images!Tags) /\ tasks' \in Seq(Cells \X Images!Tags)
        /\ Len(tasks) \in Nat /\ Len(tasks') \in Nat
    BY RowOrder DEF Images!TypeOK, ImagesInv
  <1>1. ASSUME NEW d \in visible', NEW tag \in Images!Tags
        PROVE  subviews'[d][tag] > 0 \/ Images!InQueue(tasks', <<d, tag>>) \/ tag \in lost'[d]
    <2>1. d \in Cells
      BY <1>0 DEF Images!TypeOK
    <2>2. CASE d = c
      BY <2>1, <2>2 DEF Images!cellForRow
    <2>3. CASE d # c
      <3>1. subviews[d][tag] > 0 \/ Images!InQueue(tasks, <<d, tag>>) \/ tag \in lost[d]
        BY <2>3 DEF Images!cellForRow, ImagesInv, Images!ImageOrTask
      <3>2. subviews'[d] = subviews[d]
        BY <1>0, <2>1, <2>3 DEF Images!cellForRow, Images!TypeOK
      <3>. QED
        BY <2>1, <2>3, <3>1, <3>2 DEF Images!cellForRow
    <2>. QED
      BY <2>2, <2>3
  <1>2. ASSUME NEW d \in Cells, NEW tag \in lost'[d]
        PROVE  3 * later'[d] + (4 - tag) >= maxQueueLength
    <2>0. tag \in Images!Tags
      BY <1>0 DEF Images!TypeOK
    <2>1. tag \in Images!Tags /\ tag \in 2..4 /\ 4 - tag \in 0..2 /\ 4 - (4 - tag) = tag
      BY <2>0 DEF Images!Tags
    <2>2. later[d] \in 0..Images!RowsQueued /\ Images!RowsQueued \in Nat /\ maxQueueLength \in Nat
          /\ 3 * Images!RowsQueued >= maxQueueLength
      BY <1>0, Rows DEF Images!TypeOK
    <2>3. Len(tasks') < Len(tasks) + 3 => Len(tasks') = maxQueueLength
      BY <1>0, AddRow
    <2>4. CASE d = c
      <3>1. ~Images!InQueue(tasks', <<c, tag>>) /\ later'[c] = 0
        BY <2>4 DEF Images!cellForRow
      <3>2. 4 - tag \notin Ages(tasks', <<c, tag>>)
        BY <1>0, <3>1, AgesFacts
      <3>3. ~(4 - tag < Len(tasks'))
        BY <1>0, <2>1, <3>2, RowAges
      <3>. QED
        BY <1>0, <2>1, <2>2, <2>3, <2>4, <3>1, <3>3
    <2>5. CASE d # c
      <3>0. later'[d] = IF later[d] < Images!RowsQueued THEN later[d] + 1 ELSE later[d]
        BY <2>5 DEF Images!cellForRow
      <3>1. CASE tag \in lost[d]
        <4>1. 3 * later[d] + (4 - tag) >= maxQueueLength
          BY <3>1 DEF ImagesInv, Images!ImageOrTask
        <4>. QED
          BY <2>1, <2>2, <3>0, <4>1
      <3>2. CASE tag \notin lost[d] /\ later[d] = Images!RowsQueued
        BY <2>1, <2>2, <3>0, <3>2
      <3>3. CASE tag \notin lost[d] /\ later[d] # Images!RowsQueued
        <4>1. Images!InQueue(tasks, <<d, tag>>) /\ ~Images!InQueue(tasks', <<d, tag>>)
          BY <2>5, <3>3 DEF Images!cellForRow
        <4>2. PICK n \in Ages(tasks, <<d, tag>>) : TRUE
          BY <1>0, <4>1, AgesFacts
        <4>3. later[d] < Images!RowsQueued /\ later'[d] = later[d] + 1
          BY <2>2, <3>0, <3>3
        <4>4. Since(d, tag) \in Ages(tasks, <<d, tag>>)
          BY <2>1, <4>2, <4>3 DEF ImagesInv, Youngest
        <4>5. Since(d, tag) \in Nat /\ Since(d, tag) < Len(tasks)
              /\ Since(d, tag) + 3 = 3 * later'[d] + (4 - tag)
          <5>1. Since(d, tag) \in 0..(Len(tasks) - 1)
            BY <4>4 DEF Ages
          <5>2. Since(d, tag) + 3 = 3 * later'[d] + (4 - tag)
            BY <2>1, <2>2, <4>3 DEF Since
          <5>. QED
            BY <1>0, <5>1, <5>2
        <4>6. Since(d, tag) + 3 \notin Ages(tasks', <<d, tag>>)
          BY <1>0, <4>1, AgesFacts
        <4>7. ~(Since(d, tag) + 3 < Len(tasks'))
          BY <1>0, <2>1, <4>4, <4>6, RowAges
        <4>. QED
          BY <1>0, <2>3, <4>5, <4>7
      <3>. QED
        BY <3>1, <3>2, <3>3
    <2>. QED
      BY <2>4, <2>5
  <1>. QED
    BY <1>1, <1>2 DEF Images!ImageOrTask

\* cellForRow clears one view of each tag for the one task of that tag it queues.
LEMMA RowViews ==
  ASSUME Images!QueueAssumption, ImagesInv, NEW c \in Cells, Images!cellForRow(c)
  PROVE  Images!ViewsBounded'
PROOF
  <1>0. /\ Images!TypeOK /\ InRows(tasks') /\ tasks \in Seq(Cells \X Images!Tags) /\ tasks' \in Seq(Cells \X Images!Tags)
        /\ Len(tasks') <= maxQueueLength
    BY RowOrder DEF Images!TypeOK, ImagesInv
  <1>. SUFFICES ASSUME NEW d \in Cells, NEW tag \in Images!Tags
                PROVE  subviews'[d][tag] + Cardinality(Ages(tasks', <<d, tag>>)) <= Images!RowsQueued
    BY <1>0, AgesFacts, SameNumber DEF Images!ViewsBounded, Images!TasksOf
  <1>. DEFINE A == Ages(tasks, <<d, tag>>)
              A2 == Ages(tasks', <<d, tag>>)
              age == 4 - tag
  <1>1. subviews[d][tag] + Cardinality(A) <= Images!RowsQueued
    BY <1>0, AgesFacts, SameNumber DEF ImagesInv, Images!ViewsBounded, Images!TasksOf
  <1>2. IsFiniteSet(A) /\ Cardinality(A) \in Nat /\ IsFiniteSet(A2) /\ Cardinality(A2) \in Nat
    BY <1>0, AgesFacts
  <1>3. subviews[d][tag] \in Nat /\ Images!RowsQueued \in Nat
    BY <1>0, Rows DEF Images!TypeOK
  <1>4. A2 \in SUBSET Nat
    BY <1>0, AgeTellsTag
  <1>5. \A n \in A2 : (d = c /\ n = age) \/ n - 3 \in A
    BY <1>0, RowAges
  <1>6. Cardinality(A2) <= Images!RowsQueued
    BY <1>0, AgesBounded
  <1>7. CASE d # c
    <2>1. subviews'[d] = subviews[d]
      BY <1>0, <1>7 DEF Images!cellForRow, Images!TypeOK
    <2>. HIDE DEF A, A2, age
    <2>2. Cardinality(A2) <= Cardinality(A)
      BY <1>2, <1>4, <1>5, <1>7, Shifted
    <2>. QED
      BY <1>1, <1>2, <1>3, <2>1, <2>2 DEF A2
  <1>8. CASE d = c
    <2>1. subviews'[d][tag] = IF subviews[d][tag] > 0 THEN subviews[d][tag] - 1 ELSE 0
      BY <1>0, <1>8 DEF Images!cellForRow, Images!TypeOK, Images!Cleared
    <2>. HIDE DEF A, A2, age
    <2>2. CASE subviews[d][tag] > 0
      <3>1. IsFiniteSet(A2 \ {age}) /\ Cardinality(A2 \ {age}) \in Nat
            /\ Cardinality(A2) <= Cardinality(A2 \ {age}) + 1
        <4>1. /\ IsFiniteSet(A2 \ {age})
              /\ Cardinality(A2 \ {age}) = IF age \in A2 THEN Cardinality(A2) - 1
                                           ELSE Cardinality(A2)
          BY <1>2, FS_RemoveElement, Zenon
        <4>2. Cardinality(A2 \ {age}) \in Nat
          BY <4>1, FS_CardinalityType, Zenon
        <4>. QED
          BY <1>2, <4>1, <4>2
      <3>2. Cardinality(A2 \ {age}) <= Cardinality(A)
        BY <1>2, <1>4, <1>5, Shifted
      <3>. QED
        BY <1>1, <1>2, <1>3, <2>1, <2>2, <3>1, <3>2 DEF A2
    <2>3. CASE ~(subviews[d][tag] > 0)
      BY <1>2, <1>3, <1>6, <2>1, <2>3 DEF A2
    <2>. QED
      BY <2>2, <2>3
  <1>. QED
    BY <1>7, <1>8

-----------------------------------------------------------------------------
\* The oldest task goes, and becomes a view.
LEMMA OldestGoes ==
  ASSUME Images!TypeOK, Images!TaskCallBack
  PROVE  /\ Len(tasks) \in Nat \ {0} /\ Len(tasks') = Len(tasks) - 1
         /\ tasks' \in Seq(Cells \X Images!Tags) /\ Head(tasks) \in Cells \X Images!Tags
         /\ \A n \in 0..(Len(tasks') - 1) : Task(tasks', n) = Task(tasks, n)
         /\ \A task : Ages(tasks', task) = Ages(tasks, task) \ {Len(tasks) - 1}
         /\ \A task : Len(tasks) - 1 \in Ages(tasks, task) <=> task = Head(tasks)
         /\ \A d \in Cells, tag \in Images!Tags :
              subviews'[d][tag] = IF <<d, tag>> = Head(tasks) THEN subviews[d][tag] + 1
                                  ELSE subviews[d][tag]
PROOF
  <1>1. tasks \in Seq(Cells \X Images!Tags) /\ tasks # <<>> /\ tasks' = Tail(tasks)
    BY DEF Images!TypeOK, Images!TaskCallBack
  <1>2. /\ Len(tasks) \in Nat \ {0} /\ Len(tasks') = Len(tasks) - 1
        /\ tasks' \in Seq(Cells \X Images!Tags) /\ Head(tasks) \in Cells \X Images!Tags /\ Head(tasks) = tasks[1]
        /\ \A k \in 1..Len(tasks') : tasks'[k] = tasks[k + 1]
    BY <1>1
  <1>3. ASSUME NEW n \in 0..(Len(tasks') - 1) PROVE Task(tasks', n) = Task(tasks, n)
    <2>1. Len(tasks') - n \in 1..Len(tasks') /\ (Len(tasks') - n) + 1 = Len(tasks) - n
      BY <1>2
    <2>. QED
      BY <1>2, <2>1 DEF Task
  <1>4. Task(tasks, Len(tasks) - 1) = Head(tasks) /\ Len(tasks) - 1 \in 0..(Len(tasks) - 1)
    <2>1. Len(tasks) - (Len(tasks) - 1) = 1
      BY <1>2
    <2>. QED
      BY <1>2, <2>1 DEF Task
  <1>5. ASSUME NEW task PROVE Ages(tasks', task) = Ages(tasks, task) \ {Len(tasks) - 1}
    <2>1. 0..(Len(tasks') - 1) = (0..(Len(tasks) - 1)) \ {Len(tasks) - 1}
      BY <1>2
    <2>. QED
      BY <1>3, <2>1 DEF Ages
  <1>6. ASSUME NEW task PROVE Len(tasks) - 1 \in Ages(tasks, task) <=> task = Head(tasks)
    BY <1>4 DEF Ages
  <1>7. ASSUME NEW d \in Cells, NEW tag \in Images!Tags
        PROVE  subviews'[d][tag] = IF <<d, tag>> = Head(tasks) THEN subviews[d][tag] + 1
                                   ELSE subviews[d][tag]
    <2>. DEFINE cell == Head(tasks)[1]
                t == Head(tasks)[2]
    <2>1. subviews' = [subviews EXCEPT ![cell][t] = @ + 1]
      BY DEF Images!TaskCallBack
    <2>2. cell \in Cells /\ t \in Images!Tags /\ Head(tasks) = <<cell, t>>
      BY <1>2
    <2>3. subviews \in [Cells -> [Images!Tags -> Nat]]
      BY DEF Images!TypeOK
    <2>. HIDE DEF cell, t
    <2>. QED
      BY <2>1, <2>2, <2>3
  <1>. QED
    BY <1>2, <1>3, <1>5, <1>6, <1>7

\* TaskCallBack keeps the invariant.
LEMMA TaskKeeps ==
  ASSUME Images!QueueAssumption, ImagesInv, Images!TaskCallBack
  PROVE  ImagesInv'
PROOF
  <1>0. Images!TypeOK /\ tasks \in Seq(Cells \X Images!Tags)
    BY DEF ImagesInv, Images!TypeOK
  <1>1. Images!TypeOK'
    <2>1. tasks' \in Seq(Cells \X Images!Tags) /\ Len(tasks') <= maxQueueLength
      BY <1>0, Rows, OldestGoes DEF Images!TypeOK
    <2>2. subviews' \in [Cells -> [Images!Tags -> Nat]]
      <3>. DEFINE cell == Head(tasks)[1]
                  t == Head(tasks)[2]
      <3>1. subviews' = [subviews EXCEPT ![cell][t] = @ + 1]
        BY DEF Images!TaskCallBack
      <3>2. cell \in Cells /\ t \in Images!Tags
        BY <1>0, OldestGoes
      <3>3. subviews \in [Cells -> [Images!Tags -> Nat]]
        BY <1>0 DEF Images!TypeOK
      <3>. HIDE DEF cell, t
      <3>. QED
        BY <3>1, <3>2, <3>3
    <2>. QED
      BY <1>0, <2>1, <2>2 DEF Images!TypeOK, Images!TaskCallBack
  <1>2. InRows(tasks')
    <2>. SUFFICES ASSUME NEW n \in 0..(Len(tasks') - 1)
                  PROVE  Task(tasks', n)[2] = 4 - (n % 3)
      BY DEF InRows
    <2>1. Task(tasks', n) = Task(tasks, n) /\ n \in 0..(Len(tasks) - 1)
      BY <1>0, OldestGoes
    <2>. QED
      BY <2>1 DEF ImagesInv, InRows
  <1>3. Youngest'
    <2>. SUFFICES ASSUME NEW d \in Cells, NEW tag \in Images!Tags, NEW n \in Ages(tasks', <<d, tag>>),
                         later[d] < Images!RowsQueued
                  PROVE  Since(d, tag) <= n /\ Since(d, tag) \in Ages(tasks', <<d, tag>>)
      BY DEF Youngest, Since, Images!TaskCallBack
    <2>1. n \in Ages(tasks, <<d, tag>>) /\ n # Len(tasks) - 1
      BY <1>0, OldestGoes
    <2>2. Since(d, tag) <= n /\ Since(d, tag) \in Ages(tasks, <<d, tag>>)
      BY <2>1 DEF ImagesInv, Youngest
    <2>3. n \in 0..(Len(tasks) - 1) /\ Since(d, tag) \in 0..(Len(tasks) - 1) /\ Len(tasks) \in Nat
      BY <1>0, <2>1, <2>2 DEF Ages
    <2>4. Since(d, tag) # Len(tasks) - 1
      BY <2>1, <2>2, <2>3
    <2>. QED
      BY <1>0, <2>2, <2>4, OldestGoes
  <1>4. Images!ImageOrTask'
    <2>1. ASSUME NEW d \in visible, NEW tag \in Images!Tags
          PROVE  subviews'[d][tag] > 0 \/ Images!InQueue(tasks', <<d, tag>>) \/ tag \in lost[d]
      <3>1. d \in Cells /\ subviews[d][tag] \in Nat
        BY <1>0 DEF Images!TypeOK
      <3>2. subviews[d][tag] > 0 \/ Images!InQueue(tasks, <<d, tag>>) \/ tag \in lost[d]
        BY DEF ImagesInv, Images!ImageOrTask
      <3>3. CASE <<d, tag>> = Head(tasks)
        <4>1. subviews'[d][tag] = subviews[d][tag] + 1
          BY <1>0, <3>1, <3>3, OldestGoes
        <4>. QED
          BY <3>1, <4>1
      <3>4. CASE <<d, tag>> # Head(tasks)
        <4>1. subviews'[d][tag] = subviews[d][tag]
          BY <1>0, <3>1, <3>4, OldestGoes
        <4>2. Ages(tasks', <<d, tag>>) = Ages(tasks, <<d, tag>>)
          BY <1>0, <3>4, OldestGoes
        <4>3. tasks' \in Seq(Cells \X Images!Tags)
          BY <1>0, OldestGoes
        <4>4. Images!InQueue(tasks, <<d, tag>>) => Images!InQueue(tasks', <<d, tag>>)
          BY <1>0, <4>2, <4>3, AgesFacts
        <4>. QED
          BY <3>2, <4>1, <4>4
      <3>. QED
        BY <3>3, <3>4
    <2>2. \A d \in Cells : \A tag \in lost[d] : 3 * later[d] + (4 - tag) >= maxQueueLength
      BY DEF ImagesInv, Images!ImageOrTask
    <2>. QED
      BY <2>1, <2>2 DEF Images!ImageOrTask, Images!TaskCallBack
  <1>5. Images!ViewsBounded'
    <2>0. tasks' \in Seq(Cells \X Images!Tags)
      BY <1>0, OldestGoes
    <2>. SUFFICES ASSUME NEW d \in Cells, NEW tag \in Images!Tags
                  PROVE  subviews'[d][tag] + Cardinality(Ages(tasks', <<d, tag>>)) <= Images!RowsQueued
      BY <2>0, AgesFacts, SameNumber DEF Images!ViewsBounded, Images!TasksOf
    <2>. DEFINE A == Ages(tasks, <<d, tag>>)
                A2 == Ages(tasks', <<d, tag>>)
                oldest == Len(tasks) - 1
    <2>1. subviews[d][tag] + Cardinality(A) <= Images!RowsQueued
      BY <1>0, AgesFacts, SameNumber DEF ImagesInv, Images!ViewsBounded, Images!TasksOf
    <2>2. IsFiniteSet(A) /\ Cardinality(A) \in Nat
      BY <1>0, AgesFacts
    <2>3. subviews[d][tag] \in Nat /\ Images!RowsQueued \in Nat
      BY <1>0, Rows DEF Images!TypeOK
    <2>4. A2 = A \ {oldest}
      BY <1>0, OldestGoes
    <2>5. oldest \in A <=> <<d, tag>> = Head(tasks)
      BY <1>0, OldestGoes
    <2>6. subviews'[d][tag] = IF <<d, tag>> = Head(tasks) THEN subviews[d][tag] + 1
                              ELSE subviews[d][tag]
      BY <1>0, OldestGoes
    <2>. HIDE DEF A, A2, oldest
    <2>7. Cardinality(A \ {oldest}) = IF oldest \in A THEN Cardinality(A) - 1 ELSE Cardinality(A)
      BY <2>2, FS_RemoveElement, Zenon
    <2>8. CASE <<d, tag>> = Head(tasks)
      <3>1. Cardinality(A2) = Cardinality(A) - 1 /\ subviews'[d][tag] = subviews[d][tag] + 1
        BY <2>4, <2>5, <2>6, <2>7, <2>8
      <3>2. subviews'[d][tag] + Cardinality(A2) <= Images!RowsQueued
        BY <2>1, <2>2, <2>3, <3>1
      <3>. QED
        BY <3>2 DEF A2
    <2>9. CASE <<d, tag>> # Head(tasks)
      <3>1. Cardinality(A2) = Cardinality(A) /\ subviews'[d][tag] = subviews[d][tag]
        BY <2>4, <2>5, <2>6, <2>7, <2>9
      <3>2. subviews'[d][tag] + Cardinality(A2) <= Images!RowsQueued
        BY <2>1, <3>1
      <3>. QED
        BY <3>2 DEF A2
    <2>. QED
      BY <2>8, <2>9
  <1>. QED
    BY <1>1, <1>2, <1>3, <1>4, <1>5 DEF ImagesInv

\* What the proofs start from.
LEMMA InitKeeps ==
  ASSUME Images!QueueAssumption, Images!Init
  PROVE  ImagesInv
PROOF
  <1>1. Len(tasks) = 0 /\ tasks = <<>> /\ tasks \in Seq(Cells \X Images!Tags)
    BY DEF Images!Init
  <1>2. Images!TypeOK
    BY <1>1, Rows DEF Images!Init, Images!TypeOK
  <1>3. \A task : Ages(tasks, task) = {}
    BY <1>1 DEF Ages
  <1>4. Images!ImageOrTask
    BY DEF Images!Init, Images!ImageOrTask
  <1>5. Images!ViewsBounded
    <2>1. ASSUME NEW c \in Cells, NEW tag \in Images!Tags
          PROVE  subviews[c][tag] + Cardinality(Images!TasksOf(c, tag)) <= Images!RowsQueued
      <3>1. Images!TasksOf(c, tag) = {}
        BY <1>1 DEF Images!TasksOf
      <3>2. Cardinality(Images!TasksOf(c, tag)) = 0
        BY <3>1, FS_EmptySet
      <3>3. subviews[c][tag] = 0
        BY DEF Images!Init
      <3>. QED
        BY <3>2, <3>3, Rows
    <2>. QED
      BY <2>1, SameNumber DEF Images!ViewsBounded
  <1>. QED
    BY <1>1, <1>2, <1>3, <1>4, <1>5 DEF ImagesInv, InRows, Youngest

\* addTask, cellForRowAtIndexPath and the observer keep the invariant.
THEOREM ImagesInvariant == ASSUME Images!QueueAssumption PROVE Images!Spec => []ImagesInv
PROOF
  <1>1. Images!Init => ImagesInv
    BY InitKeeps
  <1>2. ImagesInv /\ [Images!Next]_Images!vars => ImagesInv'
    <2>. SUFFICES ASSUME ImagesInv, [Images!Next]_Images!vars PROVE ImagesInv'
      OBVIOUS
    <2>1. CASE \E c \in Cells : Images!cellForRow(c)
      BY <2>1, RowOrder, RowYoungest, RowImages, RowViews DEF ImagesInv
    <2>2. CASE \E c \in Cells : Images!EndDisplaying(c)
      <3>1. UNCHANGED <<tasks, subviews, lost, later>> /\ visible' \subseteq visible
        BY <2>2 DEF Images!EndDisplaying
      <3>2. Images!TypeOK'
        BY <2>2 DEF ImagesInv, Images!TypeOK, Images!EndDisplaying
      <3>3. InRows(tasks') /\ Youngest' /\ Images!ImageOrTask' /\ Images!ViewsBounded'
        BY <3>1 DEF ImagesInv, Youngest, Since, Images!ImageOrTask, Images!ViewsBounded, Images!TasksOf
      <3>. QED
        BY <3>2, <3>3 DEF ImagesInv
    <2>3. CASE Images!TaskCallBack
      BY <2>3, TaskKeeps
    <2>4. CASE UNCHANGED Images!vars
      BY <2>4 DEF Images!vars, ImagesInv, Images!TypeOK, Youngest, Since, Images!ImageOrTask, Images!ViewsBounded, Images!TasksOf
    <2>. QED
      BY <2>1, <2>2, <2>3, <2>4 DEF Images!Next
  <1>. QED
    BY <1>1, <1>2, PTL DEF Images!Spec

\* The steps of the image table are its own, and no other touches it.
LEMMA ImagesAlone == FairSpec => Images!Spec
PROOF
  <1>1. Init => Images!Init
    BY DEF Init
  <1>2. [Next]_vars => [Images!Next]_Images!vars
    BY DEF Next, Open, RequestsStep, ImagesStep, NetworkStep, BoundedStep, AlgorithmsStep,
           DictionaryStep, vars, images, Images!vars
  <1>. QED
    BY <1>1, <1>2, PTL DEF FairSpec, Images!Spec

\* The invariant of the image table in the application.
LEMMA ImagesKept == FairSpec => []ImagesInv
PROOF
  <1>1. Images!QueueAssumption
    BY DemosAssumption
  <1>2. Images!Spec => []ImagesInv
    BY <1>1, ImagesInvariant
  <1>. QED
    BY <1>2, ImagesAlone, PTL

\* The image table in the application: an image of a visible cell is there, queued, or dropped
\* for the tasks of later rows.
THEOREM ImageOrTaskHolds == FairSpec => []ImageOrTask
PROOF
  <1>1. ImagesInv => ImageOrTask
    BY DEF ImagesInv, ImageOrTask
  <1>. QED
    BY <1>1, ImagesKept, PTL

\* cellForRowAtIndexPath and the stale tasks: the views of a cell do not pile up.
THEOREM ViewsBoundedHolds == FairSpec => []ViewsBounded
PROOF
  <1>1. ImagesInv => ViewsBounded
    BY DEF ImagesInv, ViewsBounded
  <1>. QED
    BY <1>1, ImagesKept, PTL

-----------------------------------------------------------------------------
(***************************************************************************)
(* The dictionary, for every set of threads, keys and objects and any      *)
(* number of waiting blocks.                                               *)
(***************************************************************************)
\* The number of elements is the same in the instance.
LEMMA SameElements == \A S : Dictionary!Cardinality(S) = Cardinality(S)
PROOF
  BY DEF Dictionary!Cardinality, Cardinality

W(key, obj) == Dictionary!Item(Dictionary!Write(key, obj), TRUE)
R(t, key) == Dictionary!Item(Dictionary!Read(t, key), FALSE)
WriteItems == {W(key, obj) : key \in Keys, obj \in Objects}
ReadItems == {R(t, key) : t \in Threads, key \in Keys}
DictionaryItems == WriteItems \union ReadItems

\* What a block on the queue is known by.
LEMMA ItemFacts ==
  /\ \A key \in Keys, obj \in Objects :
       /\ W(key, obj) \in WriteItems /\ W(key, obj).barrier = TRUE /\ W(key, obj).work = Dictionary!Write(key, obj)
       /\ Dictionary!Write(key, obj).op = "set" /\ Dictionary!Write(key, obj).key = key /\ Dictionary!Write(key, obj).obj = obj
  /\ \A t \in Threads, key \in Keys :
       /\ R(t, key) \in ReadItems /\ R(t, key).barrier = FALSE /\ R(t, key).work = Dictionary!Read(t, key)
       /\ Dictionary!Read(t, key).op = "get" /\ Dictionary!Read(t, key).key = key /\ Dictionary!Read(t, key).thread = t
PROOF
  <1>1. ASSUME NEW key \in Keys, NEW obj \in Objects
        PROVE  /\ W(key, obj) \in WriteItems /\ W(key, obj).barrier = TRUE /\ W(key, obj).work = Dictionary!Write(key, obj)
               /\ Dictionary!Write(key, obj).op = "set" /\ Dictionary!Write(key, obj).key = key /\ Dictionary!Write(key, obj).obj = obj
    <2>1. W(key, obj) \in WriteItems
      BY DEF WriteItems
    <2>2. W(key, obj).barrier = TRUE /\ W(key, obj).work = Dictionary!Write(key, obj)
      BY DEF W, Dictionary!Item
    <2>. QED
      BY <2>1, <2>2 DEF Dictionary!Write
  <1>2. ASSUME NEW t \in Threads, NEW key \in Keys
        PROVE  /\ R(t, key) \in ReadItems /\ R(t, key).barrier = FALSE /\ R(t, key).work = Dictionary!Read(t, key)
               /\ Dictionary!Read(t, key).op = "get" /\ Dictionary!Read(t, key).key = key /\ Dictionary!Read(t, key).thread = t
    <2>1. R(t, key) \in ReadItems
      BY DEF ReadItems
    <2>2. R(t, key).barrier = FALSE /\ R(t, key).work = Dictionary!Read(t, key)
      BY DEF R, Dictionary!Item
    <2>. QED
      BY <2>1, <2>2 DEF Dictionary!Read
  <1>. QED
    BY <1>1, <1>2

\* What a block that writes is.
LEMMA WriteItem ==
  ASSUME NEW x \in WriteItems
  PROVE  /\ x.barrier = TRUE /\ x.work.op = "set" /\ x.work.key \in Keys /\ x.work.obj \in Objects
         /\ x = W(x.work.key, x.work.obj) /\ x.work = Dictionary!Write(x.work.key, x.work.obj)
         /\ x \notin ReadItems
PROOF
  <1>1. PICK key \in Keys, obj \in Objects : x = W(key, obj)
    BY DEF WriteItems
  <1>2. x.work = Dictionary!Write(key, obj) /\ x.work.op = "set" /\ x.work.key = key /\ x.work.obj = obj /\ x.barrier = TRUE
    BY <1>1, ItemFacts
  <1>3. ASSUME x \in ReadItems PROVE FALSE
    <2>1. PICK t \in Threads, k \in Keys : x = R(t, k)
      BY <1>3 DEF ReadItems
    <2>2. x.work.op = "get"
      BY <2>1, ItemFacts
    <2>. QED
      BY <1>2, <2>2
  <1>. QED
    BY <1>1, <1>2, <1>3

\* What a block that reads is.
LEMMA ReadItem ==
  ASSUME NEW x \in ReadItems
  PROVE  /\ x.barrier = FALSE /\ x.work.op = "get" /\ x.work.key \in Keys /\ x.work.thread \in Threads
         /\ x = R(x.work.thread, x.work.key) /\ x.work = Dictionary!Read(x.work.thread, x.work.key)
PROOF
  <1>1. PICK t \in Threads, key \in Keys : x = R(t, key)
    BY DEF ReadItems
  <1>2. x.work = Dictionary!Read(t, key) /\ x.work.op = "get" /\ x.work.key = key /\ x.work.thread = t /\ x.barrier = FALSE
    BY <1>1, ItemFacts
  <1>. QED
    BY <1>1, <1>2
\* A block is known by its work.
LEMMA SameItem ==
  ASSUME NEW x \in DictionaryItems
  PROVE  /\ \A key \in Keys, obj \in Objects : x.work = Dictionary!Write(key, obj) <=> x = W(key, obj)
         /\ \A t \in Threads, key \in Keys : x.work = Dictionary!Read(t, key) <=> x = R(t, key)
PROOF
  <1>1. ASSUME NEW key \in Keys, NEW obj \in Objects, x.work = Dictionary!Write(key, obj) PROVE x = W(key, obj)
    <2>1. x.work.op = "set" /\ x.work.key = key /\ x.work.obj = obj
      BY <1>1, ItemFacts
    <2>2. x \in WriteItems
      <3>1. x \in ReadItems => x.work.op = "get"
        BY ReadItem
      <3>. QED
        BY <2>1, <3>1 DEF DictionaryItems
    <2>3. x = W(x.work.key, x.work.obj)
      BY <2>2, WriteItem
    <2>. QED
      BY <2>1, <2>3
  <1>2. ASSUME NEW t \in Threads, NEW key \in Keys, x.work = Dictionary!Read(t, key) PROVE x = R(t, key)
    <2>1. x.work.op = "get" /\ x.work.key = key /\ x.work.thread = t
      BY <1>2, ItemFacts
    <2>2. x \in ReadItems
      <3>1. x \in WriteItems => x.work.op = "set"
        BY WriteItem
      <3>. QED
        BY <2>1, <3>1 DEF DictionaryItems
    <2>3. x = R(x.work.thread, x.work.key)
      BY <2>2, ReadItem
    <2>. QED
      BY <2>1, <2>3
  <1>. QED
    BY <1>1, <1>2, ItemFacts
-----------------------------------------------------------------------------
(***************************************************************************)
(* The contents of the dictionary, with the queue and the entries as       *)
(* parameters: its the blocks that wait, run the write that runs, if any.  *)
(***************************************************************************)
Sets(its, key, n) == {z \in 1..n : its[z].work.op = "set" /\ its[z].work.key = key}

Value(its, run, dic, key, n) ==
  IF Sets(its, key, n) # {}
    THEN LET last == CHOOSE z \in Sets(its, key, n) : \A j \in Sets(its, key, n) : j <= z
         IN its[last].work.obj
    ELSE IF \E z \in run : z.work.key = key
      THEN (CHOOSE z \in run : z.work.key = key).work.obj
      ELSE dic[key]

\* Eventually, with its state as parameters.
LEMMA EventuallyIsValue ==
  ASSUME NEW key, NEW n
  PROVE  /\ Dictionary!Eventually(key, n) = Value(synchronizationQueue.items, Dictionary!RunningWrites, userCenterDic, key, n)
         /\ Dictionary!Eventually(key, n)' = Value(synchronizationQueue'.items, Dictionary!RunningWrites', userCenterDic', key, n)
PROOF
  BY DEF Dictionary!Eventually, Dictionary!Before, Value, Sets

\* Of some places in a sequence one is the last.
LEMMA LastExists ==
  ASSUME NEW n \in Nat, NEW B, B \subseteq 1..n, B # {}
  PROVE  \E m \in B : \A j \in B : j <= m
PROOF
  <1>. DEFINE D == {n - j : j \in B}
  <1>1. D \subseteq Nat /\ D # {}
    <2>1. \A j \in B : j \in 1..n /\ n - j \in Nat
      OBVIOUS
    <2>2. D # {}
      OBVIOUS
    <2>. QED
      BY <2>1, <2>2
  <1>2. PICK d \in D : \A e \in D : ~(<<e, d>> \in OpToRel(<, Nat))
    <2>. HIDE DEF D
    <2>. QED
      BY <1>1, WFMin, NatLessThanWellFounded
  <1>3. \A e \in D : ~(e < d)
    BY <1>1, <1>2 DEF OpToRel
  <1>4. PICK m \in B : d = n - m
    OBVIOUS
  <1>5. ASSUME NEW j \in B PROVE j <= m
    <2>1. n - j \in D /\ j \in Nat /\ m \in Nat
      OBVIOUS
    <2>2. ~(n - j < n - m)
      BY <1>3, <1>4, <2>1
    <2>. QED
      BY <2>1, <2>2
  <1>. QED
    BY <1>5

\* The last write of the key is what counts.
LEMMA ValueOfLast ==
  ASSUME NEW its, NEW run, NEW dic, NEW key, NEW n \in Nat,
         NEW m \in Sets(its, key, n), \A j \in Sets(its, key, n) : j <= m
  PROVE  Value(its, run, dic, key, n) = its[m].work.obj
PROOF
  <1>. DEFINE B == Sets(its, key, n)
              last == CHOOSE z \in B : \A j \in B : j <= z
  <1>1. last \in B /\ \A j \in B : j <= last
    <2>1. \E z \in B : \A j \in B : j <= z
      OBVIOUS
    <2>. HIDE DEF B
    <2>. QED
      BY <2>1, Zenon
  <1>2. B \subseteq Nat
    BY DEF Sets
  <1>3. last = m
    BY <1>1, <1>2
  <1>. QED
    BY <1>3 DEF Value

\* Where sequences have the same writes, they have the same value.
LEMMA SameValue ==
  ASSUME NEW its, NEW its2, NEW run, NEW dic, NEW key, NEW n \in Nat, NEW n2 \in Nat,
         Sets(its2, key, n2) = Sets(its, key, n), \A j \in Sets(its, key, n) : its2[j] = its[j]
  PROVE  Value(its2, run, dic, key, n2) = Value(its, run, dic, key, n)
PROOF
  <1>1. CASE Sets(its, key, n) = {}
    BY <1>1 DEF Value
  <1>2. CASE Sets(its, key, n) # {}
    <2>1. Sets(its, key, n) \subseteq 1..n
      BY DEF Sets
    <2>2. PICK m \in Sets(its, key, n) : \A j \in Sets(its, key, n) : j <= m
      BY <1>2, <2>1, LastExists
    <2>3. Value(its, run, dic, key, n) = its[m].work.obj
      BY <2>2, ValueOfLast
    <2>4. Value(its2, run, dic, key, n2) = its2[m].work.obj
      BY <2>2, ValueOfLast
    <2>. QED
      BY <2>2, <2>3, <2>4
  <1>. QED
    BY <1>1, <1>2

\* A block comes to the end of the queue.
LEMMA ValueAppended ==
  ASSUME NEW its \in Seq(DictionaryItems), NEW run, NEW dic, NEW x \in DictionaryItems, NEW key \in Keys
  PROVE  /\ Len(its) \in Nat /\ Len(Append(its, x)) = Len(its) + 1
         /\ \A n \in 0..Len(its) : Value(Append(its, x), run, dic, key, n) = Value(its, run, dic, key, n)
         /\ Value(Append(its, x), run, dic, key, Len(its) + 1) =
              IF x.work.op = "set" /\ x.work.key = key THEN x.work.obj ELSE Value(its, run, dic, key, Len(its))
PROOF
  <1>. DEFINE its2 == Append(its, x)
              l == Len(its)
  <1>1. l \in Nat /\ Len(its2) = l + 1 /\ its2[l + 1] = x /\ \A j \in 1..l : its2[j] = its[j]
    OBVIOUS
  <1>. HIDE DEF its2, l
  <1>2. ASSUME NEW n \in 0..l PROVE Value(its2, run, dic, key, n) = Value(its, run, dic, key, n)
    <2>1. \A j \in 1..n : its2[j] = its[j]
      BY <1>1
    <2>2. Sets(its2, key, n) = Sets(its, key, n) /\ Sets(its, key, n) \subseteq 1..n
      BY <2>1 DEF Sets
    <2>3. n \in Nat
      BY <1>1
    <2>. QED
      BY <2>1, <2>2, <2>3, SameValue
  <1>3. CASE x.work.op = "set" /\ x.work.key = key
    <2>1. l + 1 \in Sets(its2, key, l + 1) /\ \A j \in Sets(its2, key, l + 1) : j <= l + 1
      BY <1>1, <1>3 DEF Sets
    <2>2. Value(its2, run, dic, key, l + 1) = its2[l + 1].work.obj
      BY <1>1, <2>1, ValueOfLast
    <2>. QED
      BY <1>1, <1>2, <1>3, <2>2 DEF its2, l
  <1>4. CASE ~(x.work.op = "set" /\ x.work.key = key)
    <2>1. Sets(its2, key, l + 1) = Sets(its, key, l) /\ Sets(its, key, l) \subseteq 1..l
      BY <1>1, <1>4 DEF Sets
    <2>2. l + 1 \in Nat
      BY <1>1
    <2>3. Value(its2, run, dic, key, l + 1) = Value(its, run, dic, key, l)
      BY <1>1, <2>1, <2>2, SameValue
    <2>. QED
      BY <1>1, <1>2, <1>4, <2>3 DEF its2, l
  <1>. QED
    BY <1>3, <1>4

\* The head of the queue begins to run: a write does so when no other runs.
LEMMA ValueTaken ==
  ASSUME NEW its \in Seq(DictionaryItems), its # <<>>, NEW dic, NEW key \in Keys, NEW n \in 1..Len(its)
  PROVE  Value(Tail(its), IF Head(its) \in WriteItems THEN {Head(its)} ELSE {}, dic, key, n - 1)
           = Value(its, {}, dic, key, n)
PROOF
  <1>. DEFINE tl == Tail(its)
              B == Sets(its, key, n)
              B2 == Sets(tl, key, n - 1)
  <1>1. /\ Len(its) \in Nat /\ n \in Nat /\ n - 1 \in Nat /\ Head(its) = its[1] /\ its[1] \in DictionaryItems
        /\ \A j \in 1..(n - 1) : tl[j] = its[j + 1]
    OBVIOUS
  <1>. HIDE DEF tl
  <1>2. B \subseteq 1..n /\ B2 \subseteq 1..(n - 1)
    BY DEF Sets
  <1>3. \A j \in 1..(n - 1) : j \in B2 <=> j + 1 \in B
    BY <1>1 DEF Sets
  <1>4. 1 \in B <=> its[1] \in WriteItems /\ its[1].work.key = key
    <2>1. 1 \in 1..n
      BY <1>1
    <2>2. its[1].work.op = "set" <=> its[1] \in WriteItems
      BY <1>1, WriteItem, ReadItem DEF DictionaryItems
    <2>. QED
      BY <2>1, <2>2 DEF Sets
  <1>. HIDE DEF B, B2
  <1>5. CASE B2 # {}
    <2>1. PICK m \in B2 : \A j \in B2 : j <= m
      BY <1>1, <1>2, <1>5, LastExists
    <2>2. m \in 1..(n - 1) /\ m + 1 \in B
      BY <1>2, <1>3, <2>1
    <2>3. ASSUME NEW j \in B PROVE j <= m + 1
      <3>1. CASE j = 1
        BY <2>2, <3>1
      <3>2. CASE j # 1
        <4>1. j - 1 \in 1..(n - 1) /\ (j - 1) + 1 = j
          BY <1>1, <1>2, <3>2
        <4>2. j - 1 \in B2
          BY <1>3, <4>1
        <4>3. j - 1 <= m
          BY <2>1, <4>2
        <4>. QED
          BY <2>2, <4>1, <4>3
      <3>. QED
        BY <3>1, <3>2
    <2>4. Value(its, {}, dic, key, n) = its[m + 1].work.obj
      BY <1>1, <2>2, <2>3, ValueOfLast DEF B
    <2>5. Value(tl, IF Head(its) \in WriteItems THEN {Head(its)} ELSE {}, dic, key, n - 1) = tl[m].work.obj
      BY <1>1, <2>1, ValueOfLast DEF B2
    <2>. QED
      BY <1>1, <2>2, <2>4, <2>5 DEF tl
  <1>6. CASE B2 = {}
    <2>1. \A j \in B : j = 1
      <3>1. ASSUME NEW j \in B, j # 1 PROVE FALSE
        <4>1. j - 1 \in 1..(n - 1) /\ (j - 1) + 1 = j
          BY <1>1, <1>2, <3>1
        <4>. QED
          BY <1>3, <1>6, <4>1
      <3>. QED
        BY <3>1
    <2>2. CASE 1 \in B
      <3>1. Value(its, {}, dic, key, n) = its[1].work.obj
        BY <1>1, <2>1, <2>2, ValueOfLast DEF B
      <3>2. Value(tl, {its[1]}, dic, key, n - 1) = its[1].work.obj
        BY <1>4, <1>6, <2>2 DEF Value, B2
      <3>. QED
        BY <1>1, <1>4, <2>2, <3>1, <3>2 DEF tl
    <2>3. CASE 1 \notin B
      <3>1. B = {}
        BY <2>1, <2>3
      <3>2. Value(its, {}, dic, key, n) = dic[key]
        BY <3>1 DEF Value, B
      <3>3. Value(tl, IF Head(its) \in WriteItems THEN {Head(its)} ELSE {}, dic, key, n - 1) = dic[key]
        BY <1>1, <1>4, <1>6, <2>3 DEF Value, B2
      <3>. QED
        BY <3>2, <3>3 DEF tl
    <2>. QED
      BY <2>2, <2>3
  <1>. QED
    BY <1>5, <1>6

\* A write that runs stands for the entry, whatever that holds; and it leaves its object there.
LEMMA ValueWritten ==
  ASSUME NEW its, NEW dic, NEW dic2, NEW k \in Keys, NEW o \in Objects, NEW key \in Keys, NEW n,
         \A j \in Keys : j # k => dic2[j] = dic[j]
  PROVE  /\ Value(its, {W(k, o)}, dic2, key, n) = Value(its, {W(k, o)}, dic, key, n)
         /\ dic2[k] = o => Value(its, {}, dic2, key, n) = Value(its, {W(k, o)}, dic, key, n)
PROOF
  <1>1. W(k, o).work.key = k /\ W(k, o).work.obj = o
    BY ItemFacts
  <1>2. CASE key = k
    BY <1>1, <1>2 DEF Value
  <1>3. CASE key # k
    BY <1>1, <1>3 DEF Value
  <1>. QED
    BY <1>2, <1>3
-----------------------------------------------------------------------------
Its == synchronizationQueue.items
Run == synchronizationQueue.running

DictionaryTypes ==
  /\ userCenterDic \in [Keys -> Objects \union {Nil, Torn}]
  /\ synchronizationQueue \in [items : Seq(DictionaryItems), running : SUBSET DictionaryItems]
  /\ temp \in [Threads -> Objects \union {Nil}]
  /\ reader_pc \in [Threads -> {"idle", "sync", "return"}]

\* A write runs alone, and an entry is torn only while a write of it runs.
WriterAlone == /\ \A x \in Run : x \in WriteItems => Run = {x}
               /\ \A key \in Keys : userCenterDic[key] = Torn => \E obj \in Objects : W(key, obj) \in Run

\* The reads of a thread that wait, and those that run.
Queued(t) == {z \in 1..Len(Its) : \E key \in Keys : Its[z].work = Dictionary!Read(t, key)}
RunKeys(t) == {key \in Keys : R(t, key) \in Run}

\* A thread in dispatch_sync has one block in one place of the queue; any other has none that waits.
ReadPlace(t) ==
  /\ reader_pc[t] = "idle" => Queued(t) = {} /\ RunKeys(t) = {}
  /\ reader_pc[t] = "return" => Queued(t) = {} /\ \E key \in Keys : RunKeys(t) = {key}
  /\ reader_pc[t] = "sync" => \/ RunKeys(t) = {} /\ \E z \in 1..Len(Its) : Queued(t) = {z}
                              \/ Queued(t) = {} /\ \E key \in Keys : RunKeys(t) = {key}

(***************************************************************************)
(* The inductive invariant.  That a read finds no torn entry needs that    *)
(* writes run alone; and that it answers what was promised, that its block *)
(* is in one place.                                                        *)
(***************************************************************************)
DictionaryInv == DictionaryTypes /\ WriterAlone /\ \A t \in Threads : ReadPlace(t)

\* The blocks that run, by what they do.
LEMMA RunningItems ==
  ASSUME DictionaryTypes
  PROVE  /\ \A key \in Keys, obj \in Objects :
              /\ Dictionary!Running(synchronizationQueue, Dictionary!Write(key, obj)) <=> W(key, obj) \in Run
              /\ Dictionary!Done(synchronizationQueue, Dictionary!Write(key, obj)).items = Its
              /\ Dictionary!Done(synchronizationQueue, Dictionary!Write(key, obj)).running = Run \ {W(key, obj)}
         /\ \A t \in Threads, key \in Keys :
              /\ Dictionary!Running(synchronizationQueue, Dictionary!Read(t, key)) <=> R(t, key) \in Run
              /\ Dictionary!Done(synchronizationQueue, Dictionary!Read(t, key)).items = Its
              /\ Dictionary!Done(synchronizationQueue, Dictionary!Read(t, key)).running = Run \ {R(t, key)}
PROOF
  <1>0. Run \subseteq DictionaryItems /\ synchronizationQueue = [items |-> Its, running |-> Run]
    BY DEF DictionaryTypes, Run, Its
  <1>1. ASSUME NEW key \in Keys, NEW obj \in Objects, NEW x \in Run
        PROVE  x.work = Dictionary!Write(key, obj) <=> x = W(key, obj)
    BY <1>0, SameItem
  <1>2. ASSUME NEW t \in Threads, NEW key \in Keys, NEW x \in Run
        PROVE  x.work = Dictionary!Read(t, key) <=> x = R(t, key)
    BY <1>0, SameItem
  <1>3. ASSUME NEW work
        PROVE  /\ Dictionary!Running(synchronizationQueue, work) <=> \E x \in Run : x.work = work
               /\ Dictionary!Done(synchronizationQueue, work).items = Its
               /\ Dictionary!Done(synchronizationQueue, work).running = {x \in Run : x.work # work}
    BY <1>0 DEF Dictionary!Running, Dictionary!Done, Run
  <1>4. ASSUME NEW key \in Keys, NEW obj \in Objects
        PROVE  /\ Dictionary!Running(synchronizationQueue, Dictionary!Write(key, obj)) <=> W(key, obj) \in Run
               /\ Dictionary!Done(synchronizationQueue, Dictionary!Write(key, obj)).items = Its
               /\ Dictionary!Done(synchronizationQueue, Dictionary!Write(key, obj)).running = Run \ {W(key, obj)}
    <2>1. {x \in Run : x.work # Dictionary!Write(key, obj)} = Run \ {W(key, obj)}
      BY <1>1
    <2>2. (\E x \in Run : x.work = Dictionary!Write(key, obj)) <=> W(key, obj) \in Run
      BY <1>1
    <2>. QED
      BY <1>3, <2>1, <2>2
  <1>5. ASSUME NEW t \in Threads, NEW key \in Keys
        PROVE  /\ Dictionary!Running(synchronizationQueue, Dictionary!Read(t, key)) <=> R(t, key) \in Run
               /\ Dictionary!Done(synchronizationQueue, Dictionary!Read(t, key)).items = Its
               /\ Dictionary!Done(synchronizationQueue, Dictionary!Read(t, key)).running = Run \ {R(t, key)}
    <2>1. {x \in Run : x.work # Dictionary!Read(t, key)} = Run \ {R(t, key)}
      BY <1>2
    <2>2. (\E x \in Run : x.work = Dictionary!Read(t, key)) <=> R(t, key) \in Run
      BY <1>2
    <2>. QED
      BY <1>3, <2>1, <2>2
  <1>. QED
    BY <1>4, <1>5

\* What the actions do to the queue.
Appends(x) == Its' = Append(Its, x) /\ Run' = Run
Takes == /\ Its # <<>> /\ Its' = Tail(Its) /\ Run' = Run \union {Head(Its)}
         /\ \A x \in Run : x \notin WriteItems
         /\ Head(Its) \in WriteItems => Run = {}
Ends(x) == x \in Run /\ Its' = Its /\ Run' = Run \ {x}

\* Each action of the code does one of these to the queue.
LEMMA QueueMoves ==
  ASSUME DictionaryTypes
  PROVE  /\ \A t \in Threads, key \in Keys, obj \in Objects : Dictionary!setSafeObject(t, key, obj) => Appends(W(key, obj))
         /\ \A t \in Threads, key \in Keys : Dictionary!safeObjectForKey(t, key) => Appends(R(t, key))
         /\ Dictionary!StartBlock => Takes
         /\ \A key \in Keys, obj \in Objects : /\ Dictionary!SetBegins(key, obj) => W(key, obj) \in Run
                                               /\ Dictionary!SetEnds(key, obj) => Ends(W(key, obj))
         /\ \A t \in Threads, key \in Keys : /\ Dictionary!ReadBlock(t, key) => R(t, key) \in Run
                                             /\ Dictionary!ReadReturns(t, key) => Ends(R(t, key))
PROOF
  <1>0. Run \subseteq DictionaryItems /\ Its \in Seq(DictionaryItems) /\ synchronizationQueue = [items |-> Its, running |-> Run]
    BY DEF DictionaryTypes, Run, Its
  <1>1. ASSUME NEW t \in Threads, NEW key \in Keys, NEW obj \in Objects, Dictionary!setSafeObject(t, key, obj)
        PROVE  Appends(W(key, obj))
    <2>1. synchronizationQueue' = [synchronizationQueue EXCEPT !.items = Append(@, W(key, obj))]
      BY <1>1 DEF Dictionary!setSafeObject, Dictionary!BarrierAsync, W
    <2>. QED
      BY <1>0, <2>1 DEF Appends, Its, Run
  <1>2. ASSUME NEW t \in Threads, NEW key \in Keys, Dictionary!safeObjectForKey(t, key)
        PROVE  Appends(R(t, key))
    <2>1. synchronizationQueue' = [synchronizationQueue EXCEPT !.items = Append(@, R(t, key))]
      BY <1>2 DEF Dictionary!safeObjectForKey, Dictionary!Async, R
    <2>. QED
      BY <1>0, <2>1 DEF Appends, Its, Run
  <1>3. ASSUME Dictionary!StartBlock PROVE Takes
    <2>1. /\ Its # <<>> /\ synchronizationQueue' = [items |-> Tail(Its), running |-> Run \union {Head(Its)}]
          /\ \A x \in Run : ~x.barrier /\ ~Head(Its).barrier
      BY <1>3 DEF Dictionary!StartBlock, Dictionary!CanStart, Dictionary!Start, Its, Run
    <2>2. Its' = Tail(Its) /\ Run' = Run \union {Head(Its)}
      BY <2>1 DEF Its, Run
    <2>3. \A x \in WriteItems : x.barrier = TRUE
      BY WriteItem
    <2>. QED
      BY <2>1, <2>2, <2>3 DEF Takes
  <1>4. ASSUME NEW key \in Keys, NEW obj \in Objects
        PROVE  /\ Dictionary!SetBegins(key, obj) => W(key, obj) \in Run
               /\ Dictionary!SetEnds(key, obj) => Ends(W(key, obj))
    BY RunningItems DEF Dictionary!SetBegins, Dictionary!SetEnds, Ends, Its, Run
  <1>5. ASSUME NEW t \in Threads, NEW key \in Keys
        PROVE  /\ Dictionary!ReadBlock(t, key) => R(t, key) \in Run
               /\ Dictionary!ReadReturns(t, key) => Ends(R(t, key))
    BY RunningItems DEF Dictionary!ReadBlock, Dictionary!ReadReturns, Ends, Its, Run
  <1>. QED
    BY <1>1, <1>2, <1>3, <1>4, <1>5
-----------------------------------------------------------------------------
\* The places in the queue of the reads of t, when a block comes, and when one begins to run.
LEMMA QueuedAppended ==
  ASSUME Its \in Seq(DictionaryItems), NEW x \in DictionaryItems, Appends(x), NEW t \in Threads
  PROVE  /\ RunKeys(t)' = RunKeys(t)
         /\ Len(Its) \in Nat /\ Len(Its') = Len(Its) + 1
         /\ (\E key \in Keys : x = R(t, key)) => Queued(t)' = Queued(t) \union {Len(Its) + 1}
         /\ ~(\E key \in Keys : x = R(t, key)) => Queued(t)' = Queued(t)
PROOF
  <1>. DEFINE l == Len(Its)
              IsRead(y) == \E key \in Keys : y.work = Dictionary!Read(t, key)
  <1>1. /\ l \in Nat /\ Len(Its') = l + 1 /\ Its'[l + 1] = x
        /\ \A j \in 1..l : Its'[j] = Its[j]
        /\ Run' = Run
    BY DEF Appends
  <1>2. IsRead(x) <=> \E key \in Keys : x = R(t, key)
    BY SameItem
  <1>3. Queued(t) = {j \in 1..l : IsRead(Its[j])} /\ Queued(t)' = {j \in 1..(l + 1) : IsRead(Its'[j])}
    BY <1>1 DEF Queued
  <1>4. RunKeys(t)' = RunKeys(t)
    BY <1>1 DEF RunKeys
  <1>. HIDE DEF l, IsRead
  <1>5. IsRead(x) => Queued(t)' = Queued(t) \union {l + 1}
    BY <1>1, <1>3
  <1>6. ~IsRead(x) => Queued(t)' = Queued(t)
    BY <1>1, <1>3
  <1>. QED
    BY <1>1, <1>2, <1>4, <1>5, <1>6 DEF l

\* The places move up by one; a read at the head begins to run.
LEMMA QueuedTaken ==
  ASSUME Its \in Seq(DictionaryItems), Takes, NEW t \in Threads
  PROVE  /\ Len(Its) \in Nat /\ Len(Its') = Len(Its) - 1 /\ 1 \in 1..Len(Its)
         /\ Head(Its) = Its[1] /\ Its[1] \in DictionaryItems
         /\ \A j \in 1..Len(Its') : Its'[j] = Its[j + 1]
         /\ \A j \in Nat : j \in Queued(t)' <=> j > 0 /\ j + 1 \in Queued(t)
         /\ Queued(t) \subseteq 1..Len(Its) /\ Queued(t)' \subseteq 1..Len(Its')
         /\ 1 \in Queued(t) <=> \E key \in Keys : Head(Its) = R(t, key)
         /\ \A key \in Keys : key \in RunKeys(t)' <=> key \in RunKeys(t) \/ Head(Its) = R(t, key)
PROOF
  <1>. DEFINE l == Len(Its)
              IsRead(y) == \E key \in Keys : y.work = Dictionary!Read(t, key)
  <1>1. /\ l \in Nat /\ Len(Its') = l - 1 /\ 1 \in 1..l /\ Head(Its) = Its[1] /\ Its[1] \in DictionaryItems
        /\ \A j \in 1..(l - 1) : Its'[j] = Its[j + 1]
        /\ Run' = Run \union {Its[1]}
    BY DEF Takes
  <1>2. IsRead(Its[1]) <=> \E key \in Keys : Its[1] = R(t, key)
    BY <1>1, SameItem
  <1>3. Queued(t) = {j \in 1..l : IsRead(Its[j])} /\ Queued(t)' = {j \in 1..(l - 1) : IsRead(Its'[j])}
    BY <1>1 DEF Queued
  <1>4. \A key \in Keys : key \in RunKeys(t)' <=> key \in RunKeys(t) \/ Its[1] = R(t, key)
    BY <1>1 DEF RunKeys
  <1>. HIDE DEF l, IsRead
  <1>5. ASSUME NEW j \in Nat PROVE j \in Queued(t)' <=> j > 0 /\ j + 1 \in Queued(t)
    <2>1. j \in 1..(l - 1) <=> j > 0 /\ j + 1 \in 1..l
      BY <1>1
    <2>. QED
      BY <1>1, <1>3, <2>1
  <1>6. 1 \in Queued(t) <=> IsRead(Its[1])
    BY <1>1, <1>3
  <1>7. Queued(t) \subseteq 1..l /\ Queued(t)' \subseteq 1..(l - 1)
    BY <1>3
  <1>. QED
    BY <1>1, <1>2, <1>4, <1>5, <1>6, <1>7 DEF l

\* A step keeps the types; that a read finds no torn entry needs that writes run alone.
LEMMA DictionaryTypesStep ==
  ASSUME Torn \notin Objects, Torn # Nil, DictionaryInv, [Dictionary!Next]_dictionary
  PROVE  DictionaryTypes'
PROOF
  <1>0. DictionaryTypes /\ WriterAlone /\ Its \in Seq(DictionaryItems) /\ Run \subseteq DictionaryItems
    BY DEF DictionaryInv, DictionaryTypes, Its, Run
  <1>a. ASSUME Its' \in Seq(DictionaryItems), Run' \subseteq DictionaryItems,
               synchronizationQueue' = [items |-> Its', running |-> Run']
        PROVE  synchronizationQueue' \in [items : Seq(DictionaryItems), running : SUBSET DictionaryItems]
    BY <1>a
  <1>b. synchronizationQueue = [items |-> Its, running |-> Run]
    BY <1>0 DEF DictionaryTypes, Its, Run
  <1>c. /\ \A key \in Keys, obj \in Objects : W(key, obj) \in DictionaryItems
        /\ \A t \in Threads, key \in Keys : R(t, key) \in DictionaryItems
    BY ItemFacts DEF DictionaryItems
  <1>1. CASE UNCHANGED dictionary
    BY <1>0, <1>1 DEF dictionary, DictionaryTypes
  <1>2. ASSUME NEW t \in Threads, NEW key \in Keys, NEW obj \in Objects, Dictionary!setSafeObject(t, key, obj)
        PROVE  DictionaryTypes'
    <2>1. Appends(W(key, obj)) /\ UNCHANGED <<userCenterDic, temp, reader_pc>>
      BY <1>0, <1>2, QueueMoves DEF Dictionary!setSafeObject
    <2>2. synchronizationQueue' = [items |-> Its', running |-> Run']
      BY <1>2, <1>b DEF Dictionary!setSafeObject, Dictionary!BarrierAsync, Its, Run
    <2>3. Its' \in Seq(DictionaryItems) /\ Run' \subseteq DictionaryItems
      BY <1>0, <1>c, <2>1 DEF Appends
    <2>. QED
      BY <1>0, <1>a, <2>1, <2>2, <2>3 DEF DictionaryTypes
  <1>3. ASSUME NEW t \in Threads, NEW key \in Keys, Dictionary!safeObjectForKey(t, key) PROVE DictionaryTypes'
    <2>1. /\ Appends(R(t, key)) /\ UNCHANGED userCenterDic
          /\ temp' = [temp EXCEPT ![t] = Nil] /\ reader_pc' = [reader_pc EXCEPT ![t] = "sync"]
      BY <1>0, <1>3, QueueMoves DEF Dictionary!safeObjectForKey
    <2>2. synchronizationQueue' = [items |-> Its', running |-> Run']
      BY <1>3, <1>b DEF Dictionary!safeObjectForKey, Dictionary!Async, Its, Run
    <2>3. Its' \in Seq(DictionaryItems) /\ Run' \subseteq DictionaryItems
      BY <1>0, <1>c, <2>1 DEF Appends
    <2>. QED
      BY <1>0, <1>a, <2>1, <2>2, <2>3 DEF DictionaryTypes
  <1>4. CASE Dictionary!StartBlock
    <2>1. Takes /\ UNCHANGED <<userCenterDic, temp, reader_pc>>
      BY <1>0, <1>4, QueueMoves DEF Dictionary!StartBlock
    <2>2. synchronizationQueue' = [items |-> Its', running |-> Run']
      BY <1>4 DEF Dictionary!StartBlock, Dictionary!Start, Its, Run
    <2>3. Its' \in Seq(DictionaryItems) /\ Run' \subseteq DictionaryItems
      BY <1>0, <2>1 DEF Takes
    <2>. QED
      BY <1>0, <1>a, <2>1, <2>2, <2>3 DEF DictionaryTypes
  <1>5. ASSUME NEW key \in Keys, NEW obj \in Objects, Dictionary!SetBegins(key, obj) PROVE DictionaryTypes'
    BY <1>0, <1>5 DEF Dictionary!SetBegins, DictionaryTypes
  <1>6. ASSUME NEW key \in Keys, NEW obj \in Objects, Dictionary!SetEnds(key, obj) PROVE DictionaryTypes'
    <2>1. Ends(W(key, obj)) /\ UNCHANGED <<temp, reader_pc>> /\ userCenterDic' = [userCenterDic EXCEPT ![key] = obj]
      BY <1>0, <1>6, QueueMoves DEF Dictionary!SetEnds
    <2>2. synchronizationQueue' = [items |-> Its', running |-> Run']
      BY <1>6, <1>b DEF Dictionary!SetEnds, Dictionary!Done, Its, Run
    <2>3. Its' \in Seq(DictionaryItems) /\ Run' \subseteq DictionaryItems
      BY <1>0, <2>1 DEF Ends
    <2>. QED
      BY <1>0, <1>a, <2>1, <2>2, <2>3 DEF DictionaryTypes
  <1>7. ASSUME NEW t \in Threads, NEW key \in Keys, Dictionary!ReadBlock(t, key) PROVE DictionaryTypes'
    <2>1. R(t, key) \in Run /\ R(t, key) \in ReadItems
      BY <1>0, <1>7, QueueMoves, ItemFacts
    <2>2. userCenterDic[key] # Torn
      <3>1. ASSUME userCenterDic[key] = Torn PROVE FALSE
        <4>1. PICK obj \in Objects : W(key, obj) \in Run
          BY <1>0, <3>1 DEF WriterAlone
        <4>2. W(key, obj) = R(t, key) /\ W(key, obj) \in WriteItems
          BY <1>0, <2>1, <4>1, ItemFacts DEF WriterAlone
        <4>. QED
          BY <2>1, <4>2, WriteItem
      <3>. QED
        BY <3>1
    <2>. QED
      BY <1>0, <1>7, <2>2 DEF Dictionary!ReadBlock, DictionaryTypes
  <1>8. ASSUME NEW t \in Threads, NEW key \in Keys, Dictionary!ReadReturns(t, key) PROVE DictionaryTypes'
    <2>1. Ends(R(t, key)) /\ UNCHANGED <<temp, userCenterDic>> /\ reader_pc' = [reader_pc EXCEPT ![t] = "idle"]
      BY <1>0, <1>8, QueueMoves DEF Dictionary!ReadReturns
    <2>2. synchronizationQueue' = [items |-> Its', running |-> Run']
      BY <1>8, <1>b DEF Dictionary!ReadReturns, Dictionary!Done, Its, Run
    <2>3. Its' \in Seq(DictionaryItems) /\ Run' \subseteq DictionaryItems
      BY <1>0, <2>1 DEF Ends
    <2>. QED
      BY <1>0, <1>a, <2>1, <2>2, <2>3 DEF DictionaryTypes
  <1>. QED
    BY <1>1, <1>2, <1>3, <1>4, <1>5, <1>6, <1>7, <1>8 DEF Dictionary!Next, Dictionary!WriteStep, Dictionary!ReadStep

\* A step keeps the writes alone.
LEMMA WriterAloneStep == ASSUME Torn \notin Objects, DictionaryInv, [Dictionary!Next]_dictionary PROVE WriterAlone'
PROOF
  <1>0. DictionaryTypes /\ WriterAlone
    BY DEF DictionaryInv
  <1>1. CASE UNCHANGED dictionary
    BY <1>0, <1>1 DEF dictionary, WriterAlone, Run
  <1>2. ASSUME UNCHANGED userCenterDic, Run' = Run PROVE WriterAlone'
    BY <1>0, <1>2 DEF WriterAlone
  <1>3. CASE Dictionary!StartBlock
    <2>1. Takes /\ UNCHANGED userCenterDic
      BY <1>0, <1>3, QueueMoves DEF Dictionary!StartBlock
    <2>. QED
      BY <1>0, <2>1 DEF Takes, WriterAlone
  <1>4. ASSUME NEW key \in Keys, NEW obj \in Objects, Dictionary!SetBegins(key, obj) PROVE WriterAlone'
    <2>1. W(key, obj) \in Run /\ Run' = Run /\ userCenterDic' = [userCenterDic EXCEPT ![key] = Torn]
      BY <1>0, <1>4, QueueMoves DEF Dictionary!SetBegins, Run
    <2>2. \A k \in Keys \ {key} : userCenterDic'[k] = userCenterDic[k]
      BY <1>0, <2>1 DEF DictionaryTypes
    <2>. QED
      BY <1>0, <2>1, <2>2 DEF WriterAlone
  <1>5. ASSUME NEW key \in Keys, NEW obj \in Objects, Dictionary!SetEnds(key, obj) PROVE WriterAlone'
    <2>1. Ends(W(key, obj)) /\ userCenterDic' = [userCenterDic EXCEPT ![key] = obj]
      BY <1>0, <1>5, QueueMoves DEF Dictionary!SetEnds
    <2>2. Run = {W(key, obj)} /\ Run' = {} /\ W(key, obj).work.key = key
      BY <1>0, <2>1, ItemFacts DEF Ends, WriterAlone
    <2>3. ASSUME NEW k \in Keys PROVE userCenterDic'[k] # Torn
      <3>1. CASE k = key
        BY <1>0, <2>1, <3>1 DEF DictionaryTypes
      <3>2. CASE k # key
        <4>1. \A o \in Objects : W(k, o) # W(key, obj)
          BY <2>2, <3>2, ItemFacts
        <4>. QED
          BY <1>0, <2>1, <2>2, <3>2, <4>1 DEF DictionaryTypes, WriterAlone
      <3>. QED
        BY <3>1, <3>2
    <2>. QED
      BY <2>2, <2>3 DEF WriterAlone
  <1>6. ASSUME NEW t \in Threads, NEW key \in Keys, Dictionary!ReadReturns(t, key) PROVE WriterAlone'
    <2>1. Ends(R(t, key)) /\ UNCHANGED userCenterDic /\ R(t, key) \in ReadItems
      BY <1>0, <1>6, QueueMoves, ItemFacts DEF Dictionary!ReadReturns
    <2>2. \A x \in Run : x \notin WriteItems
      BY <1>0, <2>1, WriteItem DEF WriterAlone, Ends
    <2>. QED
      BY <1>0, <2>1, <2>2, ItemFacts DEF Ends, WriterAlone
  <1>7. ASSUME NEW t \in Threads, NEW key \in Keys,
               Dictionary!safeObjectForKey(t, key) \/ Dictionary!ReadBlock(t, key) \/ \E obj \in Objects : Dictionary!setSafeObject(t, key, obj)
        PROVE  WriterAlone'
    <2>1. UNCHANGED userCenterDic /\ Run' = Run
      BY <1>0, <1>7, QueueMoves
      DEF Dictionary!safeObjectForKey, Dictionary!ReadBlock, Dictionary!setSafeObject, Appends,
          Run
    <2>. QED
      BY <1>2, <2>1
  <1>. QED
    BY <1>1, <1>3, <1>4, <1>5, <1>6, <1>7 DEF Dictionary!Next, Dictionary!WriteStep, Dictionary!ReadStep
-----------------------------------------------------------------------------
\* A step keeps the places of the reads.
LEMMA ReadPlaceStep ==
  ASSUME DictionaryInv, [Dictionary!Next]_dictionary, DictionaryTypes', NEW u \in Threads
  PROVE  ReadPlace(u)'
PROOF
  <1>0. DictionaryTypes /\ WriterAlone /\ Its \in Seq(DictionaryItems) /\ Run \subseteq DictionaryItems /\ ReadPlace(u)
    BY DEF DictionaryInv, DictionaryTypes, Its, Run
  <1>b. \A key, k \in Keys, t \in Threads : R(t, key) = R(u, k) => t = u /\ key = k
    BY ItemFacts
  <1>w. \A x \in WriteItems, k \in Keys : x # R(u, k)
    <2>1. \A k \in Keys : R(u, k) \in ReadItems
      BY ItemFacts
    <2>2. \A x \in WriteItems : x \notin ReadItems
      BY WriteItem
    <2>. QED
      BY <2>1, <2>2
  <1>1. ASSUME Its' = Its, Run' = Run, reader_pc'[u] = reader_pc[u] PROVE ReadPlace(u)'
    BY <1>0, <1>1 DEF ReadPlace, Queued, RunKeys
  <1>2. ASSUME NEW t \in Threads, NEW key \in Keys, NEW obj \in Objects, Dictionary!setSafeObject(t, key, obj)
        PROVE  ReadPlace(u)'
    <2>1. Appends(W(key, obj)) /\ reader_pc' = reader_pc /\ W(key, obj) \in WriteItems /\ W(key, obj) \in DictionaryItems
      BY <1>0, <1>2, QueueMoves, ItemFacts DEF Dictionary!setSafeObject, DictionaryItems
    <2>2. Queued(u)' = Queued(u) /\ RunKeys(u)' = RunKeys(u) /\ Len(Its) \in Nat /\ Len(Its') = Len(Its) + 1
      BY <1>0, <1>w, <2>1, QueuedAppended
    <2>3. \A z \in 1..Len(Its) : z \in 1..Len(Its')
      BY <2>2
    <2>. QED
      BY <1>0, <2>1, <2>2, <2>3 DEF ReadPlace
  <1>3. ASSUME NEW t \in Threads, NEW key \in Keys, Dictionary!safeObjectForKey(t, key) PROVE ReadPlace(u)'
    <2>1. /\ Appends(R(t, key)) /\ reader_pc' = [reader_pc EXCEPT ![t] = "sync"] /\ reader_pc[t] = "idle"
          /\ R(t, key) \in ReadItems /\ R(t, key) \in DictionaryItems
      BY <1>0, <1>3, QueueMoves, ItemFacts DEF Dictionary!safeObjectForKey, DictionaryItems
    <2>2. Len(Its) \in Nat /\ Len(Its') = Len(Its) + 1 /\ RunKeys(u)' = RunKeys(u)
      BY <1>0, <2>1, QueuedAppended
    <2>3. CASE t = u
      <3>1. Queued(u)' = {Len(Its) + 1} /\ RunKeys(u)' = {} /\ reader_pc'[u] = "sync"
        BY <1>0, <2>1, <2>2, <2>3, QueuedAppended DEF ReadPlace, DictionaryTypes
      <3>2. Len(Its) + 1 \in 1..Len(Its')
        BY <2>2
      <3>. QED
        BY <3>1, <3>2 DEF ReadPlace
    <2>4. CASE t # u
      <3>1. Queued(u)' = Queued(u) /\ reader_pc'[u] = reader_pc[u]
        BY <1>0, <1>b, <2>1, <2>4, QueuedAppended DEF DictionaryTypes
      <3>2. \A z \in 1..Len(Its) : z \in 1..Len(Its')
        BY <2>2
      <3>. QED
        BY <1>0, <2>2, <3>1, <3>2 DEF ReadPlace
    <2>. QED
      BY <2>3, <2>4
  <1>4. CASE Dictionary!StartBlock
    <2>1. Takes /\ reader_pc' = reader_pc
      BY <1>0, <1>4, QueueMoves DEF Dictionary!StartBlock
    <2>2. /\ Len(Its) \in Nat /\ Len(Its') = Len(Its) - 1 /\ 1 \in 1..Len(Its)
          /\ \A j \in Nat : j \in Queued(u)' <=> j > 0 /\ j + 1 \in Queued(u)
          /\ Queued(u) \subseteq 1..Len(Its) /\ Queued(u)' \subseteq 1..Len(Its')
          /\ 1 \in Queued(u) <=> \E key \in Keys : Head(Its) = R(u, key)
          /\ \A key \in Keys : key \in RunKeys(u)' <=> key \in RunKeys(u) \/ Head(Its) = R(u, key)
      BY <1>0, <2>1, QueuedTaken
    <2>3. RunKeys(u) \subseteq Keys /\ RunKeys(u)' \subseteq Keys
      BY DEF RunKeys
    <2>4. CASE Queued(u) = {}
      <3>1. Queued(u)' = {}
        BY <2>2, <2>4
      <3>2. RunKeys(u)' = RunKeys(u)
        BY <2>2, <2>3, <2>4
      <3>. QED
        BY <1>0, <2>1, <2>4, <3>1, <3>2 DEF ReadPlace
    <2>5. CASE Queued(u) # {}
      <3>1. reader_pc[u] = "sync" /\ RunKeys(u) = {}
        BY <1>0, <2>5 DEF ReadPlace, DictionaryTypes
      <3>2. PICK z \in 1..Len(Its) : Queued(u) = {z}
        BY <1>0, <2>5, <3>1 DEF ReadPlace
      <3>3. CASE z = 1
        <4>1. PICK key \in Keys : Head(Its) = R(u, key)
          BY <2>2, <3>2, <3>3
        <4>2. RunKeys(u)' = {key}
          BY <1>b, <2>2, <2>3, <3>1, <4>1
        <4>3. Queued(u)' = {}
          BY <2>2, <3>2, <3>3
        <4>. QED
          BY <2>1, <3>1, <4>2, <4>3 DEF ReadPlace
      <3>4. CASE z # 1
        <4>1. z - 1 \in 1..Len(Its') /\ z - 1 \in Nat /\ (z - 1) + 1 = z
          BY <2>2, <3>2, <3>4
        <4>2. Queued(u)' = {z - 1}
          <5>1. z - 1 \in Queued(u)'
            BY <2>2, <3>2, <4>1
          <5>2. ASSUME NEW j \in Queued(u)' PROVE j = z - 1
            <6>1. j \in Nat /\ j + 1 \in Queued(u)
              BY <2>2, <5>2
            <6>. QED
              BY <3>2, <4>1, <6>1
          <5>. QED
            BY <5>1, <5>2
        <4>3. RunKeys(u)' = {}
          BY <2>2, <2>3, <3>1, <3>2, <3>4
        <4>. QED
          BY <2>1, <3>1, <4>1, <4>2, <4>3 DEF ReadPlace
      <3>. QED
        BY <3>3, <3>4
    <2>. QED
      BY <2>4, <2>5
  <1>5. ASSUME NEW key \in Keys, NEW obj \in Objects, Dictionary!SetBegins(key, obj) PROVE ReadPlace(u)'
    <2>1. Its' = Its /\ Run' = Run /\ reader_pc' = reader_pc
      BY <1>5 DEF Dictionary!SetBegins, Its, Run
    <2>. QED
      BY <1>1, <2>1
  <1>6. ASSUME NEW key \in Keys, NEW obj \in Objects, Dictionary!SetEnds(key, obj) PROVE ReadPlace(u)'
    <2>1. Ends(W(key, obj)) /\ reader_pc' = reader_pc /\ W(key, obj) \in WriteItems
      BY <1>0, <1>6, QueueMoves, ItemFacts DEF Dictionary!SetEnds
    <2>2. Queued(u)' = Queued(u) /\ RunKeys(u)' = RunKeys(u) /\ Its' = Its
      BY <1>w, <2>1 DEF Ends, Queued, RunKeys
    <2>. QED
      BY <1>0, <2>1, <2>2 DEF ReadPlace
  <1>7. ASSUME NEW t \in Threads, NEW key \in Keys, Dictionary!ReadBlock(t, key) PROVE ReadPlace(u)'
    <2>1. /\ Its' = Its /\ Run' = Run /\ reader_pc[t] = "sync" /\ reader_pc' = [reader_pc EXCEPT ![t] = "return"]
          /\ R(t, key) \in Run
      BY <1>0, <1>7, QueueMoves DEF Dictionary!ReadBlock, Its, Run
    <2>2. CASE t = u
      <3>1. key \in RunKeys(u) /\ reader_pc'[u] = "return"
        BY <1>0, <2>1, <2>2 DEF RunKeys, DictionaryTypes
      <3>2. Queued(u)' = Queued(u) /\ RunKeys(u)' = RunKeys(u)
        BY <2>1 DEF Queued, RunKeys
      <3>. QED
        BY <1>0, <2>1, <2>2, <3>1, <3>2 DEF ReadPlace
    <2>3. CASE t # u
      BY <1>0, <1>1, <2>1, <2>3 DEF DictionaryTypes
    <2>. QED
      BY <2>2, <2>3
  <1>8. ASSUME NEW t \in Threads, NEW key \in Keys, Dictionary!ReadReturns(t, key) PROVE ReadPlace(u)'
    <2>1. Ends(R(t, key)) /\ reader_pc[t] = "return" /\ reader_pc' = [reader_pc EXCEPT ![t] = "idle"]
      BY <1>0, <1>8, QueueMoves DEF Dictionary!ReadReturns
    <2>2. Queued(u)' = Queued(u) /\ Its' = Its
      BY <2>1 DEF Ends, Queued
    <2>3. CASE t = u
      <3>1. key \in RunKeys(u) /\ reader_pc'[u] = "idle" /\ RunKeys(u)' = RunKeys(u) \ {key}
        BY <1>0, <1>b, <2>1, <2>3 DEF RunKeys, DictionaryTypes, Ends
      <3>. QED
        BY <1>0, <2>1, <2>2, <2>3, <3>1 DEF ReadPlace
    <2>4. CASE t # u
      <3>1. reader_pc'[u] = reader_pc[u] /\ RunKeys(u)' = RunKeys(u)
        BY <1>0, <1>b, <2>1, <2>4 DEF RunKeys, DictionaryTypes, Ends
      <3>. QED
        BY <1>0, <2>2, <3>1 DEF ReadPlace
    <2>. QED
      BY <2>3, <2>4
  <1>9. CASE UNCHANGED dictionary
    BY <1>1, <1>9 DEF dictionary, Its, Run
  <1>. QED
    BY <1>2, <1>3, <1>4, <1>5, <1>6, <1>7, <1>8, <1>9 DEF Dictionary!Next, Dictionary!WriteStep, Dictionary!ReadStep

\* The invariant holds at the start.
LEMMA DictionaryInit == ASSUME Torn # Nil PROVE Dictionary!Init => DictionaryInv
PROOF
  <1>. SUFFICES ASSUME Dictionary!Init PROVE DictionaryInv
    OBVIOUS
  <1>1. Its = <<>> /\ Run = {} /\ \A t \in Threads : reader_pc[t] = "idle"
    BY DEF Dictionary!Init, Dictionary!EmptyQueue, Its, Run
  <1>2. DictionaryTypes
    <2>1. <<>> \in Seq(DictionaryItems) /\ {} \in SUBSET DictionaryItems
      OBVIOUS
    <2>. QED
      BY <2>1 DEF Dictionary!Init, DictionaryTypes, Dictionary!EmptyQueue
  <1>3. WriterAlone
    BY <1>1 DEF WriterAlone, Dictionary!Init
  <1>4. \A t \in Threads : ReadPlace(t)
    BY <1>1 DEF ReadPlace, Queued, RunKeys
  <1>. QED
    BY <1>2, <1>3, <1>4 DEF DictionaryInv

\* The steps of the dictionary are its own, and no other touches it.
LEMMA DictionaryAlone == [Next]_vars => [Dictionary!Next]_dictionary
PROOF
  BY DEF Next, Open, RequestsStep, ImagesStep, NetworkStep, BoundedStep, AlgorithmsStep,
         DictionaryStep, vars, dictionary

\* The dictionary of the application keeps its invariant.
THEOREM DictionaryInvariant == FairSpec => []DictionaryInv
PROOF
  <1>0. Torn \notin Objects /\ Torn # Nil
    BY DemosAssumption DEF Dictionary!DictionaryAssumption
  <1>1. Init => DictionaryInv
    BY <1>0, DictionaryInit DEF Init
  <1>2. DictionaryInv /\ [Next]_vars => DictionaryInv'
    BY <1>0, DictionaryAlone, DictionaryTypesStep, WriterAloneStep, ReadPlaceStep DEF DictionaryInv
  <1>. QED
    BY <1>1, <1>2, PTL DEF FairSpec
-----------------------------------------------------------------------------
(***************************************************************************)
(* The refinement.                                                         *)
(***************************************************************************)
Contents == [key \in Keys |-> Dictionary!Eventually(key, Len(Its))]
Promises == [t \in Threads |-> Dictionary!Promised(t)]

\* What the entry of key holds once the first n waiting blocks have run.
At(key, n) == Value(Its, Dictionary!RunningWrites, userCenterDic, key, n)

\* The contents are what the entries hold once all that wait have run.
LEMMA ContentsFacts ==
  /\ \A key \in Keys : /\ Contents[key] = At(key, Len(Its))
                       /\ Contents'[key] = Value(Its', Dictionary!RunningWrites', userCenterDic', key, Len(Its'))
  /\ \A key, n : Dictionary!Eventually(key, n) = At(key, n)
PROOF
  BY DEF Contents, At, Dictionary!Eventually, Dictionary!Before, Value, Sets, Its

\* What a read will answer, by the place of its block.
PromisedAs(t) ==
  /\ reader_pc[t] # "sync" => Dictionary!Promised(t) = temp[t]
  /\ reader_pc[t] = "sync" => \A key \in Keys, z \in Queued(t) :
                         Its[z] = R(t, key) /\ Queued(t) = {z} => Dictionary!Promised(t) = At(key, z)
  /\ reader_pc[t] = "sync" /\ Queued(t) = {} =>
       \A key \in Keys : RunKeys(t) = {key} => Dictionary!Promised(t) = userCenterDic[key]

\* The promise to a thread, as PromisedAs has it.
LEMMA PromisedFacts == DictionaryTypes => \A t \in Threads : PromisedAs(t)
PROOF
  <1>. SUFFICES ASSUME DictionaryTypes, NEW t \in Threads PROVE PromisedAs(t)
    OBVIOUS
  <1>0. Queued(t) = {z \in 1..Len(synchronizationQueue.items) :
                       \E key \in Keys : synchronizationQueue.items[z].work = Dictionary!Read(t, key)}
    BY DEF Queued, Its
  <1>1. reader_pc[t] # "sync" => Dictionary!Promised(t) = temp[t]
    BY DEF Dictionary!Promised
  <1>2. ASSUME reader_pc[t] = "sync", NEW key \in Keys, NEW z \in Queued(t), Its[z] = R(t, key), Queued(t) = {z}
        PROVE  Dictionary!Promised(t) = At(key, z)
    <2>1. (CHOOSE j \in Queued(t) : TRUE) = z
      BY <1>2
    <2>2. Dictionary!Promised(t) = Dictionary!Eventually(synchronizationQueue.items[z].work.key, z)
      BY <1>0, <1>2, <2>1 DEF Dictionary!Promised
    <2>3. Its[z].work.key = key
      BY <1>2, ItemFacts
    <2>. QED
      BY <2>2, <2>3, ContentsFacts DEF Its
  <1>3. ASSUME reader_pc[t] = "sync", Queued(t) = {}, NEW key \in Keys, RunKeys(t) = {key}
        PROVE  Dictionary!Promised(t) = userCenterDic[key]
    <2>1. \A k \in Keys : Dictionary!Running(synchronizationQueue, Dictionary!Read(t, k)) <=> k = key
      BY <1>3, RunningItems DEF RunKeys
    <2>2. (CHOOSE k \in Keys : Dictionary!Running(synchronizationQueue, Dictionary!Read(t, k))) = key
      BY <2>1
    <2>. QED
      BY <1>0, <1>3, <2>2 DEF Dictionary!Promised
  <1>. QED
    BY <1>1, <1>2, <1>3 DEF PromisedAs

\* The write that runs, if any.
LEMMA WritesFacts == DictionaryTypes => Dictionary!RunningWrites = Run \intersect WriteItems
PROOF
  <1>. SUFFICES ASSUME DictionaryTypes PROVE Dictionary!RunningWrites = Run \intersect WriteItems
    OBVIOUS
  <1>1. Run \subseteq DictionaryItems
    BY DEF DictionaryTypes, Run
  <1>2. \A x \in DictionaryItems : x.work.op = "set" <=> x \in WriteItems
    BY WriteItem, ReadItem DEF DictionaryItems
  <1>. QED
    BY <1>1, <1>2 DEF Dictionary!RunningWrites, Run

\* The same in the next state.
LEMMA NextFacts ==
  ASSUME DictionaryTypes'
  PROVE  /\ Dictionary!RunningWrites' = Run' \intersect WriteItems
         /\ \A t \in Threads : PromisedAs(t)'
         /\ \A key, n : At(key, n)' = Value(Its', Dictionary!RunningWrites', userCenterDic', key, n)
PROOF
  <1>1. (DictionaryTypes => Dictionary!RunningWrites = Run \intersect WriteItems)'
    BY WritesFacts, PTL
  <1>2. (DictionaryTypes => \A t \in Threads : PromisedAs(t))'
    BY PromisedFacts, PTL
  <1>. QED
    BY <1>1, <1>2 DEF At

\* The contents when a block comes: a write counts from that moment.
LEMMA ContentsAppended ==
  ASSUME DictionaryTypes, DictionaryTypes', NEW x \in DictionaryItems, Appends(x), UNCHANGED userCenterDic, NEW key \in Keys
  PROVE  /\ \A n \in 0..Len(Its) : At(key, n)' = At(key, n)
         /\ Contents'[key] = IF x.work.op = "set" /\ x.work.key = key THEN x.work.obj ELSE Contents[key]
PROOF
  <1>1. Dictionary!RunningWrites' = Dictionary!RunningWrites /\ Its \in Seq(DictionaryItems) /\ Its' = Append(Its, x)
    BY WritesFacts, NextFacts DEF Appends, DictionaryTypes, Its
  <1>2. \A n \in 0..Len(Its) : At(key, n)' = At(key, n)
    BY <1>1, NextFacts, ValueAppended DEF At
  <1>3. Contents'[key] = Value(Append(Its, x), Dictionary!RunningWrites, userCenterDic, key, Len(Its) + 1)
    BY <1>1, ContentsFacts, ValueAppended
  <1>4. Contents[key] = Value(Its, Dictionary!RunningWrites, userCenterDic, key, Len(Its))
    BY ContentsFacts DEF At
  <1>. QED
    BY <1>1, <1>2, <1>3, <1>4, ValueAppended

\* The contents when a block begins to run: the same.
LEMMA ContentsTaken ==
  ASSUME DictionaryTypes, DictionaryTypes', Takes, UNCHANGED userCenterDic, NEW key \in Keys
  PROVE  /\ \A n \in 1..Len(Its) : At(key, n - 1)' = At(key, n)
         /\ At(key, 1) = userCenterDic[key] \/ Head(Its) \in WriteItems
         /\ Contents'[key] = Contents[key]
PROOF
  <1>1. Its \in Seq(DictionaryItems) /\ Its # <<>> /\ Its' = Tail(Its) /\ Its[1] = Head(Its) /\ Its[1] \in DictionaryItems
    BY DEF Takes, DictionaryTypes, Its
  <1>2. Dictionary!RunningWrites = {} /\ Dictionary!RunningWrites' = IF Head(Its) \in WriteItems THEN {Head(Its)} ELSE {}
    BY WritesFacts, NextFacts DEF Takes
  <1>3. \A n \in 1..Len(Its) :
          Value(Its', Dictionary!RunningWrites', userCenterDic', key, n - 1)
                  = Value(Its, Dictionary!RunningWrites, userCenterDic, key, n)
    BY <1>1, <1>2, ValueTaken
  <1>4. \A n \in 1..Len(Its) : At(key, n - 1)' = At(key, n)
    BY <1>3, NextFacts DEF At
  <1>5. Len(Its) \in 1..Len(Its) /\ Len(Its') = Len(Its) - 1
    BY <1>1
  <1>6. Contents'[key] = Contents[key]
    BY <1>3, <1>5, ContentsFacts DEF At
  <1>7. ASSUME Head(Its) \notin WriteItems PROVE At(key, 1) = userCenterDic[key]
    <2>0. Its[1].work.op = "get"
      BY <1>1, <1>7, ReadItem DEF DictionaryItems
    <2>1. Sets(Its, key, 1) = {}
      BY <2>0 DEF Sets
    <2>. QED
      BY <1>2, <2>1 DEF At, Value
  <1>. QED
    BY <1>4, <1>6, <1>7

\* The contents while a write runs and when it ends: the same.
LEMMA ContentsWritten ==
  ASSUME DictionaryTypes, WriterAlone, DictionaryTypes', NEW k \in Keys, NEW o \in Objects, Dictionary!SetBegins(k, o) \/ Dictionary!SetEnds(k, o), NEW key \in Keys
  PROVE  /\ Its' = Its /\ Run = {W(k, o)}
         /\ \A n : At(key, n)' = At(key, n)
         /\ Contents'[key] = Contents[key]
PROOF
  <1>1. W(k, o) \in WriteItems
    BY ItemFacts
  <1>2. Its' = Its /\ W(k, o) \in Run
    BY QueueMoves DEF Ends, Dictionary!SetBegins, Its
  <1>3. Run = {W(k, o)} /\ Dictionary!RunningWrites = {W(k, o)}
    BY <1>1, <1>2, WritesFacts DEF WriterAlone
  <1>4. \A n : Value(Its', Dictionary!RunningWrites', userCenterDic', key, n)
          = Value(Its, Dictionary!RunningWrites, userCenterDic, key, n)
    <2>1. CASE Dictionary!SetBegins(k, o)
      <3>1. Run' = Run /\ \A j \in Keys : j # k => userCenterDic'[j] = userCenterDic[j]
        BY <2>1 DEF Dictionary!SetBegins, Run, DictionaryTypes
      <3>2. Dictionary!RunningWrites' = {W(k, o)}
        BY <1>1, <1>3, <3>1, NextFacts
      <3>3. \A n : Value(Its, {W(k, o)}, userCenterDic', key, n) = Value(Its, {W(k, o)}, userCenterDic, key, n)
        BY <3>1, ValueWritten
      <3>. QED
        BY <1>2, <1>3, <3>2, <3>3
    <2>2. CASE Dictionary!SetEnds(k, o)
      <3>1. Run' = {}
        BY <1>3, <2>2, QueueMoves DEF Ends
      <3>2. Dictionary!RunningWrites' = {}
        BY <3>1, NextFacts
      <3>3. userCenterDic'[k] = o /\ \A j \in Keys : j # k => userCenterDic'[j] = userCenterDic[j]
        BY <2>2 DEF Dictionary!SetEnds, DictionaryTypes
      <3>4. \A n : Value(Its, {}, userCenterDic', key, n) = Value(Its, {W(k, o)}, userCenterDic, key, n)
        BY <3>3, ValueWritten
      <3>. QED
        BY <1>2, <1>3, <3>2, <3>4
    <2>. QED
      BY <2>1, <2>2
  <1>5. \A n : At(key, n)' = At(key, n)
    BY <1>4, NextFacts DEF At
  <1>6. Contents'[key] = Contents[key]
    BY <1>2, <1>4, ContentsFacts DEF At
  <1>. QED
    BY <1>2, <1>3, <1>5, <1>6

\* A thread is promised the same answer as long as what is before its block is the same.
LEMMA PromisedKept ==
  ASSUME DictionaryTypes, DictionaryTypes', NEW u \in Threads, ReadPlace(u),
         reader_pc'[u] = reader_pc[u], temp'[u] = temp[u], Queued(u)' = Queued(u), RunKeys(u)' = RunKeys(u),
         \A z \in Queued(u) : Its'[z] = Its[z],
         \A key \in Keys, z \in Queued(u) : At(key, z)' = At(key, z),
         \A key \in RunKeys(u) : userCenterDic'[key] = userCenterDic[key]
  PROVE  Dictionary!Promised(u)' = Dictionary!Promised(u)
PROOF
  <1>1. PromisedAs(u) /\ PromisedAs(u)'
    BY PromisedFacts, NextFacts
  <1>2. CASE reader_pc[u] # "sync"
    BY <1>1, <1>2 DEF PromisedAs
  <1>3. CASE reader_pc[u] = "sync" /\ Queued(u) = {}
    <2>1. PICK key \in Keys : RunKeys(u) = {key}
      BY <1>3 DEF ReadPlace
    <2>2. Dictionary!Promised(u) = userCenterDic[key] /\ Dictionary!Promised(u)' = userCenterDic'[key]
      BY <1>1, <1>3, <2>1 DEF PromisedAs
    <2>. QED
      BY <2>1, <2>2
  <1>4. CASE reader_pc[u] = "sync" /\ Queued(u) # {}
    <2>1. PICK z \in 1..Len(Its) : Queued(u) = {z}
      BY <1>4 DEF ReadPlace
    <2>2. PICK key \in Keys : Its[z] = R(u, key)
      <3>1. \E key \in Keys : Its[z].work = Dictionary!Read(u, key)
        BY <2>1 DEF Queued
      <3>2. Its[z] \in DictionaryItems
        BY DEF DictionaryTypes, Its
      <3>. QED
        BY <3>1, <3>2, SameItem
    <2>3. Dictionary!Promised(u) = At(key, z)
      BY <1>1, <1>4, <2>1, <2>2 DEF PromisedAs
    <2>4. Dictionary!Promised(u)' = At(key, z)'
      BY <1>1, <1>4, <2>1, <2>2 DEF PromisedAs
    <2>. QED
      BY <2>1, <2>3, <2>4
  <1>. QED
    BY <1>2, <1>3, <1>4
-----------------------------------------------------------------------------
\* A write block runs alone: no other write and no read is inside the dictionary.
THEOREM OneWriterHolds == FairSpec => []Dictionary!OneWriter
PROOF
  <1>1. DictionaryInv => Dictionary!OneWriter
    <2>. SUFFICES ASSUME DictionaryInv, NEW x \in Dictionary!RunningWrites PROVE Dictionary!Cardinality(Run) = 1
      BY DEF Dictionary!OneWriter, Run
    <2>1. x \in Run /\ x \in WriteItems
      BY WritesFacts DEF DictionaryInv
    <2>2. Run = {x}
      BY <2>1 DEF DictionaryInv, WriterAlone
    <2>. QED
      BY <2>2, FS_Singleton, SameElements
  <1>. QED
    BY <1>1, DictionaryInvariant, PTL
-----------------------------------------------------------------------------
\* The contents and the answers as functions.
LEMMA DictionaryFunctions ==
  /\ (\A key \in Keys : Contents'[key] = Contents[key]) => Contents' = Contents
  /\ (\A u \in Threads : Dictionary!Promised(u)' = Dictionary!Promised(u)) => Promises' = Promises
  /\ \A k \in Keys : \A obj :
       (\A key \in Keys : Contents'[key] = IF key = k THEN obj ELSE Contents[key])
         => Contents' = [Contents EXCEPT ![k] = obj]
  /\ \A t \in Threads : \A obj :
       (\A u \in Threads : Dictionary!Promised(u)' = IF u = t THEN obj ELSE Dictionary!Promised(u))
         => Promises' = [Promises EXCEPT ![t] = obj]
PROOF
  <1>1. Contents = [key \in Keys |-> Contents[key]] /\ Contents' = [key \in Keys |-> Contents'[key]]
    BY DEF Contents
  <1>2. /\ Promises = [u \in Threads |-> Dictionary!Promised(u)] /\ Promises' = [u \in Threads |-> Dictionary!Promised(u)']
    BY DEF Promises
  <1>. QED
    BY <1>1, <1>2

\* setSafeObject is the write of the abstract dictionary.
LEMMA SetStep ==
  ASSUME DictionaryInv, DictionaryTypes', NEW t \in Threads, NEW k \in Keys, NEW obj \in Objects, Dictionary!setSafeObject(t, k, obj)
  PROVE  Contents' = [Contents EXCEPT ![k] = obj] /\ Promises' = Promises
PROOF
  <1>0. DictionaryTypes /\ Its \in Seq(DictionaryItems) /\ \A u \in Threads : ReadPlace(u)
    BY DEF DictionaryInv, DictionaryTypes, Its
  <1>1. /\ W(k, obj) \in WriteItems /\ W(k, obj) \in DictionaryItems /\ W(k, obj).work.op = "set"
        /\ W(k, obj).work.key = k /\ W(k, obj).work.obj = obj
    BY ItemFacts DEF DictionaryItems
  <1>2. Appends(W(k, obj)) /\ UNCHANGED <<userCenterDic, temp, reader_pc>>
    BY <1>0, QueueMoves DEF Dictionary!setSafeObject
  <1>3. \A key \in Keys : Contents'[key] = IF key = k THEN obj ELSE Contents[key]
    BY <1>0, <1>1, <1>2, ContentsAppended
  <1>4. ASSUME NEW u \in Threads PROVE Dictionary!Promised(u)' = Dictionary!Promised(u)
    <2>1. ~(\E key \in Keys : W(k, obj) = R(u, key))
      <3>1. W(k, obj) \notin ReadItems
        BY <1>1, WriteItem
      <3>. QED
        BY <3>1, ItemFacts
    <2>2. Queued(u)' = Queued(u) /\ RunKeys(u)' = RunKeys(u)
      BY <1>0, <1>1, <1>2, <2>1, QueuedAppended
    <2>3. Queued(u) \subseteq 1..Len(Its) /\ Len(Its) \in Nat
      BY <1>0 DEF Queued
    <2>4. \A z \in Queued(u) : Its'[z] = Its[z]
      BY <1>0, <1>1, <1>2, <2>3 DEF Appends
    <2>5. \A key \in Keys, z \in Queued(u) : At(key, z)' = At(key, z)
      BY <1>0, <1>1, <1>2, <2>3, ContentsAppended
    <2>. QED
      BY <1>0, <1>2, <2>2, <2>4, <2>5, PromisedKept
  <1>. QED
    BY <1>3, <1>4, DictionaryFunctions

\* safeObjectForKey is the read of the abstract dictionary.
LEMMA GetStep ==
  ASSUME DictionaryInv, DictionaryTypes', NEW t \in Threads, NEW k \in Keys, Dictionary!safeObjectForKey(t, k)
  PROVE  Contents' = Contents /\ Promises' = [Promises EXCEPT ![t] = Contents[k]]
PROOF
  <1>0. DictionaryTypes /\ Its \in Seq(DictionaryItems) /\ \A u \in Threads : ReadPlace(u)
    BY DEF DictionaryInv, DictionaryTypes, Its
  <1>1. R(t, k) \in ReadItems /\ R(t, k) \in DictionaryItems /\ R(t, k).work.op = "get"
    BY ItemFacts DEF DictionaryItems
  <1>2. /\ Appends(R(t, k)) /\ UNCHANGED userCenterDic /\ reader_pc[t] = "idle"
        /\ temp' = [temp EXCEPT ![t] = Nil] /\ reader_pc' = [reader_pc EXCEPT ![t] = "sync"]
    BY <1>0, QueueMoves DEF Dictionary!safeObjectForKey
  <1>3. \A key \in Keys : Contents'[key] = Contents[key]
    BY <1>0, <1>1, <1>2, ContentsAppended
  <1>4. ASSUME NEW u \in Threads, u # t PROVE Dictionary!Promised(u)' = Dictionary!Promised(u)
    <2>1. ~(\E key \in Keys : R(t, k) = R(u, key))
      BY <1>4, ItemFacts
    <2>2. Queued(u)' = Queued(u) /\ RunKeys(u)' = RunKeys(u)
      BY <1>0, <1>1, <1>2, <2>1, QueuedAppended
    <2>3. Queued(u) \subseteq 1..Len(Its) /\ Len(Its) \in Nat
      BY <1>0 DEF Queued
    <2>4. \A z \in Queued(u) : Its'[z] = Its[z]
      BY <1>0, <1>1, <1>2, <2>3 DEF Appends
    <2>5. \A key \in Keys, z \in Queued(u) : At(key, z)' = At(key, z)
      BY <1>0, <1>1, <1>2, <2>3, ContentsAppended
    <2>6. reader_pc'[u] = reader_pc[u] /\ temp'[u] = temp[u]
      BY <1>0, <1>2, <1>4 DEF DictionaryTypes
    <2>. QED
      BY <1>0, <1>2, <2>2, <2>4, <2>5, <2>6, PromisedKept
  <1>5. Dictionary!Promised(t)' = Contents[k]
    <2>1. Queued(t)' = {Len(Its) + 1} /\ reader_pc'[t] = "sync" /\ Len(Its') = Len(Its) + 1 /\ Its'[Len(Its) + 1] = R(t, k)
      <3>1. Queued(t) = {} /\ \E key \in Keys : R(t, k) = R(t, key)
        BY <1>0, <1>2 DEF ReadPlace
      <3>2. Queued(t)' = {Len(Its) + 1} /\ Len(Its') = Len(Its) + 1
        BY <1>0, <1>1, <1>2, <3>1, QueuedAppended
      <3>3. reader_pc'[t] = "sync"
        BY <1>0, <1>2 DEF DictionaryTypes
      <3>4. Its'[Len(Its) + 1] = R(t, k)
        BY <1>0, <1>1, <1>2 DEF Appends
      <3>. QED
        BY <3>2, <3>3, <3>4
    <2>2. Dictionary!Promised(t)' = Value(Its', Dictionary!RunningWrites', userCenterDic', k, Len(Its) + 1)
      <3>1. PromisedAs(t)'
        BY NextFacts
      <3>. QED
        BY <2>1, <3>1 DEF PromisedAs, At
    <2>3. Contents'[k] = Value(Its', Dictionary!RunningWrites', userCenterDic', k, Len(Its) + 1)
      BY <2>1, ContentsFacts
    <2>. QED
      BY <1>3, <2>2, <2>3
  <1>. QED
    BY <1>3, <1>4, <1>5, DictionaryFunctions

\* A block that begins to run leaves contents and answers alone.
LEMMA StartStep ==
  ASSUME DictionaryInv, DictionaryTypes', Dictionary!StartBlock
  PROVE  Contents' = Contents /\ Promises' = Promises
PROOF
  <1>0. DictionaryTypes /\ Its \in Seq(DictionaryItems) /\ \A u \in Threads : ReadPlace(u)
    BY DEF DictionaryInv, DictionaryTypes, Its
  <1>2. Takes /\ UNCHANGED <<userCenterDic, temp, reader_pc>>
    BY <1>0, QueueMoves DEF Dictionary!StartBlock
  <1>3. \A key \in Keys : Contents'[key] = Contents[key]
    BY <1>0, <1>2, ContentsTaken
  <1>4. ASSUME NEW u \in Threads PROVE Dictionary!Promised(u)' = Dictionary!Promised(u)
    <2>1. /\ Len(Its) \in Nat /\ Len(Its') = Len(Its) - 1 /\ 1 \in 1..Len(Its)
          /\ Head(Its) = Its[1] /\ Its[1] \in DictionaryItems
          /\ \A j \in 1..Len(Its') : Its'[j] = Its[j + 1]
          /\ \A j \in Nat : j \in Queued(u)' <=> j > 0 /\ j + 1 \in Queued(u)
          /\ Queued(u) \subseteq 1..Len(Its) /\ Queued(u)' \subseteq 1..Len(Its')
          /\ 1 \in Queued(u) <=> \E key \in Keys : Head(Its) = R(u, key)
          /\ \A key \in Keys : key \in RunKeys(u)' <=> key \in RunKeys(u) \/ Head(Its) = R(u, key)
      BY <1>0, <1>2, QueuedTaken
    <2>2. PromisedAs(u) /\ PromisedAs(u)'
      BY <1>0, PromisedFacts, NextFacts
    <2>3. CASE Queued(u) = {}
      <3>1. Queued(u)' = {}
        BY <2>1, <2>3
      <3>2. RunKeys(u)' = RunKeys(u)
        BY <2>1, <2>3 DEF RunKeys
      <3>. QED
        BY <1>0, <1>2, <2>3, <3>1, <3>2, PromisedKept
    <2>4. CASE Queued(u) # {}
      <3>1. reader_pc[u] = "sync" /\ RunKeys(u) = {}
        BY <1>0, <2>4 DEF ReadPlace, DictionaryTypes
      <3>2. PICK z \in 1..Len(Its) : Queued(u) = {z}
        BY <1>0, <2>4, <3>1 DEF ReadPlace
      <3>3. PICK key \in Keys : Its[z] = R(u, key)
        <4>1. \E key \in Keys : Its[z].work = Dictionary!Read(u, key)
          BY <3>2 DEF Queued
        <4>2. Its[z] \in DictionaryItems
          BY <1>0
        <4>. QED
          BY <4>1, <4>2, SameItem
      <3>4. Dictionary!Promised(u) = At(key, z)
        BY <2>2, <3>1, <3>2, <3>3 DEF PromisedAs
      <3>5. CASE z = 1
        <4>1. \A k \in Keys : Head(Its) = R(u, k) <=> k = key
          BY <2>1, <3>3, <3>5, ItemFacts
        <4>2. RunKeys(u)' = {key}
          BY <2>1, <3>1, <4>1 DEF RunKeys
        <4>3. Queued(u)' = {}
          BY <2>1, <3>2, <3>5
        <4>4. Dictionary!Promised(u)' = userCenterDic'[key]
          BY <1>2, <2>2, <3>1, <4>2, <4>3 DEF PromisedAs
        <4>5. Head(Its) \notin WriteItems
          <5>1. Head(Its) \in ReadItems
            BY <2>1, <3>3, <3>5, ItemFacts
          <5>. QED
            BY <5>1, WriteItem
        <4>6. At(key, 1) = userCenterDic[key]
          BY <1>0, <1>2, <4>5, ContentsTaken
        <4>. QED
          BY <1>2, <3>4, <3>5, <4>4, <4>6
      <3>6. CASE z # 1
        <4>1. z - 1 \in 1..Len(Its') /\ z - 1 \in Nat /\ (z - 1) + 1 = z
          BY <2>1, <3>2, <3>6
        <4>2. Queued(u)' = {z - 1}
          <5>1. z - 1 \in Queued(u)'
            BY <2>1, <3>2, <4>1
          <5>2. ASSUME NEW j \in Queued(u)' PROVE j = z - 1
            <6>1. j \in Nat /\ j + 1 \in Queued(u)
              BY <2>1, <5>2
            <6>. QED
              BY <3>2, <4>1, <6>1
          <5>. QED
            BY <5>1, <5>2
        <4>3. Its'[z - 1] = R(u, key)
          BY <2>1, <3>3, <4>1
        <4>4. Dictionary!Promised(u)' = At(key, z - 1)'
          BY <1>2, <2>2, <3>1, <4>2, <4>3 DEF PromisedAs
        <4>5. At(key, z - 1)' = At(key, z)
          BY <1>0, <1>2, <3>2, ContentsTaken
        <4>. QED
          BY <3>4, <4>4, <4>5
      <3>. QED
        BY <3>5, <3>6
    <2>. QED
      BY <2>3, <2>4
  <1>. QED
    BY <1>3, <1>4, DictionaryFunctions

\* A write that runs leaves them alone: no read runs, and those that wait are behind it.
LEMMA WriteStepKeeps ==
  ASSUME DictionaryInv, DictionaryTypes', NEW k \in Keys, NEW o \in Objects, Dictionary!SetBegins(k, o) \/ Dictionary!SetEnds(k, o)
  PROVE  Contents' = Contents /\ Promises' = Promises
PROOF
  <1>0. DictionaryTypes /\ WriterAlone /\ \A u \in Threads : ReadPlace(u)
    BY DEF DictionaryInv
  <1>1. /\ Its' = Its /\ Run = {W(k, o)} /\ Run' \subseteq Run
        /\ \A key \in Keys : \A n : At(key, n)' = At(key, n)
        /\ \A key \in Keys : Contents'[key] = Contents[key]
    <2>1. Run' \subseteq Run
      BY <1>0, QueueMoves DEF Ends, Dictionary!SetBegins, Run
    <2>2. Its' = Its /\ Run = {W(k, o)}
      BY <1>0, ContentsWritten
    <2>. QED
      BY <1>0, <2>1, <2>2, ContentsWritten
  <1>2. UNCHANGED <<temp, reader_pc>>
    BY DEF Dictionary!SetBegins, Dictionary!SetEnds
  <1>3. ASSUME NEW u \in Threads PROVE Dictionary!Promised(u)' = Dictionary!Promised(u)
    <2>1. W(k, o) \in WriteItems /\ W(k, o) \notin ReadItems /\ \A key \in Keys : R(u, key) \in ReadItems
      <3>1. W(k, o) \in WriteItems /\ \A key \in Keys : R(u, key) \in ReadItems
        BY ItemFacts
      <3>. QED
        BY <3>1, WriteItem
    <2>2. RunKeys(u) = {} /\ RunKeys(u)' = {}
      BY <1>1, <2>1 DEF RunKeys
    <2>3. Queued(u)' = Queued(u)
      BY <1>1 DEF Queued
    <2>. QED
      BY <1>0, <1>1, <1>2, <2>2, <2>3, PromisedKept
  <1>. QED
    BY <1>1, <1>3, DictionaryFunctions

\* So do the block of a read, which finds what was promised, and its end.
LEMMA ReadStepKeeps ==
  ASSUME DictionaryInv, DictionaryTypes', NEW t \in Threads, NEW k \in Keys, Dictionary!ReadBlock(t, k) \/ Dictionary!ReadReturns(t, k)
  PROVE  Contents' = Contents /\ Promises' = Promises
PROOF
  <1>0. DictionaryTypes /\ WriterAlone /\ ReadPlace(t) /\ \A u \in Threads : ReadPlace(u)
    BY DEF DictionaryInv
  <1>1. /\ Its' = Its /\ R(t, k) \in Run /\ UNCHANGED userCenterDic
        /\ Run' = Run \/ Run' = Run \ {R(t, k)}
    BY <1>0, QueueMoves DEF Ends, Dictionary!ReadBlock, Dictionary!ReadReturns, Its, Run
  <1>2. Dictionary!RunningWrites' = Dictionary!RunningWrites
    <2>1. R(t, k) \notin WriteItems
      <3>1. R(t, k) \in ReadItems
        BY ItemFacts
      <3>. QED
        BY <3>1, WriteItem
    <2>. QED
      BY <1>0, <1>1, <2>1, WritesFacts, NextFacts
  <1>3. \A key \in Keys : Contents'[key] = Contents[key] /\ \A n : At(key, n)' = At(key, n)
    BY <1>1, <1>2, ContentsFacts, NextFacts DEF At
  <1>4. PromisedAs(t) /\ PromisedAs(t)' /\ k \in RunKeys(t)
    BY <1>0, <1>1, PromisedFacts, NextFacts DEF RunKeys
  <1>5. Dictionary!Promised(t)' = Dictionary!Promised(t)
    <2>1. CASE Dictionary!ReadBlock(t, k)
      <3>1. /\ reader_pc[t] = "sync" /\ reader_pc'[t] = "return" /\ temp'[t] = userCenterDic[k]
        BY <1>0, <2>1 DEF Dictionary!ReadBlock, DictionaryTypes
      <3>2. RunKeys(t) = {k} /\ Queued(t) = {}
        BY <1>0, <1>4, <3>1 DEF ReadPlace
      <3>. QED
        BY <1>4, <3>1, <3>2 DEF PromisedAs
    <2>2. CASE Dictionary!ReadReturns(t, k)
      <3>1. reader_pc[t] = "return" /\ reader_pc'[t] = "idle" /\ temp' = temp
        BY <1>0, <2>2 DEF Dictionary!ReadReturns, DictionaryTypes
      <3>. QED
        BY <1>4, <3>1 DEF PromisedAs
    <2>. QED
      BY <2>1, <2>2
  <1>6. ASSUME NEW u \in Threads, u # t PROVE Dictionary!Promised(u)' = Dictionary!Promised(u)
    <2>1. reader_pc'[u] = reader_pc[u] /\ temp'[u] = temp[u]
      BY <1>0, <1>6 DEF Dictionary!ReadBlock, Dictionary!ReadReturns, DictionaryTypes
    <2>2. \A key \in Keys : R(u, key) # R(t, k)
      BY <1>6, ItemFacts
    <2>3. RunKeys(u)' = RunKeys(u) /\ Queued(u)' = Queued(u)
      BY <1>1, <2>2 DEF RunKeys, Queued
    <2>. QED
      BY <1>0, <1>1, <1>3, <2>1, <2>3, PromisedKept
  <1>. QED
    BY <1>3, <1>5, <1>6, DictionaryFunctions

(***************************************************************************)
(* The dictionary implements AtomicDictionary, with any number of threads, *)
(* keys, objects and waiting blocks: a write counts from the moment        *)
(* setSafeObject is called, and a read answers what was written before     *)
(* safeObjectForKey was called.                                            *)
(***************************************************************************)
THEOREM Refinement == FairSpec => AtomicSpec
PROOF
  <1>1. Dictionary!Init => Dictionary!Abstract!Init
    <2>. SUFFICES ASSUME Dictionary!Init PROVE Dictionary!Abstract!Init
      OBVIOUS
    <2>1. /\ synchronizationQueue.items = <<>> /\ Dictionary!RunningWrites = {}
          /\ \A t \in Threads : reader_pc[t] = "idle" /\ temp[t] = Nil
          /\ \A key \in Keys : userCenterDic[key] = Nil
      BY DEF Dictionary!Init, Dictionary!EmptyQueue, Dictionary!RunningWrites
    <2>2. \A key \in Keys : Dictionary!Eventually(key, Len(synchronizationQueue.items)) = Nil
      <3>1. \A key \in Keys : Dictionary!Before(key, Len(synchronizationQueue.items)) = {}
        BY <2>1 DEF Dictionary!Before
      <3>. QED
        BY <2>1, <3>1 DEF Dictionary!Eventually
    <2>3. \A t \in Threads : Dictionary!Promised(t) = Nil
      BY <2>1 DEF Dictionary!Promised
    <2>. QED
      BY <2>2, <2>3 DEF Dictionary!Abstract!Init
  <1>2. DictionaryInv /\ DictionaryInv' /\ [Dictionary!Next]_dictionary
        => [Dictionary!Abstract!Next]_<<Contents, Promises>>
    <2>. SUFFICES ASSUME DictionaryInv, DictionaryTypes', [Dictionary!Next]_dictionary
                  PROVE  [Dictionary!Abstract!Next]_<<Contents, Promises>>
      BY DEF DictionaryInv
    <2>1. ASSUME NEW t \in Threads, NEW k \in Keys, NEW obj \in Objects, Dictionary!setSafeObject(t, k, obj)
          PROVE  Dictionary!Abstract!Next
      <3>1. Dictionary!Abstract!Set(k, obj)
        BY <2>1, SetStep DEF Dictionary!Abstract!Set, Contents, Promises, Its
      <3>. QED
        BY <3>1 DEF Dictionary!Abstract!Next
    <2>2. ASSUME NEW t \in Threads, NEW k \in Keys, Dictionary!safeObjectForKey(t, k)
          PROVE  Dictionary!Abstract!Next
      <3>1. Dictionary!Abstract!Get(t, k)
        BY <2>2, GetStep DEF Dictionary!Abstract!Get, Contents, Promises, Its
      <3>. QED
        BY <3>1 DEF Dictionary!Abstract!Next
    <2>3. CASE Dictionary!StartBlock
      BY <2>3, StartStep
    <2>4. ASSUME NEW k \in Keys, NEW o \in Objects, Dictionary!SetBegins(k, o) \/ Dictionary!SetEnds(k, o)
          PROVE  UNCHANGED <<Contents, Promises>>
      BY <2>4, WriteStepKeeps
    <2>5. ASSUME NEW t \in Threads, NEW k \in Keys, Dictionary!ReadBlock(t, k) \/ Dictionary!ReadReturns(t, k)
          PROVE  UNCHANGED <<Contents, Promises>>
      BY <2>5, ReadStepKeeps
    <2>6. CASE UNCHANGED dictionary
      BY <2>6
      DEF dictionary, Contents, Promises, Dictionary!Eventually, Dictionary!Before,
          Dictionary!RunningWrites, Dictionary!Promised, Its
    <2>. QED
      BY <2>1, <2>2, <2>3, <2>4, <2>5, <2>6 DEF Dictionary!Next, Dictionary!WriteStep, Dictionary!ReadStep
  <1>. QED
    BY <1>1, <1>2, DictionaryAlone, DictionaryInvariant, PTL
    DEF FairSpec, Init, AtomicSpec, Dictionary!AtomicSpec, Dictionary!Abstract!Spec, Contents, Promises, Its
-----------------------------------------------------------------------------
(***************************************************************************)
(* The algorithms.  The operators of the instance of AlgorithmsProofs have *)
(* the definitions of those in Demos, each of which is expanded to compare *)
(* them.                                                                   *)
(***************************************************************************)
\* The sort by which the others are judged.
LEMMA SameSorted == \A a : Algos!sorted(a) = AlgorithmsDemo!sorted(a)
PROOF
  BY DEF Algos!sorted, AlgorithmsDemo!sorted, Algos!Positions, AlgorithmsDemo!Positions,
         Algos!place, AlgorithmsDemo!place, Algos!Precedes, AlgorithmsDemo!Precedes,
         Algos!Cardinality, AlgorithmsDemo!Cardinality

\* The same bubbleSort.
LEMMA SameBubbleSort == \A a : Algos!bubbleSort(a) = AlgorithmsDemo!bubbleSort(a)
PROOF
  BY DEF Algos!bubbleSort, AlgorithmsDemo!bubbleSort, Algos!bubblePass, AlgorithmsDemo!bubblePass,
         Algos!Swap, AlgorithmsDemo!Swap, Algos!For, AlgorithmsDemo!For

\* The same bubbleOptimizerSort.
LEMMA SameBubbleOptimizer == \A a : Algos!bubbleOptimizerSort(a) = AlgorithmsDemo!bubbleOptimizerSort(a)
PROOF
  BY DEF Algos!bubbleOptimizerSort, AlgorithmsDemo!bubbleOptimizerSort, Algos!bubblePass,
         AlgorithmsDemo!bubblePass, Algos!Swap, AlgorithmsDemo!Swap, Algos!For,
         AlgorithmsDemo!For, Algos!Arrays, AlgorithmsDemo!Arrays, Algos!Positions,
         AlgorithmsDemo!Positions

\* The same selectSort.
LEMMA SameSelectSort == \A a : Algos!selectSort(a) = AlgorithmsDemo!selectSort(a)
PROOF
  BY DEF Algos!selectSort, AlgorithmsDemo!selectSort, Algos!select, AlgorithmsDemo!select,
         Algos!least, AlgorithmsDemo!least, Algos!For, AlgorithmsDemo!For

\* The same insertSort.
LEMMA SameInsertSort == \A a : Algos!insertSort(a) = AlgorithmsDemo!insertSort(a)
PROOF
  BY DEF Algos!insertSort, AlgorithmsDemo!insertSort, Algos!insert, AlgorithmsDemo!insert,
         Algos!Swap, AlgorithmsDemo!Swap, Algos!For, AlgorithmsDemo!For, Algos!Arrays,
         AlgorithmsDemo!Arrays, Algos!Positions, AlgorithmsDemo!Positions

\* The same shellSort.
LEMMA SameShellSort == \A a : Algos!shellSort(a) = AlgorithmsDemo!shellSort(a)
PROOF
  BY DEF Algos!shellSort, AlgorithmsDemo!shellSort, Algos!shellRound, AlgorithmsDemo!shellRound,
         Algos!shellColumn, AlgorithmsDemo!shellColumn, Algos!shellInsert,
         AlgorithmsDemo!shellInsert, Algos!For, AlgorithmsDemo!For, Algos!Arrays,
         AlgorithmsDemo!Arrays, Algos!Positions, AlgorithmsDemo!Positions

\* The same mergeSort.
LEMMA SameMergeSort == \A a : Algos!mergeSort(a) = AlgorithmsDemo!mergeSort(a)
PROOF
  BY DEF Algos!mergeSort, AlgorithmsDemo!mergeSort, Algos!mergeRound, AlgorithmsDemo!mergeRound,
         Algos!merge, AlgorithmsDemo!merge, Algos!Positions, AlgorithmsDemo!Positions

\* The same quickSort.
LEMMA SameQuickSort == \A a : Algos!quickSort(a) = AlgorithmsDemo!quickSort(a)
PROOF
  BY DEF Algos!quickSort, AlgorithmsDemo!quickSort, Algos!partition, AlgorithmsDemo!partition,
         Algos!meet, AlgorithmsDemo!meet, Algos!goLeft, AlgorithmsDemo!goLeft, Algos!goRight,
         AlgorithmsDemo!goRight, Algos!Max, AlgorithmsDemo!Max, Algos!Min, AlgorithmsDemo!Min,
         Algos!Swap, AlgorithmsDemo!Swap, Algos!Arrays, AlgorithmsDemo!Arrays, Algos!Positions,
         AlgorithmsDemo!Positions

\* The same binarySearch.
LEMMA SameSearch == \A a, v : Algos!binarySearch(a, v) = AlgorithmsDemo!binarySearch(a, v)
PROOF
  BY DEF Algos!binarySearch, AlgorithmsDemo!binarySearch, Algos!binarySearchBetween,
         AlgorithmsDemo!binarySearchBetween

\* The same binarySearch1.
LEMMA SameOpenSearch == \A a, v : Algos!binarySearch1(a, v) = AlgorithmsDemo!binarySearch1(a, v)
PROOF
  BY DEF Algos!binarySearch1, AlgorithmsDemo!binarySearch1

\* The same twoSum.
LEMMA SameTwoSum == \A a, v : Algos!twoSum(a, v) = AlgorithmsDemo!twoSum(a, v)
PROOF
  BY DEF Algos!twoSum, AlgorithmsDemo!twoSum, Algos!Positions, AlgorithmsDemo!Positions,
         Algos!Min, AlgorithmsDemo!Min

\* The same twoSum1.
LEMMA SameTwoSum1 == \A a, v : Algos!twoSum1(a, v) = AlgorithmsDemo!twoSum1(a, v)
PROOF
  BY DEF Algos!twoSum1, AlgorithmsDemo!twoSum1, Algos!Positions, AlgorithmsDemo!Positions,
         Algos!Min, AlgorithmsDemo!Min, Algos!Max, AlgorithmsDemo!Max

\* The same twoSum2.
LEMMA SameTwoSum2 == \A a, v : Algos!twoSum2(a, v) = AlgorithmsDemo!twoSum2(a, v)
PROOF
  BY DEF Algos!twoSum2, AlgorithmsDemo!twoSum2, Algos!Positions, AlgorithmsDemo!Positions,
         Algos!Min, AlgorithmsDemo!Min, Algos!Max, AlgorithmsDemo!Max

\* The same twoSumSearch.
LEMMA SameTwoSumSearch == \A a, v : Algos!twoSumSearch(a, v) = AlgorithmsDemo!twoSumSearch(a, v)
PROOF
  BY DEF Algos!twoSumSearch, AlgorithmsDemo!twoSumSearch, Algos!binarySearchBetween,
         AlgorithmsDemo!binarySearchBetween, Algos!Positions, AlgorithmsDemo!Positions, Algos!Min,
         AlgorithmsDemo!Min

\* The same twoSumPointers.
LEMMA SameTwoSumPointers == \A a, v : Algos!twoSumPointers(a, v) = AlgorithmsDemo!twoSumPointers(a, v)
PROOF
  BY DEF Algos!twoSumPointers, AlgorithmsDemo!twoSumPointers

\* The same threeSum.
LEMMA SameThreeSum == \A a : Algos!threeSum(a) = AlgorithmsDemo!threeSum(a)
PROOF
  BY DEF Algos!threeSum, AlgorithmsDemo!threeSum, Algos!sorted, AlgorithmsDemo!sorted,
         Algos!Positions, AlgorithmsDemo!Positions, Algos!place, AlgorithmsDemo!place,
         Algos!Precedes, AlgorithmsDemo!Precedes, Algos!Cardinality, AlgorithmsDemo!Cardinality

\* The same threeSum1.
LEMMA SameThreeSum1 == \A a : Algos!threeSum1(a) = AlgorithmsDemo!threeSum1(a)
PROOF
  BY DEF Algos!threeSum1, AlgorithmsDemo!threeSum1, Algos!sorted, AlgorithmsDemo!sorted,
         Algos!Positions, AlgorithmsDemo!Positions, Algos!place, AlgorithmsDemo!place,
         Algos!Precedes, AlgorithmsDemo!Precedes, Algos!Cardinality, AlgorithmsDemo!Cardinality

\* The same pairs.
LEMMA SamePairs ==
  \A a, c, v, k, l : Algos!pairs(a, c, v, k, l) = AlgorithmsDemo!pairs(a, c, v, k, l)
PROOF
  BY DEF Algos!pairs, AlgorithmsDemo!pairs, Algos!passEqual, AlgorithmsDemo!passEqual,
         Algos!passLeft, AlgorithmsDemo!passLeft, Algos!passRight, AlgorithmsDemo!passRight,
         Algos!Min, AlgorithmsDemo!Min, Algos!Max, AlgorithmsDemo!Max

\* The same threeSum2: the rounds of the two loops are the same.
LEMMA SameThreeSum2 == \A a : Algos!threeSum2(a) = AlgorithmsDemo!threeSum2(a)
PROOF
  <1>. SUFFICES ASSUME NEW a PROVE Algos!threeSum2(a) = AlgorithmsDemo!threeSum2(a)
    OBVIOUS
  <1>. DEFINE b == AlgorithmsDemo!sorted(a)
              c == Algos!sorted(a)
              A(found, k) ==
                IF k > 1 /\ c[k] = c[k - 1] THEN found
                ELSE found \o Algos!Prefixed(<<c[k]>>, Algos!pairs(c, c[k], 0, k + 1, Len(c)))
              B(found, k) ==
                IF k > 1 /\ b[k] = b[k - 1] THEN found
                ELSE found \o AlgorithmsDemo!Prefixed(<<b[k]>>,
                                 AlgorithmsDemo!pairs(b, b[k], 0, k + 1, Len(b)))
              F(r) == [k \in (1 - 1)..Len(c) |-> IF k < 1 THEN <<>> ELSE A(r[k - 1], k)]
              G(r) == [k \in (1 - 1)..Len(b) |-> IF k < 1 THEN <<>> ELSE B(r[k - 1], k)]
  <1>0. c = b
    BY SameSorted
  <1>1. \A found, k : A(found, k) = B(found, k)
    <2>. HIDE DEF b, c
    <2>. QED
      BY <1>0, SamePairs DEF Algos!Prefixed, AlgorithmsDemo!Prefixed
  <1>2. \A r : F(r) = G(r)
    <2>. HIDE DEF A, B, b, c
    <2>. QED
      BY <1>0, <1>1
  <1>3. (CHOOSE r : r = F(r)) = (CHOOSE r : r = G(r))
    <2>. HIDE DEF F, G
    <2>. QED
      BY <1>2, Zenon
  <1>4. Algos!threeSum2(a) =
          IF Len(c) < 1 THEN <<>> ELSE (CHOOSE r : r = F(r))[Len(c)]
    BY DEF Algos!threeSum2, Algos!For
  <1>5. AlgorithmsDemo!threeSum2(a) =
          IF Len(b) < 1 THEN <<>> ELSE (CHOOSE r : r = G(r))[Len(b)]
    BY DEF AlgorithmsDemo!threeSum2, AlgorithmsDemo!For
  <1>. HIDE DEF F, G, b, c
  <1>. QED
    BY <1>0, <1>3, <1>4, <1>5

\* The same maxSubArray.
LEMMA SameMaxSubArray == \A a : Algos!maxSubArray(a) = AlgorithmsDemo!maxSubArray(a)
PROOF
  BY DEF Algos!maxSubArray, AlgorithmsDemo!maxSubArray, Algos!SumOf, AlgorithmsDemo!SumOf,
         Algos!For, AlgorithmsDemo!For, Algos!Positions, AlgorithmsDemo!Positions, Algos!Max,
         AlgorithmsDemo!Max

\* The same maxSubArray1.
LEMMA SameMaxSubArray1 == \A a : Algos!maxSubArray1(a) = AlgorithmsDemo!maxSubArray1(a)
PROOF
  BY DEF Algos!maxSubArray1, AlgorithmsDemo!maxSubArray1, Algos!greedy, AlgorithmsDemo!greedy,
         Algos!For, AlgorithmsDemo!For, Algos!Max, AlgorithmsDemo!Max

\* The same maxSubArray2.
LEMMA SameMaxSubArray2 == \A a : Algos!maxSubArray2(a) = AlgorithmsDemo!maxSubArray2(a)
PROOF
  BY DEF Algos!maxSubArray2, AlgorithmsDemo!maxSubArray2, Algos!For, AlgorithmsDemo!For,
         Algos!Positions, AlgorithmsDemo!Positions, Algos!Max, AlgorithmsDemo!Max

\* So what AlgorithmsProofs shows of the sorts is true here.
LEMMA SortsAgreeHere == AlgorithmsDemo!SortsAgree => Algos!SortsAgree
PROOF
  <1>. DEFINE s == Algos!sorted(nums)
              found == {Algos!bubbleSort(nums), Algos!bubbleOptimizerSort(nums), Algos!selectSort(nums),
                        Algos!insertSort(nums), Algos!shellSort(nums), Algos!quickSort(nums)}
                         \union (IF nums = <<>> THEN {} ELSE {Algos!mergeSort(nums)})
              Finds(target, k) == IF \E l \in Algos!Positions(s) : s[l] = target
                                    THEN k \in Algos!Positions(s) /\ s[k] = target ELSE k = -1
  <1>. SUFFICES ASSUME AlgorithmsDemo!SortsAgree PROVE Algos!SortsAgree
    OBVIOUS
  <1>1. s = AlgorithmsDemo!sorted(nums)
    BY SameSorted
  <1>2. found = {s}
    <2>. HIDE DEF s
    <2>. QED
      BY <1>1, SameBubbleSort, SameBubbleOptimizer, SameSelectSort, SameInsertSort, SameShellSort,
         SameQuickSort, SameMergeSort DEF AlgorithmsDemo!SortsAgree
  <1>3. ASSUME NEW target \in Algos!Numbers
        PROVE  Finds(target, Algos!binarySearch(s, target)) /\ Finds(target, Algos!binarySearch1(s, target))
    <2>. HIDE DEF s
    <2>. QED
      BY <1>1, SameSearch, SameOpenSearch
      DEF AlgorithmsDemo!SortsAgree, AlgorithmsDemo!Positions, Algos!Positions, AlgorithmsDemo!Numbers,
          Algos!Numbers
  <1>. QED
    BY <1>2, <1>3 DEF Algos!SortsAgree

\* And of the sum problems.
LEMMA SumsAgreeHere == AlgorithmsDemo!SumsAgree => Algos!SumsAgree
PROOF
  <1>. DEFINE s == Algos!sorted(nums)
              triples == Algos!threeSum2(nums)
              Pair(a, target, k, l) == k # l /\ a[k] + a[l] = target
              Answers(a, target, answer) ==
                IF \E k, l \in Algos!Positions(a) : Pair(a, target, k, l)
                  THEN Len(answer) = 2 /\ Pair(a, target, answer[1], answer[2])
                  ELSE answer = <<>>
              InOrder(answer) == answer = <<>> \/ answer[1] < answer[2]
  <1>. SUFFICES ASSUME AlgorithmsDemo!SumsAgree PROVE Algos!SumsAgree
    OBVIOUS
  <1>1. s = AlgorithmsDemo!sorted(nums)
    BY SameSorted
  <1>2. ASSUME NEW target \in Algos!Numbers
        PROVE  /\ \A answer \in {Algos!twoSum(nums, target), Algos!twoSum1(nums, target),
                                 Algos!twoSum2(nums, target)} : Answers(nums, target, answer)
               /\ \A answer \in {Algos!twoSum(s, target), Algos!twoSumSearch(s, target),
                                 Algos!twoSumPointers(s, target)} :
                    Answers(s, target, answer) /\ InOrder(answer)
    <2>. DEFINE first == {Algos!twoSum(nums, target), Algos!twoSum1(nums, target), Algos!twoSum2(nums, target)}
                second == {Algos!twoSum(s, target), Algos!twoSumSearch(s, target),
                           Algos!twoSumPointers(s, target)}
                first2 == {AlgorithmsDemo!twoSum(nums, target), AlgorithmsDemo!twoSum1(nums, target),
                           AlgorithmsDemo!twoSum2(nums, target)}
                z == AlgorithmsDemo!sorted(nums)
                second2 == {AlgorithmsDemo!twoSum(z, target), AlgorithmsDemo!twoSumSearch(z, target),
                            AlgorithmsDemo!twoSumPointers(z, target)}
    <2>0. s = z
      BY <1>1
    <2>1. first = first2 /\ second = second2
      <3>. HIDE DEF s, z
      <3>. QED
        BY <2>0, SameTwoSum, SameTwoSum1, SameTwoSum2, SameTwoSumSearch, SameTwoSumPointers
    <2>2. target \in AlgorithmsDemo!Numbers
      BY DEF Algos!Numbers, AlgorithmsDemo!Numbers
    <2>3. /\ \A answer \in first2 : Answers(nums, target, answer)
          /\ \A answer \in second2 : Answers(z, target, answer) /\ InOrder(answer)
      BY <2>2 DEF AlgorithmsDemo!SumsAgree, AlgorithmsDemo!Positions, Algos!Positions
    <2>. HIDE DEF first, second, first2, second2, Answers, InOrder, s, z
    <2>4. /\ \A answer \in first : Answers(nums, target, answer)
          /\ \A answer \in second : Answers(s, target, answer) /\ InOrder(answer)
      BY <2>0, <2>1, <2>3
    <2>. QED
      BY <2>4 DEF first, second
  <1>3. Algos!threeSum1(nums) = Algos!threeSum(nums)
    BY SameThreeSum, SameThreeSum1 DEF AlgorithmsDemo!SumsAgree
  <1>4. {triples[k] : k \in DOMAIN triples} = Algos!threeSum(nums)
    <2>1. triples = AlgorithmsDemo!threeSum2(nums) /\ Algos!threeSum(nums) = AlgorithmsDemo!threeSum(nums)
      BY SameThreeSum, SameThreeSum2
    <2>. HIDE DEF triples
    <2>. QED
      BY <2>1 DEF AlgorithmsDemo!SumsAgree
  <1>5. Len(triples) = Algos!Cardinality(Algos!threeSum(nums))
    <2>1. Len(triples) = AlgorithmsDemo!Cardinality(AlgorithmsDemo!threeSum(nums))
      BY SameThreeSum2 DEF AlgorithmsDemo!SumsAgree
    <2>2. \A S : Algos!Cardinality(S) = AlgorithmsDemo!Cardinality(S)
      BY DEF Algos!Cardinality, AlgorithmsDemo!Cardinality
    <2>. HIDE DEF triples
    <2>. QED
      BY <2>1, <2>2, SameThreeSum
  <1>6. nums # <<>> => /\ Algos!maxSubArray1(nums) = Algos!maxSubArray(nums)
                       /\ Algos!maxSubArray2(nums) = Algos!maxSubArray(nums)
    BY SameMaxSubArray, SameMaxSubArray1, SameMaxSubArray2 DEF AlgorithmsDemo!SumsAgree
  <1>. QED
    BY <1>2, <1>3, <1>4, <1>5, <1>6 DEF Algos!SumsAgree

\* The steps of the algorithms are their own, and no other touches the array.
LEMMA AlgorithmsAlone == FairSpec => AlgorithmsDemo!Spec
PROOF
  <1>1. Init => AlgorithmsDemo!Init
    BY DEF Init, Algos!Init, AlgorithmsDemo!Init
  <1>2. [Next]_vars => [AlgorithmsDemo!Next]_nums
    BY DEF Next, Open, RequestsStep, ImagesStep, NetworkStep, BoundedStep, AlgorithmsStep, DictionaryStep,
           vars, Algos!Next, Algos!Touch, Algos!Numbers, AlgorithmsDemo!Next, AlgorithmsDemo!Touch,
           AlgorithmsDemo!Numbers
  <1>. QED
    BY <1>1, <1>2, PTL DEF FairSpec, AlgorithmsDemo!Spec

\* All the sorts sort and the searches find, and the functions for one sum problem give the same
\* answers, for arrays of every length.
THEOREM AlgorithmsAgreeHolds == FairSpec => []AlgorithmsAgree
PROOF
  <1>1. AlgorithmsDemo!AlgorithmsAssumption
    BY DemosAssumption DEF Algos!AlgorithmsAssumption, AlgorithmsDemo!AlgorithmsAssumption
  <1>2. AlgorithmsDemo!Spec => []AlgorithmsDemo!SortsAgree
    BY <1>1, AlgorithmsDemo!SortsAgreeHolds
  <1>3. AlgorithmsDemo!Spec => []AlgorithmsDemo!SumsAgree
    BY <1>1, AlgorithmsDemo!SumsAgreeHolds
  <1>4. AlgorithmsDemo!SortsAgree /\ AlgorithmsDemo!SumsAgree => AlgorithmsAgree
    BY SortsAgreeHere, SumsAgreeHere DEF AlgorithmsAgree
  <1>. QED
    BY AlgorithmsAlone, <1>2, <1>3, <1>4, PTL
-----------------------------------------------------------------------------
\* The elements of a sequence are different.
Unique(s) == \A k, l \in 1..Len(s) : s[k] = s[l] => k = l

\* Another element at the end leaves them different.
LEMMA UniqueAppended ==
  ASSUME NEW S, NEW s \in Seq(S), NEW x \in S, Unique(s), x \notin Elements(s)
  PROVE  Unique(Append(s, x))
PROOF
  <1>1. Len(s) \in Nat /\ Len(Append(s, x)) = Len(s) + 1
    OBVIOUS
  <1>2. \A k \in 1..(Len(s) + 1) : k \in 1..Len(s) \/ k = Len(s) + 1
    BY <1>1
  <1>3. (\A k \in 1..Len(s) : Append(s, x)[k] = s[k]) /\ Append(s, x)[Len(s) + 1] = x
    OBVIOUS
  <1>4. \A k \in 1..Len(s) : s[k] # x
    BY DEF Elements
  <1>. DEFINE r == Append(s, x)
  <1>5. ASSUME NEW k \in 1..(Len(s) + 1), NEW l \in 1..(Len(s) + 1), r[k] = r[l] PROVE k = l
    <2>. HIDE DEF r
    <2>1. CASE k \in 1..Len(s) /\ l \in 1..Len(s)
      <3>1. s[k] = s[l]
        BY <1>3, <1>5, <2>1 DEF r
      <3>. QED
        BY <2>1, <3>1 DEF Unique
    <2>2. CASE k \in 1..Len(s) /\ l = Len(s) + 1
      BY <1>3, <1>4, <1>5, <2>2 DEF r
    <2>3. CASE k = Len(s) + 1 /\ l \in 1..Len(s)
      BY <1>3, <1>4, <1>5, <2>3 DEF r
    <2>4. CASE k = Len(s) + 1 /\ l = Len(s) + 1
      BY <2>4
    <2>. QED
      BY <1>2, <2>1, <2>2, <2>3, <2>4
  <1>. QED
    BY <1>1, <1>5 DEF Unique

\* Without its head a sequence has the other elements, which are still different.
LEMMA UniqueTaken ==
  ASSUME NEW S, NEW s \in Seq(S), s # <<>>, Unique(s)
  PROVE  /\ Unique(Tail(s)) /\ Head(s) \notin Elements(Tail(s))
         /\ Elements(s) = Elements(Tail(s)) \union {Head(s)}
PROOF
  <1>1. /\ Head(s) = s[1] /\ Len(Tail(s)) = Len(s) - 1 /\ Len(s) \in Nat \ {0}
        /\ \A k \in 1..(Len(s) - 1) : Tail(s)[k] = s[k + 1]
    OBVIOUS
  <1>2. /\ \A k \in 1..(Len(s) - 1) : k + 1 \in 1..Len(s) /\ k + 1 # 1
        /\ \A k \in 1..Len(s) : k = 1 \/ (k - 1 \in 1..(Len(s) - 1) /\ k - 1 + 1 = k)
        /\ 1 \in 1..Len(s)
        /\ \A k, l \in 1..(Len(s) - 1) : k + 1 = l + 1 => k = l
    BY <1>1
  <1>3. Elements(s) = Elements(Tail(s)) \union {Head(s)}
    <2>1. ASSUME NEW x \in Elements(s) PROVE x \in Elements(Tail(s)) \union {Head(s)}
      <3>1. PICK k \in 1..Len(s) : x = s[k]
        BY DEF Elements
      <3>2. CASE k = 1
        BY <1>1, <3>1, <3>2
      <3>3. CASE k # 1
        <4>1. k - 1 \in 1..(Len(s) - 1) /\ Tail(s)[k - 1] = s[k]
          BY <1>1, <1>2, <3>3
        <4>. QED
          BY <1>1, <3>1, <4>1 DEF Elements
      <3>. QED
        BY <3>2, <3>3
    <2>2. ASSUME NEW x \in Elements(Tail(s)) PROVE x \in Elements(s)
      <3>1. PICK k \in 1..(Len(s) - 1) : x = Tail(s)[k]
        BY <1>1 DEF Elements
      <3>. QED
        BY <1>1, <1>2, <3>1 DEF Elements
    <2>. QED
      BY <1>1, <1>2, <2>1, <2>2 DEF Elements
  <1>4. Head(s) \notin Elements(Tail(s))
    <2>1. ASSUME NEW k \in 1..(Len(s) - 1), Tail(s)[k] = Head(s) PROVE FALSE
      <3>1. s[k + 1] = s[1] /\ k + 1 \in 1..Len(s) /\ 1 \in 1..Len(s) /\ k + 1 # 1
        BY <1>1, <1>2, <2>1
      <3>. QED
        BY <3>1 DEF Unique
    <2>. QED
      BY <1>1, <2>1 DEF Elements
  <1>5. ASSUME NEW k \in 1..(Len(s) - 1), NEW l \in 1..(Len(s) - 1), Tail(s)[k] = Tail(s)[l] PROVE k = l
    <2>1. s[k + 1] = s[l + 1] /\ k + 1 \in 1..Len(s) /\ l + 1 \in 1..Len(s)
      BY <1>1, <1>2, <1>5
    <2>2. k + 1 = l + 1
      BY <2>1 DEF Unique
    <2>. QED
      BY <1>2, <2>2
  <1>. QED
    BY <1>1, <1>3, <1>4, <1>5 DEF Unique
-----------------------------------------------------------------------------
(***************************************************************************)
(* The dependent requests, for any number of touches, requests of a chain  *)
(* and threads.                                                            *)
(***************************************************************************)
Entry(op, c) == Requests!Item(Requests!Work(op, c), FALSE)

\* What a queue holds, in the line or running; and every item of it is there once.
Held(q) == Elements(q.items) \union q.running
Once(q) == Unique(q.items) /\ Elements(q.items) \intersect q.running = {}

Queues(S, T) == [items : Seq(S), running : SUBSET T]

MainLine == Requests!Items({"callback", "notify"})
MainWork == Requests!Items({"chain", "callback", "notify"})
GlobalWork == Requests!Items({"chain", "load"})

\* The ranges; the bounds of the two numbers follow from Numbered.
RequestTypes ==
  /\ identifier \in Nat
  /\ pc \in [Chains -> {"idle", "ready", "wait", "done"}]
  /\ stage \in [Chains -> 0..Stages] /\ callbacks \in [Chains -> 0..Stages]
  /\ entered \in [Chains -> 0..1] /\ permits \in [Chains -> 0..1]
  /\ num \in [Chains -> Nat] /\ requests_notified \subseteq Chains

\* The request of a chain is on its way, or its callback, or its report; it has been started; and
\* its request has been answered.
Loading(c) == Entry("load", c) \in Held(global)
CallingBack(c) == Entry("callback", c) \in Held(requests_main)
Pending(c) == Loading(c) \/ CallingBack(c)
Reporting(c) == Entry("notify", c) \in Held(requests_main)
Begun(c) == Entry("chain", c) \in Held(requests_main) \union Held(global)
Answered(c) == pc[c] = "wait" /\ ~Pending(c)
One(b) == IF b THEN 1 ELSE 0

\* A chain has one request on its way, while it waits, and the answers and what it waits on tell
\* how far it has come.
Chained(c) ==
  /\ pc[c] = "idle" => stage[c] = 0 /\ ~Begun(c)
  /\ pc[c] # "wait" => ~Pending(c)
  /\ pc[c] = "wait" => stage[c] < Stages
  /\ pc[c] = "done" => stage[c] = Stages
  /\ Reporting(c) \/ c \in requests_notified => pc[c] = "done"
  /\ ~(Loading(c) /\ CallingBack(c))
  /\ callbacks[c] = stage[c] + One(Answered(c))
  /\ entered[c] = One(c \in GroupChains /\ Pending(c))
  /\ permits[c] = One(c \notin GroupChains /\ Answered(c))

Lines == /\ requests_main \in Queues(MainLine, MainWork) /\ Once(requests_main)
         /\ global \in Queues(GlobalWork, GlobalWork) /\ Once(global)

RequestLine == Lines /\ \A c \in Chains : Chained(c)

\* A chain that has the identifier to itself.
Alone(c) == /\ pc[c] # "idle" /\ c \notin MainChains
            /\ \A d \in Chains \ (MainChains \union {c}) : pc[d] = "idle"

\* The identifier and the argument of the request that is on its way.
Identified ==
  /\ (\A c \in Chains \ MainChains : pc[c] = "idle") => identifier = 1
  /\ \A c \in Chains : Alone(c) => /\ identifier = 1 + callbacks[c]
                                   /\ Pending(c) => num[c] = 1 + callbacks[c]

\* The callbacks that have run; none makes the identifier larger than their number allows.
Answers == {e \in Chains \X (1..Stages) : e[2] <= callbacks[e[1]]}
Numbered ==
  /\ identifier \in 1..(1 + Cardinality(Answers))
  /\ \A c \in Chains : /\ num[c] <= Cardinality(Chains) * Stages
                       /\ c \notin MainChains => num[c] <= 1 + Cardinality(Answers)

(***************************************************************************)
(* The inductive invariant.  That a chain is not answered twice rests on   *)
(* its one request, and the bounds on the number of answers.               *)
(***************************************************************************)
RequestInv == RequestTypes /\ RequestLine /\ Identified /\ Numbered
-----------------------------------------------------------------------------
\* The items of the queues are told apart by what they do and for whom.
LEMMA Entries ==
  /\ \A op, c, op2, c2 : Entry(op, c) = Entry(op2, c2) => op = op2 /\ c = c2
  /\ \A op, c : Entry(op, c).work = Requests!Work(op, c)
  /\ \A ops : Requests!Items(ops) = {Entry(op, c) : op \in ops, c \in Chains}
PROOF
  <1>1. \A op, c, op2, c2 : Requests!Work(op, c) = Requests!Work(op2, c2) => op = op2 /\ c = c2
    BY DEF Requests!Work
  <1>2. \A w, w2 : Requests!Item(w, FALSE) = Requests!Item(w2, FALSE) => w = w2
    BY DEF Requests!Item
  <1>3. \A op, c : Entry(op, c).work = Requests!Work(op, c)
    BY DEF Entry, Requests!Item
  <1>4. \A ops : Requests!Items(ops) = {Entry(op, c) : op \in ops, c \in Chains}
    BY DEF Requests!Items, Entry
  <1>5. \A op, c, op2, c2 : Entry(op, c) = Entry(op2, c2) => op = op2 /\ c = c2
    BY <1>1, <1>2 DEF Entry
  <1>. QED
    BY <1>3, <1>4, <1>5

\* What comes to the end of a line is held.
LEMMA HeldAppended ==
  ASSUME NEW S, NEW T, S \subseteq T, NEW q \in Queues(S, T), Once(q), NEW x \in S, NEW q2,
         q2 = [q EXCEPT !.items = Append(@, x)]
  PROVE  /\ q2 \in Queues(S, T) /\ Held(q2) = Held(q) \union {x} /\ q2.running = q.running
         /\ x \notin Held(q) => Once(q2)
PROOF
  <1>1. q.items \in Seq(S) /\ q.running \subseteq T /\ q = [items |-> q.items, running |-> q.running]
    BY DEF Queues
  <1>2. q2 = [items |-> Append(q.items, x), running |-> q.running]
    BY <1>1
  <1>3. q2.items = Append(q.items, x) /\ q2.running = q.running
    BY <1>2
  <1>4. Append(q.items, x) \in Seq(S) /\ Elements(Append(q.items, x)) = Elements(q.items) \union {x}
    BY <1>1, Appended
  <1>5. q2 \in Queues(S, T)
    BY <1>1, <1>2, <1>4 DEF Queues
  <1>6. Held(q2) = Held(q) \union {x}
    BY <1>3, <1>4 DEF Held
  <1>7. ASSUME x \notin Held(q) PROVE Once(q2)
    <2>1. x \notin Elements(q.items) /\ x \notin q.running
      BY <1>7 DEF Held
    <2>2. Elements(q2.items) \intersect q2.running = {}
      BY <1>3, <1>4, <2>1 DEF Once
    <2>3. Unique(q2.items)
      BY <1>1, <1>3, <2>1, UniqueAppended DEF Once
    <2>. QED
      BY <2>2, <2>3 DEF Once
  <1>. QED
    BY <1>3, <1>5, <1>6, <1>7

\* A head that starts is still held.
LEMMA HeldStarted ==
  ASSUME NEW S, NEW T, S \subseteq T, NEW q \in Queues(S, T), Once(q), q.items # <<>>, NEW q2,
         q2 = [items |-> Tail(q.items), running |-> q.running \union {Head(q.items)}]
  PROVE  q2 \in Queues(S, T) /\ Held(q2) = Held(q) /\ Once(q2)
PROOF
  <1>1. q.items \in Seq(S) /\ q.running \subseteq T /\ Unique(q.items) /\ Elements(q.items) \intersect q.running = {}
    BY DEF Queues, Once
  <1>2. Tail(q.items) \in Seq(S) /\ Head(q.items) \in S
    BY <1>1
  <1>3. q2 \in Queues(S, T) /\ q2.items = Tail(q.items) /\ q2.running = q.running \union {Head(q.items)}
    BY <1>1, <1>2 DEF Queues
  <1>4. /\ Elements(q.items) = Elements(q2.items) \union {Head(q.items)}
        /\ Head(q.items) \notin Elements(q2.items) /\ Unique(q2.items)
    BY <1>1, <1>3, UniqueTaken
  <1>5. Once(q2)
    BY <1>1, <1>3, <1>4 DEF Once
  <1>. QED
    BY <1>3, <1>4, <1>5 DEF Held

\* An item that has run is not held any more, and nothing else changes.
LEMMA HeldDone ==
  ASSUME NEW S, NEW T, S \subseteq T, NEW q \in Queues(S, T), Once(q), NEW op, NEW c, NEW ops, T = Requests!Items(ops),
         NEW q2, q2 = Requests!Done(q, Requests!Work(op, c))
  PROVE  /\ q2 \in Queues(S, T) /\ Once(q2) /\ q2.items = q.items
         /\ Held(q2) \subseteq Held(q) /\ Held(q) \ {Entry(op, c)} \subseteq Held(q2)
         /\ Requests!Running(q, Requests!Work(op, c)) => /\ Entry(op, c) \in Held(q)
                                                         /\ Entry(op, c) \notin Held(q2)
PROOF
  <1>1. q.items \in Seq(S) /\ q.running \subseteq T /\ q = [items |-> q.items, running |-> q.running]
    BY DEF Queues
  <1>2. \A item \in T : item.work = Requests!Work(op, c) <=> item = Entry(op, c)
    <2>1. ASSUME NEW item \in T PROVE \E op2, c2 : item = Entry(op2, c2)
      BY Entries
    <2>2. \A op2, c2 : Requests!Work(op2, c2) = Requests!Work(op, c) => op2 = op /\ c2 = c
      BY DEF Requests!Work
    <2>. QED
      BY <2>1, <2>2, Entries
  <1>3. q2 = [items |-> q.items, running |-> q.running \ {Entry(op, c)}]
    BY <1>1, <1>2 DEF Requests!Done
  <1>4. q2.items = q.items /\ q2.running = q.running \ {Entry(op, c)} /\ q2 \in Queues(S, T)
    BY <1>1, <1>3 DEF Queues
  <1>5. Once(q2)
    BY <1>4 DEF Once
  <1>6. Held(q2) \subseteq Held(q) /\ Held(q) \ {Entry(op, c)} \subseteq Held(q2)
    BY <1>4 DEF Held
  <1>7. ASSUME Requests!Running(q, Requests!Work(op, c))
        PROVE  Entry(op, c) \in Held(q) /\ Entry(op, c) \notin Held(q2)
    <2>1. Entry(op, c) \in q.running
      BY <1>1, <1>2, <1>7 DEF Requests!Running
    <2>. QED
      BY <1>4, <2>1 DEF Held, Once
  <1>. QED
    BY <1>4, <1>5, <1>6, <1>7

\* Which items the lines may hold.
LEMMA LineEntries ==
  ASSUME NEW c \in Chains
  PROVE  /\ Entry("callback", c) \in MainLine /\ Entry("notify", c) \in MainLine
         /\ Entry("load", c) \in GlobalWork /\ Entry("chain", c) \in GlobalWork /\ Entry("chain", c) \in MainWork
         /\ MainLine \subseteq MainWork /\ Entry("chain", c) \notin MainLine
         /\ Entry("load", c) \notin MainWork
PROOF
  <1>1. \A ops : Requests!Items(ops) = {Entry(op, d) : op \in ops, d \in Chains}
    BY Entries
  <1>2. \A op, ops : op \in ops => Entry(op, c) \in Requests!Items(ops)
    BY <1>1
  <1>3. \A op, ops : op \notin ops => Entry(op, c) \notin Requests!Items(ops)
    BY <1>1, Entries
  <1>4. MainLine \subseteq MainWork
    BY <1>1 DEF MainLine, MainWork
  <1>. QED
    BY <1>2, <1>3, <1>4 DEF MainLine, MainWork, GlobalWork

\* What the steps do to the lines: a touch ...
LEMMA TouchLines ==
  ASSUME RequestInv, NEW c \in Chains, Requests!Touch(c)
  PROVE  /\ Lines'
         /\ \A d \in Chains : /\ Loading(d)' <=> Loading(d)
                              /\ CallingBack(d)' <=> CallingBack(d)
                              /\ Reporting(d)' <=> Reporting(d)
                              /\ Begun(d)' => Begun(d) \/ d = c
PROOF
  <1>1. Lines /\ Chained(c) /\ pc[c] = "idle" /\ ~Begun(c)
    BY DEF RequestInv, RequestLine, Chained, Requests!Touch
  <1>2. CASE c \in MainChains
    <2>1. requests_main' = [requests_main EXCEPT !.running = {Entry("chain", c)}] /\ global' = global
            /\ requests_main.running = {}
      BY <1>2 DEF Requests!Touch, Entry
    <2>2. requests_main = [items |-> requests_main.items, running |-> requests_main.running]
            /\ requests_main.items \in Seq(MainLine)
      BY <1>1 DEF Lines, Queues
    <2>3. requests_main'.items = requests_main.items /\ requests_main'.running = {Entry("chain", c)}
            /\ requests_main' \in Queues(MainLine, MainWork)
      BY <2>1, <2>2, LineEntries DEF Queues
    <2>4. Entry("chain", c) \notin Elements(requests_main.items)
      BY <1>1 DEF Begun, Held
    <2>5. Once(requests_main)' /\ Held(requests_main)' = Held(requests_main) \union {Entry("chain", c)}
      BY <1>1, <2>1, <2>3, <2>4 DEF Lines, Once, Held
    <2>6. /\ Lines'
          /\ \A x : x \in Held(requests_main') <=> x \in Held(requests_main) \/ x = Entry("chain", c)
      BY <1>1, <2>1, <2>3, <2>5 DEF Lines
    <2>. QED
      BY <2>1, <2>6, Entries DEF Loading, CallingBack, Reporting, Begun
  <1>3. CASE c \notin MainChains
    <2>1. global' = [global EXCEPT !.items = Append(@, Entry("chain", c))] /\ requests_main' = requests_main
      BY <1>3 DEF Requests!Touch, Requests!Async, Entry
    <2>2. Entry("chain", c) \notin Held(global)
      BY <1>1 DEF Begun
    <2>3. global' \in Queues(GlobalWork, GlobalWork) /\ Once(global')
            /\ Held(global') = Held(global) \union {Entry("chain", c)}
      BY <1>1, <2>1, <2>2, LineEntries, HeldAppended DEF Lines
    <2>. QED
      BY <1>1, <2>1, <2>3, Entries DEF Lines, Loading, CallingBack, Reporting, Begun
  <1>. QED
    BY <1>2, <1>3

\* ... a request ...
LEMMA SendLines ==
  ASSUME RequestInv, NEW c \in Chains, Requests!Request(c)
  PROVE  /\ Lines'
         /\ \A d \in Chains : /\ Loading(d)' <=> Loading(d) \/ d = c
                              /\ CallingBack(d)' <=> CallingBack(d)
                              /\ Reporting(d)' <=> Reporting(d)
                              /\ Begun(d)' => Begun(d)
PROOF
  <1>1. Lines /\ ~Loading(c)
    BY DEF RequestInv, RequestLine, Chained, Requests!Request, Pending
  <1>2. global' = [global EXCEPT !.items = Append(@, Entry("load", c))] /\ requests_main' = requests_main
    BY DEF Requests!Request, Requests!Async, Entry
  <1>3. global' \in Queues(GlobalWork, GlobalWork) /\ Once(global')
          /\ Held(global') = Held(global) \union {Entry("load", c)}
    BY <1>1, <1>2, LineEntries, HeldAppended DEF Lines, Loading
  <1>. QED
    BY <1>1, <1>2, <1>3, Entries DEF Lines, Loading, CallingBack, Reporting, Begun

\* ... the end of a request ...
LEMMA LoadLines ==
  ASSUME RequestInv, NEW c \in Chains, Requests!Load(c)
  PROVE  /\ Lines' /\ Loading(c)
         /\ \A d \in Chains : /\ Loading(d)' <=> Loading(d) /\ d # c
                              /\ CallingBack(d)' <=> CallingBack(d) \/ d = c
                              /\ Reporting(d)' <=> Reporting(d)
                              /\ Begun(d)' => Begun(d)
PROOF
  <1>1. /\ Requests!Running(global, Requests!Work("load", c))
        /\ global' = Requests!Done(global, Requests!Work("load", c))
        /\ requests_main' = [requests_main EXCEPT !.items = Append(@, Entry("callback", c))]
    BY DEF Requests!Load, Requests!Async, Entry
  <1>2. Lines /\ Chained(c)
    BY DEF RequestInv, RequestLine
  <1>3. /\ global' \in Queues(GlobalWork, GlobalWork) /\ Once(global')
        /\ Held(global') \subseteq Held(global) /\ Held(global) \ {Entry("load", c)} \subseteq Held(global')
        /\ Entry("load", c) \in Held(global) /\ Entry("load", c) \notin Held(global')
    BY <1>1, <1>2, HeldDone DEF Lines, GlobalWork
  <1>4. Loading(c) /\ Entry("callback", c) \notin Held(requests_main)
    BY <1>2, <1>3 DEF Loading, CallingBack, Chained
  <1>5. /\ requests_main' \in Queues(MainLine, MainWork) /\ Once(requests_main')
        /\ Held(requests_main') = Held(requests_main) \union {Entry("callback", c)}
    BY <1>1, <1>2, <1>4, LineEntries, HeldAppended DEF Lines
  <1>6. /\ Lines'
        /\ \A x : x \in Held(global') <=> x \in Held(global) /\ x # Entry("load", c)
        /\ \A x : x \in Held(requests_main') <=> x \in Held(requests_main) \/ x = Entry("callback", c)
    BY <1>3, <1>5 DEF Lines
  <1>. QED
    BY <1>4, <1>6, Entries DEF Loading, CallingBack, Reporting, Begun

\* ... a callback ...
LEMMA CallbackLines ==
  ASSUME RequestInv, NEW c \in Chains, Requests!Callback(c)
  PROVE  /\ Lines' /\ CallingBack(c)
         /\ \A d \in Chains : /\ Loading(d)' <=> Loading(d)
                              /\ CallingBack(d)' <=> CallingBack(d) /\ d # c
                              /\ Reporting(d)' <=> Reporting(d)
                              /\ Begun(d)' => Begun(d)
PROOF
  <1>1. /\ Requests!Running(requests_main, Requests!Work("callback", c))
        /\ requests_main' = Requests!Done(requests_main, Requests!Work("callback", c))
        /\ global' = global
    BY DEF Requests!Callback
  <1>2. Lines
    BY DEF RequestInv, RequestLine
  <1>3. /\ requests_main' \in Queues(MainLine, MainWork) /\ Once(requests_main')
        /\ Held(requests_main') \subseteq Held(requests_main)
        /\ Held(requests_main) \ {Entry("callback", c)} \subseteq Held(requests_main')
        /\ Entry("callback", c) \in Held(requests_main) /\ Entry("callback", c) \notin Held(requests_main')
    BY <1>1, <1>2, LineEntries, HeldDone DEF Lines, MainWork
  <1>4. /\ Lines'
        /\ \A x : x \in Held(requests_main') <=> x \in Held(requests_main) /\ x # Entry("callback", c)
    BY <1>1, <1>2, <1>3 DEF Lines
  <1>. QED
    BY <1>1, <1>3, <1>4, Entries DEF Loading, CallingBack, Reporting, Begun

\* ... the end of a chain ...
LEMMA FinishLines ==
  ASSUME RequestInv, NEW c \in Chains, Requests!Finish(c)
  PROVE  /\ Lines'
         /\ \A d \in Chains : /\ Loading(d)' <=> Loading(d)
                              /\ CallingBack(d)' <=> CallingBack(d)
                              /\ Reporting(d)' <=> Reporting(d) \/ d = c
                              /\ Begun(d)' => Begun(d)
PROOF
  <1>. DEFINE over == Requests!Done(requests_main, Requests!Work("chain", c))
  <1>1. /\ requests_main' = [over EXCEPT !.items = Append(@, Entry("notify", c))]
        /\ global' = Requests!Done(global, Requests!Work("chain", c))
    BY DEF Requests!Finish, Requests!Async, Entry
  <1>2. Lines /\ ~Reporting(c)
    BY DEF RequestInv, RequestLine, Chained, Requests!Finish
  <1>3. /\ over \in Queues(MainLine, MainWork) /\ Once(over)
        /\ Held(over) \subseteq Held(requests_main)
        /\ Held(requests_main) \ {Entry("chain", c)} \subseteq Held(over)
    BY <1>2, LineEntries, HeldDone DEF Lines, MainWork
  <1>4. /\ global' \in Queues(GlobalWork, GlobalWork) /\ Once(global')
        /\ Held(global') \subseteq Held(global) /\ Held(global) \ {Entry("chain", c)} \subseteq Held(global')
    BY <1>1, <1>2, HeldDone DEF Lines, GlobalWork
  <1>5. Entry("notify", c) \notin Held(over)
    BY <1>2, <1>3 DEF Reporting
  <1>6. /\ requests_main' \in Queues(MainLine, MainWork) /\ Once(requests_main')
        /\ Held(requests_main') = Held(over) \union {Entry("notify", c)}
    <2>. HIDE DEF over
    <2>. QED
      BY <1>1, <1>3, <1>5, LineEntries, HeldAppended
  <1>7. /\ Lines'
        /\ \A x : x # Entry("chain", c) => (x \in Held(global') <=> x \in Held(global))
        /\ \A x : x # Entry("chain", c) =>
             (x \in Held(requests_main') <=> x \in Held(requests_main) \/ x = Entry("notify", c))
        /\ \A x : x \in Held(requests_main') => x \in Held(requests_main) \/ x = Entry("notify", c)
        /\ Held(global') \subseteq Held(global)
    <2>. HIDE DEF over
    <2>. QED
      BY <1>3, <1>4, <1>6 DEF Lines
  <1>. QED
    BY <1>7, Entries DEF Loading, CallingBack, Reporting, Begun

\* ... its report ...
LEMMA NotifyLines ==
  ASSUME RequestInv, NEW c \in Chains, Requests!Notify(c)
  PROVE  /\ Lines' /\ Reporting(c)
         /\ \A d \in Chains : /\ Loading(d)' <=> Loading(d)
                              /\ CallingBack(d)' <=> CallingBack(d)
                              /\ Reporting(d)' => Reporting(d)
                              /\ Begun(d)' => Begun(d)
PROOF
  <1>1. /\ Requests!Running(requests_main, Requests!Work("notify", c))
        /\ requests_main' = Requests!Done(requests_main, Requests!Work("notify", c))
        /\ global' = global
    BY DEF Requests!Notify
  <1>2. Lines
    BY DEF RequestInv, RequestLine
  <1>3. /\ requests_main' \in Queues(MainLine, MainWork) /\ Once(requests_main')
        /\ Held(requests_main') \subseteq Held(requests_main)
        /\ Held(requests_main) \ {Entry("notify", c)} \subseteq Held(requests_main')
        /\ Entry("notify", c) \in Held(requests_main)
    BY <1>1, <1>2, LineEntries, HeldDone DEF Lines, MainWork
  <1>4. /\ Lines'
        /\ \A x : x \in Held(requests_main') => x \in Held(requests_main)
        /\ \A x : x \in Held(requests_main) /\ x # Entry("notify", c) => x \in Held(requests_main')
    BY <1>1, <1>2, <1>3 DEF Lines
  <1>. QED
    BY <1>1, <1>3, <1>4, Entries DEF Loading, CallingBack, Reporting, Begun

\* ... and a block that gets a thread.
LEMMA StartLines ==
  ASSUME RequestInv, Requests!StartMain \/ Requests!StartGlobal
  PROVE  /\ Lines'
         /\ \A d \in Chains : /\ Loading(d)' <=> Loading(d)
                              /\ CallingBack(d)' <=> CallingBack(d)
                              /\ Reporting(d)' <=> Reporting(d)
                              /\ Begun(d)' => Begun(d)
PROOF
  <1>1. Lines
    BY DEF RequestInv, RequestLine
  <1>2. MainLine \subseteq MainWork
    <2>1. \A ops : Requests!Items(ops) = {Entry(op, d) : op \in ops, d \in Chains}
      BY Entries
    <2>. QED
      BY <2>1 DEF MainLine, MainWork
  <1>3. CASE Requests!StartMain
    <2>1. /\ requests_main.items # <<>> /\ global' = global
          /\ requests_main' = [items |-> Tail(requests_main.items),
                               running |-> requests_main.running \union {Head(requests_main.items)}]
      BY <1>3 DEF Requests!StartMain, Requests!CanStart, Requests!Start
    <2>2. requests_main' \in Queues(MainLine, MainWork) /\ Once(requests_main') /\ Held(requests_main') = Held(requests_main)
      BY <1>1, <1>2, <2>1, HeldStarted DEF Lines
    <2>. QED
      BY <1>1, <2>1, <2>2 DEF Lines, Loading, CallingBack, Reporting, Begun
  <1>4. CASE Requests!StartGlobal
    <2>1. /\ global.items # <<>> /\ requests_main' = requests_main
          /\ global' = [items |-> Tail(global.items), running |-> global.running \union {Head(global.items)}]
      BY <1>4 DEF Requests!StartGlobal, Requests!CanStart, Requests!Start
    <2>2. global' \in Queues(GlobalWork, GlobalWork) /\ Once(global') /\ Held(global') = Held(global)
      BY <1>1, <2>1, HeldStarted DEF Lines
    <2>. QED
      BY <1>1, <2>1, <2>2 DEF Lines, Loading, CallingBack, Reporting, Begun
  <1>. QED
    BY <1>3, <1>4

\* A step keeps the types.
LEMMA RequestTypesStep == ASSUME Requests!ChainsAssumption, RequestInv, [Requests!Next]_requests PROVE RequestTypes'
PROOF
  <1>1. RequestTypes /\ Stages \in Nat
    BY DEF RequestInv, Requests!ChainsAssumption
  <1>2. \A c \in Chains : Chained(c)
    BY DEF RequestInv, RequestLine
  <1>. USE DEF RequestTypes
  <1>3. CASE UNCHANGED requests
    BY <1>1, <1>3 DEF requests
  <1>4. ASSUME NEW c \in Chains, Requests!Touch(c) \/ Requests!Load(c) \/ Requests!Finish(c) \/ Requests!Notify(c)
        PROVE  RequestTypes'
    BY <1>1, <1>4 DEF Requests!Touch, Requests!Load, Requests!Finish, Requests!Notify
  <1>5. ASSUME NEW c \in Chains, Requests!Request(c) PROVE RequestTypes'
    <2>1. entered[c] = 0 /\ pc[c] = "ready"
      BY <1>2, <1>5 DEF Requests!Request, Chained, One
    <2>2. entered' \in [Chains -> 0..1]
      BY <1>1, <1>5, <2>1 DEF Requests!Request
    <2>3. num' \in [Chains -> Nat]
      BY <1>1, <1>5 DEF Requests!Request
    <2>4. pc' \in [Chains -> {"idle", "ready", "wait", "done"}]
            /\ UNCHANGED <<identifier, stage, permits, callbacks, requests_notified>>
      BY <1>1, <1>5 DEF Requests!Request
    <2>. QED
      BY <1>1, <2>2, <2>3, <2>4
  <1>6. ASSUME NEW c \in Chains, Requests!Callback(c) PROVE RequestTypes'
    <2>1. CallingBack(c)
      BY <1>6, CallbackLines
    <2>2. entered[c] = One(c \in GroupChains) /\ permits[c] = 0 /\ callbacks[c] = stage[c] /\ stage[c] < Stages
      <3>1. stage[c] \in Nat /\ stage[c] + 0 = stage[c]
        BY <1>1
      <3>2. pc[c] = "wait" /\ Pending(c) /\ ~Answered(c) /\ stage[c] < Stages
        BY <1>2, <2>1 DEF Chained, Pending, Answered
      <3>3. callbacks[c] = stage[c] + 0 /\ entered[c] = One(c \in GroupChains) /\ permits[c] = 0
        BY <1>2, <3>2 DEF Chained, One
      <3>. QED
        BY <3>1, <3>2, <3>3
    <2>3. entered' \in [Chains -> 0..1] /\ permits' \in [Chains -> 0..1]
      BY <1>1, <1>6, <2>2 DEF Requests!Callback, One
    <2>4. callbacks' \in [Chains -> 0..Stages]
      BY <1>1, <1>6, <2>2 DEF Requests!Callback
    <2>5. identifier' \in Nat
      BY <1>1, <1>6 DEF Requests!Callback
    <2>. QED
      BY <1>1, <1>6, <2>3, <2>4, <2>5 DEF Requests!Callback
  <1>7. ASSUME NEW c \in Chains, Requests!Wait(c) PROVE RequestTypes'
    <2>1. stage[c] < Stages
      BY <1>2, <1>7 DEF Chained, Requests!Wait
    <2>2. stage' \in [Chains -> 0..Stages] /\ pc' \in [Chains -> {"idle", "ready", "wait", "done"}]
      BY <1>1, <1>7, <2>1 DEF Requests!Wait
    <2>3. permits' \in [Chains -> 0..1]
      BY <1>1, <1>7 DEF Requests!Wait
    <2>. QED
      BY <1>1, <1>7, <2>2, <2>3 DEF Requests!Wait
  <1>8. CASE Requests!StartMain \/ Requests!StartGlobal
    BY <1>1, <1>8 DEF Requests!StartMain, Requests!StartGlobal
  <1>. QED
    BY <1>3, <1>4, <1>5, <1>6, <1>7, <1>8 DEF Requests!Next, Requests!ChainStep, Requests!BlockStep

\* What a step leaves as it was for the other chains.
OthersStay(c) ==
  \A d \in Chains \ {c} : /\ pc'[d] = pc[d] /\ stage'[d] = stage[d] /\ callbacks'[d] = callbacks[d]
                          /\ entered'[d] = entered[d] /\ permits'[d] = permits[d] /\ num'[d] = num[d]
                          /\ d \in requests_notified' <=> d \in requests_notified

LEMMA OthersStayed ==
  ASSUME RequestTypes, NEW c \in Chains,
         \/ Requests!Touch(c) \/ Requests!Load(c) \/ Requests!Finish(c) \/ Requests!Notify(c)
         \/ Requests!Request(c) \/ Requests!Callback(c) \/ Requests!Wait(c)
  PROVE  OthersStay(c)
PROOF
  <1>. USE DEF OthersStay, RequestTypes
  <1>1. CASE Requests!Touch(c)
    BY <1>1 DEF Requests!Touch
  <1>2. CASE Requests!Load(c)
    BY <1>2 DEF Requests!Load
  <1>3. CASE Requests!Finish(c)
    BY <1>3 DEF Requests!Finish
  <1>4. CASE Requests!Notify(c)
    BY <1>4 DEF Requests!Notify
  <1>5. CASE Requests!Request(c)
    BY <1>5 DEF Requests!Request
  <1>6. CASE Requests!Callback(c)
    BY <1>6 DEF Requests!Callback
  <1>7. CASE Requests!Wait(c)
    BY <1>7 DEF Requests!Wait
  <1>. QED
    BY <1>1, <1>2, <1>3, <1>4, <1>5, <1>6, <1>7

\* A chain that a step leaves as it was.
LEMMA ChainedStays ==
  ASSUME NEW d, Chained(d), pc'[d] = pc[d], stage'[d] = stage[d], callbacks'[d] = callbacks[d],
         entered'[d] = entered[d], permits'[d] = permits[d],
         d \in requests_notified' <=> d \in requests_notified,
         Loading(d)' <=> Loading(d), CallingBack(d)' <=> CallingBack(d), Reporting(d)' => Reporting(d), Begun(d)' => Begun(d)
  PROVE  Chained(d)'
PROOF
  <1>1. (Pending(d)' <=> Pending(d)) /\ (Answered(d)' <=> Answered(d))
    BY DEF Pending, Answered
  <1>. QED
    BY <1>1 DEF Chained, One

\* A step keeps the line of the requests.
LEMMA RequestLineStep == ASSUME Requests!ChainsAssumption, RequestInv, [Requests!Next]_requests PROVE RequestLine'
PROOF
  <1>1. RequestTypes /\ Lines /\ Stages \in Nat /\ \A c \in Chains : Chained(c)
    BY DEF RequestInv, RequestLine, Requests!ChainsAssumption
  <1>2. CASE UNCHANGED requests
    <2>1. Lines'
      BY <1>1, <1>2 DEF requests, Lines, Once, Unique
    <2>2. ASSUME NEW d \in Chains PROVE Chained(d)'
      BY <1>1, <1>2, ChainedStays DEF requests, Loading, CallingBack, Reporting, Begun
    <2>. QED
      BY <2>1, <2>2 DEF RequestLine
  <1>3. CASE Requests!StartMain \/ Requests!StartGlobal
    <2>1. UNCHANGED <<pc, stage, callbacks, entered, permits, requests_notified>>
      BY <1>3 DEF Requests!StartMain, Requests!StartGlobal
    <2>2. ASSUME NEW d \in Chains PROVE Chained(d)'
      BY <1>1, <1>3, <2>1, StartLines, ChainedStays
    <2>. QED
      BY <1>3, <2>2, StartLines DEF RequestLine
  <1>4. ASSUME NEW c \in Chains, Requests!Touch(c) PROVE RequestLine'
    <2>1. Lines' /\ OthersStay(c)
      BY <1>1, <1>4, TouchLines, OthersStayed
    <2>2. ASSUME NEW d \in Chains, d # c PROVE Chained(d)'
      BY <1>1, <1>4, <2>1, <2>2, TouchLines, ChainedStays DEF OthersStay
    <2>3. Chained(c)'
      <3>1. pc[c] = "idle" /\ pc'[c] = "ready" /\ UNCHANGED <<stage, callbacks, entered, permits, requests_notified>>
        BY <1>1, <1>4 DEF Requests!Touch, RequestTypes
      <3>2. (Loading(c)' <=> Loading(c)) /\ (CallingBack(c)' <=> CallingBack(c)) /\ (Reporting(c)' <=> Reporting(c))
        BY <1>4, TouchLines
      <3>. QED
        BY <1>1, <3>1, <3>2 DEF Chained, Pending, Answered, One
    <2>. QED
      BY <2>1, <2>2, <2>3 DEF RequestLine
  <1>5. ASSUME NEW c \in Chains, Requests!Request(c) PROVE RequestLine'
    <2>1. Lines' /\ OthersStay(c)
      BY <1>1, <1>5, SendLines, OthersStayed
    <2>2. ASSUME NEW d \in Chains, d # c PROVE Chained(d)'
      BY <1>1, <1>5, <2>1, <2>2, SendLines, ChainedStays DEF OthersStay
    <2>3. Chained(c)'
      <3>1. pc[c] = "ready" /\ pc'[c] = "wait" /\ stage[c] < Stages
              /\ UNCHANGED <<stage, callbacks, permits, requests_notified>>
        BY <1>1, <1>5 DEF Requests!Request, RequestTypes
      <3>2. Loading(c)' /\ ~Loading(c) /\ ~CallingBack(c)' /\ ~Reporting(c)'
        BY <1>1, <1>5, <3>1, SendLines DEF Chained, Pending
      <3>3. entered'[c] = IF c \in GroupChains THEN 1 ELSE 0
        BY <1>1, <1>5, <3>1 DEF Requests!Request, RequestTypes, Chained, One
      <3>. QED
        BY <1>1, <3>1, <3>2, <3>3 DEF Chained, Pending, Answered, One
    <2>. QED
      BY <2>1, <2>2, <2>3 DEF RequestLine
  <1>6. ASSUME NEW c \in Chains, Requests!Load(c) PROVE RequestLine'
    <2>1. Lines' /\ OthersStay(c)
      BY <1>1, <1>6, LoadLines, OthersStayed
    <2>2. ASSUME NEW d \in Chains, d # c PROVE Chained(d)'
      BY <1>1, <1>6, <2>1, <2>2, LoadLines, ChainedStays DEF OthersStay
    <2>3. Chained(c)'
      <3>1. UNCHANGED <<pc, stage, callbacks, entered, permits, requests_notified>>
        BY <1>6 DEF Requests!Load
      <3>2. Loading(c) /\ ~Loading(c)' /\ CallingBack(c)' /\ (Reporting(c)' <=> Reporting(c))
              /\ (Begun(c)' => Begun(c))
        BY <1>6, LoadLines
      <3>. QED
        BY <1>1, <3>1, <3>2 DEF Chained, Pending, Answered, One
    <2>. QED
      BY <2>1, <2>2, <2>3 DEF RequestLine
  <1>7. ASSUME NEW c \in Chains, Requests!Callback(c) PROVE RequestLine'
    <2>1. Lines' /\ OthersStay(c)
      BY <1>1, <1>7, CallbackLines, OthersStayed
    <2>2. ASSUME NEW d \in Chains, d # c PROVE Chained(d)'
      BY <1>1, <1>7, <2>1, <2>2, CallbackLines, ChainedStays DEF OthersStay
    <2>3. Chained(c)'
      <3>1. UNCHANGED <<pc, stage, requests_notified>> /\ callbacks'[c] = callbacks[c] + 1
        BY <1>1, <1>7 DEF Requests!Callback, RequestTypes
      <3>2. CallingBack(c) /\ ~CallingBack(c)' /\ (Loading(c)' <=> Loading(c)) /\ (Reporting(c)' <=> Reporting(c))
              /\ (Begun(c)' => Begun(c))
        BY <1>7, CallbackLines
      <3>3. pc[c] = "wait" /\ ~Loading(c) /\ callbacks[c] = stage[c]
        <4>1. pc[c] = "wait" /\ ~Loading(c) /\ ~Answered(c)
          BY <1>1, <3>2 DEF Chained, Pending, Answered
        <4>2. callbacks[c] = stage[c] + 0 /\ stage[c] \in Nat
          BY <1>1, <4>1 DEF Chained, One, RequestTypes
        <4>. QED
          BY <4>1, <4>2
      <3>4. entered'[c] = 0 /\ permits'[c] = IF c \in GroupChains THEN 0 ELSE 1
        <4>1. entered[c] = (IF c \in GroupChains THEN 1 ELSE 0) /\ permits[c] = 0
          BY <1>1, <3>2, <3>3 DEF Chained, Pending, Answered, One
        <4>. QED
          BY <1>1, <1>7, <4>1 DEF Requests!Callback, RequestTypes
      <3>. QED
        BY <1>1, <3>1, <3>2, <3>3, <3>4 DEF Chained, Pending, Answered, One
    <2>. QED
      BY <2>1, <2>2, <2>3 DEF RequestLine
  <1>8. ASSUME NEW c \in Chains, Requests!Wait(c) PROVE RequestLine'
    <2>1. UNCHANGED <<requests_main, global>>
      BY <1>8 DEF Requests!Wait
    <2>2. /\ Lines' /\ OthersStay(c)
          /\ \A d \in Chains : /\ Loading(d)' <=> Loading(d)
                               /\ CallingBack(d)' <=> CallingBack(d)
                               /\ Reporting(d)' <=> Reporting(d)
                               /\ Begun(d)' <=> Begun(d)
      BY <1>1, <1>8, <2>1, OthersStayed DEF Lines, Once, Unique, Held, Loading, CallingBack, Reporting, Begun
    <2>3. ASSUME NEW d \in Chains, d # c PROVE Chained(d)'
      BY <1>1, <2>2, <2>3, ChainedStays DEF OthersStay
    <2>4. Chained(c)'
      <3>1. pc[c] = "wait" /\ pc'[c] = "ready" /\ stage'[c] = stage[c] + 1
              /\ UNCHANGED <<callbacks, entered, requests_notified>>
        BY <1>1, <1>8 DEF Requests!Wait, RequestTypes
      <3>2. ~Pending(c)
        BY <1>1, <1>8, <3>1 DEF Requests!Wait, Chained, Answered, One
      <3>3. callbacks[c] = stage[c] + 1 /\ entered[c] = 0
        BY <1>1, <3>1, <3>2 DEF Chained, Answered, One
      <3>4. permits'[c] = 0
        <4>1. permits[c] = IF c \in GroupChains THEN 0 ELSE 1
          BY <1>1, <3>1, <3>2 DEF Chained, Answered, One
        <4>. QED
          BY <1>1, <1>8, <4>1 DEF Requests!Wait, RequestTypes
      <3>5. ~Reporting(c) /\ c \notin requests_notified
        BY <1>1, <3>1 DEF Chained
      <3>6. ~Pending(c)' /\ ~Loading(c)' /\ ~Reporting(c)' /\ ~Answered(c)'
        BY <2>2, <3>1, <3>2, <3>5 DEF Pending, Answered
      <3>7. callbacks'[c] = stage'[c] + 0
        BY <1>1, <3>1, <3>3 DEF RequestTypes
      <3>. QED
        BY <3>1, <3>3, <3>4, <3>5, <3>6, <3>7 DEF Chained, One
    <2>. QED
      BY <2>2, <2>3, <2>4 DEF RequestLine
  <1>9. ASSUME NEW c \in Chains, Requests!Finish(c) PROVE RequestLine'
    <2>1. Lines' /\ OthersStay(c)
      BY <1>1, <1>9, FinishLines, OthersStayed
    <2>2. ASSUME NEW d \in Chains, d # c PROVE Chained(d)'
      BY <1>1, <1>9, <2>1, <2>2, FinishLines, ChainedStays DEF OthersStay
    <2>3. Chained(c)'
      <3>1. pc[c] = "ready" /\ pc'[c] = "done" /\ stage[c] = Stages
              /\ UNCHANGED <<stage, callbacks, entered, permits, requests_notified>>
        BY <1>1, <1>9 DEF Requests!Finish, RequestTypes
      <3>2. (Loading(c)' <=> Loading(c)) /\ (CallingBack(c)' <=> CallingBack(c))
        BY <1>9, FinishLines
      <3>. QED
        BY <1>1, <3>1, <3>2 DEF Chained, Pending, Answered, One
    <2>. QED
      BY <2>1, <2>2, <2>3 DEF RequestLine
  <1>10. ASSUME NEW c \in Chains, Requests!Notify(c) PROVE RequestLine'
    <2>1. Lines' /\ OthersStay(c)
      BY <1>1, <1>10, NotifyLines, OthersStayed
    <2>2. ASSUME NEW d \in Chains, d # c PROVE Chained(d)'
      BY <1>1, <1>10, <2>1, <2>2, NotifyLines, ChainedStays DEF OthersStay
    <2>3. Chained(c)'
      <3>1. UNCHANGED <<pc, stage, callbacks, entered, permits>>
        BY <1>10 DEF Requests!Notify
      <3>2. Reporting(c) /\ (Loading(c)' <=> Loading(c)) /\ (CallingBack(c)' <=> CallingBack(c))
        BY <1>10, NotifyLines
      <3>. QED
        BY <1>1, <3>1, <3>2 DEF Chained, Pending, Answered, One
    <2>. QED
      BY <2>1, <2>2, <2>3 DEF RequestLine
  <1>. QED
    BY <1>2, <1>3, <1>4, <1>5, <1>6, <1>7, <1>8, <1>9, <1>10
    DEF Requests!Next, Requests!ChainStep, Requests!BlockStep

\* A step that leaves the identifier as it was.
LEMMA IdentifiedStays ==
  ASSUME Identified, identifier' = identifier, callbacks' = callbacks,
         \A d \in Chains : /\ pc'[d] = "idle" <=> pc[d] = "idle"
                           /\ Pending(d)' => Pending(d) /\ num'[d] = num[d]
  PROVE  Identified'
PROOF
  <1>1. \A d \in Chains : Alone(d)' <=> Alone(d)
    BY DEF Alone
  <1>2. (\A d \in Chains \ MainChains : pc'[d] = "idle") => identifier' = 1
    BY DEF Identified
  <1>3. ASSUME NEW d \in Chains, Alone(d)'
        PROVE  identifier' = 1 + callbacks'[d] /\ (Pending(d)' => num'[d] = 1 + callbacks'[d])
    BY <1>1, <1>3 DEF Identified
  <1>. QED
    BY <1>2, <1>3 DEF Identified

\* A step keeps what is known of the identifier.
LEMMA IdentifiedStep == ASSUME Requests!ChainsAssumption, RequestInv, [Requests!Next]_requests PROVE Identified'
PROOF
  <1>1. RequestTypes /\ Identified /\ \A c \in Chains : Chained(c)
    BY DEF RequestInv, RequestLine
  <1>2. CASE UNCHANGED requests
    BY <1>1, <1>2, IdentifiedStays DEF requests, Pending, Loading, CallingBack
  <1>3. CASE Requests!StartMain \/ Requests!StartGlobal
    <2>1. UNCHANGED <<identifier, callbacks, pc, num>>
      BY <1>3 DEF Requests!StartMain, Requests!StartGlobal
    <2>2. \A d \in Chains : Pending(d)' <=> Pending(d)
      BY <1>3, StartLines DEF Pending
    <2>. QED
      BY <1>1, <2>1, <2>2, IdentifiedStays
  <1>4. ASSUME NEW c \in Chains, Requests!Touch(c) PROVE Identified'
    <2>1. pc[c] = "idle" /\ pc' = [pc EXCEPT ![c] = "ready"] /\ UNCHANGED <<identifier, callbacks, num>>
      BY <1>4 DEF Requests!Touch
    <2>2. \A d \in Chains : Pending(d)' <=> Pending(d)
      BY <1>4, TouchLines DEF Pending
    <2>3. pc'[c] = "ready" /\ \A d \in Chains \ {c} : pc'[d] = pc[d]
      BY <1>1, <2>1 DEF RequestTypes
    <2>4. CASE c \in MainChains
      <3>1. \A d \in Chains \ MainChains : pc'[d] = pc[d]
        BY <2>3, <2>4
      <3>2. \A d \in Chains : Alone(d)' <=> Alone(d)
        BY <3>1 DEF Alone
      <3>. QED
        BY <1>1, <2>1, <2>2, <3>1, <3>2 DEF Identified
    <2>5. CASE c \notin MainChains
      <3>1. ~\A d \in Chains \ MainChains : pc'[d] = "idle"
        BY <2>3, <2>5
      <3>2. \A d \in Chains : Alone(d)' => d = c /\ \A e \in Chains \ MainChains : pc[e] = "idle"
        BY <2>1, <2>3, <2>5 DEF Alone
      <3>3. callbacks[c] = 0 /\ ~Pending(c)
        <4>1. stage[c] = 0 /\ ~Pending(c) /\ ~Answered(c)
          BY <1>1, <2>1 DEF Chained, Answered
        <4>. QED
          BY <1>1, <4>1 DEF Chained, One
      <3>. QED
        BY <1>1, <2>1, <2>2, <3>1, <3>2, <3>3 DEF Identified
    <2>. QED
      BY <2>4, <2>5
  <1>5. ASSUME NEW c \in Chains, Requests!Request(c) PROVE Identified'
    <2>1. /\ pc[c] = "ready" /\ pc'[c] = "wait" /\ \A d \in Chains \ {c} : pc'[d] = pc[d] /\ num'[d] = num[d]
          /\ UNCHANGED <<identifier, callbacks>> /\ (c \notin MainChains => num'[c] = identifier)
      BY <1>1, <1>5 DEF Requests!Request, RequestTypes
    <2>2. \A d \in Chains \ {c} : Pending(d)' <=> Pending(d)
      BY <1>5, SendLines DEF Pending
    <2>3. \A d \in Chains : (pc'[d] = "idle" <=> pc[d] = "idle")
      BY <2>1
    <2>4. \A d \in Chains : Alone(d)' <=> Alone(d)
      BY <2>3 DEF Alone
    <2>5. ASSUME NEW d \in Chains, Alone(d)
          PROVE  identifier = 1 + callbacks[d] /\ (Pending(d)' => num'[d] = 1 + callbacks[d])
      <3>1. identifier = 1 + callbacks[d] /\ (Pending(d) => num[d] = 1 + callbacks[d]) /\ d \notin MainChains
        BY <1>1, <2>5 DEF Identified, Alone
      <3>. QED
        BY <2>1, <2>2, <3>1
    <2>. QED
      BY <1>1, <2>1, <2>3, <2>4, <2>5 DEF Identified
  <1>6. ASSUME NEW c \in Chains, Requests!Load(c) PROVE Identified'
    <2>1. UNCHANGED <<identifier, callbacks, pc, num>>
      BY <1>6 DEF Requests!Load
    <2>2. \A d \in Chains : Pending(d)' <=> Pending(d)
      BY <1>6, LoadLines DEF Pending
    <2>. QED
      BY <1>1, <2>1, <2>2, IdentifiedStays
  <1>7. ASSUME NEW c \in Chains, Requests!Callback(c) PROVE Identified'
    <2>1. /\ UNCHANGED <<pc, num>> /\ callbacks'[c] = callbacks[c] + 1
          /\ \A d \in Chains \ {c} : callbacks'[d] = callbacks[d]
          /\ identifier' = IF c \in MainChains THEN identifier ELSE num[c] + 1
      BY <1>1, <1>7 DEF Requests!Callback, RequestTypes
    <2>2. /\ CallingBack(c) /\ Pending(c) /\ \A d \in Chains \ {c} : Pending(d)' <=> Pending(d)
          /\ ~CallingBack(c)' /\ (Loading(c)' <=> Loading(c))
      BY <1>7, CallbackLines DEF Pending
    <2>3. pc[c] = "wait" /\ ~Pending(c)'
      BY <1>1, <2>2 DEF Chained, Pending
    <2>4. \A d \in Chains : Alone(d)' <=> Alone(d)
      BY <2>1 DEF Alone
    <2>5. CASE c \in MainChains
      <3>1. \A d \in Chains : Alone(d) => d # c
        BY <2>5 DEF Alone
      <3>. QED
        BY <1>1, <2>1, <2>2, <2>4, <2>5, <3>1 DEF Identified
    <2>6. CASE c \notin MainChains
      <3>1. \A d \in Chains : Alone(d) => d = c
        BY <2>3, <2>6 DEF Alone
      <3>2. Alone(c) => identifier' = 1 + callbacks'[c]
        <4>1. Alone(c) => num[c] = 1 + callbacks[c]
          BY <1>1, <2>2 DEF Identified
        <4>2. callbacks[c] \in Nat
          BY <1>1 DEF RequestTypes
        <4>. QED
          BY <2>1, <2>6, <4>1, <4>2
      <3>3. ~\A d \in Chains \ MainChains : pc'[d] = "idle"
        BY <2>1, <2>3, <2>6
      <3>. QED
        BY <2>3, <2>4, <3>1, <3>2, <3>3 DEF Identified
    <2>. QED
      BY <2>5, <2>6
  <1>8. ASSUME NEW c \in Chains, Requests!Wait(c) PROVE Identified'
    <2>1. /\ UNCHANGED <<identifier, callbacks, num, requests_main, global>> /\ pc[c] = "wait"
          /\ pc'[c] = "ready" /\ \A d \in Chains \ {c} : pc'[d] = pc[d]
      BY <1>1, <1>8 DEF Requests!Wait, RequestTypes
    <2>2. \A d \in Chains : Pending(d)' <=> Pending(d)
      BY <2>1 DEF Pending, Loading, CallingBack
    <2>. QED
      BY <1>1, <2>1, <2>2, IdentifiedStays
  <1>9. ASSUME NEW c \in Chains, Requests!Finish(c) PROVE Identified'
    <2>1. /\ UNCHANGED <<identifier, callbacks, num>> /\ pc[c] = "ready"
          /\ pc'[c] = "done" /\ \A d \in Chains \ {c} : pc'[d] = pc[d]
      BY <1>1, <1>9 DEF Requests!Finish, RequestTypes
    <2>2. \A d \in Chains : Pending(d)' <=> Pending(d)
      BY <1>9, FinishLines DEF Pending
    <2>. QED
      BY <1>1, <2>1, <2>2, IdentifiedStays
  <1>10. ASSUME NEW c \in Chains, Requests!Notify(c) PROVE Identified'
    <2>1. UNCHANGED <<identifier, callbacks, pc, num>>
      BY <1>10 DEF Requests!Notify
    <2>2. \A d \in Chains : Pending(d)' <=> Pending(d)
      BY <1>10, NotifyLines DEF Pending
    <2>. QED
      BY <1>1, <2>1, <2>2, IdentifiedStays
  <1>. QED
    BY <1>2, <1>3, <1>4, <1>5, <1>6, <1>7, <1>8, <1>9, <1>10
    DEF Requests!Next, Requests!ChainStep, Requests!BlockStep

\* There are so many answers at most, and fewer as long as a chain wants another.
LEMMA AnswersFacts ==
  ASSUME Requests!ChainsAssumption, RequestTypes
  PROVE  /\ IsFiniteSet(Answers) /\ Cardinality(Answers) \in Nat /\ Cardinality(Chains) * Stages \in Nat
         /\ Cardinality(Answers) <= Cardinality(Chains) * Stages
         /\ \A c \in Chains : /\ callbacks[c] < Stages => 1 + Cardinality(Answers) <= Cardinality(Chains) * Stages
                              /\ Stages <= Cardinality(Chains) * Stages
PROOF
  <1>. DEFINE all == Chains \X (1..Stages)
  <1>1. Stages \in Nat \ {0} /\ IsFiniteSet(Chains) /\ Cardinality(Chains) \in Nat
    <2>1. IsFiniteSet(Chains) /\ Stages \in Nat \ {0}
      BY DEF Requests!ChainsAssumption, Requests!IsFiniteSet, IsFiniteSet
    <2>. QED
      BY <2>1, FS_CardinalityType
  <1>2. IsFiniteSet(1..Stages) /\ Cardinality(1..Stages) = Stages
    <2>1. 1 \in Int /\ Stages \in Int /\ Stages - 1 + 1 = Stages /\ 1 <= Stages
      BY <1>1
    <2>. QED
      BY <2>1, FS_Interval
  <1>3. IsFiniteSet(all) /\ Cardinality(all) = Cardinality(Chains) * Stages
    BY <1>1, <1>2, FS_Product
  <1>4. Answers \subseteq all
    BY DEF Answers
  <1>5. IsFiniteSet(Answers) /\ Cardinality(Answers) <= Cardinality(all) /\ (Cardinality(all) = Cardinality(Answers) => all = Answers)
    BY <1>3, <1>4, FS_Subset
  <1>6. Cardinality(Answers) \in Nat /\ Cardinality(all) \in Nat
    BY <1>3, <1>5, FS_CardinalityType
  <1>7. ASSUME NEW c \in Chains, callbacks[c] < Stages PROVE 1 + Cardinality(Answers) <= Cardinality(all)
    <2>1. callbacks[c] \in Nat /\ Stages \in 1..Stages
      BY <1>1 DEF RequestTypes
    <2>2. <<c, Stages>> \in all /\ <<c, Stages>> \notin Answers
      BY <1>1, <1>7, <2>1 DEF Answers
    <2>3. all # Answers
      BY <2>2
    <2>. HIDE DEF all
    <2>. QED
      BY <1>5, <1>6, <2>3
  <1>8. ASSUME NEW c \in Chains PROVE Stages <= Cardinality(Chains) * Stages
    <2>1. Cardinality(Chains) # 0
      BY <1>1, FS_EmptySet
    <2>2. \A m \in Nat \ {0} : Stages <= m * Stages
      BY <1>1
    <2>. QED
      BY <1>1, <2>1, <2>2
  <1>. QED
    <2>. HIDE DEF all
    <2>. QED
      BY <1>3, <1>5, <1>6, <1>7, <1>8

\* A step keeps the bounds of the numbers.
LEMMA NumberedStep ==
  ASSUME Requests!ChainsAssumption, RequestInv, [Requests!Next]_requests, RequestTypes' PROVE Numbered'
PROOF
  <1>1. RequestTypes /\ Numbered /\ \A c \in Chains : Chained(c)
    BY DEF RequestInv, RequestLine
  <1>2. ASSUME UNCHANGED <<identifier, callbacks, num>> PROVE Numbered'
    BY <1>1, <1>2 DEF Numbered, Answers
  <1>3. CASE UNCHANGED requests
    BY <1>2, <1>3 DEF requests
  <1>4. CASE Requests!StartMain \/ Requests!StartGlobal
    BY <1>2, <1>4 DEF Requests!StartMain, Requests!StartGlobal
  <1>5. ASSUME NEW c \in Chains,
               Requests!Touch(c) \/ Requests!Load(c) \/ Requests!Wait(c) \/ Requests!Finish(c) \/ Requests!Notify(c)
        PROVE  Numbered'
    BY <1>2, <1>5 DEF Requests!Touch, Requests!Load, Requests!Wait, Requests!Finish, Requests!Notify
  <1>6. ASSUME NEW c \in Chains, Requests!Request(c) PROVE Numbered'
    <2>1. UNCHANGED <<identifier, callbacks>> /\ pc[c] = "ready" /\ stage[c] < Stages
      BY <1>6 DEF Requests!Request
    <2>2. Answers' = Answers
      BY <2>1 DEF Answers
    <2>3. num'[c] = (IF c \in MainChains THEN stage[c] + 1 ELSE identifier) /\ \A d \in Chains \ {c} : num'[d] = num[d]
      BY <1>1, <1>6 DEF Requests!Request, RequestTypes
    <2>4. callbacks[c] = stage[c] /\ stage[c] \in Nat /\ callbacks[c] < Stages
      <3>1. ~Answered(c)
        BY <2>1 DEF Answered
      <3>2. callbacks[c] = stage[c] + 0 /\ stage[c] \in Nat
        BY <1>1, <3>1 DEF Chained, One, RequestTypes
      <3>. QED
        BY <2>1, <3>2
    <2>5. num'[c] <= Cardinality(Chains) * Stages
      <3>1. Stages \in Nat
        BY DEF Requests!ChainsAssumption
      <3>2. CASE c \in MainChains
        BY <1>1, <2>1, <2>3, <2>4, <3>1, <3>2, AnswersFacts
      <3>3. CASE c \notin MainChains
        BY <1>1, <2>3, <2>4, <3>3, AnswersFacts DEF Numbered
      <3>. QED
        BY <3>2, <3>3
    <2>6. c \notin MainChains => num'[c] <= 1 + Cardinality(Answers)
      BY <1>1, <2>3, AnswersFacts DEF Numbered
    <2>. QED
      BY <1>1, <2>1, <2>2, <2>3, <2>5, <2>6 DEF Numbered
  <1>7. ASSUME NEW c \in Chains, Requests!Callback(c) PROVE Numbered'
    <2>1. /\ num' = num /\ callbacks'[c] = callbacks[c] + 1
          /\ \A d \in Chains \ {c} : callbacks'[d] = callbacks[d]
          /\ identifier' = IF c \in MainChains THEN identifier ELSE num[c] + 1
      BY <1>1, <1>7 DEF Requests!Callback, RequestTypes
    <2>2. /\ callbacks[c] \in Nat /\ callbacks[c] + 1 \in 1..Stages
          /\ \A d \in Chains : callbacks[d] \in Nat /\ num[d] \in Nat
      BY <1>1, <2>1 DEF RequestTypes
    <2>3. Answers' = Answers \union {<<c, callbacks[c] + 1>>} /\ <<c, callbacks[c] + 1>> \notin Answers
      <3>1. ASSUME NEW d \in Chains, NEW k \in 1..Stages
            PROVE  k <= callbacks'[d] <=> k <= callbacks[d] \/ (d = c /\ k = callbacks[c] + 1)
        <4>1. CASE d = c
          BY <2>1, <2>2, <4>1
        <4>2. CASE d # c
          BY <2>1, <4>2
        <4>. QED
          BY <4>1, <4>2
      <3>2. ~(callbacks[c] + 1 <= callbacks[c])
        BY <2>2
      <3>. QED
        BY <2>2, <3>1, <3>2 DEF Answers
    <2>4. Cardinality(Answers') = Cardinality(Answers) + 1 /\ Cardinality(Answers) \in Nat
      BY <1>1, <2>3, AnswersFacts, FS_AddElement
    <2>5. identifier' \in 1..(1 + Cardinality(Answers'))
      BY <1>1, <2>1, <2>2, <2>4 DEF Numbered
    <2>6. \A d \in Chains : d \notin MainChains => num'[d] <= 1 + Cardinality(Answers')
      BY <1>1, <2>1, <2>2, <2>4 DEF Numbered
    <2>. QED
      BY <1>1, <2>1, <2>5, <2>6 DEF Numbered
  <1>. QED
    BY <1>3, <1>4, <1>5, <1>6, <1>7 DEF Requests!Next, Requests!ChainStep, Requests!BlockStep

\* The invariant holds before a touch.
LEMMA RequestInvInit == ASSUME Requests!ChainsAssumption, Requests!Init PROVE RequestInv
PROOF
  <1>1. /\ requests_main = [items |-> <<>>, running |-> {}] /\ global = [items |-> <<>>, running |-> {}]
        /\ identifier = 1 /\ requests_notified = {} /\ Stages \in Nat \ {0}
        /\ \A c \in Chains : /\ pc[c] = "idle" /\ stage[c] = 0 /\ num[c] = 0 /\ entered[c] = 0 /\ permits[c] = 0
                             /\ callbacks[c] = 0
    BY DEF Requests!Init, Requests!EmptyQueue, Requests!ChainsAssumption
  <1>2. RequestTypes
    BY <1>1 DEF Requests!Init, RequestTypes
  <1>3. \A S, T : requests_main \in Queues(S, T) /\ global \in Queues(S, T)
    BY <1>1 DEF Queues
  <1>4. /\ Held(requests_main) = {} /\ Held(global) = {}
        /\ Once(requests_main) /\ Once(global)
    BY <1>1, EmptySequence DEF Held, Once, Unique
  <1>5. \A c \in Chains : ~Loading(c) /\ ~CallingBack(c) /\ ~Reporting(c) /\ ~Begun(c)
    BY <1>4 DEF Loading, CallingBack, Reporting, Begun
  <1>6. \A c \in Chains : Chained(c)
    BY <1>1, <1>5 DEF Chained, Pending, Answered, One
  <1>7. Identified
    BY <1>1 DEF Identified, Alone
  <1>8. Numbered
    <2>1. Cardinality(Answers) \in Nat /\ Cardinality(Chains) * Stages \in Nat
      BY <1>2, AnswersFacts
    <2>. QED
      BY <1>1, <2>1 DEF Numbered
  <1>. QED
    BY <1>2, <1>3, <1>4, <1>6, <1>7, <1>8 DEF RequestInv, RequestLine, Lines

\* The steps of the requests are their own, and no other touches them.
LEMMA RequestsAlone == [Next]_vars => [Requests!Next]_requests
PROOF
  BY DEF Next, Open, RequestsStep, ImagesStep, NetworkStep, BoundedStep, AlgorithmsStep, DictionaryStep, vars

\* The invariant of the dependent requests in the application: a chain has one request on its way.
THEOREM RequestInvariant == FairSpec => []RequestInv
PROOF
  <1>1. Requests!ChainsAssumption
    BY DemosAssumption
  <1>2. Init => RequestInv
    BY <1>1, RequestInvInit DEF Init
  <1>3. RequestInv /\ [Next]_vars => RequestInv'
    BY <1>1, RequestsAlone, RequestTypesStep, RequestLineStep, IdentifiedStep, NumberedStep DEF RequestInv
  <1>. QED
    BY <1>2, <1>3, PTL DEF FairSpec

\* The dependent requests (DependentRequests): a request leaves after the callback of the one before
\* it, a chain by itself finds that callback's result, and the report comes last.
THEOREM RequestsInOrderHolds == FairSpec => []RequestsInOrder
PROOF
  <1>1. RequestInv => RequestsInOrder
    <2>. SUFFICES ASSUME RequestInv PROVE Requests!RequestsInOrder
      BY DEF RequestsInOrder
    <2>1. RequestTypes /\ Identified /\ \A c \in Chains : Chained(c)
      BY DEF RequestInv, RequestLine
    <2>2. ASSUME NEW c \in Chains, pc[c] \in {"ready", "done"} PROVE callbacks[c] = stage[c]
      <3>1. ~Answered(c)
        BY <2>2 DEF Answered
      <3>. QED
        BY <2>1, <3>1 DEF Chained, One, RequestTypes
    <2>3. ASSUME NEW c \in Chains, pc[c] # "idle", c \notin MainChains,
                 \A d \in Chains \ (MainChains \union {c}) : pc[d] = "idle"
          PROVE  identifier = 1 + callbacks[c]
      BY <2>1, <2>3 DEF Identified, Alone
    <2>4. ASSUME NEW c \in requests_notified PROVE callbacks[c] = Stages
      <3>1. c \in Chains /\ pc[c] = "done" /\ stage[c] = Stages
        BY <2>1 DEF RequestTypes, Chained
      <3>. QED
        BY <2>2, <3>1
    <2>. QED
      BY <2>2, <2>3, <2>4 DEF Requests!RequestsInOrder
  <1>. QED
    BY <1>1, RequestInvariant, PTL

\* The types of the requests, with the bounds of the identifier.
LEMMA RequestTypesHold ==
  ASSUME Requests!ChainsAssumption, RequestInv
  PROVE  Requests!TypeOK
PROOF
  <1>1. RequestTypes /\ Lines /\ Numbered
    BY DEF RequestInv, RequestLine
  <1>2. Requests!Cardinality(Chains) = Cardinality(Chains)
    BY DEF Requests!Cardinality, Cardinality
  <1>3. identifier \in 1..(1 + Cardinality(Chains) * Stages)
    BY <1>1, AnswersFacts DEF Numbered
  <1>4. num \in [Chains -> 0..(Cardinality(Chains) * Stages)]
    <2>1. \A c \in Chains : num[c] \in 0..(Cardinality(Chains) * Stages)
      BY <1>1, AnswersFacts DEF Numbered, RequestTypes
    <2>. QED
      BY <1>1, <2>1 DEF RequestTypes
  <1>5. /\ requests_main.items \in Seq(MainLine) /\ requests_main.running \subseteq MainWork
        /\ global.items \in Seq(GlobalWork) /\ global.running \subseteq GlobalWork
    BY <1>1 DEF Lines, Queues
  <1>. QED
    BY <1>1, <1>2, <1>3, <1>4, <1>5 DEF Requests!TypeOK, RequestTypes, MainLine, MainWork, GlobalWork
-----------------------------------------------------------------------------
(***************************************************************************)
(* The synchronous calls of the network: each semaphore is signalled once. *)
(***************************************************************************)
Calls == SyncCalls \union AsyncCalls
InSession(c) == c \in Elements(session)
OnMain(c) == c \in Elements(main_queue)

\* The handler of c has come so far, if it has begun.
HandledNow(c) == session # <<>> /\ Head(session) = c

NetTypes ==
  /\ main \in SyncCalls \union {NoCall} /\ main_queue \in Seq(Calls)
  /\ network \subseteq Calls /\ session \in Seq(SyncCalls)
  /\ handler \in {"dispatch", "signal", "wait"}
  /\ sync_semaphore \in [SyncCalls -> 0..1] /\ semaphore1 \in [SyncCalls -> 0..1]
  /\ tapped \subseteq Calls /\ returned \subseteq SyncCalls
  /\ called_back \subseteq Calls /\ overtaken \subseteq Calls

\* A call is in one place: on its way, with the session or on the main queue, of which a synchronous
\* one is on the two at once while its handler waits.
CallPlace(c) ==
  /\ c \notin tapped => c \notin network /\ ~InSession(c) /\ ~OnMain(c) /\ c \notin called_back
  /\ c \in network => ~InSession(c) /\ ~OnMain(c) /\ c \notin called_back
  /\ InSession(c) /\ ~(HandledNow(c) /\ handler # "dispatch") => ~OnMain(c) /\ c \notin called_back
  /\ OnMain(c) => c \notin called_back

\* What is signalled has not been signalled before.
CallSignals(c) ==
  /\ c \notin called_back => semaphore1[c] = 0
  /\ c \notin tapped \/ c \in network \/ (InSession(c) /\ ~(HandledNow(c) /\ handler = "wait"))
       => sync_semaphore[c] = 0

NetInv == /\ NetTypes /\ Unique(session) /\ Unique(main_queue)
          /\ \A c \in Calls : CallPlace(c)
          /\ \A c \in SyncCalls : CallSignals(c)
-----------------------------------------------------------------------------
\* A step keeps what is known of the calls.
LEMMA NetStep == ASSUME Network!CallsAssumption, NetInv, [Network!Next]_net PROVE NetInv'
PROOF
  <1>1. /\ NetTypes /\ Unique(session) /\ Unique(main_queue) /\ NoCall \notin Calls
        /\ \A c \in Calls : CallPlace(c)
        /\ \A c \in SyncCalls : CallSignals(c) /\ c \in Calls
    BY DEF NetInv, Calls, Network!CallsAssumption
  <1>. USE DEF NetTypes
  <1>2. CASE UNCHANGED net
    BY <1>1, <1>2 DEF net, NetInv, CallPlace, CallSignals, Unique, InSession, OnMain, HandledNow
  <1>3. ASSUME NEW c \in Calls, Network!Tap(c) PROVE NetInv'
    <2>1. /\ c \notin tapped /\ tapped' = tapped \union {c} /\ network' = network \union {c}
          /\ main' \in SyncCalls \union {NoCall} /\ overtaken' \subseteq Calls
          /\ UNCHANGED <<main_queue, session, handler, sync_semaphore, semaphore1, returned, called_back>>
      BY <1>1, <1>3 DEF Network!Tap
    <2>2. NetTypes'
      BY <1>1, <2>1
    <2>3. ASSUME NEW d \in Calls PROVE CallPlace(d)'
      BY <1>1, <2>1 DEF CallPlace, InSession, OnMain, HandledNow
    <2>4. ASSUME NEW d \in SyncCalls PROVE CallSignals(d)'
      BY <1>1, <2>1 DEF CallSignals, InSession, HandledNow
    <2>. QED
      BY <1>1, <2>1, <2>2, <2>3, <2>4 DEF NetInv, Unique
  <1>4. ASSUME NEW c \in Calls, Network!Respond(c) PROVE NetInv'
    <2>1. /\ c \in network /\ network' = network \ {c}
          /\ UNCHANGED <<main, handler, sync_semaphore, semaphore1, tapped, returned, called_back, overtaken>>
      BY <1>4 DEF Network!Respond
    <2>2. c \in tapped /\ ~InSession(c) /\ ~OnMain(c) /\ c \notin called_back
      BY <1>1, <2>1 DEF CallPlace
    <2>3. CASE c \in SyncCalls
      <3>1. session' = Append(session, c) /\ main_queue' = main_queue
        BY <1>4, <2>3 DEF Network!Respond
      <3>2. /\ session' \in Seq(SyncCalls) /\ Elements(session') = Elements(session) \union {c}
            /\ Unique(session')
        BY <1>1, <2>2, <2>3, <3>1, Appended, UniqueAppended DEF InSession
      <3>3. session # <<>> => session' # <<>> /\ Head(session') = Head(session)
        BY <1>1, <2>3, <3>1
      <3>4. \A d \in Calls : /\ InSession(d)' <=> InSession(d) \/ d = c
                             /\ HandledNow(d) => HandledNow(d)'
                             /\ OnMain(d)' <=> OnMain(d)
        BY <3>1, <3>2, <3>3 DEF InSession, HandledNow, OnMain
      <3>5. NetTypes'
        BY <1>1, <2>1, <3>1, <3>2
      <3>6. ASSUME NEW d \in Calls PROVE CallPlace(d)'
        BY <1>1, <2>1, <2>2, <3>4 DEF CallPlace
      <3>7. ASSUME NEW d \in SyncCalls PROVE CallSignals(d)'
        BY <1>1, <2>1, <2>2, <3>4 DEF CallSignals
      <3>. QED
        BY <1>1, <3>1, <3>2, <3>5, <3>6, <3>7 DEF NetInv, Unique
    <2>4. CASE c \notin SyncCalls
      <3>1. main_queue' = Append(main_queue, c) /\ session' = session
        BY <1>4, <2>4 DEF Network!Respond
      <3>2. /\ main_queue' \in Seq(Calls) /\ Elements(main_queue') = Elements(main_queue) \union {c}
            /\ Unique(main_queue')
        BY <1>1, <2>2, <3>1, Appended, UniqueAppended DEF OnMain
      <3>3. \A d \in Calls : /\ OnMain(d)' <=> OnMain(d) \/ d = c
                             /\ HandledNow(d)' <=> HandledNow(d)
                             /\ InSession(d)' <=> InSession(d)
        BY <3>1, <3>2 DEF InSession, HandledNow, OnMain
      <3>4. NetTypes'
        BY <1>1, <2>1, <3>1, <3>2
      <3>5. ASSUME NEW d \in Calls PROVE CallPlace(d)'
        BY <1>1, <2>1, <2>2, <3>3 DEF CallPlace
      <3>6. ASSUME NEW d \in SyncCalls PROVE CallSignals(d)'
        BY <1>1, <2>1, <2>2, <3>3 DEF CallSignals
      <3>. QED
        BY <1>1, <3>1, <3>2, <3>4, <3>5, <3>6 DEF NetInv, Unique
    <2>. QED
      BY <2>3, <2>4
  <1>5. CASE Network!DispatchCallback
    <2>. DEFINE c == Head(session)
    <2>1. /\ session # <<>> /\ handler = "dispatch" /\ handler' = "signal" /\ main_queue' = Append(main_queue, c)
          /\ UNCHANGED <<main, network, session, sync_semaphore, semaphore1, tapped, returned, called_back, overtaken>>
      BY <1>5 DEF Network!DispatchCallback, Network!At, Network!Handled
    <2>2. c \in SyncCalls /\ InSession(c) /\ c \in Calls
      BY <1>1, <2>1, TakenFirst DEF InSession
    <2>3. c \in tapped /\ c \notin network /\ ~OnMain(c) /\ c \notin called_back
      BY <1>1, <2>1, <2>2 DEF CallPlace
    <2>4. /\ main_queue' \in Seq(Calls) /\ Elements(main_queue') = Elements(main_queue) \union {c}
          /\ Unique(main_queue')
      BY <1>1, <2>1, <2>2, <2>3, Appended, UniqueAppended DEF OnMain
    <2>5. \A d \in Calls : /\ OnMain(d)' <=> OnMain(d) \/ d = c
                           /\ HandledNow(d)' <=> HandledNow(d)
                           /\ InSession(d)' <=> InSession(d)
      BY <2>1, <2>4 DEF InSession, HandledNow, OnMain
    <2>6. NetTypes'
      BY <1>1, <2>1, <2>4
    <2>7. HandledNow(c)
      BY <2>1 DEF HandledNow
    <2>. HIDE DEF c
    <2>8. ASSUME NEW d \in Calls PROVE CallPlace(d)'
      BY <1>1, <2>1, <2>2, <2>3, <2>5, <2>7 DEF CallPlace
    <2>9. ASSUME NEW d \in SyncCalls PROVE CallSignals(d)'
      BY <1>1, <2>1, <2>5 DEF CallSignals
    <2>. QED
      BY <1>1, <2>1, <2>4, <2>6, <2>8, <2>9 DEF NetInv, Unique
  <1>6. CASE Network!SignalCaller
    <2>. DEFINE c == Head(session)
    <2>1. /\ session # <<>> /\ handler = "signal" /\ handler' = "wait"
          /\ sync_semaphore' = [sync_semaphore EXCEPT ![c] = @ + 1]
          /\ UNCHANGED <<main, main_queue, network, session, semaphore1, tapped, returned, called_back, overtaken>>
      BY <1>6 DEF Network!SignalCaller, Network!At, Network!Handled
    <2>2. c \in SyncCalls /\ InSession(c) /\ HandledNow(c) /\ c \in Calls
      BY <1>1, <2>1, TakenFirst DEF InSession, HandledNow
    <2>3. sync_semaphore[c] = 0 /\ c \in tapped /\ c \notin network
      BY <1>1, <2>1, <2>2 DEF CallPlace, CallSignals
    <2>4. \A d \in Calls : /\ OnMain(d)' <=> OnMain(d)
                           /\ HandledNow(d)' <=> HandledNow(d)
                           /\ InSession(d)' <=> InSession(d)
      BY <2>1 DEF InSession, HandledNow, OnMain
    <2>. HIDE DEF c
    <2>5. sync_semaphore' \in [SyncCalls -> 0..1] /\ \A d \in SyncCalls \ {c} : sync_semaphore'[d] = sync_semaphore[d]
      BY <1>1, <2>1, <2>2, <2>3
    <2>6. NetTypes'
      BY <1>1, <2>1, <2>5
    <2>7. ASSUME NEW d \in Calls PROVE CallPlace(d)'
      BY <1>1, <2>1, <2>4 DEF CallPlace
    <2>8. ASSUME NEW d \in SyncCalls PROVE CallSignals(d)'
      BY <1>1, <2>1, <2>2, <2>3, <2>4, <2>5 DEF CallSignals
    <2>. QED
      BY <1>1, <2>1, <2>6, <2>7, <2>8 DEF NetInv, Unique
  <1>7. CASE Network!WaitForCallback
    <2>. DEFINE c == Head(session)
    <2>1. /\ session # <<>> /\ handler = "wait" /\ handler' = "dispatch" /\ semaphore1[c] > 0
          /\ semaphore1' = [semaphore1 EXCEPT ![c] = @ - 1] /\ session' = Tail(session)
          /\ UNCHANGED <<main, main_queue, network, sync_semaphore, tapped, returned, called_back, overtaken>>
      BY <1>7 DEF Network!WaitForCallback, Network!At, Network!Handled
    <2>2. /\ c \in SyncCalls /\ session' \in Seq(SyncCalls) /\ Unique(session')
          /\ c \notin Elements(session') /\ Elements(session) = Elements(session') \union {c}
      BY <1>1, <2>1, TakenFirst, UniqueTaken
    <2>3. \A d \in Calls : /\ OnMain(d)' <=> OnMain(d)
                           /\ InSession(d)' <=> InSession(d) /\ d # c
                           /\ InSession(d)' => ~HandledNow(d)
      BY <2>1, <2>2 DEF InSession, HandledNow, OnMain
    <2>. HIDE DEF c
    <2>4. /\ semaphore1' \in [SyncCalls -> 0..1] /\ \A d \in SyncCalls \ {c} : semaphore1'[d] = semaphore1[d]
          /\ semaphore1'[c] = 0
      BY <1>1, <2>1, <2>2
    <2>5. NetTypes'
      BY <1>1, <2>1, <2>2, <2>4
    <2>6. ASSUME NEW d \in Calls PROVE CallPlace(d)'
      BY <1>1, <2>1, <2>3 DEF CallPlace
    <2>7. ASSUME NEW d \in SyncCalls PROVE CallSignals(d)'
      BY <1>1, <2>1, <2>3, <2>4 DEF CallSignals
    <2>. QED
      BY <1>1, <2>1, <2>2, <2>5, <2>6, <2>7 DEF NetInv, Unique
  <1>8. CASE Network!Return
    <2>1. /\ main \in SyncCalls /\ sync_semaphore[main] > 0 /\ sync_semaphore' = [sync_semaphore EXCEPT ![main] = @ - 1]
          /\ returned' = returned \union {main} /\ main' = NoCall
          /\ UNCHANGED <<main_queue, network, session, handler, semaphore1, tapped, called_back, overtaken>>
      BY <1>1, <1>8 DEF Network!Return
    <2>2. \A d \in Calls : /\ OnMain(d)' <=> OnMain(d)
                           /\ HandledNow(d)' <=> HandledNow(d)
                           /\ InSession(d)' <=> InSession(d)
      BY <2>1 DEF InSession, HandledNow, OnMain
    <2>3. /\ sync_semaphore' \in [SyncCalls -> 0..1]
          /\ \A d \in SyncCalls : sync_semaphore[d] = 0 => sync_semaphore'[d] = 0
      BY <1>1, <2>1
    <2>4. NetTypes'
      BY <1>1, <2>1, <2>3
    <2>5. ASSUME NEW d \in Calls PROVE CallPlace(d)'
      BY <1>1, <2>1, <2>2 DEF CallPlace
    <2>6. ASSUME NEW d \in SyncCalls PROVE CallSignals(d)'
      BY <1>1, <2>1, <2>2, <2>3 DEF CallSignals
    <2>. QED
      BY <1>1, <2>1, <2>4, <2>5, <2>6 DEF NetInv, Unique
  <1>9. CASE Network!Callback
    <2>. DEFINE c == Head(main_queue)
    <2>1. /\ main_queue # <<>> /\ main_queue' = Tail(main_queue) /\ called_back' = called_back \union {c}
          /\ semaphore1' = [d \in SyncCalls |-> IF d = c THEN semaphore1[d] + 1 ELSE semaphore1[d]]
          /\ UNCHANGED <<main, network, session, handler, sync_semaphore, tapped, returned, overtaken>>
      BY <1>9 DEF Network!Callback
    <2>2. /\ c \in Calls /\ OnMain(c) /\ main_queue' \in Seq(Calls) /\ Unique(main_queue')
          /\ c \notin Elements(main_queue') /\ Elements(main_queue) = Elements(main_queue') \union {c}
      BY <1>1, <2>1, TakenFirst, UniqueTaken DEF OnMain
    <2>3. \A d \in Calls : /\ OnMain(d)' <=> OnMain(d) /\ d # c
                           /\ HandledNow(d)' <=> HandledNow(d)
                           /\ InSession(d)' <=> InSession(d)
      BY <2>1, <2>2 DEF InSession, HandledNow, OnMain
    <2>. HIDE DEF c
    <2>4. c \notin called_back /\ c \in tapped /\ c \notin network
            /\ (InSession(c) => HandledNow(c) /\ handler # "dispatch")
      BY <1>1, <2>2 DEF CallPlace
    <2>5. c \in SyncCalls => semaphore1[c] = 0
      BY <1>1, <2>4 DEF CallSignals
    <2>6. semaphore1' \in [SyncCalls -> 0..1] /\ \A d \in SyncCalls \ {c} : semaphore1'[d] = semaphore1[d]
      BY <1>1, <2>1, <2>5
    <2>7. NetTypes'
      BY <1>1, <2>1, <2>2, <2>6
    <2>8. ASSUME NEW d \in Calls PROVE CallPlace(d)'
      BY <1>1, <2>1, <2>3, <2>4 DEF CallPlace
    <2>9. ASSUME NEW d \in SyncCalls PROVE CallSignals(d)'
      BY <1>1, <2>1, <2>3, <2>6 DEF CallSignals
    <2>. QED
      BY <1>1, <2>1, <2>2, <2>7, <2>8, <2>9 DEF NetInv, Unique
  <1>. QED
    BY <1>2, <1>3, <1>4, <1>5, <1>6, <1>7, <1>8, <1>9 DEF Network!Next, Network!Calls, Calls

\* No call has been made.
LEMMA NetInit == ASSUME Network!Init PROVE NetInv
PROOF
  <1>1. /\ main = NoCall /\ main_queue = <<>> /\ network = {} /\ session = <<>> /\ handler = "dispatch"
        /\ sync_semaphore = [c \in SyncCalls |-> 0] /\ semaphore1 = [c \in SyncCalls |-> 0]
        /\ tapped = {} /\ returned = {} /\ called_back = {} /\ overtaken = {}
    BY DEF Network!Init
  <1>2. NetTypes
    BY <1>1 DEF NetTypes
  <1>3. Unique(session) /\ Unique(main_queue) /\ \A c \in Calls : ~InSession(c) /\ ~OnMain(c)
    BY <1>1, EmptySequence DEF Unique, InSession, OnMain
  <1>4. \A c \in Calls : CallPlace(c)
    BY <1>1, <1>3 DEF CallPlace
  <1>5. \A c \in SyncCalls : CallSignals(c)
    BY <1>1, <1>3 DEF CallSignals, Calls
  <1>. QED
    BY <1>2, <1>3, <1>4, <1>5 DEF NetInv

\* The steps of the calls are their own, and no other touches them.
LEMMA NetworkAlone == [Next]_vars => [Network!Next]_net
PROOF
  BY DEF Next, Open, RequestsStep, ImagesStep, NetworkStep, BoundedStep, AlgorithmsStep, DictionaryStep, vars

\* The invariant of the calls in the application: a call is in one place.
THEOREM NetInvariant == FairSpec => []NetInv
PROOF
  <1>1. Network!CallsAssumption
    BY DemosAssumption
  <1>2. Init => NetInv
    BY NetInit DEF Init
  <1>3. NetInv /\ [Next]_vars => NetInv'
    BY <1>1, NetworkAlone, NetStep
  <1>. QED
    BY <1>2, <1>3, PTL DEF FairSpec
-----------------------------------------------------------------------------
\* The types of all the demonstrations, among them the bounds of their counters: semaphores, groups,
\* the identifier and the permits.
THEOREM TypesHold == FairSpec => []TypeOK
PROOF
  <1>1. FairSpec => []Requests!TypeOK
    <2>1. Requests!ChainsAssumption
      BY DemosAssumption
    <2>2. RequestInv => Requests!TypeOK
      BY <2>1, RequestTypesHold
    <2>. QED
      BY <2>2, RequestInvariant, PTL
  <1>2. FairSpec => []Images!TypeOK
    <2>1. ImagesInv => Images!TypeOK
      BY DEF ImagesInv
    <2>. QED
      BY <2>1, ImagesKept, PTL
  <1>3. FairSpec => []Network!TypeOK
    <2>1. NetInv => Network!TypeOK
      BY DEF NetInv, NetTypes, Network!TypeOK, Network!Calls, Calls
    <2>. QED
      BY <2>1, NetInvariant, PTL
  <1>4. FairSpec => []Bounded!TypeOK
    <2>1. Bounded!BoundedAssumption
      BY DemosAssumption
    <2>2. TaskInv => Bounded!TypeOK
      BY <2>1, TaskTypesHold
    <2>. QED
      BY <2>2, TaskInvariant, PTL
  <1>5. FairSpec => []Dictionary!TypeOK
    <2>. DEFINE writes == {Dictionary!Item(w, TRUE) : w \in Dictionary!Writes}
                reads == {Dictionary!Item(r, FALSE) : r \in Dictionary!Reads}
    <2>4. writes = WriteItems
      BY DEF WriteItems, W, Dictionary!Writes, Dictionary!Write, Dictionary!Item
    <2>5. reads = ReadItems
      BY DEF ReadItems, R, Dictionary!Reads, Dictionary!Read, Dictionary!Item
    <2>1. writes \union reads = DictionaryItems
      <3>. HIDE DEF writes, reads
      <3>. QED
        BY <2>4, <2>5 DEF DictionaryItems
    <2>2. ASSUME DictionaryInv
          PROVE  /\ synchronizationQueue.items \in Seq(writes \union reads)
                 /\ synchronizationQueue.running \subseteq writes \union reads
      <3>. HIDE DEF writes, reads
      <3>. QED
        BY <2>1, <2>2 DEF DictionaryInv, DictionaryTypes
    <2>3. DictionaryInv => Dictionary!TypeOK
      BY <2>2 DEF DictionaryInv, DictionaryTypes, Dictionary!TypeOK
    <2>. QED
      BY DictionaryInvariant, <2>3, PTL
  <1>. QED
    BY <1>1, <1>2, <1>3, <1>4, <1>5, PTL DEF TypeOK
=============================================================================
