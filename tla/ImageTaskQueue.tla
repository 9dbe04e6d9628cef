---------------------------- MODULE ImageTaskQueue ----------------------------
(***************************************************************************)
(* The table of large images (ViewController.m of the project named after  *)
(* it): a cell is configured at once but for its images, which are tasks   *)
(* in a bounded queue; an observer of the main run loop executes one task  *)
(* each time the loop wakes up.  Everything happens on the main thread;    *)
(* the hazards come from the table, which reuses a cell for another row    *)
(* while tasks that captured it are still queued.                          *)
(***************************************************************************)
EXTENDS Naturals, Sequences, FiniteSets

CONSTANTS Cells,           \* the cells the table creates
          maxQueueLength   \* 28

QueueAssumption == IsFiniteSet(Cells) /\ maxQueueLength \in Nat \ {0}

VARIABLES tasks,     \* the queue of blocks <<cell, tag>>
          subviews,  \* subviews[cell][tag]: image views with that tag in the contentView
          visible,   \* the cells on the screen
          reusable,  \* the cells in the reuse queue of the table
          lost,      \* history: lost[cell]: tags whose task was dropped since cellForRow
          later      \* history: later[cell]: cells configured since, up to RowsQueued

vars == <<tasks, subviews, visible, reusable, lost, later>>

Tags == 2..4   \* addImage1, addImage2, addImage3; the label has tag 1

RowsQueued == (maxQueueLength + 2) \div 3   \* rows that fill the queue; bound of later[c]
-----------------------------------------------------------------------------
\* viewDidLoad
Init == /\ tasks = <<>>
        /\ subviews = [c \in Cells |-> [tag \in Tags |-> 0]]
        /\ visible = {} /\ reusable = {}
        /\ lost = [c \in Cells |-> {}]
        /\ later = [c \in Cells |-> 0]

\* Mutation of addTask: drop one too early.
addTask_TooEarly(queue, task) ==
  LET added == Append(queue, task)
  IN IF Len(added) >= maxQueueLength THEN Tail(added) ELSE added

\* addTask: a queue that has become too long loses its first task.
addTask(queue, task) ==
  LET added == Append(queue, task)
  IN IF Len(added) > maxQueueLength THEN Tail(added) ELSE added

InQueue(queue, task) == \E i \in 1..Len(queue) : queue[i] = task

\* Mutation of Cleared: the loop over the tags ends one too early.
Cleared_OffByOne(views) == [tag \in Tags |-> IF tag < 4 /\ views[tag] > 0 THEN views[tag] - 1
                                             ELSE views[tag]]

\* viewWithTag: finds one view of each tag, and that one is removed.
Cleared(views) == [tag \in Tags |-> IF views[tag] > 0 THEN views[tag] - 1 ELSE 0]

(***************************************************************************)
(* tableView:cellForRowAtIndexPath: on the cell the table dequeues, or     *)
(* creates when its reuse queue is empty.                                  *)
(***************************************************************************)
cellForRow(c) ==
  /\ IF reusable = {} THEN c \notin visible ELSE c \in reusable
  /\ visible' = visible \union {c}
  /\ reusable' = reusable \ {c}
  /\ subviews' = [subviews EXCEPT ![c] = Cleared(@)]
  /\ tasks' = addTask(addTask(addTask(tasks, <<c, 2>>), <<c, 3>>), <<c, 4>>)
  /\ lost' = [d \in Cells |->
                (IF d = c THEN {} ELSE lost[d])
                  \union {tag \in Tags : /\ d = c \/ InQueue(tasks, <<d, tag>>)
                                         /\ ~InQueue(tasks', <<d, tag>>)}]
  /\ later' = [d \in Cells |-> IF d = c THEN 0
                               ELSE IF later[d] < RowsQueued THEN later[d] + 1 ELSE later[d]]

\* The row of the cell leaves the screen.
EndDisplaying(c) ==
  /\ c \in visible
  /\ visible' = visible \ {c}
  /\ reusable' = reusable \union {c}
  /\ UNCHANGED <<tasks, subviews, lost, later>>

\* Mutation of TaskCallBack: the wrong end of the queue is removed.
TaskCallBack_RemoveLast ==
  /\ tasks # <<>>
  /\ LET cell == Head(tasks)[1] tag == Head(tasks)[2]
     IN subviews' = [subviews EXCEPT ![cell][tag] = @ + 1]
  /\ tasks' = SubSeq(tasks, 1, Len(tasks) - 1)
  /\ UNCHANGED <<visible, reusable, lost, later>>

\* The observer of kCFRunLoopAfterWaiting executes the first task, and removes it.
TaskCallBack ==
  /\ tasks # <<>>
  /\ LET cell == Head(tasks)[1] tag == Head(tasks)[2]
     IN subviews' = [subviews EXCEPT ![cell][tag] = @ + 1]
  /\ tasks' = Tail(tasks)
  /\ UNCHANGED <<visible, reusable, lost, later>>

Next == \/ \E c \in Cells : cellForRow(c) \/ EndDisplaying(c)
        \/ TaskCallBack

\* The timer of viewDidLoad wakes the run loop every 10 ms, but in the default mode only:
\* while the user drags, it is his events that do (no finger rests on the table for ever).
Fairness == WF_vars(TaskCallBack)

Spec == Init /\ [][Next]_vars
FairSpec == Spec /\ Fairness
-----------------------------------------------------------------------------
TypeOK ==
  /\ tasks \in Seq(Cells \X Tags) /\ Len(tasks) <= maxQueueLength
  /\ subviews \in [Cells -> [Tags -> Nat]]
  /\ visible \subseteq Cells /\ reusable \subseteq Cells \ visible
  /\ lost \in [Cells -> SUBSET Tags] /\ later \in [Cells -> 0..RowsQueued]

(***************************************************************************)
(* Every image of a cell on the screen is in the cell, or its task is      *)
(* queued, or that task was dropped: the tasks of the rows the cell showed *)
(* before, and the views they left, take nothing away from this row.  And  *)
(* a task is dropped only for maxQueueLength tasks that came after it, the *)
(* rest of its row and later rows: at 28 the nine cells configured last    *)
(* never lose an image.                                                    *)
(***************************************************************************)
ImageOrTask ==
  /\ \A c \in visible, tag \in Tags :
       subviews[c][tag] > 0 \/ InQueue(tasks, <<c, tag>>) \/ tag \in lost[c]
  /\ \A c \in Cells : \A tag \in lost[c] : 3 * later[c] + (4 - tag) >= maxQueueLength

\* Where the tasks of a cell and a tag are in the queue.
TasksOf(c, tag) == {i \in 1..Len(tasks) : tasks[i] = <<c, tag>>}

(***************************************************************************)
(* A stale task adds an image to a cell that another task fills as well,   *)
(* and cellForRow removes only one view of each tag, so images pile up in  *)
(* a cell; but however long one scrolls, no more than the queue can hold   *)
(* tasks of that cell and tag.                                             *)
(***************************************************************************)
ViewsBounded ==
  \A c \in Cells, tag \in Tags :
    subviews[c][tag] + Cardinality(TasksOf(c, tag)) <= RowsQueued

(***************************************************************************)
(* A cell that stays on the screen gets its images, unless so many rows    *)
(* came after it that its tasks were dropped.                              *)
(***************************************************************************)
ImagesArrive ==
  \A c \in Cells :
    (c \in visible) ~> \/ \A tag \in Tags : subviews[c][tag] > 0 \/ tag \in lost[c]
                       \/ c \notin visible
=============================================================================
