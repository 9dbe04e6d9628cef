----------------------- MODULE DispatchLaneOrderProofs -----------------------
(***************************************************************************)
(* Proofs about DispatchLane, from the invariant of DispatchLaneProofs:    *)
(* blocks start in the order of their calls, so that the lane implements   *)
(* QueueContract, and no wakeup is lost.                                   *)
(***************************************************************************)
EXTENDS DispatchLaneProofs

-----------------------------------------------------------------------------
(***************************************************************************)
(* The order of the blocks.                                                *)
(***************************************************************************)
\* The blocks of earlier calls that block b comes after and that have not been taken yet.
Ahead(b) == {a \in prior[b] : status[a] = "called"}

\* When a call has returned its block is done, or it does not wait; if it has not been taken it
\* is in the list.
ReturnedAt(b) == b \in returned => status[b] # "new" /\ ~Waiter(b) /\ (status[b] = "called" => OnList(b))
PriorAt(b) == prior[b] \subseteq returned /\ b \notin prior[b]
SettledAt(t) == pc[t] \in Waking /\ status[Current(t)] = "called" => OnList(Current(t))

\* A block starts when none is ahead of it, unless its call takes an idle queue: a call tries the
\* queue when it has seen the list empty, and the list is in order.
ReadyAt(b) == status[b] = "ready" => Ahead(b) = {}
TriedAt(t) ==
  /\ pc[t] \in {"async_try", "sync_try"} => Ahead(Current(t)) = {}
  /\ pc[t] \in Transfers => Ahead(dc[t]) = {}
InLine == \A j \in 1..Len(dq_items) : \A a \in Ahead(dq_items[j]) : \E i \in 1..(j - 1) : dq_items[i] = a

Ordering ==
  /\ \A b \in Blocks : ReturnedAt(b) /\ PriorAt(b) /\ ReadyAt(b)
  /\ \A t \in Threads : SettledAt(t) /\ TriedAt(t)
  /\ InLine

\* What a step does to the two histories: a call returns, begins or ends.
Returns(t) ==
  \/ returned' = returned
  \/ /\ stack[t] # <<>> /\ Current(t) \in Blocks /\ returned' = returned \union {Current(t)}
     /\ \/ status[Current(t)] = "done"
        \/ ~Waiter(Current(t)) /\ (pc[t] \in Linking \union Waking \/ Readied(Current(t)))
History(t) ==
  \/ \E b \in Blocks : /\ Called(t, b) /\ returned' = returned
                       /\ prior' = [prior EXCEPT ![b] = {a \in returned : status[a] # "done"}]
  \/ Ended(t) /\ prior' = [prior EXCEPT ![Current(t)] = {}] /\ returned' = returned
  \/ \E b \in Blocks : Ran(b) /\ UNCHANGED <<prior, returned>>
  \/ (Calm \/ \E b \in Blocks : Readied(b)) /\ prior' = prior /\ Returns(t)

\* The call that a thread leaves.
LEMMA LeftReturns ==
  ASSUME Inv, NEW t \in Threads, Leave(t)
  PROVE  \/ returned' = returned
         \/ stack[t] # <<>> /\ Current(t) \in Blocks /\ returned' = returned \union {Current(t)}
PROOF
  <1>1. Types /\ (stack[t] # <<>> => Current(t) \in Blocks /\ Current(t) = stack[t][1].block)
    BY StackFacts DEF Inv, Current
  <1>2. returned' = returned \union {b \in Blocks : caller[b] = t /\ stack[t] # <<>> /\ stack[t][1].block = b}
    BY DEF Leave
  <1>3. CASE stack[t] # <<>> /\ caller[Current(t)] = t
    BY <1>1, <1>2, <1>3
  <1>4. CASE stack[t] = <<>> \/ caller[Current(t)] # t
    BY <1>1, <1>2, <1>4
  <1>. QED
    BY <1>3, <1>4

\* A completion returns from the call of a block that is done.
LEMMA CompletedReturns ==
  ASSUME Inv, NEW t \in Threads, Complete(t), pc[t] \in {"uncount", "drain_transfer"} \union Completing \union Giving
  PROVE  Returns(t)
PROOF
  <1>1. FrameAt(t) /\ FinishedAt(t)
    BY DEF Inv, Threading, ThreadAt
  <1>2. CASE then[t] = "wait"
    BY <1>2 DEF Complete, Returns
  <1>3. CASE then[t] # "wait"
    <2>1. Leave(t)
      BY <1>3 DEF Complete
    <2>2. stack[t] # <<>> => pc[t] # "drain_transfer"
      BY <1>1 DEF FrameAt, DrainPcs
    <2>3. stack[t] # <<>> => status[Current(t)] = "done"
      BY <1>1, <1>3, <2>2 DEF FinishedAt
    <2>. QED
      BY <2>1, <2>3, LeftReturns DEF Returns
  <1>. QED
    BY <1>2, <1>3

\* Every step moves the histories in one of these ways.
LEMMA Recording ==
  ASSUME Inv, NEW t \in Threads, Acts(t)
  PROVE  History(t)
PROOF
  <1>. USE DEF list, target, locals, calls
  <1>1. Types /\ Marks(t) /\ FrameAt(t) /\ CallAt(t)
    BY Marking DEF Inv, Threading, ThreadAt
  <1>2. ASSUME Calm, UNCHANGED <<prior, returned>> PROVE History(t)
    BY <1>2 DEF History, Returns
  <1>3. ASSUME NEW b \in Blocks, Readied(b), UNCHANGED <<prior, returned>> PROVE History(t)
    BY <1>3 DEF History, Returns
  <1>4. ASSUME NEW b \in Blocks, Ran(b), UNCHANGED <<prior, returned>> PROVE History(t)
    BY <1>4 DEF History
  <1>5. ASSUME NEW b \in Blocks, NEW k \in Kinds, Submit(t, b, k) PROVE History(t)
    <2>1. [block |-> b, after |-> "none"] \in Frames
      BY DEF Frames
    <2>2. stack'[t] = <<[block |-> b, after |-> "none"]>> \o stack[t]
      BY <1>1, <1>5 DEF Submit, Types
    <2>3. stack'[t] # <<>> /\ Head(stack'[t]) = [block |-> b, after |-> "none"]
      BY <1>1, <2>1, <2>2, OnTop, StackFacts
    <2>4. Current(t)' = b
      BY <2>3 DEF Current
    <2>5. \E x \in Kinds : kind' = [kind EXCEPT ![b] = x]
      BY <1>5 DEF Submit
    <2>6. Called(t, b)
      BY <1>5, <2>3, <2>4, <2>5 DEF Submit, Called
    <2>. QED
      BY <1>5, <2>6 DEF Submit, History
  <1>6. CASE (t \in Blocks /\ Call(t)) \/ NestedCall(t)
    BY <1>5, <1>6 DEF Call, NestedCall, Distinct
  <1>7. CASE AsyncTry(t)
    <2>1. pc[t] = "async_try" /\ stack[t] # <<>> /\ Current(t) \in Blocks /\ status[Current(t)] = "called"
          /\ ~Waiter(Current(t))
      BY <1>1, <1>7, HasBlock DEF AsyncTry, At, DrainPcs, CallAt, Submits, Calling, Early, Waiter
    <2>2. CASE CanAcquireAsync(dq_state)
      <3>1. Leave(t) /\ Readied(Current(t)) /\ prior' = prior
        BY <1>7, <2>1, <2>2 DEF AsyncTry, Dispatch, Readied
      <3>. QED
        BY <2>1, <3>1, LeftReturns DEF History, Returns
    <2>3. CASE ~CanAcquireAsync(dq_state)
      BY <1>2, <1>7, <2>3 DEF AsyncTry, Calm
    <2>. QED
      BY <2>2, <2>3
  <1>8. CASE AsyncProbe(t) \/ SyncProbe(t) \/ Prepare(t) \/ PushTail(t) \/ NeedOverride(t)
             \/ PushHead(t) \/ WakeupProbe(t) \/ MergeQos(t) \/ PushWaiter(t)
    BY <1>2, <1>8 DEF Calm, AsyncProbe, SyncProbe, Prepare, PushTail, NeedOverride, PushHead, WakeupProbe,
       MergeQos, PushWaiter
  <1>9. CASE SyncTry(t) \/ BarrierTry(t) \/ Wait(t)
    <2>1. stack[t] # <<>> /\ Current(t) \in Blocks
      BY <1>1, <1>9, HasBlock DEF SyncTry, BarrierTry, Wait, At, DrainPcs
    <2>2. status[Current(t)] \in {"called", "ready"}
      <3>1. CASE SyncTry(t) \/ BarrierTry(t)
        BY <1>1, <3>1 DEF SyncTry, BarrierTry, At, CallAt, Submits, Calling, Early
      <3>2. CASE Wait(t)
        BY <2>1, <3>2 DEF Wait, Inv, Listing, PlaceAt
      <3>. QED
        BY <1>9, <3>1, <3>2
    <2>3. ASSUME NEW after, Enter(t, after), UNCHANGED <<kind, caller, prior, returned>> PROVE History(t)
      BY <1>4, <2>1, <2>2, <2>3 DEF Enter, Run, Ran
    <2>4. CASE SyncTry(t)
      BY <1>2, <2>3, <2>4 DEF SyncTry, Calm
    <2>5. CASE BarrierTry(t)
      BY <1>2, <2>3, <2>5 DEF BarrierTry, Calm
    <2>6. CASE Wait(t)
      BY <2>3, <2>6 DEF Wait
    <2>. QED
      BY <1>9, <2>4, <2>5, <2>6
  <1>10. CASE PushLink(t)
    <2>1. CASE pc[t] = "link" /\ ~Waiter(Current(t))
      <3>1. Leave(t) /\ Calm /\ prior' = prior
        BY <1>10, <2>1 DEF PushLink, Calm
      <3>. QED
        BY <2>1, <3>1, LeftReturns DEF History, Returns, Linking
    <2>2. CASE ~(pc[t] = "link" /\ ~Waiter(Current(t)))
      BY <1>2, <1>10, <2>2 DEF PushLink, Calm
    <2>. QED
      BY <2>1, <2>2
  <1>11. CASE Wakeup(t) \/ OverrideLast(t)
    <2>1. Leave(t) /\ Calm /\ prior' = prior /\ pc[t] \in Waking
      BY <1>11 DEF Wakeup, OverrideLast, At, Calm, Waking
    <2>2. ~Waiter(Current(t))
      BY <1>1, <2>1 DEF CallAt, Submits, Calling
    <2>. QED
      BY <2>1, <2>2, LeftReturns DEF History, Returns
  <1>12. CASE Return(t)
    <2>1. Ended(t)
      BY <1>1, <1>12, HasBlock DEF Return, At, DrainPcs, Ended
    <2>. QED
      BY <1>12, <2>1 DEF Return, History
  <1>13. ASSUME Complete(t), pc[t] \in {"uncount", "drain_transfer"} \union Completing \union Giving,
                Calm \/ (\E b \in Blocks : Readied(b)), prior' = prior
         PROVE  History(t)
    BY <1>13, CompletedReturns DEF History
  <1>14. CASE NonBarrierComplete(t)
    BY <1>2, <1>13, <1>14 DEF NonBarrierComplete, CompleteNonBarrier, Calm, At
  <1>15. CASE Unlock(t) \/ BarrierRelease(t) \/ BarrierRequeue(t)
    BY <1>2, <1>13, <1>15 DEF Unlock, BarrierRelease, BarrierRequeue, Calm, At, Completing
  <1>16. CASE Close(t)
    BY <1>2, <1>13, <1>16 DEF Close, CompleteNonBarrier, Calm, At, Giving
  <1>17. CASE TransferLock(t)
    <2>1. dc[t] \in Blocks /\ Readied(dc[t])
      BY <1>17 DEF TransferLock, Inv, Listing, TransferAt, Transfers, Readied
    <2>. QED
      BY <1>13, <1>17, <2>1 DEF TransferLock, Completing
  <1>18. CASE UnlockProbe(t) \/ BarrierComplete(t) \/ PopWaiter(t) \/ DrainWaiter(t) \/ Open(t) \/ GiveReserve(t)
              \/ Reload(t) \/ DrainReserve(t)
    BY <1>2, <1>18 DEF Calm, UnlockProbe, BarrierComplete, PopWaiter, DrainWaiter, HandOver, Open, GiveReserve,
       Reload, DrainReserve
  <1>19. CASE Give(t) \/ DrainGive(t)
    <2>1. HeadLinked /\ Dispatch(Head(dq_items)) /\ UNCHANGED <<kind, caller, prior, returned>>
      BY <1>19 DEF Give, DrainGive, CanPop
    <2>2. Readied(Head(dq_items)) /\ Head(dq_items) \in Blocks
      BY <2>1, HeadFacts DEF Dispatch, Readied
    <2>. QED
      BY <1>3, <2>1, <2>2
  <1>20. CASE DrainBarrier(t)
    <2>1. HeadLinked /\ UNCHANGED <<kind, caller, prior, returned>>
      BY <1>20 DEF DrainBarrier, Draining
    <2>2. Ran(Head(dq_items)) /\ Head(dq_items) \in Blocks
      BY <1>20, <2>1, HeadFacts DEF DrainBarrier, Run, Ran
    <2>. QED
      BY <1>4, <2>1, <2>2
  <1>21. CASE Redirected(t)
    <2>1. PICK b \in root : Run(t, b, <<>>, "uncount")
      BY <1>21 DEF Redirected
    <2>2. b \in Blocks /\ status[b] = "ready"
      BY <1>1, <2>1 DEF Types, Inv, Listing, PlaceAt
    <2>. QED
      BY <1>4, <1>21, <2>1, <2>2 DEF Redirected, Run, Ran
  <1>22. CASE PopLane(t) \/ DrainTryLock(t) \/ Drain(t) \/ DrainUpgrade(t) \/ DrainDrop(t)
              \/ DrainProbe(t) \/ DrainNarrow(t) \/ DrainUnlock(t)
    BY <1>2, <1>22 DEF Calm, PopLane, DrainTryLock, Drain, DrainUpgrade, DrainDrop, DrainProbe, DrainNarrow,
       DrainUnlock
  <1>. QED
    BY <1>6, <1>7, <1>8, <1>9, <1>10, <1>11, <1>12, <1>14, <1>15, <1>16, <1>17, <1>18, <1>19, <1>20, <1>21, <1>22
       DEF Acts, Step

\* A thread comes to try the queue when it has seen the list empty, and to wake the lane when
\* its block is in the list.
LEMMA Arriving ==
  ASSUME Inv, NEW t \in Threads, Acts(t)
  PROVE  /\ pc'[t] \in {"async_try", "sync_try"} =>
              dq_items = <<>> /\ stack' = stack /\ stack[t] # <<>> /\ status[Current(t)] = "called" /\ Calm
         /\ pc'[t] \in Waking => /\ pc[t] \in Linking \union Waking /\ stack[t] # <<>>
                                 /\ stack' = stack /\ dq_items' = dq_items /\ Calm
PROOF
  <1>. USE DEF list, target, locals, calls
  <1>. DEFINE Target == {"async_try", "sync_try"} \union Waking
              Goal == /\ pc'[t] \in {"async_try", "sync_try"} =>
                           dq_items = <<>> /\ stack' = stack /\ stack[t] # <<>> /\ status[Current(t)] = "called" /\ Calm
                      /\ pc'[t] \in Waking => /\ pc[t] \in Linking \union Waking /\ stack[t] # <<>>
                                              /\ stack' = stack /\ dq_items' = dq_items /\ Calm
  <1>1. Types /\ FrameAt(t) /\ LiveAt(t) /\ CallAt(t)
    BY DEF Inv, Threading, ThreadAt
  <1>2. Target = {"async_try", "sync_try", "wakeup_probe", "override_probe", "wakeup", "override", "override_last"}
    BY DEF Waking
  <1>3. ASSUME pc'[t] \notin Target PROVE Goal
    BY <1>3
  <1>. HIDE DEF Target
  <1>4. \A label : Goto(t, label) => pc'[t] = label
    BY <1>1 DEF Goto, Types
  <1>5. ASSUME NEW b, NEW k \in Kinds, Submit(t, b, k) PROVE Goal
    BY <1>2, <1>3, <1>4, <1>5, Constants DEF Submit, Entry, AllKinds
  <1>6. CASE (t \in Blocks /\ Call(t)) \/ NestedCall(t)
    BY <1>5, <1>6 DEF Call, NestedCall, Distinct
  <1>7. CASE AsyncProbe(t) \/ SyncProbe(t)
    <2>1. stack[t] # <<>> /\ status[Current(t)] = "called" /\ Calm /\ stack' = stack
      BY <1>1, <1>7 DEF AsyncProbe, SyncProbe, At, FrameAt, DrainPcs, CallAt, Submits, Calling, Early, Calm
    <2>2. pc'[t] \in {"async_try", "sync_try"} => dq_items = <<>>
      BY <1>4, <1>7 DEF AsyncProbe, SyncProbe
    <2>3. pc'[t] \notin Waking
      BY <1>4, <1>7 DEF AsyncProbe, SyncProbe, Waking
    <2>. QED
      BY <2>1, <2>2, <2>3
  <1>8. ASSUME Leave(t) PROVE Goal
    BY <1>2, <1>3, <1>4, <1>8 DEF Leave
  <1>9. ASSUME Complete(t) PROVE Goal
    BY <1>2, <1>3, <1>4, <1>8, <1>9 DEF Complete
  <1>10. ASSUME NEW b, NEW frames, NEW after, Run(t, b, frames, after) PROVE Goal
    BY <1>2, <1>3, <1>4, <1>10 DEF Run
  <1>11. CASE AsyncTry(t)
    BY <1>2, <1>3, <1>4, <1>8, <1>11 DEF AsyncTry
  <1>12. CASE SyncTry(t) \/ BarrierTry(t) \/ Wait(t)
    BY <1>2, <1>3, <1>4, <1>10, <1>12 DEF SyncTry, BarrierTry, Wait, Enter
  <1>13. CASE Prepare(t)
    BY <1>2, <1>3, <1>4, <1>13 DEF Prepare, At
  <1>14. CASE PushTail(t) \/ NeedOverride(t) \/ MergeQos(t) \/ PushWaiter(t)
    BY <1>2, <1>3, <1>4, <1>14 DEF PushTail, NeedOverride, MergeQos, PushWaiter
  <1>15. CASE PushHead(t) \/ WakeupProbe(t)
    <2>1. stack[t] # <<>> /\ Calm /\ stack' = stack /\ dq_items' = dq_items /\ pc[t] \in Linking \union Waking
      BY <1>1, <1>15 DEF PushHead, WakeupProbe, At, FrameAt, DrainPcs, Linking, Waking, Calm
    <2>2. pc'[t] \notin {"async_try", "sync_try"}
      BY <1>4, <1>15 DEF PushHead, WakeupProbe
    <2>. QED
      BY <2>1, <2>2
  <1>16. CASE PushLink(t)
    <2>1. CASE Leave(t)
      BY <1>8, <2>1
    <2>2. CASE ~Leave(t)
      <3>1. stack[t] # <<>> /\ Calm /\ stack' = stack /\ dq_items' = dq_items /\ pc[t] \in Linking \union Waking
        BY <1>1, <1>16, <2>2 DEF PushLink, FrameAt, DrainPcs, Linking, Waking, Calm
      <3>2. pc'[t] \notin {"async_try", "sync_try"}
        BY <1>4, <1>16, <2>2 DEF PushLink
      <3>. QED
        BY <3>1, <3>2
    <2>. QED
      BY <2>1, <2>2
  <1>17. CASE Wakeup(t) \/ OverrideLast(t)
    BY <1>8, <1>17 DEF Wakeup, OverrideLast
  <1>18. CASE Return(t)
    <2>1. Head(stack[t]).after \in {"uncount"} \union Exclusive
      <3>1. stack[t] # <<>> /\ pc[t] = "body"
        BY <1>1, <1>18 DEF Return, At, FrameAt, DrainPcs
      <3>2. Count(t) \in 1..Count(t) /\ Live(t)[Count(t)] = Head(stack[t])
        BY <1>1, <3>1, LiveFacts
      <3>. QED
        BY <1>1, <3>2 DEF LiveAt
    <2>2. pc'[t] = Head(stack[t]).after
      BY <1>4, <1>18 DEF Return
    <2>. QED
      BY <1>2, <1>3, <2>1, <2>2 DEF Exclusive
  <1>19. CASE NonBarrierComplete(t) \/ Close(t)
    BY <1>2, <1>3, <1>4, <1>9, <1>19 DEF NonBarrierComplete, Close, CompleteNonBarrier
  <1>20. CASE Unlock(t) \/ BarrierRelease(t) \/ BarrierRequeue(t) \/ TransferLock(t)
    BY <1>2, <1>3, <1>4, <1>9, <1>20 DEF Unlock, BarrierRelease, BarrierRequeue, TransferLock
  <1>21. CASE UnlockProbe(t) \/ BarrierComplete(t) \/ PopWaiter(t) \/ DrainWaiter(t)
    BY <1>2, <1>3, <1>4, <1>21 DEF UnlockProbe, BarrierComplete, PopWaiter, DrainWaiter, HandOver
  <1>22. CASE Open(t) \/ GiveReserve(t) \/ Give(t) \/ Reload(t)
    BY <1>2, <1>3, <1>4, <1>22 DEF Open, GiveReserve, TakeMore, Give, Reload, At
  <1>23. CASE DrainReserve(t) \/ DrainGive(t) \/ DrainUpgrade(t) \/ DrainDrop(t)
    BY <1>2, <1>3, <1>4, <1>23 DEF DrainReserve, TakeMore, DrainGive, DrainUpgrade, DrainDrop, Draining
  <1>24. CASE DrainBarrier(t) \/ Redirected(t)
    BY <1>10, <1>24 DEF DrainBarrier, Redirected
  <1>25. CASE PopLane(t) \/ DrainTryLock(t) \/ Drain(t) \/ DrainProbe(t) \/ DrainNarrow(t) \/ DrainUnlock(t)
    BY <1>2, <1>3, <1>4, <1>25 DEF PopLane, DrainTryLock, Drain, DrainProbe, DrainNarrow, DrainUnlock
  <1>. QED
    BY <1>6, <1>7, <1>11, <1>12, <1>13, <1>14, <1>15, <1>16, <1>17, <1>18, <1>19, <1>20, <1>21, <1>22, <1>23, <1>24, <1>25
       DEF Acts, Step

\* What becomes of the state of a block.
LEMMA StatusMoves ==
  ASSUME Inv, NEW t \in Threads, Marks(t), NEW b \in Blocks
  PROVE  /\ status'[b] = "called" => status[b] \in {"new", "called"}
         /\ status'[b] = "ready" => status[b] = "ready" \/ Readied(b)
         /\ status[b] # "new" => status'[b] # "new"
PROOF
  <1>1. Types
    BY DEF Inv
  <1>. DEFINE Goal == /\ status'[b] = "called" => status[b] \in {"new", "called"}
                      /\ status'[b] = "ready" => status[b] = "ready" \/ Readied(b)
                      /\ status[b] # "new" => status'[b] # "new"
  <1>2. CASE Calm
    BY <1>2 DEF Calm
  <1>3. ASSUME NEW c \in Blocks, Called(t, c) PROVE Goal
    BY <1>1, <1>3 DEF Called, Types
  <1>4. ASSUME NEW c \in Blocks, Readied(c) PROVE Goal
    BY <1>1, <1>4 DEF Readied, Types
  <1>5. ASSUME NEW c \in Blocks, Ran(c) PROVE Goal
    BY <1>1, <1>5 DEF Ran, Types
  <1>6. CASE Ended(t)
    BY <1>1, <1>6 DEF Ended, Types
  <1>. QED
    BY <1>2, <1>3, <1>4, <1>5, <1>6 DEF Marks

\* What becomes of the blocks of earlier calls.
LEMMA PriorMoves ==
  ASSUME Inv, NEW t \in Threads, History(t), NEW b \in Blocks
  PROVE  /\ returned \subseteq returned'
         /\ \/ prior'[b] = prior[b]
            \/ status[b] = "new" /\ status'[b] = "called" /\ prior'[b] = {a \in returned : status[a] # "done"}
            \/ prior'[b] = {} /\ status'[b] = "done"
         /\ b \in returned' /\ b \notin returned =>
              /\ stack[t] # <<>> /\ Current(t) = b
              /\ status[b] = "done" \/ (~Waiter(b) /\ (pc[t] \in Linking \union Waking \/ Readied(b)))
PROOF
  <1>1. Types
    BY DEF Inv
  <1>2. ASSUME NEW c \in Blocks, Called(t, c), prior' = [prior EXCEPT ![c] = {a \in returned : status[a] # "done"}]
        PROVE  \/ prior'[b] = prior[b]
               \/ status[b] = "new" /\ status'[b] = "called" /\ prior'[b] = {a \in returned : status[a] # "done"}
    BY <1>1, <1>2 DEF Called, Types
  <1>3. ASSUME Ended(t), prior' = [prior EXCEPT ![Current(t)] = {}]
        PROVE  prior'[b] = prior[b] \/ (prior'[b] = {} /\ status'[b] = "done")
    BY <1>1, <1>3 DEF Ended, Types
  <1>4. returned \subseteq returned'
    BY DEF History, Returns
  <1>5. \/ prior'[b] = prior[b]
        \/ status[b] = "new" /\ status'[b] = "called" /\ prior'[b] = {a \in returned : status[a] # "done"}
        \/ prior'[b] = {} /\ status'[b] = "done"
    BY <1>2, <1>3 DEF History
  <1>6. b \in returned' /\ b \notin returned =>
          /\ stack[t] # <<>> /\ Current(t) = b
          /\ status[b] = "done" \/ (~Waiter(b) /\ (pc[t] \in Linking \union Waking \/ Readied(b)))
    BY DEF History, Returns
  <1>. QED
    BY <1>4, <1>5, <1>6

\* The list loses its head when the head is made ready or starts, or is a waiter that is handed over.
LEMMA PoppedHead ==
  ASSUME Inv, NEW t \in Threads, Places(t), Popped
  PROVE  /\ Head(dq_items) \in Blocks /\ status[Head(dq_items)] = "called"
         /\ Waiter(Head(dq_items)) \/ status'[Head(dq_items)] # "called"
         /\ pc'[t] \in Transfers \/ status'[Head(dq_items)] # "called"
PROOF
  <1>1. Types /\ HeadLinked
    BY DEF Inv, Popped, CanPop
  <1>2. Head(dq_items) \in Blocks /\ status[Head(dq_items)] = "called"
    BY <1>1, HeadFacts
  <1>3. dq_items' # dq_items /\ ~Pushes(t)
    <2>1. Len(dq_items') = Len(dq_items) - 1 /\ Len(dq_items) \in Nat
      BY <1>1, ListFacts DEF Popped, HeadLinked, Pop
    <2>. QED
      BY <2>1, ListMoved
  <1>4. Hands(t) \/ \E b \in Blocks : b = Head(dq_items) /\ (Readied(b) \/ Ran(b))
    BY <1>3 DEF Places, Idles, Links, Comes, Readies, Runs, Stays, list
  <1>. QED
    BY <1>1, <1>2, <1>4 DEF Hands, Readied, Ran, Types

\* A block in the list stays there until it is taken.
LEMMA StaysOnList ==
  ASSUME Inv, NEW t \in Threads, Places(t), NEW b \in Blocks, OnList(b), ~Waiter(b), status'[b] = "called"
  PROVE  OnList(b)'
BY PoppedHead, ListMoved

\* No block gets more blocks ahead of it than it had when it was called.
LEMMA AheadShrinks ==
  ASSUME Inv, Ordering, NEW t \in Threads, Acts(t), NEW b \in Blocks, status[b] # "new"
  PROVE  Ahead(b)' \subseteq Ahead(b)
PROOF
  <1>1. Types /\ Marks(t) /\ History(t)
    BY Marking, Recording DEF Inv
  <1>. SUFFICES ASSUME NEW a, a \in prior'[b], status'[a] = "called"
                PROVE  a \in prior[b] /\ status[a] = "called"
    BY DEF Ahead
  <1>2. a \in prior[b]
    BY <1>1, PriorMoves
  <1>3. a \in Blocks /\ a \in returned
    BY <1>1, <1>2 DEF Ordering, PriorAt, Types
  <1>4. status[a] # "new"
    BY <1>3 DEF Ordering, ReturnedAt
  <1>. QED
    BY <1>1, <1>2, <1>3, <1>4, StatusMoves

\* What is ahead of a block is in the list.
LEMMA AheadListed ==
  ASSUME Inv, Ordering, NEW b \in Blocks, NEW a \in Ahead(b)
  PROVE  a \in Blocks /\ OnList(a) /\ ~Waiter(a) /\ a \in returned /\ status[a] = "called" /\ a # b
PROOF
  <1>1. a \in prior[b] /\ status[a] = "called" /\ Types
    BY DEF Ahead, Inv
  <1>2. a \in returned /\ a \in Blocks /\ a # b
    BY <1>1 DEF Ordering, PriorAt, Types
  <1>. QED
    BY <1>1, <1>2 DEF Ordering, ReturnedAt

\* Nothing is ahead of the head of the list, and of no block if the list is empty.
LEMMA HeadFirst ==
  ASSUME Inv, Ordering
  PROVE  /\ dq_items # <<>> => Ahead(Head(dq_items)) = {}
         /\ dq_items = <<>> => \A b \in Blocks : Ahead(b) = {}
PROOF
  <1>1. Types
    BY DEF Inv
  <1>2. ASSUME dq_items # <<>> PROVE Ahead(Head(dq_items)) = {}
    <2>1. 1 \in 1..Len(dq_items) /\ Head(dq_items) = dq_items[1]
      BY <1>1, <1>2, ListFacts
    <2>2. \A a \in Ahead(dq_items[1]) : \E i \in 1..(1 - 1) : dq_items[i] = a
      BY <2>1 DEF Ordering, InLine
    <2>. QED
      BY <2>1, <2>2
  <1>3. ASSUME dq_items = <<>>, NEW b \in Blocks PROVE Ahead(b) = {}
    <2>1. \A c : ~OnList(c)
      BY <1>3 DEF OnList
    <2>. QED
      BY <2>1, AheadListed
  <1>. QED
    BY <1>2, <1>3

\* The parts of the invariant after a step: the calls that have returned,
LEMMA ReturnedStep ==
  ASSUME Inv, Ordering, NEW t \in Threads, Acts(t), NEW b \in Blocks
  PROVE  ReturnedAt(b)'
PROOF
  <1>. SUFFICES ASSUME b \in returned' PROVE status'[b] # "new" /\ ~Waiter(b)' /\ (status'[b] = "called" => OnList(b)')
    BY DEF ReturnedAt
  <1>1. Types /\ Marks(t) /\ Places(t) /\ History(t) /\ FrameAt(t) /\ KindAt(b)
    BY Marking, Placing, Recording DEF Inv, Threading, ThreadAt
  <1>2. ASSUME status[b] # "new", ~Waiter(b), status[b] = "called" => OnList(b)
        PROVE  status'[b] # "new" /\ ~Waiter(b)' /\ (status'[b] = "called" => OnList(b)')
    <2>1. status'[b] # "new" /\ (status'[b] = "called" => status[b] = "called")
      BY <1>1, <1>2, StatusMoves
    <2>2. ~Waiter(b)'
      <3>1. CASE Ended(t) /\ b = Current(t)
        BY <3>1, EndedRuns DEF Waiter
      <3>2. CASE ~(Ended(t) /\ b = Current(t))
        BY <1>1, <1>2, <3>2, MarkFacts
      <3>. QED
        BY <3>1, <3>2
    <2>. QED
      BY <1>1, <1>2, <2>1, <2>2, StaysOnList
  <1>3. CASE b \in returned
    BY <1>2, <1>3 DEF Ordering, ReturnedAt
  <1>4. CASE b \notin returned
    <2>1. /\ stack[t] # <<>> /\ Current(t) = b
          /\ status[b] = "done" \/ (~Waiter(b) /\ (pc[t] \in Linking \union Waking \/ Readied(b)))
      BY <1>1, <1>4, PriorMoves
    <2>2. status[b] # "new"
      BY <1>1, <2>1 DEF FrameAt
    <2>3. CASE status[b] = "done"
      <3>1. ~Waiter(b)
        BY <1>1, <2>3 DEF KindAt, Waiter
      <3>. QED
        BY <1>2, <2>3, <3>1
    <2>4. CASE ~Waiter(b) /\ pc[t] \in Linking
      <3>1. OnList(b)
        BY <2>1, <2>4 DEF Inv, Listing, ListAt
      <3>. QED
        BY <1>2, <2>2, <2>4, <3>1
    <2>5. CASE ~Waiter(b) /\ pc[t] \in Waking
      <3>1. status[b] = "called" => OnList(b)
        BY <2>1, <2>5 DEF Ordering, SettledAt
      <3>. QED
        BY <1>2, <2>2, <2>5, <3>1
    <2>6. CASE ~Waiter(b) /\ Readied(b)
      <3>1. status'[b] = "ready" /\ kind' = kind
        BY <1>1, <2>6 DEF Readied, Types
      <3>. QED
        BY <2>6, <3>1 DEF Waiter
    <2>. QED
      BY <2>1, <2>3, <2>4, <2>5, <2>6
  <1>. QED
    BY <1>3, <1>4

\* ... the calls before others,
LEMMA PriorStep ==
  ASSUME Inv, Ordering, NEW t \in Threads, Acts(t), NEW b \in Blocks
  PROVE  PriorAt(b)'
PROOF
  <1>1. History(t) /\ PriorAt(b) /\ ReturnedAt(b)
    BY Recording DEF Ordering
  <1>2. CASE prior'[b] = prior[b]
    BY <1>1, <1>2, PriorMoves DEF PriorAt
  <1>3. CASE status[b] = "new" /\ prior'[b] = {a \in returned : status[a] # "done"}
    BY <1>1, <1>3, PriorMoves DEF PriorAt, ReturnedAt
  <1>4. CASE prior'[b] = {}
    BY <1>4 DEF PriorAt
  <1>. QED
    BY <1>1, <1>2, <1>3, <1>4, PriorMoves

\* ... the blocks that are ready,
LEMMA ReadyStep ==
  ASSUME Inv, Ordering, NEW t \in Threads, Acts(t), NEW b \in Blocks
  PROVE  ReadyAt(b)'
PROOF
  <1>. SUFFICES ASSUME status'[b] = "ready" PROVE Ahead(b)' = {}
    BY DEF ReadyAt
  <1>1. Types /\ Marks(t) /\ Places(t) /\ TriedAt(t)
    BY Marking, Placing DEF Inv, Ordering
  <1>2. CASE status[b] = "ready"
    BY <1>2, AheadShrinks DEF Ordering, ReadyAt
  <1>3. CASE Readied(b)
    <2>1. PICK c \in Blocks : Readies(t, c)
      <3>1. status[b] = "called" /\ status' = [status EXCEPT ![b] = "ready"]
        BY <1>3 DEF Readied
      <3>2. ~Calm /\ \A c \in Blocks : ~Called(t, c) /\ ~Ran(c)
        BY <1>1, <3>1 DEF Calm, Called, Ran, Types
      <3>3. ~Ended(t)
        BY <1>3, EndedRuns
      <3>. QED
        BY <1>1, <3>2, <3>3 DEF Places, Idles, Pushes, Links, Hands, Comes, Runs
    <2>2. c = b
      BY <1>1, <1>3, <2>1 DEF Readies, Readied, Types
    <2>3. Ahead(b) = {}
      <3>1. CASE pc[t] = "async_try" /\ b = Current(t)
        BY <1>1, <3>1 DEF TriedAt
      <3>2. CASE pc[t] \in Transfers /\ b = dc[t]
        BY <1>1, <3>2 DEF TriedAt
      <3>3. CASE b = Head(dq_items) /\ CanPop
        BY <3>3, HeadFirst DEF CanPop, HeadLinked
      <3>. QED
        BY <2>1, <2>2, <3>1, <3>2, <3>3 DEF Readies
    <2>. QED
      BY <1>3, <2>3, AheadShrinks DEF Readied
  <1>. QED
    BY <1>1, <1>2, <1>3, StatusMoves

\* ... the threads that wake the lane,
LEMMA SettledStep ==
  ASSUME Inv, Ordering, NEW t \in Threads, Acts(t), dq_width' = dq_width, NEW u \in Threads
  PROVE  SettledAt(u)'
PROOF
  <1>. SUFFICES ASSUME pc'[u] \in Waking, NEW c, c = Current(u)', status'[c] = "called" PROVE OnList(c)'
    BY DEF SettledAt, OnList
  <1>1. Types /\ Marks(t) /\ Places(t) /\ Keeps(t) /\ FrameAt(u) /\ CallAt(u) /\ Types'
    BY After DEF Inv, Threading, ThreadAt
  <1>2. ASSUME pc[u] \in Linking \union Waking, stack[u] # <<>>, c = Current(u),
               status[c] = "called" => OnList(c), ~Waiter(c) \/ dq_items' = dq_items
        PROVE  OnList(c)'
    <2>1. c \in Blocks /\ status[c] # "new"
      BY <1>1, <1>2, StackFacts DEF FrameAt
    <2>2. status[c] = "called" /\ OnList(c)
      BY <1>1, <1>2, <2>1, StatusMoves
    <2>3. CASE dq_items' = dq_items
      BY <2>2, <2>3 DEF OnList
    <2>4. CASE ~Waiter(c)
      BY <1>1, <2>1, <2>2, <2>4, StaysOnList
    <2>. QED
      BY <1>2, <2>3, <2>4
  <1>3. CASE u # t
    <2>1. pc[u] \in Waking /\ stack'[u] = stack[u] /\ c = Current(u)
      BY <1>1, <1>3 DEF Keeps, Current
    <2>2. stack[u] # <<>> /\ ~Waiter(c)
      BY <1>1, <2>1 DEF FrameAt, DrainPcs, Waking, CallAt, Submits, Calling
    <2>3. status[c] = "called" => OnList(c)
      BY <2>1 DEF Ordering, SettledAt
    <2>. QED
      BY <1>2, <2>1, <2>2, <2>3
  <1>4. CASE u = t
    <2>1. pc[t] \in Linking \union Waking /\ stack[t] # <<>> /\ stack' = stack /\ dq_items' = dq_items
      BY <1>4, Arriving
    <2>2. c = Current(t)
      BY <1>4, <2>1 DEF Current
    <2>3. status[c] = "called" => OnList(c)
      BY <2>1, <2>2 DEF Ordering, SettledAt, Inv, Listing, ListAt
    <2>. QED
      BY <1>2, <1>4, <2>1, <2>2, <2>3
  <1>. QED
    BY <1>3, <1>4

\* ... the threads that try the queue or hand it over,
LEMMA TriedStep ==
  ASSUME Inv, Ordering, NEW t \in Threads, Acts(t), dq_width' = dq_width, NEW u \in Threads
  PROVE  TriedAt(u)'
PROOF
  <1>1. Types /\ Marks(t) /\ Places(t) /\ Keeps(t) /\ FrameAt(u) /\ TriedAt(u) /\ TransferAt(u) /\ Types'
    BY After DEF Inv, Threading, ThreadAt, Ordering, Listing
  <1>2. ASSUME NEW c \in Blocks, status[c] # "new", Ahead(c) = {} PROVE Ahead(c)' = {}
    BY <1>2, AheadShrinks
  <1>3. ASSUME pc'[u] \in {"async_try", "sync_try"}, NEW c, c = Current(u)' PROVE Ahead(c)' = {}
    <2>1. CASE u # t
      <3>1. pc[u] \in {"async_try", "sync_try"} /\ stack'[u] = stack[u] /\ c = Current(u)
        BY <1>1, <1>3, <2>1 DEF Keeps, Current
      <3>2. c \in Blocks /\ status[c] # "new"
        BY <1>1, <3>1, StackFacts DEF FrameAt, DrainPcs
      <3>. QED
        BY <1>1, <1>2, <3>1, <3>2 DEF TriedAt
    <2>2. CASE u = t
      <3>1. dq_items = <<>> /\ stack' = stack /\ stack[t] # <<>> /\ status[Current(t)] = "called"
        BY <1>3, <2>2, Arriving
      <3>2. c = Current(t) /\ c \in Blocks
        BY <1>1, <1>3, <2>2, <3>1, StackFacts DEF Current
      <3>. QED
        BY <1>2, <3>1, <3>2, HeadFirst
    <2>. QED
      BY <2>1, <2>2
  <1>4. ASSUME pc'[u] \in Transfers, NEW c, c = dc'[u] PROVE Ahead(c)' = {}
    <2>1. CASE u # t
      <3>1. pc[u] \in Transfers /\ c = dc[u]
        BY <1>1, <1>4, <2>1 DEF Keeps
      <3>2. c \in Blocks /\ status[c] # "new"
        BY <1>1, <3>1 DEF TransferAt
      <3>. QED
        BY <1>1, <1>2, <3>1, <3>2 DEF TriedAt
    <2>2. CASE u = t
      <3>1. Hands(t)
        BY <1>1, <1>4, <2>2 DEF Places, Idles, Pushes, Links, Comes, Readies, Runs, Away, Early, Transfers
      <3>2. c = Head(dq_items) /\ HeadLinked
        BY <1>4, <2>2, <3>1 DEF Hands, CanPop
      <3>3. c \in Blocks /\ status[c] = "called"
        BY <3>2, HeadFacts
      <3>. QED
        BY <1>2, <3>2, <3>3, HeadFirst DEF HeadLinked
    <2>. QED
      BY <2>1, <2>2
  <1>. QED
    BY <1>3, <1>4 DEF TriedAt, Ahead

\* ... and the list.
LEMMA InLineStep ==
  ASSUME Inv, Ordering, NEW t \in Threads, Acts(t), dq_width' = dq_width
  PROVE  InLine'
PROOF
  <1>1. Types /\ Marks(t) /\ Places(t) /\ Types' /\ InLine /\ Listing
    BY After DEF Inv, Ordering
  <1>. DEFINE n == Len(dq_items)
  <1>2. n \in Nat /\ \A i \in 1..n : dq_items[i] \in Blocks /\ status[dq_items[i]] = "called" /\ OnList(dq_items[i])
    <2>1. dq_items \in Seq(Blocks)
      BY <1>1 DEF Types
    <2>2. n \in Nat /\ \A i \in 1..n : dq_items[i] \in Blocks
      BY <2>1
    <2>3. \A i \in 1..n : OnList(dq_items[i])
      BY DEF OnList
    <2>. QED
      BY <1>1, <2>2, <2>3 DEF Listing, PlaceAt
  <1>. SUFFICES ASSUME NEW j \in 1..Len(dq_items'), NEW c, c = dq_items'[j], NEW a, a \in Ahead(c)'
                PROVE  \E i \in 1..(j - 1) : dq_items'[i] = a
    BY DEF InLine, Ahead
  <1>3. ASSUME c \in Blocks, status[c] = "called" PROVE a \in Ahead(c) /\ a \in Blocks /\ OnList(a) /\ ~Waiter(a)
    BY <1>3, AheadShrinks, AheadListed
  <1>4. \A k \in 1..n : \A x \in Ahead(dq_items[k]) : \E i \in 1..(k - 1) : dq_items[i] = x
    BY <1>1 DEF InLine
  <1>5. CASE dq_items' = dq_items
    BY <1>2, <1>3, <1>4, <1>5
  <1>6. CASE Joined(t) /\ Current(t) \in Blocks /\ status[Current(t)] = "called"
    <2>1. Len(dq_items') = n + 1 /\ dq_items'[n + 1] = Current(t) /\ \A i \in 1..n : dq_items'[i] = dq_items[i]
      BY <1>1, <1>6, AppendProperties DEF Joined, Types
    <2>. HIDE DEF n
    <2>2. CASE j = n + 1
      <3>1. OnList(a)
        BY <1>3, <1>6, <2>1, <2>2
      <3>2. PICK i \in 1..n : dq_items[i] = a
        BY <3>1 DEF OnList, n
      <3>3. i \in 1..(j - 1) /\ dq_items'[i] = a
        BY <1>2, <2>1, <2>2, <3>2
      <3>. QED
        BY <3>3
    <2>3. CASE j # n + 1
      <3>1. j \in 1..n
        BY <1>2, <2>1, <2>3
      <3>2. c = dq_items[j] /\ a \in Ahead(c)
        BY <1>2, <1>3, <2>1, <3>1
      <3>3. PICK i \in 1..(j - 1) : dq_items[i] = a
        BY <1>4, <3>1, <3>2
      <3>4. i \in 1..n
        BY <1>2, <3>1
      <3>. QED
        BY <2>1, <3>3, <3>4
    <2>. QED
      BY <2>2, <2>3
  <1>7. CASE Popped
    <2>1. dq_items # <<>> /\ dq_items' = Tail(dq_items)
      BY <1>7 DEF Popped, CanPop, HeadLinked, Pop
    <2>2. n >= 1 /\ Head(dq_items) = dq_items[1] /\ Len(dq_items') = n - 1 /\ \A i \in 1..(n - 1) : dq_items'[i] = dq_items[i + 1]
      BY <1>1, <2>1, ListFacts
    <2>3. Waiter(Head(dq_items)) \/ status'[Head(dq_items)] # "called"
      BY <1>1, <1>7, PoppedHead
    <2>. HIDE DEF n
    <2>4. j \in 1..(n - 1) /\ j + 1 \in 1..n /\ (j + 1) - 1 = j
      BY <1>2, <2>2
    <2>5. c = dq_items[j + 1] /\ c \in Blocks /\ status[c] = "called"
      BY <1>2, <2>2, <2>4
    <2>6. a \in Ahead(c) /\ ~Waiter(a) /\ status'[a] = "called"
      BY <1>3, <2>5 DEF Ahead
    <2>7. PICK i \in 1..j : dq_items[i] = a
      BY <1>4, <2>4, <2>5, <2>6
    <2>8. i # 1
      BY <2>2, <2>3, <2>6, <2>7
    <2>9. i - 1 \in 1..(j - 1) /\ i - 1 \in 1..(n - 1) /\ (i - 1) + 1 = i
      BY <1>2, <2>4, <2>8
    <2>10. dq_items'[i - 1] = a
      BY <2>2, <2>7, <2>9
    <2>. QED
      BY <2>9, <2>10
  <1>. QED
    BY <1>1, <1>5, <1>6, <1>7, ListMoved

\* The order is kept.
LEMMA OrderingStep ==
  ASSUME Inv, Ordering, Next
  PROVE  Ordering'
PROOF
  <1>1. PICK t \in Threads : Acts(t) /\ dq_width' = dq_width
    BY Actor
  <1>. QED
    BY <1>1, ReturnedStep, PriorStep, ReadyStep, SettledStep, TriedStep, InLineStep DEF Ordering

LEMMA OrderingStays ==
  ASSUME Ordering, UNCHANGED vars
  PROVE  Ordering'
PROOF
  <1>. USE DEF vars, list, target, locals, calls
  <1>1. \A b \in Blocks : ReturnedAt(b)' /\ PriorAt(b)' /\ ReadyAt(b)'
    BY DEF Ordering, ReturnedAt, PriorAt, ReadyAt, Waiter, OnList, Ahead
  <1>2. \A t \in Threads : SettledAt(t)' /\ TriedAt(t)'
    BY DEF Ordering, SettledAt, TriedAt, OnList, Ahead, Current
  <1>3. InLine'
    BY DEF Ordering, InLine, Ahead
  <1>. QED
    BY <1>1, <1>2, <1>3 DEF Ordering

LEMMA OrderingInit ==
  ASSUME Init
  PROVE  Ordering
PROOF
  <1>1. \A t \in Threads : pc[t] = "idle"
    BY DEF Init
  <1>2. \A t \in Threads : SettledAt(t) /\ TriedAt(t)
    BY <1>1 DEF SettledAt, TriedAt, Waking, Transfers
  <1>3. \A b \in Blocks : ReturnedAt(b) /\ PriorAt(b) /\ ReadyAt(b)
    BY DEF Init, ReturnedAt, PriorAt, ReadyAt
  <1>4. InLine
    BY DEF Init, InLine
  <1>. QED
    BY <1>2, <1>3, <1>4 DEF Ordering

\* ... of every queue.
LEMMA LaneOrder == Spec => []Ordering
PROOF
  <1>1. Init => Ordering
    BY OrderingInit
  <1>2. Inv /\ Ordering /\ [Next]_vars => Ordering'
    BY OrderingStep, OrderingStays
  <1>. QED
    BY <1>1, <1>2, LaneInvariant, PTL DEF Spec

-----------------------------------------------------------------------------
(***************************************************************************)
(* The contract of the queue.                                              *)
(***************************************************************************)
\* What the word says where a thread starts a block that was not made ready before.
LEMMA Beginning ==
  ASSUME Inv, NEW t \in Threads, Acts(t), NEW b \in Blocks, Ran(b)
  PROVE  /\ pc[t] = "sync_try" => CanReserveSync(dq_state)
         /\ pc[t] = "barrier_try" => Free(dq_state)
         /\ pc[t] \in {"drain_first", "drain_more"} => own[t].ib /\ Barrier(Head(dq_items))
PROOF
  <1>1. status[b] # "running" /\ status'[b] = "running" /\ status' # status
    BY DEF Ran, Inv, Types
  <1>. DEFINE Found == {"sync_try", "barrier_try", "drain_first", "drain_more"}
  <1>. SUFFICES ASSUME pc[t] \in Found
                PROVE  \/ pc[t] = "sync_try" /\ CanReserveSync(dq_state)
                       \/ pc[t] = "barrier_try" /\ Free(dq_state)
                       \/ pc[t] \in {"drain_first", "drain_more"} /\ own[t].ib /\ Barrier(Head(dq_items))
    OBVIOUS
  <1>2. ~(t \in Blocks /\ Call(t)) /\ ~NestedCall(t) /\ ~AsyncProbe(t) /\ ~AsyncTry(t) /\ ~SyncProbe(t)
          /\ ~Prepare(t) /\ ~Return(t) /\ ~Wait(t)
    BY DEF At, Call, NestedCall, AsyncProbe, AsyncTry, SyncProbe, Prepare, Return, Wait
  <1>3. ~PushTail(t) /\ ~NeedOverride(t) /\ ~PushLink(t) /\ ~PushHead(t) /\ ~WakeupProbe(t) /\ ~Wakeup(t)
          /\ ~OverrideLast(t) /\ ~MergeQos(t) /\ ~PushWaiter(t)
    BY DEF At, PushTail, NeedOverride, PushLink, PushHead, WakeupProbe, Wakeup, OverrideLast, MergeQos, PushWaiter
  <1>4. ~NonBarrierComplete(t) /\ ~UnlockProbe(t) /\ ~Unlock(t) /\ ~BarrierComplete(t) /\ ~BarrierRelease(t)
          /\ ~BarrierRequeue(t) /\ ~PopWaiter(t) /\ ~TransferLock(t) /\ ~Open(t) /\ ~GiveReserve(t) /\ ~Give(t)
          /\ ~Close(t) /\ ~Reload(t)
    BY DEF At, NonBarrierComplete, UnlockProbe, Unlock, BarrierComplete, BarrierRelease,
           BarrierRequeue, PopWaiter, TransferLock, Open, GiveReserve, Give, Close, Reload
  <1>5. ~Redirected(t) /\ ~PopLane(t) /\ ~DrainTryLock(t) /\ ~Drain(t) /\ ~DrainProbe(t) /\ ~DrainUnlock(t)
    BY DEF At, Redirected, PopLane, DrainTryLock, Drain, DrainProbe, DrainUnlock
  <1>6. ~DrainUpgrade(t) /\ ~DrainWaiter(t) /\ ~DrainDrop(t) /\ ~DrainReserve(t) /\ ~DrainNarrow(t)
    BY <1>1 DEF DrainUpgrade, DrainWaiter, HandOver, DrainDrop, DrainReserve, DrainNarrow
  <1>7. ~DrainGive(t)
    <2>1. DOMAIN status = Blocks
      BY DEF Inv, Types
    <2>2. ASSUME DrainGive(t) PROVE status' = [status EXCEPT ![Head(dq_items)] = "ready"]
      BY <2>2 DEF DrainGive, Dispatch
    <2>3. ASSUME NEW c, status' = [status EXCEPT ![c] = "ready"] PROVE FALSE
      BY <1>1, <2>1, <2>3
    <2>. QED
      BY <2>2, <2>3
  <1>8. CASE SyncTry(t)
    BY <1>1, <1>8 DEF SyncTry, At
  <1>9. CASE BarrierTry(t)
    BY <1>1, <1>9 DEF BarrierTry, At
  <1>10. CASE DrainBarrier(t)
    BY <1>10 DEF DrainBarrier, Draining
  <1>. QED
    BY <1>2, <1>3, <1>4, <1>5, <1>6, <1>7, <1>8, <1>9, <1>10 DEF Acts, Step

\* A barrier runs on the thread that holds the lock.
LEMMA RunningBarrier ==
  ASSUME Inv, NEW a \in Blocks, status[a] = "running", Barrier(a)
  PROVE  dq_state.ib /\ \E u \in Threads : dq_state.owner = u /\ pc[u] \in {"body"} \union InTry
PROOF
  <1>1. PICK u \in Threads : \E j \in 1..Count(u) : Live(u)[j].block = a
    BY DEF Inv, Threading, LiveSome
  <1>2. PICK j \in 1..Count(u) : Live(u)[j].block = a
    BY <1>1
  <1>3. Live(u)[j].after \in Exclusive /\ pc[u] \in {"body"} \union InTry
    BY <1>2 DEF Inv, Threading, ThreadAt, LiveAt
  <1>4. RunsBarrier(u) \/ DrainRuns(u)
    BY <1>2, <1>3 DEF RunsBarrier, DrainRuns, Exclusive, DrainAfter
  <1>5. Holds(u) /\ LockAt(u) /\ IbAt(u) /\ OwnAt(u)
    BY <1>4 DEF Holds, HasBarrier, Inv, Locking
  <1>6. dq_state.ib
    BY <1>4, <1>5 DEF IbAt, OwnAt, OwnAll, HasBarrier
  <1>. QED
    BY <1>3, <1>5, <1>6 DEF LockAt

\* A block that is no barrier runs in flight.
LEMMA RunningOther ==
  ASSUME Inv, NEW a \in Blocks, status[a] \in {"ready", "running"}, ~Barrier(a)
  PROVE  a \in InFlight /\ ~dq_state.ib
PROOF
  <1>1. a \in InFlight
    BY DEF InFlight, Submitted
  <1>. QED
    BY <1>1, Word

\* When a block starts, no barrier runs; and when a barrier does, nothing is in flight.
LEMMA StartsAlone ==
  ASSUME Inv, NEW t \in Threads, Acts(t), NEW b \in Blocks, Runs(t, b)
  PROVE  /\ \A a \in Blocks \ {b} : status[a] = "running" => ~Barrier(a)
         /\ Barrier(b) => InFlight = {}
PROOF
  <1>1. /\ Types /\ CallAt(t) /\ PlaceAt(b) /\ Ran(b)
        /\ status[b] = "ready" /\ ~Barrier(b) => ~dq_state.ib
    BY RunningOther DEF Inv, Threading, ThreadAt, Listing, Runs
  <1>2. \A a \in Blocks : status[a] = "running" /\ Barrier(a) =>
          dq_state.ib /\ (dq_state.owner = t => pc[t] \in {"body"} \union InTry)
    BY RunningBarrier
  <1>. DEFINE Goal == /\ \A a \in Blocks \ {b} : status[a] = "running" => ~Barrier(a)
                      /\ Barrier(b) => InFlight = {}
  <1>3. CASE pc[t] = "sync_try" /\ b = Current(t)
    <2>1. ~Barrier(b)
      BY <1>1, <1>3 DEF CallAt, Submits, Calling, Early, Barrier
    <2>2. ~dq_state.ib
      BY <1>1, <1>3, Beginning DEF CanReserveSync, SyncRunnable
    <2>. QED
      BY <1>2, <2>1, <2>2
  <1>4. CASE pc[t] = "barrier_try" /\ b = Current(t)
    <2>1. dq_state = Idle
      BY <1>1, <1>4, Beginning DEF Free
    <2>2. ~dq_state.ib /\ dq_state.used = 0
      BY <2>1 DEF Idle
    <2>3. Users \in Nat /\ (Users = 0 <=> InFlight = {}) /\ dq_state.used >= Users
      BY <1>1, FlightFacts, Word
    <2>4. InFlight = {}
      BY <2>2, <2>3
    <2>. QED
      BY <1>2, <2>2, <2>4
  <1>5. CASE b \in root
    BY <1>1, <1>2, <1>5 DEF PlaceAt
  <1>6. CASE pc[t] = "wait" /\ stack[t] # <<>> /\ b = Current(t) /\ b \in events
    <2>1. CASE ~Barrier(b)
      BY <1>1, <1>2, <1>6, <2>1 DEF PlaceAt
    <2>2. CASE Barrier(b)
      <3>1. dq_state.owner = t /\ InFlight = {}
        BY <1>6, <2>2, WordOfBarrier DEF HasBarrier, Handed
      <3>. QED
        BY <1>2, <1>6, <3>1 DEF InTry
    <2>. QED
      BY <2>1, <2>2
  <1>7. CASE pc[t] \in {"drain_first", "drain_more"} /\ b = Head(dq_items)
    <2>1. own[t].ib /\ pc[t] \in DrainLocked /\ pc[t] \notin {"body"} \union InTry
      BY <1>1, <1>7, Beginning DEF DrainLocked, DrainPcs, InTry
    <2>2. dq_state.owner = t /\ dq_state.ib
      BY <2>1, WordOfDrainer
    <2>. QED
      BY <1>2, <2>1, <2>2, Word
  <1>. QED
    BY <1>3, <1>4, <1>5, <1>6, <1>7 DEF Runs

\* Nothing of an earlier call is ahead of a block that starts, unless it is hasty.
LEMMA StartsInTurn ==
  ASSUME Inv, Ordering, NEW t \in Threads, Acts(t), NEW b \in Blocks, Runs(t, b)
  PROVE  Hasty(b) \/ Ahead(b) = {}
PROOF
  <1>1. CallAt(t) /\ PlaceAt(b) /\ ReadyAt(b) /\ TriedAt(t)
    BY DEF Inv, Threading, ThreadAt, Listing, Ordering
  <1>2. CASE pc[t] = "sync_try" /\ b = Current(t)
    BY <1>1, <1>2 DEF TriedAt
  <1>3. CASE pc[t] = "barrier_try" /\ b = Current(t)
    BY <1>1, <1>3 DEF CallAt, Submits, Calling, Early, Hasty
  <1>4. CASE b \in root \/ b \in events
    BY <1>1, <1>4 DEF PlaceAt, ReadyAt
  <1>5. CASE b = Head(dq_items) /\ CanPop
    BY <1>5, HeadFirst DEF CanPop, HeadLinked
  <1>. QED
    BY <1>2, <1>3, <1>4, <1>5 DEF Runs

\* What the contract sees of a block.
Phase == [b \in Blocks |-> IF status[b] = "ready" THEN "called" ELSE status[b]]
Barriers == {b \in Submitted : status[b] # "done" /\ Barrier(b)}
Earlier == [b \in Blocks |-> IF Hasty(b) THEN {} ELSE prior[b]]
Seen == <<Phase, Barriers, returned, Earlier>>

\* A block that starts may start.
LEMMA ContractStart ==
  ASSUME Inv, Ordering, NEW t \in Threads, Acts(t), NEW b \in Blocks, Runs(t, b), dq_width' = dq_width,
         UNCHANGED <<prior, returned>>
  PROVE  Contract!Start(b)
PROOF
  <1>1. /\ Types /\ status[b] \in {"called", "ready"} /\ status' = [status EXCEPT ![b] = "running"]
        /\ UNCHANGED <<kind, caller>>
    BY DEF Inv, Runs, Ran
  <1>2. Phase[b] = "called" /\ Phase' = [Phase EXCEPT ![b] = "running"]
    BY <1>1 DEF Phase, Types
  <1>3. Barriers' = Barriers /\ Earlier' = Earlier
    <2>1. \A c \in Blocks : (Barrier(c)' <=> Barrier(c)) /\ (Hasty(c)' <=> Hasty(c))
      BY <1>1 DEF Barrier, Hasty, Waiter
    <2>2. \A c \in Blocks : (c \in Submitted' /\ status'[c] # "done") <=> (c \in Submitted /\ status[c] # "done")
      BY <1>1 DEF Submitted, Types
    <2>3. Barriers' = Barriers
      BY <2>1, <2>2 DEF Barriers, Submitted
    <2>4. Earlier' = Earlier
      BY <2>1 DEF Earlier
    <2>. QED
      BY <2>3, <2>4
  <1>4. ASSUME NEW a \in Blocks \ {b}, a \in Barriers \/ b \in Barriers
        PROVE  /\ Phase[a] # "running"
               /\ a \in Earlier[b] => Phase[a] = "done"
    <2>1. Barrier(a) \/ Barrier(b)
      BY <1>4 DEF Barriers
    <2>2. status[a] # "running"
      BY <2>1, StartsAlone, RunningOther
    <2>3. ASSUME a \in Earlier[b], status[a] # "done" PROVE FALSE
      <3>1. ~Hasty(b) /\ a \in prior[b]
        BY <2>3 DEF Earlier
      <3>2. status[a] # "new" /\ ~Waiter(a)
        BY <3>1 DEF Ordering, PriorAt, ReturnedAt
      <3>3. status[a] # "called"
        BY <3>1, StartsInTurn DEF Ahead
      <3>4. status[a] = "ready"
        BY <1>1, <2>2, <2>3, <3>2, <3>3 DEF Types
      <3>5. ~Barrier(a) /\ Barrier(b)
        BY <2>1, <3>2, <3>4 DEF Inv, Listing, PlaceAt
      <3>. QED
        BY <3>4, <3>5, StartsAlone, RunningOther
    <2>. QED
      BY <2>2, <2>3 DEF Phase
  <1>. QED
    BY <1>2, <1>3, <1>4 DEF Contract!Start, Contract!Ordered, Phase, Barriers, Earlier

\* A call, and the end of a block.
LEMMA ContractCall ==
  ASSUME Inv, NEW t \in Threads, NEW b \in Blocks, Called(t, b), dq_width' = dq_width, returned' = returned,
         prior' = [prior EXCEPT ![b] = {a \in returned : status[a] # "done"}]
  PROVE  Contract!Call(b)
PROOF
  <1>1. /\ Types /\ status[b] = "new" /\ status' = [status EXCEPT ![b] = "called"]
        /\ \A c \in Blocks \ {b} : kind'[c] = kind[c]
    BY DEF Inv, Called, Types
  <1>2. Phase[b] = "new" /\ Phase' = [Phase EXCEPT ![b] = "called"]
    BY <1>1 DEF Phase, Types
  <1>3. \A c \in Blocks \ {b} : (Barrier(c)' <=> Barrier(c)) /\ (Hasty(c)' <=> Hasty(c))
    BY <1>1 DEF Barrier, Hasty, Waiter
  <1>4. Barriers' \in {Barriers, Barriers \union {b}}
    <2>1. \A c \in Blocks \ {b} : c \in Barriers' <=> c \in Barriers
      BY <1>1, <1>3 DEF Barriers, Submitted, Types
    <2>2. Barriers \subseteq Blocks /\ Barriers' \subseteq Blocks /\ b \notin Barriers
      BY <1>1 DEF Barriers, Submitted
    <2>3. CASE b \in Barriers'
      BY <2>1, <2>2, <2>3
    <2>4. CASE b \notin Barriers'
      BY <2>1, <2>2, <2>4
    <2>. QED
      BY <2>3, <2>4
  <1>5. {a \in returned : status[a] # "done"} = {a \in returned : Phase[a] # "done"}
    BY <1>1 DEF Phase, Types
  <1>6. \E before \in {{}, {a \in returned : Phase[a] # "done"}} : Earlier' = [Earlier EXCEPT ![b] = before]
    <2>1. prior'[b] = {a \in returned : status[a] # "done"} /\ \A c \in Blocks \ {b} : prior'[c] = prior[c]
      BY <1>1 DEF Types
    <2>2. CASE Hasty(b)'
      <3>1. Earlier' = [Earlier EXCEPT ![b] = {}]
        BY <1>3, <2>1, <2>2 DEF Earlier
      <3>. QED
        BY <3>1
    <2>3. CASE ~Hasty(b)'
      <3>1. Earlier' = [Earlier EXCEPT ![b] = {a \in returned : status[a] # "done"}]
        BY <1>3, <2>1, <2>3 DEF Earlier
      <3>. QED
        BY <1>5, <3>1
    <2>. QED
      BY <2>2, <2>3
  <1>. QED
    BY <1>2, <1>4, <1>6 DEF Contract!Call, Phase, Barriers, Earlier

LEMMA ContractFinish ==
  ASSUME Inv, NEW t \in Threads, Ended(t), dq_width' = dq_width, returned' = returned,
         NEW b \in Blocks, b = Current(t), prior' = [prior EXCEPT ![b] = {}]
  PROVE  Contract!Finish(b)
PROOF
  <1>1. /\ Types /\ b \in Blocks /\ status[b] = "running" /\ status' = [status EXCEPT ![b] = "done"]
        /\ \A c \in Blocks \ {b} : kind'[c] = kind[c]
    BY EndedRuns DEF Inv, Ended, Types
  <1>2. prior'[b] = {} /\ \A c \in Blocks \ {b} : prior'[c] = prior[c]
    BY <1>1 DEF Types
  <1>3. Phase[b] = "running" /\ Phase' = [Phase EXCEPT ![b] = "done"]
    BY <1>1 DEF Phase, Types
  <1>4. \A c \in Blocks \ {b} : (Barrier(c)' <=> Barrier(c)) /\ (Hasty(c)' <=> Hasty(c))
    BY <1>1 DEF Barrier, Hasty, Waiter
  <1>5. Barriers' = Barriers \ {b}
    <2>1. \A c \in Blocks \ {b} : c \in Barriers' <=> c \in Barriers
      BY <1>1, <1>4 DEF Barriers, Submitted, Types
    <2>2. Barriers \subseteq Blocks /\ Barriers' \subseteq Blocks /\ b \notin Barriers'
      BY <1>1 DEF Barriers, Submitted, Types
    <2>. QED
      BY <2>1, <2>2
  <1>6. Earlier' = [Earlier EXCEPT ![b] = {}]
    BY <1>1, <1>2, <1>4 DEF Earlier
  <1>. QED
    BY <1>3, <1>5, <1>6 DEF Contract!Finish, Phase, Barriers, Earlier

\* A call that returns, and the steps that the contract does not see.
LEMMA ContractReturn ==
  ASSUME Inv, NEW t \in Threads, Calm \/ \E b \in Blocks : Readied(b), dq_width' = dq_width, prior' = prior, Returns(t)
  PROVE  UNCHANGED Seen \/ \E b \in Blocks : Contract!Return(b)
PROOF
  <1>1. Types /\ kind' = kind
    BY DEF Inv, Calm, Readied
  <1>2. \A b \in Blocks : /\ (status'[b] = "new" <=> status[b] = "new") /\ (status'[b] = "done" <=> status[b] = "done")
                          /\ (status'[b] = "running" <=> status[b] = "running")
                          /\ status'[b] \in {"called", "ready"} <=> status[b] \in {"called", "ready"}
    BY <1>1 DEF Calm, Readied, Types
  <1>3. Phase' = Phase
    <2>1. \A b \in Blocks : status'[b] = status[b] \/ (status[b] = "called" /\ status'[b] = "ready")
      BY <1>1 DEF Calm, Readied, Types
    <2>. QED
      BY <2>1 DEF Phase
  <1>4. Barriers' = Barriers /\ Earlier' = Earlier
    <2>1. \A c \in Blocks : (Barrier(c)' <=> Barrier(c)) /\ (Hasty(c)' <=> Hasty(c))
      BY <1>1 DEF Barrier, Hasty, Waiter
    <2>2. Barriers' = Barriers
      BY <1>2, <2>1 DEF Barriers, Submitted
    <2>3. Earlier' = Earlier
      BY <2>1 DEF Earlier
    <2>. QED
      BY <2>2, <2>3
  <1>5. CASE returned' = returned
    BY <1>3, <1>4, <1>5 DEF Seen
  <1>6. CASE returned' # returned
    <2>1. /\ stack[t] # <<>> /\ Current(t) \in Blocks /\ returned' = returned \union {Current(t)}
          /\ status[Current(t)] = "done" \/ pc[t] \in Linking \union Waking \/ Readied(Current(t))
      BY <1>6 DEF Returns
    <2>2. Current(t) \notin returned
      BY <1>6, <2>1
    <2>3. FrameAt(t)
      BY DEF Inv, Threading, ThreadAt
    <2>4. status[Current(t)] # "new"
      BY <2>1, <2>3 DEF FrameAt
    <2>5. Contract!Return(Current(t))
      BY <1>3, <1>4, <2>1, <2>2, <2>4 DEF Contract!Return, Phase, Barriers, Earlier
    <2>. QED
      BY <2>1, <2>5
  <1>. QED
    BY <1>5, <1>6

\* Every step is one of the contract, or one that it does not see.
LEMMA ContractStep ==
  ASSUME Inv, Ordering, Next
  PROVE  Contract!Next \/ UNCHANGED Seen
PROOF
  <1>1. PICK t \in Threads : Acts(t) /\ dq_width' = dq_width
    BY Actor
  <1>2. Types /\ Marks(t) /\ Places(t) /\ History(t)
    BY <1>1, Marking, Placing, Recording DEF Inv
  <1>3. ASSUME NEW b \in Blocks, Called(t, b), returned' = returned,
               prior' = [prior EXCEPT ![b] = {a \in returned : status[a] # "done"}]
        PROVE  Contract!Next
    BY <1>1, <1>3, ContractCall DEF Contract!Next
  <1>4. ASSUME Ended(t), prior' = [prior EXCEPT ![Current(t)] = {}], returned' = returned
        PROVE  Contract!Next
    <2>1. PICK b \in Blocks : b = Current(t)
      BY <1>4 DEF Ended
    <2>2. Contract!Finish(b)
      BY <1>1, <1>4, <2>1, ContractFinish
    <2>. QED
      BY <2>2 DEF Contract!Next
  <1>5. ASSUME NEW b \in Blocks, Ran(b), UNCHANGED <<prior, returned>>
        PROVE  Contract!Next
    <2>1. status[b] \in {"called", "ready"} /\ status' = [status EXCEPT ![b] = "running"]
      BY <1>5 DEF Ran
    <2>2. \E c \in Blocks : Runs(t, c)
      <3>1. status'[b] = "running" /\ status[b] # "running" /\ DOMAIN status = Blocks
        BY <1>2, <2>1 DEF Types
      <3>2. ~Calm /\ ~Ended(t) /\ \A c \in Blocks : ~Called(t, c) /\ ~Readied(c)
        BY <3>1 DEF Calm, Ended, Called, Readied
      <3>. QED
        BY <1>2, <3>2 DEF Places, Idles, Pushes, Links, Hands, Comes, Readies
    <2>3. PICK c \in Blocks : Runs(t, c)
      BY <2>2
    <2>4. Contract!Start(c)
      BY <1>1, <1>5, <2>3, ContractStart
    <2>. QED
      BY <2>4 DEF Contract!Next
  <1>6. ASSUME Calm \/ \E b \in Blocks : Readied(b), prior' = prior, Returns(t)
        PROVE  Contract!Next \/ UNCHANGED Seen
    <2>1. UNCHANGED Seen \/ \E b \in Blocks : Contract!Return(b)
      BY <1>1, <1>6, ContractReturn
    <2>. QED
      BY <2>1 DEF Contract!Next
  <1>. QED
    BY <1>2, <1>3, <1>4, <1>5, <1>6 DEF History

LEMMA ContractInit ==
  ASSUME Init
  PROVE  Contract!Init
PROOF
  <1>1. \A b \in Blocks : status[b] = "new" /\ prior[b] = {}
    BY DEF Init
  <1>2. Phase = [b \in Blocks |-> "new"] /\ Barriers = {} /\ Earlier = [b \in Blocks |-> {}]
    BY <1>1 DEF Phase, Barriers, Submitted, Earlier
  <1>. QED
    BY <1>2 DEF Init, Contract!Init, Phase, Barriers, Earlier

\* A queue of any width keeps the contract: a block starts after every block of an earlier call that
\* it is ordered with, and a barrier runs alone, whatever the interleaving, except that a dispatch_sync
\* or dispatch_barrier_sync that finds the queue idle may overtake.
THEOREM LaneContract == Spec => KeepsContract
PROOF
  <1>1. Init => Contract!Init
    BY ContractInit
  <1>2. ASSUME UNCHANGED vars PROVE UNCHANGED Seen
    <2>. USE <1>2 DEF vars, list, target, locals, calls
    <2>1. Phase' = Phase
      BY DEF Phase
    <2>2. Barriers' = Barriers
      BY DEF Barriers, Submitted, Barrier
    <2>3. Earlier' = Earlier
      BY DEF Earlier, Hasty, Waiter, Barrier
    <2>. QED
      BY <2>1, <2>2, <2>3 DEF Seen
  <1>3. UNCHANGED Seen => UNCHANGED Contract!vars
    BY DEF Seen, Contract!vars, Phase, Barriers, Earlier
  <1>4. Inv /\ Ordering /\ [Next]_vars => [Contract!Next]_Contract!vars
    BY <1>2, <1>3, ContractStep
  <1>. QED
    BY <1>1, <1>4, LaneInvariant, LaneOrder, PTL DEF Spec, KeepsContract, Contract!Spec

-----------------------------------------------------------------------------
(***************************************************************************)
(* No wakeup is lost.                                                      *)
(***************************************************************************)
\* A thread that pushed the first item of the list and has not come to its wakeup.
Rousing == {"link_first", "wakeup_probe", "wakeup", "push_waiter"}
Pusher == \E t \in Threads : pc[t] \in Rousing

\* A lane that nobody holds, that is not on the root queue and has something to do waits for a block
\* in flight, or for the thread that pushed its first item.
Awake == ~Locked(dq_state) /\ ~dq_state.e /\ (dq_items # <<>> \/ dq_state.d) =>
           InFlight # {} \/ (dq_items # <<>> /\ Pusher)

\* What the owner of the lock has seen of the list before it gives the lock back: if the list is not
\* empty any more the word says so, or the thread that pushed its first item still will.
KnowsAt(t) ==
  /\ pc[t] \in {"release", "unlock", "drain_done"} \/ (pc[t] = "close" /\ dc[t] = 0)
       => dq_items = <<>> \/ dq_state.d \/ Pusher
  /\ pc[t] = "drain_stop" => dq_state.d \/ InFlight # {}

\* The thread of the first item links it, and every block that has been called is on its way.
HeadAt == dq_items # <<>> /\ ~HeadLinked => \E t \in Threads : pc[t] = "link_first" /\ Current(t) = Head(dq_items)
WaitsAt(b) == status[b] = "called" => \/ OnList(b)
                                      \/ \E t \in Threads : pc[t] \in Early /\ Current(t) = b
                                      \/ \E t \in Threads : pc[t] \in Transfers /\ dc[t] = b

Wakeful == Awake /\ HeadAt /\ (\A t \in Threads : KnowsAt(t)) /\ (\A b \in Blocks : WaitsAt(b))

\* The steps that change the word.
LEMMA WordMoves ==
  ASSUME NEW t \in Threads, Acts(t)
  PROVE  \/ dq_state' = dq_state /\ pc[t] \notin {"uncount", "wakeup", "push_waiter"}
         \/ pc[t] \in Completing \union Giving \union DrainLocked
         \/ AsyncTry(t) \/ SyncTry(t) \/ BarrierTry(t) \/ Wakeup(t) \/ OverrideLast(t) \/ MergeQos(t) \/ PushWaiter(t)
         \/ NonBarrierComplete(t) \/ DrainTryLock(t)
PROOF
  <1>. DEFINE Same == dq_state' = dq_state /\ pc[t] \notin {"uncount", "wakeup", "push_waiter"}
              Owned == pc[t] \in Completing \union Giving \union DrainLocked
  <1>1. (t \in Blocks /\ Call(t)) \/ NestedCall(t) => Same
    BY DEF Call, NestedCall, Submit, At
  <1>2. AsyncProbe(t) \/ SyncProbe(t) \/ Prepare(t) \/ Return(t) \/ Wait(t) => Same
    BY DEF AsyncProbe, SyncProbe, Prepare, Return, Wait, At
  <1>3. PushTail(t) \/ NeedOverride(t) \/ PushLink(t) \/ PushHead(t) \/ WakeupProbe(t) => Same
    BY DEF At, PushTail, NeedOverride, PushLink, PushHead, WakeupProbe
  <1>4. UnlockProbe(t) \/ Unlock(t) \/ BarrierComplete(t) \/ BarrierRelease(t) \/ BarrierRequeue(t) \/ PopWaiter(t)
          \/ Open(t) => Owned
    BY DEF At, UnlockProbe, Unlock, BarrierComplete, BarrierRelease, BarrierRequeue, PopWaiter, Open, Completing
  <1>5. TransferLock(t) => Owned
    BY DEF TransferLock, Completing, DrainLocked, DrainPcs
  <1>6. GiveReserve(t) \/ Give(t) \/ Close(t) \/ Reload(t) => Owned
    BY DEF At, GiveReserve, Give, Close, Reload, Giving
  <1>7. Redirected(t) \/ PopLane(t) => Same
    BY DEF At, Redirected, PopLane
  <1>8. Drain(t) \/ DrainProbe(t) \/ DrainNarrow(t) \/ DrainUnlock(t) => Owned
    BY DEF At, Drain, DrainProbe, DrainNarrow, DrainUnlock, DrainLocked, DrainPcs
  <1>9. DrainUpgrade(t) \/ DrainWaiter(t) \/ DrainBarrier(t) \/ DrainDrop(t) \/ DrainReserve(t) \/ DrainGive(t) => Owned
    BY DEF Draining, DrainUpgrade, DrainWaiter, DrainBarrier, DrainDrop, DrainReserve, DrainGive, DrainLocked, DrainPcs
  <1>. HIDE DEF Same, Owned
  <1>10. Same \/ Owned \/ AsyncTry(t) \/ SyncTry(t) \/ BarrierTry(t) \/ Wakeup(t) \/ OverrideLast(t) \/ MergeQos(t)
           \/ PushWaiter(t) \/ NonBarrierComplete(t) \/ DrainTryLock(t)
    BY <1>1, <1>2, <1>3, <1>4, <1>5, <1>6, <1>7, <1>8, <1>9 DEF Acts, Step
  <1>. QED
    BY <1>10 DEF Same, Owned

\* The steps of a thread that pushes.
LEMMA AtRousing ==
  ASSUME NEW t \in Threads, Acts(t), pc[t] \in {"push"} \union Rousing
  PROVE  /\ pc[t] = "push" => PushTail(t)
         /\ pc[t] = "link_first" => PushHead(t)
         /\ pc[t] = "wakeup_probe" => WakeupProbe(t)
         /\ pc[t] = "wakeup" => Wakeup(t)
         /\ pc[t] = "push_waiter" => PushWaiter(t)
PROOF
  <1>. USE DEF Rousing
  <1>1. ~(t \in Blocks /\ Call(t)) /\ ~NestedCall(t) /\ ~AsyncProbe(t) /\ ~AsyncTry(t) /\ ~SyncProbe(t) /\ ~SyncTry(t)
          /\ ~BarrierTry(t) /\ ~Prepare(t) /\ ~Return(t) /\ ~Wait(t)
    BY DEF At, Call, NestedCall, AsyncProbe, AsyncTry, SyncProbe, SyncTry, BarrierTry, Prepare, Return, Wait
  <1>2. ~NeedOverride(t) /\ ~PushLink(t) /\ ~OverrideLast(t) /\ ~MergeQos(t)
    BY DEF At, NeedOverride, PushLink, OverrideLast, MergeQos
  <1>3. ~NonBarrierComplete(t) /\ ~UnlockProbe(t) /\ ~Unlock(t) /\ ~BarrierComplete(t) /\ ~BarrierRelease(t)
          /\ ~BarrierRequeue(t) /\ ~PopWaiter(t) /\ ~TransferLock(t) /\ ~Open(t) /\ ~GiveReserve(t) /\ ~Give(t)
          /\ ~Close(t) /\ ~Reload(t)
    BY DEF At, NonBarrierComplete, UnlockProbe, Unlock, BarrierComplete, BarrierRelease,
           BarrierRequeue, PopWaiter, TransferLock, Open, GiveReserve, Give, Close, Reload
  <1>4. ~Redirected(t) /\ ~PopLane(t) /\ ~DrainTryLock(t) /\ ~Drain(t) /\ ~DrainUpgrade(t) /\ ~DrainWaiter(t)
          /\ ~DrainBarrier(t) /\ ~DrainDrop(t) /\ ~DrainReserve(t) /\ ~DrainGive(t) /\ ~DrainProbe(t)
          /\ ~DrainNarrow(t) /\ ~DrainUnlock(t)
    BY DEF At, Draining, Redirected, PopLane, DrainTryLock, Drain, DrainUpgrade, DrainWaiter, DrainBarrier,
           DrainDrop, DrainReserve, DrainGive, DrainProbe, DrainNarrow, DrainUnlock
  <1>5. PushTail(t) \/ PushHead(t) \/ WakeupProbe(t) \/ Wakeup(t) \/ PushWaiter(t)
    BY <1>1, <1>2, <1>3, <1>4 DEF Acts, Step
  <1>. QED
    BY <1>5 DEF PushTail, PushHead, WakeupProbe, Wakeup, PushWaiter, At

\* The thread that pushed the first item does not forget it.
LEMMA PusherStays ==
  ASSUME Inv, NEW t \in Threads, Acts(t), Pusher, pc[t] \notin {"wakeup", "push_waiter"},
         pc[t] = "wakeup_probe" => dq_items # <<>>
  PROVE  Pusher'
PROOF
  <1>1. Types /\ Keeps(t)
    BY OthersKeep DEF Inv
  <1>2. PICK u \in Threads : pc[u] \in Rousing
    BY DEF Pusher
  <1>3. CASE u # t
    BY <1>1, <1>2, <1>3 DEF Keeps, Pusher
  <1>4. CASE u = t
    <2>1. \A label : Goto(t, label) => pc'[t] = label
      BY <1>1 DEF Goto, Types
    <2>2. CASE pc[t] = "link_first"
      <3>1. PushHead(t)
        BY <2>2, AtRousing DEF Rousing
      <3>2. pc'[t] \in Rousing
        BY <2>1, <3>1 DEF PushHead, Rousing
      <3>. QED
        BY <3>2 DEF Pusher
    <2>3. CASE pc[t] = "wakeup_probe"
      <3>1. WakeupProbe(t)
        BY <2>3, AtRousing DEF Rousing
      <3>2. pc'[t] = "wakeup"
        BY <2>1, <2>3, <3>1 DEF WakeupProbe
      <3>. QED
        BY <3>2 DEF Pusher, Rousing
    <2>. QED
      BY <1>2, <1>4, <2>2, <2>3 DEF Rousing
  <1>. QED
    BY <1>3, <1>4

\* While a thread holds the lock the others do not wipe the dirty bit, and leave their own traces.
LEMMA DirtyStays ==
  ASSUME Inv, NEW t \in Threads, Acts(t), NEW u \in Threads \ {t}, dq_state.owner = u
  PROVE  (dq_state.d \/ pc[t] \in {"wakeup", "push_waiter", "uncount"}) => dq_state'.d
PROOF
  <1>1. Types /\ dq_state \in WordRange /\ Locked(dq_state)
    BY Numbers DEF Inv, Locked
  <1>2. pc[t] \notin Completing \union Giving \union DrainLocked
    BY OwnerOf
  <1>3. CASE dq_state' = dq_state /\ pc[t] \notin {"uncount", "wakeup", "push_waiter"}
    BY <1>3
  <1>4. CASE AsyncTry(t) \/ SyncTry(t)
    BY <1>1, <1>4 DEF AsyncTry, SyncTry, At, Take, WordRange
  <1>5. CASE BarrierTry(t)
    BY <1>1, <1>5 DEF BarrierTry, At, Free, Idle, Locked
  <1>6. CASE Wakeup(t) \/ OverrideLast(t) \/ MergeQos(t)
    BY <1>1, <1>6 DEF Wakeup, Woken, OverrideLast, MergeQos, At, WordRange
  <1>7. CASE PushWaiter(t)
    BY <1>1, <1>7 DEF PushWaiter, WordRange
  <1>8. CASE NonBarrierComplete(t)
    <2>1. dq_state' = [Take(dq_state, -1) EXCEPT !.d = TRUE] /\ Take(dq_state, -1) \in WordRange
      <3>1. Uncounted(dq_state, t) = [Take(dq_state, -1) EXCEPT !.d = TRUE]
        BY <1>1 DEF Uncounted
      <3>. QED
        BY <1>1, <1>8, <3>1 DEF NonBarrierComplete, Take, WordRange
    <2>. QED
      BY <2>1 DEF WordRange
  <1>9. CASE DrainTryLock(t)
    BY <1>1, <1>9 DEF DrainTryLock, At, WordRange
  <1>. QED
    BY <1>2, <1>3, <1>4, <1>5, <1>6, <1>7, <1>8, <1>9, WordMoves

\* Blocks in flight stay so until they are counted out.
LEMMA FlightStays ==
  ASSUME Inv, NEW t \in Threads, Acts(t), dq_width' = dq_width, pc[t] # "uncount"
  PROVE  InFlight # {} \/ (\E b \in Blocks : Starts(b)) => InFlight' # {}
PROOF
  <1>. SUFFICES ASSUME NEW b \in Blocks, Flying(b) \/ Starts(b) PROVE b \in InFlight'
    BY FlightFacts DEF Inv
  <1>1. Flying(b)'
    BY FlightAt
  <1>. QED
    BY <1>1 DEF Flying, InFlight, Submitted

\* A lane that nobody holds and whose width is not all there has a block in flight.
LEMMA Busy ==
  ASSUME Inv, ~Locked(dq_state), dq_state.used # IF dq_state.pb THEN dq_width - 1 ELSE 0
  PROVE  InFlight # {}
PROOF
  <1>1. dq_state.used = Users + (IF dq_state.pb THEN dq_width - 1 ELSE 0)
    BY Word
  <1>2. dq_width \in Nat /\ Users \in Nat /\ (Users = 0 <=> InFlight = {})
    BY Numbers DEF Inv
  <1>. QED
    BY <1>1, <1>2

LEMMA BusyAfter ==
  (Inv /\ ~Locked(dq_state) /\ dq_state.used # (IF dq_state.pb THEN dq_width - 1 ELSE 0) => InFlight # {})'
PROOF
  <1>1. Inv /\ ~Locked(dq_state) /\ dq_state.used # (IF dq_state.pb THEN dq_width - 1 ELSE 0) => InFlight # {}
    BY Busy
  <1>. QED
    BY <1>1, PTL

\* The owner keeps the lock, but for a few steps.
LEMMA OwnerKeeps ==
  ASSUME Inv, NEW t \in Threads, Acts(t), pc[t] \in Completing \union Giving \union DrainLocked
  PROVE  \/ dq_state'.owner \in Threads
         \/ Unlock(t) \/ BarrierRelease(t) \/ BarrierRequeue(t) \/ Close(t) \/ DrainNarrow(t) \/ DrainUnlock(t)
PROOF
  <1>1. Types /\ dq_state \in WordRange /\ dq_state.owner = t
    BY Numbers, OwnerOf DEF Inv
  <1>. DEFINE Keeping == dq_state'.owner \in Threads
  <1>2. dq_state' = dq_state => Keeping
    BY <1>1
  <1>3. ~(t \in Blocks /\ Call(t)) /\ ~NestedCall(t) /\ ~AsyncProbe(t) /\ ~AsyncTry(t) /\ ~SyncProbe(t) /\ ~SyncTry(t)
          /\ ~BarrierTry(t) /\ ~Prepare(t) /\ ~Return(t) /\ ~Wait(t)
    BY DEF Completing, Giving, DrainLocked, DrainPcs, At, Call, NestedCall, AsyncProbe, AsyncTry, SyncProbe, SyncTry,
           BarrierTry, Prepare, Return, Wait
  <1>4. ~PushTail(t) /\ ~NeedOverride(t) /\ ~PushLink(t) /\ ~PushHead(t) /\ ~WakeupProbe(t) /\ ~Wakeup(t)
          /\ ~OverrideLast(t) /\ ~MergeQos(t) /\ ~PushWaiter(t)
    BY DEF Completing, Giving, DrainLocked, DrainPcs, At, PushTail, NeedOverride, PushLink, PushHead, WakeupProbe,
           Wakeup, OverrideLast, MergeQos, PushWaiter
  <1>5. ~NonBarrierComplete(t) /\ ~Redirected(t) /\ ~PopLane(t) /\ ~DrainTryLock(t)
    BY DEF Completing, Giving, DrainLocked, DrainPcs, At, NonBarrierComplete, Redirected, PopLane, DrainTryLock
  <1>6. UnlockProbe(t) \/ BarrierComplete(t) \/ PopWaiter(t) \/ Give(t) \/ Reload(t) => Keeping
    BY <1>2 DEF UnlockProbe, BarrierComplete, PopWaiter, HandOver, Give, Reload
  <1>7. Drain(t) \/ DrainWaiter(t) \/ DrainBarrier(t) \/ DrainGive(t) \/ DrainProbe(t) => Keeping
    BY <1>2 DEF Drain, DrainWaiter, HandOver, DrainBarrier, DrainGive, DrainProbe
  <1>8. Open(t) \/ DrainDrop(t) => Keeping
    BY <1>1 DEF Open, DrainDrop, WordRange
  <1>9. GiveReserve(t) \/ DrainReserve(t) => Keeping
    BY <1>1 DEF GiveReserve, DrainReserve, TakeMore, Take, WordRange
  <1>10. TransferLock(t) => Keeping
    <2>1. TransferLock(t) => dc[t] \in Blocks /\ caller[dc[t]] \in Threads
      BY DEF TransferLock, Inv, Listing, TransferAt, Transfers, Threading, WaiterAt
    <2>. QED
      BY <1>1, <2>1 DEF TransferLock, Transferred, WordRange
  <1>11. DrainUpgrade(t) => Keeping
    <2>. DEFINE free == Take(dq_state, -own[t].w)
                kept == IF dq_state.pb THEN free ELSE Reserve(free)
    <2>1. free \in [used : {free.used}, ib : BOOLEAN, pb : BOOLEAN, d : BOOLEAN, e : BOOLEAN, q : BOOLEAN,
                    owner : {t}]
      BY <1>1 DEF Take, WordRange
    <2>2. kept.owner = t /\ kept \in [used : {kept.used}, ib : BOOLEAN, pb : BOOLEAN, d : BOOLEAN, e : BOOLEAN,
                                      q : BOOLEAN, owner : {t}]
      BY <2>1 DEF Reserve
    <2>3. Upgraded(dq_state, own[t].w).owner = t
      BY <2>2 DEF Upgraded, Take
    <2>. QED
      BY <2>3 DEF DrainUpgrade
  <1>. HIDE DEF Keeping
  <1>12. Keeping \/ Unlock(t) \/ BarrierRelease(t) \/ BarrierRequeue(t) \/ Close(t) \/ DrainNarrow(t) \/ DrainUnlock(t)
    BY <1>3, <1>4, <1>5, <1>6, <1>7, <1>8, <1>9, <1>10, <1>11 DEF Acts, Step
  <1>. QED
    BY <1>12 DEF Keeping

\* Nobody lets go of a lane that has something to do.
LEMMA AwakeStep ==
  ASSUME Inv, Inv', Wakeful, NEW t \in Threads, Acts(t), dq_width' = dq_width
  PROVE  Awake'
PROOF
  <1>. USE DEF list, target, locals, calls
  <1>. SUFFICES ASSUME dq_state'.owner = NoThread, ~dq_state'.e, dq_items' # <<>> \/ dq_state'.d
                PROVE  InFlight' # {} \/ (dq_items' # <<>> /\ Pusher')
    BY DEF Awake, Locked
  <1>1. /\ Types /\ Types' /\ Places(t) /\ CallAt(t) /\ FrameAt(t) /\ Awake /\ KnowsAt(t)
        /\ dq_state \in WordRange /\ dq_state' \in WordRange /\ dq_width \in Nat /\ dq_width >= 1
        /\ NoThread \notin Threads
    BY After, Numbers DEF Wakeful, Inv, Types, WordRange
  <1>2. dq_state'.used # (IF dq_state'.pb THEN dq_width - 1 ELSE 0) => InFlight' # {}
    BY BusyAfter DEF Locked
  <1>3. pc[t] # "uncount" /\ (InFlight # {} \/ \E b \in Blocks : Starts(b)) => InFlight' # {}
    BY FlightStays
  <1>4. dq_state'.owner \notin Threads
    BY <1>1
  <1>5. ASSUME pc[t] \in Completing \union Giving \union DrainLocked
        PROVE  /\ pc[t] # "uncount" /\ dq_state.owner = t /\ (Pusher => Pusher')
               /\ \/ Unlock(t) \/ BarrierRelease(t) \/ BarrierRequeue(t) \/ Close(t) \/ DrainNarrow(t) \/ DrainUnlock(t)
    <2>1. pc[t] \notin {"uncount", "wakeup", "push_waiter", "wakeup_probe"}
      BY <1>5 DEF Completing, Giving, DrainLocked, DrainPcs
    <2>. QED
      BY <1>4, <1>5, <2>1, PusherStays, OwnerKeeps, OwnerOf
  <1>6. ASSUME dq_state'.owner = dq_state.owner, dq_state'.e = dq_state.e, dq_state'.d = dq_state.d,
               pc[t] \notin {"uncount", "wakeup", "push_waiter"}
        PROVE  InFlight' # {} \/ (dq_items' # <<>> /\ Pusher')
    <2>1. pc[t] \notin Poppers
      BY <1>1, <1>6, OwnerOf DEF Poppers, Completing, Giving, DrainLocked, DrainPcs
    <2>2. ASSUME dq_items # <<>> \/ dq_state.d, dq_items' # <<>> \/ dq_items' = dq_items
          PROVE  InFlight' # {} \/ (dq_items' # <<>> /\ Pusher')
      <3>1. InFlight # {} \/ (dq_items # <<>> /\ Pusher)
        BY <1>1, <1>6, <2>2 DEF Awake, Locked
      <3>. QED
        BY <1>3, <1>6, <2>2, <3>1, PusherStays
    <2>3. CASE dq_items' = dq_items
      BY <1>6, <2>2, <2>3
    <2>4. CASE Pushes(t)
      <3>1. PushTail(t) /\ dq_items' # <<>>
        <4>1. PushTail(t)
          BY <2>4, AtRousing DEF Pushes
        <4>2. Current(t) \in Blocks
          BY <1>1, <4>1, HasBlock DEF PushTail, At, DrainPcs
        <4>. QED
          BY <1>1, <4>1, <4>2, AppendProperties DEF PushTail, Types
      <3>2. CASE dq_items = <<>>
        <4>1. pc'[t] = "link_first"
          BY <1>1, <3>1, <3>2 DEF PushTail, Goto, Types
        <4>. QED
          BY <3>1, <4>1 DEF Pusher, Rousing
      <3>3. CASE dq_items # <<>>
        BY <2>2, <3>1, <3>3
      <3>. QED
        BY <3>2, <3>3
    <2>. QED
      BY <1>1, <2>1, <2>3, <2>4, ListMoved
  <1>7. CASE Unlock(t) \/ BarrierRelease(t)
    <2>1. /\ pc[t] \in {"unlock", "release"} /\ pc[t] \in Completing /\ dq_items' = dq_items
          /\ \/ dq_state' = dq_state
             \/ dq_state' = [dq_state EXCEPT !.d = FALSE]
             \/ /\ ~dq_state.d
                /\ \/ dq_state' = Release(dq_state, [ib |-> TRUE, w |-> 1])
                   \/ dq_state' = [Release(dq_state, Everything) EXCEPT !.q = FALSE]
      BY <1>7 DEF Unlock, BarrierRelease, At, Completing
    <2>2. dq_state'.owner = dq_state.owner \/ (~dq_state.d /\ dq_state'.d = dq_state.d)
      BY <1>1, <2>1 DEF Release, WordRange
    <2>3. dq_state.owner = t /\ (Pusher => Pusher')
      BY <1>5, <2>1
    <2>4. dq_items # <<>> /\ ~dq_state.d
      BY <1>4, <2>1, <2>2, <2>3
    <2>. QED
      BY <1>1, <2>1, <2>3, <2>4 DEF KnowsAt
  <1>8. CASE BarrierRequeue(t)
    BY <1>1, <1>8 DEF BarrierRequeue, Release, WordRange
  <1>9. CASE Close(t)
    <2>1. pc[t] = "close" /\ pc[t] \in Giving /\ dq_items' = dq_items
      BY <1>9 DEF Close, At, Giving
    <2>2. dq_state.owner = t /\ (Pusher => Pusher')
      BY <1>5, <2>1
    <2>3. ~(dc[t] = 0 /\ dq_state.d) /\ dq_state' = Closed(dq_state, own[t], dc[t], t)
      <3>1. dq_state' = [dq_state EXCEPT !.d = FALSE] => dq_state'.owner = t
        BY <1>1, <2>2 DEF WordRange
      <3>. QED
        BY <1>4, <1>9, <3>1 DEF Close
    <2>. DEFINE free == Release(dq_state, own[t])
                kept == IF dq_width > 1 /\ Barrier(dc[t]) THEN Reserve(free) ELSE free
                x == [kept EXCEPT !.d = TRUE]
    <2>4. free \in WordRange /\ kept \in WordRange
      BY <1>1, WordTypes DEF Types
    <2>5. CASE dc[t] = 0
      <3>1. ~dq_state'.d
        BY <2>3, <2>4, <2>5 DEF Closed, WordRange
      <3>. QED
        BY <1>1, <2>1, <2>2, <2>3, <2>5, <3>1 DEF KnowsAt
    <2>6. CASE dc[t] # 0
      <3>1. dq_state' = TryFullLock(x, dq_state.d, t) /\ x \in WordRange
        BY <2>3, <2>4, <2>6 DEF Closed, WordRange
      <3>. HIDE DEF x
      <3>2. CASE WholeWidthFree(x)
        BY <1>4, <3>1, <3>2 DEF TryFullLock, FullLock, WordRange
      <3>3. CASE ~WholeWidthFree(x)
        <4>1. dq_state'.used = x.used /\ dq_state'.pb = x.pb
          BY <3>1, <3>3 DEF TryFullLock, WordRange
        <4>. QED
          BY <1>2, <3>3, <4>1 DEF WholeWidthFree
      <3>. QED
        BY <3>2, <3>3
    <2>. QED
      BY <2>5, <2>6
  <1>10. CASE DrainNarrow(t)
    <2>1. ~dq_state'.ib
      BY DEF Inv, Locking, Alone, Locked
    <2>. DEFINE free == [Release(dq_state, own[t]) EXCEPT !.e = FALSE, !.d = TRUE]
                kept == IF dq_width > 1 /\ Barrier(Head(dq_items)) THEN Reserve(free) ELSE free
    <2>2. kept \in WordRange
      <3>1. free \in WordRange
        BY <1>1, WordTypes, WordBits DEF Types
      <3>. QED
        BY <1>1, <3>1, WordTypes
    <2>3. dq_state' = [kept EXCEPT !.e = Runnable(kept)]
      BY <1>10 DEF DrainNarrow, Narrowed
    <2>. HIDE DEF kept
    <2>4. ~Runnable(kept) /\ dq_state'.ib = kept.ib /\ dq_state'.used = kept.used
      BY <2>2, <2>3 DEF WordRange
    <2>5. dq_state'.used >= dq_width
      BY <1>1, <2>1, <2>4 DEF Runnable, WordRange
    <2>. QED
      BY <1>1, <1>2, <2>5
  <1>11. CASE DrainUnlock(t)
    <2>1. pc[t] \in {"drain_done", "drain_stop"} /\ pc[t] \in DrainLocked /\ dq_items' = dq_items
      BY <1>11 DEF DrainUnlock, DrainLocked, DrainPcs
    <2>2. dq_state.owner = t /\ (Pusher => Pusher')
      BY <1>5, <2>1
    <2>3. ~dq_state.d /\ dq_state' = [Release(dq_state, own[t]) EXCEPT !.e = FALSE, !.d = pc[t] = "drain_stop",
                                                                      !.q = @ /\ pc[t] = "drain_stop"]
      <3>1. dq_state' = [dq_state EXCEPT !.d = FALSE] => dq_state'.owner = t
        BY <1>1, <2>2 DEF WordRange
      <3>. QED
        BY <1>4, <1>11, <3>1 DEF DrainUnlock
    <2>4. CASE pc[t] = "drain_done"
      <3>1. ~dq_state'.d
        BY <1>1, <2>3, <2>4 DEF Release, WordRange
      <3>. QED
        BY <1>1, <2>1, <2>2, <2>3, <2>4, <3>1 DEF KnowsAt
    <2>5. CASE pc[t] = "drain_stop"
      BY <1>1, <1>3, <2>3, <2>5 DEF KnowsAt
    <2>. QED
      BY <2>1, <2>4, <2>5
  <1>12. CASE AsyncTry(t) \/ SyncTry(t)
    <2>1. pc[t] \in {"async_try", "sync_try"}
      BY <1>12 DEF AsyncTry, SyncTry, At
    <2>2. Current(t) \in Blocks /\ status[Current(t)] = "called" /\ ~Barrier(Current(t))
      BY <1>1, <2>1, HasBlock DEF DrainPcs, CallAt, Submits, Calling, Early, Barrier
    <2>3. CASE dq_state' = dq_state
      BY <1>6, <2>1, <2>3
    <2>4. CASE dq_state' # dq_state
      <3>1. Readied(Current(t)) \/ Ran(Current(t))
        BY <1>12, <2>2, <2>4 DEF AsyncTry, SyncTry, Dispatch, Enter, Run, Readied, Ran
      <3>. QED
        BY <1>3, <2>1, <2>2, <3>1 DEF Starts
    <2>. QED
      BY <2>3, <2>4
  <1>13. CASE BarrierTry(t)
    <2>1. dq_state' = FullLock(dq_state, t) => dq_state'.owner = t
      BY <1>1 DEF FullLock, WordRange
    <2>. QED
      BY <1>4, <1>6, <1>13, <2>1 DEF BarrierTry, At
  <1>14. CASE Wakeup(t)
    BY <1>1, <1>14 DEF Wakeup, Woken, WordRange
  <1>15. CASE OverrideLast(t) \/ MergeQos(t)
    BY <1>1, <1>6, <1>15 DEF OverrideLast, MergeQos, At, WordRange
  <1>16. CASE PushWaiter(t)
    <2>. DEFINE free == ~Locked(dq_state) /\ Runnable(dq_state) /\ (dq_state.pb \/ dq_state.used = 0)
    <2>1. pc[t] = "push_waiter" /\ dq_state' = [IF free THEN FullLock(dq_state, t) ELSE [dq_state EXCEPT !.d = TRUE]
                                                EXCEPT !.q = TRUE]
      BY <1>16 DEF PushWaiter, At
    <2>2. FullLock(dq_state, t).owner = t /\ FullLock(dq_state, t) \in WordRange
      BY <1>1, WordTypes DEF FullLock, WordRange
    <2>3. ~free /\ dq_state.owner = NoThread
      BY <1>1, <1>4, <2>1, <2>2 DEF WordRange
    <2>4. ~dq_state.ib
      BY <2>3 DEF Inv, Locking, Alone, Locked
    <2>5. dq_state.used # IF dq_state.pb THEN dq_width - 1 ELSE 0
      BY <1>1, <2>3, <2>4 DEF Locked, Runnable, WordRange
    <2>. QED
      BY <1>3, <2>1, <2>3, <2>5, Busy DEF Locked
  <1>17. CASE NonBarrierComplete(t)
    <2>. DEFINE new == Take(dq_state, -1)
    <2>1. dq_state' = Uncounted(dq_state, t) /\ new \in WordRange /\ new.owner = dq_state.owner /\ new.ib = dq_state.ib
      BY <1>1, <1>17 DEF NonBarrierComplete, Take, WordRange
    <2>. HIDE DEF new
    <2>2. CASE Locked(dq_state)
      BY <1>1, <2>1, <2>2 DEF Uncounted, new, Locked, WordRange
    <2>3. CASE ~Locked(dq_state) /\ Runnable(new) /\ WholeWidthFree(new)
      BY <1>4, <2>1, <2>3 DEF Uncounted, new, TryFullLock, FullLock, WordRange
    <2>4. CASE ~Locked(dq_state) /\ Runnable(new) /\ ~WholeWidthFree(new)
      <3>1. dq_state'.used = new.used /\ dq_state'.pb = new.pb
        BY <2>1, <2>4 DEF Uncounted, new, TryFullLock, WordRange
      <3>. QED
        BY <1>2, <2>4, <3>1 DEF WholeWidthFree
    <2>5. CASE ~Locked(dq_state) /\ ~Runnable(new)
      <3>1. dq_state' = new /\ ~new.ib
        BY <2>1, <2>5 DEF Uncounted, new, Inv, Locking, Alone
      <3>2. dq_state'.used >= dq_width
        BY <1>1, <2>1, <2>5, <3>1 DEF Runnable, WordRange
      <3>. QED
        BY <1>1, <1>2, <3>2
    <2>. QED
      BY <2>2, <2>3, <2>4, <2>5
  <1>18. CASE DrainTryLock(t)
    <2>1. [FullLock(dq_state, t) EXCEPT !.ib = dq_state.pb \/ dq_state.used = 0].owner = t
      BY <1>1, WordTypes DEF FullLock, WordRange
    <2>2. dq_state' = [dq_state EXCEPT !.e = FALSE] /\ ~(~Locked(dq_state) /\ Runnable(dq_state)) /\ pc[t] = "try_lock"
      BY <1>4, <1>18, <2>1 DEF DrainTryLock, At
    <2>3. ~Locked(dq_state) /\ ~dq_state.ib
      BY <1>1, <2>2 DEF Locked, WordRange, Inv, Locking, Alone
    <2>4. dq_state.used # IF dq_state.pb THEN dq_width - 1 ELSE 0
      BY <1>1, <2>2, <2>3 DEF Runnable, WordRange
    <2>. QED
      BY <1>3, <2>2, <2>3, <2>4, Busy
  <1>. QED
    BY <1>5, <1>6, <1>7, <1>8, <1>9, <1>10, <1>11, <1>12, <1>13, <1>14, <1>15, <1>16, <1>17, <1>18, WordMoves

\* A drainer that stops, with all the width in use, waits for a block in flight.
LEMMA Stopped ==
  ASSUME Inv
  PROVE  \A t \in Threads : pc[t] = "drain_stop" /\ dq_state.used >= dq_width => InFlight # {}
PROOF
  <1>. SUFFICES ASSUME NEW t \in Threads, pc[t] = "drain_stop", dq_state.used >= dq_width PROVE InFlight # {}
    OBVIOUS
  <1>1. /\ dq_width \in Nat /\ dq_width >= 1 /\ Users \in Nat /\ (Users = 0 <=> InFlight = {})
        /\ pc[t] \in DrainLocked /\ OwnAt(t)
    BY Numbers DEF Inv, Locking, DrainLocked, DrainPcs
  <1>2. own[t].w = 0 /\ ~dq_state.ib /\ dq_state.owner = t
    BY <1>1, WordOfDrainer DEF OwnAt, OwnNone
  <1>3. dq_state.used = Users + 0 + (IF dq_state.pb THEN dq_width - 1 ELSE 0)
    BY <1>2, Word
  <1>. QED
    BY <1>1, <1>3

LEMMA StoppedAfter ==
  (Inv => \A t \in Threads : pc[t] = "drain_stop" /\ dq_state.used >= dq_width => InFlight # {})'
PROOF
  <1>1. Inv => \A t \in Threads : pc[t] = "drain_stop" /\ dq_state.used >= dq_width => InFlight # {}
    BY Stopped
  <1>. QED
    BY <1>1, PTL

\* The drainer stops because all the width is in use or the lane is dirty.
LEMMA StopsAtLimit ==
  ASSUME Inv, NEW t \in Threads, Acts(t), dq_width' = dq_width, DrainUpgrade(t) \/ DrainReserve(t), pc'[t] = "drain_stop"
  PROVE  dq_state'.d \/ dq_state'.used >= dq_width'
PROOF
  <1>1. /\ Types /\ dq_state \in WordRange /\ dq_width \in Nat /\ dq_width >= 1 /\ Pending
        /\ pc[t] \in {"drain_first", "drain_more"} /\ pc[t] \in DrainLocked /\ ~own[t].ib
    BY Numbers DEF Inv, Locking, DrainUpgrade, DrainReserve, Draining, DrainLocked, DrainPcs
  <1>2. ~dq_state.ib /\ own[t].w \in Nat
    BY <1>1, WordOfDrainer
  <1>3. CASE DrainUpgrade(t)
    <2>. DEFINE free == Take(dq_state, -own[t].w)
                kept == IF dq_state.pb THEN free ELSE Reserve(free)
    <2>1. kept \in WordRange
      <3>1. free \in WordRange
        BY <1>1, <1>2, WordTypes
      <3>. QED
        BY <1>1, <3>1, WordTypes
    <2>2. ~kept.ib
      <3>1. ~free.ib /\ free \in WordRange
        BY <1>1, <1>2, WordTypes DEF Take, WordRange
      <3>. HIDE DEF free
      <3>. QED
        BY <3>1 DEF Reserve, WordRange
    <2>3. dq_state' = [IF Runnable(kept) THEN [Take(kept, 1) EXCEPT !.ib = TRUE, !.pb = FALSE] ELSE kept EXCEPT !.d = FALSE]
      BY <1>3 DEF DrainUpgrade, Upgraded
    <2>. HIDE DEF kept
    <2>4. ~dq_state'.ib
      <3>1. dq_state'.ib => pc' = pc
        BY <1>3 DEF DrainUpgrade
      <3>. QED
        BY <1>1, <3>1
    <2>5. ~Runnable(kept)
      <3>1. Take(kept, 1) \in WordRange
        BY <1>1, <2>1, WordTypes
      <3>. QED
        BY <2>3, <2>4, <3>1 DEF WordRange
    <2>6. dq_state'.used = kept.used /\ kept.used >= dq_width
      BY <1>1, <2>1, <2>2, <2>3, <2>5 DEF Runnable, WordRange
    <2>. QED
      BY <2>6
  <1>4. CASE DrainReserve(t)
    <2>1. ~Barrier(Head(dq_items)) /\ dq_state' = dq_state /\ ~CanAcquireAsync(dq_state)
      BY <1>1, <1>4 DEF DrainReserve, TakeMore
    <2>2. ~dq_state.pb
      BY <1>1, <2>1 DEF Pending
    <2>. QED
      BY <1>1, <1>2, <2>1, <2>2 DEF CanAcquireAsync, Runnable, WordRange
  <1>. QED
    BY <1>3, <1>4

\* How a thread comes to give the lock back.
Releases == {"release", "unlock", "drain_done", "close", "drain_stop"}

LEMMA Leaving ==
  ASSUME Inv, NEW t \in Threads, Acts(t), pc'[t] \in Releases
  PROVE  \/ pc'[t] \notin {"close", "drain_stop"} /\ dq_items' = dq_items /\ dq_items = <<>>
         \/ pc'[t] = "close" /\ dc'[t] # 0
         \/ pc'[t] = "close" /\ dq_items' = <<>>
         \/ pc'[t] = "close" /\ dq_items' = dq_items /\ ~HeadLinked /\ pc[t] = "reload"
         \/ pc'[t] = "drain_stop" /\ (DrainUpgrade(t) \/ DrainReserve(t))
PROOF
  <1>. USE DEF list, target, locals, calls
  <1>. DEFINE Goal == \/ pc'[t] \notin {"close", "drain_stop"} /\ dq_items' = dq_items /\ dq_items = <<>>
                      \/ pc'[t] = "close" /\ dc'[t] # 0
                      \/ pc'[t] = "close" /\ dq_items' = <<>>
                      \/ pc'[t] = "close" /\ dq_items' = dq_items /\ ~HeadLinked /\ pc[t] = "reload"
                      \/ pc'[t] = "drain_stop" /\ (DrainUpgrade(t) \/ DrainReserve(t))
  <1>. SUFFICES Goal
    OBVIOUS
  <1>1. Types /\ FrameAt(t) /\ LiveAt(t) /\ OwnerAt(t)
    BY DEF Inv, Threading, ThreadAt, Locking
  <1>2. \A label : Goto(t, label) => pc'[t] = label
    BY <1>1 DEF Goto, Types
  <1>3. ASSUME NEW label, Goto(t, label), label \notin Releases PROVE Goal
    BY <1>2, <1>3
  <1>4. ASSUME pc' = pc, pc[t] \notin Releases PROVE Goal
    BY <1>4
  <1>. HIDE DEF Goal
  <1>5. Releases = {"release", "unlock", "drain_done", "close", "drain_stop"}
    BY DEF Releases
  <1>6. ASSUME NEW b, NEW k \in Kinds, Submit(t, b, k) PROVE Goal
    <2>1. Entry(k) \notin Releases
      BY <1>5, Constants DEF Entry, AllKinds
    <2>. QED
      BY <1>3, <1>6, <2>1 DEF Submit
  <1>7. CASE (t \in Blocks /\ Call(t)) \/ NestedCall(t)
    BY <1>6, <1>7 DEF Call, NestedCall, Distinct
  <1>8. ASSUME Leave(t) PROVE Goal
    BY <1>3, <1>5, <1>8 DEF Leave
  <1>9. ASSUME Complete(t) PROVE Goal
    BY <1>3, <1>5, <1>8, <1>9 DEF Complete
  <1>10. ASSUME NEW b, NEW frames, NEW after, Run(t, b, frames, after) PROVE Goal
    BY <1>3, <1>5, <1>10 DEF Run
  <1>11. CASE AsyncProbe(t) \/ SyncProbe(t) \/ PushTail(t) \/ NeedOverride(t) \/ PushHead(t) \/ WakeupProbe(t)
    BY <1>3, <1>5, <1>11 DEF AsyncProbe, SyncProbe, PushTail, NeedOverride, PushHead, WakeupProbe
  <1>12. CASE AsyncTry(t) \/ Prepare(t) \/ MergeQos(t) \/ PushWaiter(t)
    BY <1>3, <1>4, <1>5, <1>8, <1>12 DEF AsyncTry, Prepare, MergeQos, PushWaiter, At
  <1>13. CASE SyncTry(t) \/ BarrierTry(t) \/ Wait(t)
    BY <1>3, <1>5, <1>10, <1>13 DEF SyncTry, BarrierTry, Wait, Enter
  <1>14. CASE PushLink(t) \/ Wakeup(t) \/ OverrideLast(t)
    BY <1>3, <1>5, <1>8, <1>14 DEF PushLink, Wakeup, OverrideLast
  <1>15. CASE Return(t)
    <2>1. Head(stack[t]).after \in {"uncount"} \union Exclusive
      <3>1. stack[t] # <<>> /\ pc[t] = "body"
        BY <1>1, <1>15 DEF Return, At, FrameAt, DrainPcs
      <3>2. Count(t) \in 1..Count(t) /\ Live(t)[Count(t)] = Head(stack[t])
        BY <1>1, <3>1, LiveFacts
      <3>. QED
        BY <1>1, <3>2 DEF LiveAt
    <2>. QED
      BY <1>3, <1>5, <1>15, <2>1 DEF Return, Exclusive
  <1>16. CASE NonBarrierComplete(t)
    BY <1>3, <1>5, <1>9, <1>16 DEF NonBarrierComplete, CompleteNonBarrier
  <1>17. CASE Close(t)
    <2>1. Goto(t, "reload") \/ Goto(t, "complete") \/ Complete(t)
      BY <1>17 DEF Close, CompleteNonBarrier
    <2>. QED
      BY <1>3, <1>5, <1>9, <2>1
  <1>18. CASE Unlock(t) \/ BarrierRelease(t) \/ BarrierRequeue(t) \/ TransferLock(t)
    <2>1. Goto(t, "complete") \/ Complete(t)
      BY <1>18 DEF Unlock, BarrierRelease, BarrierRequeue, TransferLock
    <2>. QED
      BY <1>3, <1>5, <1>9, <2>1
  <1>19. CASE UnlockProbe(t) \/ BarrierComplete(t) \/ Drain(t) \/ DrainProbe(t)
    <2>1. CASE dq_items = <<>>
      <3>1. dq_items' = dq_items
        BY <1>19 DEF UnlockProbe, BarrierComplete, Drain, DrainProbe
      <3>2. pc'[t] \notin {"close", "drain_stop"}
        BY <1>2, <1>19, <2>1 DEF UnlockProbe, BarrierComplete, Drain, DrainProbe
      <3>. QED
        BY <2>1, <3>1, <3>2 DEF Goal
    <2>2. CASE dq_items # <<>>
      <3>1. CASE UnlockProbe(t) \/ Drain(t) \/ DrainProbe(t)
        BY <1>3, <1>5, <2>2, <3>1 DEF UnlockProbe, Drain, DrainProbe
      <3>2. CASE BarrierComplete(t)
        <4>1. Goto(t, "open") \/ Goto(t, "pop_waiter") \/ Goto(t, "requeue")
          BY <2>2, <3>2 DEF BarrierComplete, Barrier, Waiter
        <4>. QED
          BY <1>3, <1>5, <4>1
      <3>. QED
        BY <1>19, <3>1, <3>2
    <2>. QED
      BY <2>1, <2>2
  <1>20. CASE PopWaiter(t) \/ DrainWaiter(t) \/ Open(t)
    <2>1. Goto(t, "transfer") \/ Goto(t, "drain_transfer") \/ Goto(t, "give")
      BY <1>20 DEF PopWaiter, DrainWaiter, HandOver, Open
    <2>. QED
      BY <1>3, <1>5, <2>1
  <1>21. CASE GiveReserve(t)
    <2>1. pc[t] = "give" /\ dc'[t] = Head(dq_items) /\ Head(dq_items) # 0
      <3>1. dq_items # <<>> /\ dc[t] = Head(dq_items) /\ pc[t] = "give"
        BY <1>1, <1>21 DEF GiveReserve, At, OwnerAt
      <3>. QED
        BY <1>1, <1>21, <3>1, ListFacts, Constants DEF GiveReserve
    <2>2. CASE pc' = pc
      BY <1>4, <1>5, <2>1, <2>2
    <2>3. CASE pc' # pc
      BY <1>2, <1>21, <2>1, <2>3 DEF GiveReserve, TakeMore, Goal
    <2>. QED
      BY <2>2, <2>3
  <1>22. CASE Give(t)
    <2>1. CASE Next2 = 0
      <3>1. dq_items # <<>> /\ dq_items' = Tail(dq_items)
        BY <1>22 DEF Give, CanPop, HeadLinked, Pop
      <3>2. dq_items' = <<>>
        BY <1>1, <2>1, <3>1, ListFacts
      <3>. QED
        BY <1>2, <1>22, <2>1, <3>2 DEF Give, Goal
    <2>2. CASE Next2 # 0
      <3>1. dc'[t] = Next2
        BY <1>1, <1>22 DEF Give, Types
      <3>2. pc'[t] \in {"close", "give"}
        BY <1>2, <1>22 DEF Give
      <3>. QED
        BY <1>5, <2>2, <3>1, <3>2 DEF Goal
    <2>. QED
      BY <2>1, <2>2
  <1>23. CASE Reload(t)
    <2>1. pc[t] = "reload" /\ dq_items' = dq_items /\ pc'[t] \in {"close", "give"}
      BY <1>2, <1>23 DEF Reload, At
    <2>2. HeadLinked => dc'[t] = Head(dq_items)
      BY <1>1, <1>23 DEF Reload, Types
    <2>3. HeadLinked => Head(dq_items) # 0
      BY <1>1, ListFacts, Constants DEF HeadLinked
    <2>. QED
      BY <1>5, <2>1, <2>2, <2>3 DEF Goal
  <1>24. CASE DrainUpgrade(t) \/ DrainReserve(t)
    <2>1. pc' = pc \/ pc'[t] = "drain_stop"
      BY <1>2, <1>24 DEF DrainUpgrade, DrainReserve, TakeMore
    <2>2. pc[t] \notin Releases
      BY <1>5, <1>24 DEF DrainUpgrade, DrainReserve, Draining
    <2>. QED
      BY <1>4, <1>24, <2>1, <2>2 DEF Goal
  <1>25. CASE DrainDrop(t) \/ DrainGive(t)
    <2>1. CASE DrainDrop(t)
      BY <1>4, <1>5, <2>1 DEF DrainDrop, Draining
    <2>2. CASE DrainGive(t)
      BY <1>3, <1>5, <2>2 DEF DrainGive
    <2>. QED
      BY <1>25, <2>1, <2>2
  <1>26. CASE DrainBarrier(t) \/ Redirected(t)
    BY <1>10, <1>26 DEF DrainBarrier, Redirected
  <1>27. CASE PopLane(t) \/ DrainTryLock(t) \/ DrainNarrow(t) \/ DrainUnlock(t)
    <2>1. Goto(t, "try_lock") \/ Goto(t, "drain") \/ Goto(t, "idle")
      BY <1>27 DEF PopLane, DrainTryLock, DrainNarrow, DrainUnlock
    <2>. QED
      BY <1>3, <1>5, <2>1
  <1>. QED
    BY <1>7, <1>11, <1>12, <1>13, <1>14, <1>15, <1>16, <1>17, <1>18, <1>19, <1>20, <1>21, <1>22, <1>23, <1>24, <1>25,
       <1>26, <1>27 DEF Acts, Step

\* The thread that pushes the first item comes to its wakeup.
LEMMA PushesFirst ==
  ASSUME Inv, NEW t \in Threads, Acts(t), Pushes(t)
  PROVE  /\ stack' = stack /\ Current(t) \in Blocks /\ dq_items' = Append(dq_items, Current(t)) /\ dq_items' # <<>>
         /\ dq_items = <<>> => pc'[t] = "link_first" /\ Pusher'
PROOF
  <1>1. Types /\ FrameAt(t) /\ PushTail(t)
    BY AtRousing DEF Inv, Threading, ThreadAt, Pushes
  <1>2. Current(t) \in Blocks /\ stack' = stack /\ dq_items' = Append(dq_items, Current(t))
    BY <1>1, HasBlock DEF PushTail, At, DrainPcs
  <1>3. dq_items' # <<>>
    BY <1>1, <1>2, AppendProperties DEF Types
  <1>4. dq_items = <<>> => pc'[t] = "link_first"
    BY <1>1 DEF PushTail, Goto, Types
  <1>. QED
    BY <1>2, <1>3, <1>4 DEF Pusher, Rousing

\* What the owner of the lock has seen stays true, whoever steps.
LEMMA KnowsStep ==
  ASSUME Inv, Inv', Wakeful, NEW t \in Threads, Acts(t), dq_width' = dq_width, NEW u \in Threads
  PROVE  KnowsAt(u)'
PROOF
  <1>1. Types /\ Keeps(t) /\ Places(t) /\ KnowsAt(u) /\ HeadAt
    BY After DEF Wakeful
  <1>2. CASE u # t
    <2>1. pc'[u] = pc[u] /\ dc'[u] = dc[u]
      BY <1>1, <1>2 DEF Keeps
    <2>2. CASE pc[u] \notin {"release", "unlock", "drain_done", "close", "drain_stop"}
      BY <2>1, <2>2 DEF KnowsAt
    <2>3. CASE pc[u] \in {"release", "unlock", "drain_done", "close", "drain_stop"}
      <3>1. dq_state.owner = u
        BY <2>3, OwnerOf DEF Completing, Giving, DrainLocked, DrainPcs
      <3>2. (dq_state.d \/ pc[t] \in {"wakeup", "push_waiter", "uncount"}) => dq_state'.d
        BY <1>2, <3>1, DirtyStays
      <3>3. pc[t] \notin Poppers
        BY <1>2, <3>1, OwnerOf DEF Poppers, Completing, Giving, DrainLocked, DrainPcs
      <3>4. dq_items' = dq_items \/ Pushes(t)
        BY <1>1, <3>3, ListMoved
      <3>5. ASSUME dq_items = <<>> \/ dq_state.d \/ Pusher PROVE dq_items' = <<>> \/ dq_state'.d \/ Pusher'
        <4>1. CASE dq_items = <<>>
          BY <3>4, <4>1, PushesFirst
        <4>2. CASE dq_items # <<>>
          BY <3>2, <3>5, <4>2, PusherStays
        <4>. QED
          BY <4>1, <4>2
      <3>6. ASSUME dq_state.d \/ InFlight # {} PROVE dq_state'.d \/ InFlight' # {}
        BY <3>2, <3>6, FlightStays
      <3>. QED
        BY <1>1, <2>1, <3>5, <3>6 DEF KnowsAt
    <2>. QED
      BY <2>2, <2>3
  <1>3. CASE u = t
    <2>1. CASE pc'[t] \notin Releases
      BY <1>3, <2>1 DEF KnowsAt, Releases
    <2>2. CASE pc'[t] = "drain_stop"
      <3>1. DrainUpgrade(t) \/ DrainReserve(t)
        BY <2>2, Leaving DEF Releases
      <3>2. dq_state'.d \/ InFlight' # {}
        BY <2>2, <3>1, StopsAtLimit, StoppedAfter
      <3>. QED
        BY <1>3, <2>2, <3>2 DEF KnowsAt
    <2>3. CASE pc'[t] \in Releases /\ pc'[t] # "drain_stop"
      <3>1. CASE pc'[t] = "close" /\ dc'[t] # 0
        BY <1>3, <3>1 DEF KnowsAt
      <3>2. CASE dq_items' = <<>>
        BY <1>3, <2>3, <3>2 DEF KnowsAt
      <3>3. CASE dq_items' = dq_items /\ ~HeadLinked /\ pc[t] = "reload"
        <4>1. dq_items = <<>> \/ Pusher
          BY <1>1, <3>3 DEF HeadAt, Pusher, Rousing
        <4>2. dq_items' = <<>> \/ Pusher'
          BY <3>3, <4>1, PusherStays
        <4>. QED
          BY <1>3, <2>3, <4>2 DEF KnowsAt
      <3>. QED
        BY <2>3, <3>1, <3>2, <3>3, Leaving
    <2>. QED
      BY <2>1, <2>2, <2>3
  <1>. QED
    BY <1>2, <1>3

\* The first item of the list is linked by the thread that pushed it.
LEMMA HeadAtStep ==
  ASSUME Inv, Wakeful, NEW t \in Threads, Acts(t), dq_width' = dq_width
  PROVE  HeadAt'
PROOF
  <1>. SUFFICES ASSUME dq_items' # <<>>, NEW h, h = Head(dq_items'), h \notin linked'
                PROVE  \E u \in Threads : pc'[u] = "link_first" /\ Current(u)' = h
    BY DEF HeadAt, HeadLinked
  <1>1. Types /\ Keeps(t) /\ Places(t) /\ HeadAt /\ ListOnce
    BY After DEF Wakeful, Inv, Listing
  <1>2. ASSUME dq_items # <<>>, h = Head(dq_items), h \notin linked, pc[t] # "link_first"
        PROVE  \E u \in Threads : pc'[u] = "link_first" /\ Current(u)' = h
    <2>1. PICK u \in Threads : pc[u] = "link_first" /\ Current(u) = h
      BY <1>1, <1>2 DEF HeadAt, HeadLinked
    <2>2. pc'[u] = pc[u] /\ stack'[u] = stack[u]
      BY <1>1, <1>2, <2>1 DEF Keeps
    <2>. QED
      BY <2>1, <2>2 DEF Current
  <1>3. CASE dq_items' = dq_items
    <2>1. linked \subseteq linked'
      <3>1. ~Pushes(t) /\ ~Popped
        <4>1. Pushes(t) => dq_items' # dq_items
          BY <1>1, PushesFirst, AppendProperties DEF Types
        <4>2. Popped => Len(dq_items') = Len(dq_items) - 1 /\ Len(dq_items) \in Nat
          BY <1>1, ListFacts DEF Popped, CanPop, HeadLinked, Pop
        <4>. QED
          BY <1>3, <4>1, <4>2
      <3>. QED
        BY <1>1, <3>1 DEF Places, Idles, Links, Comes, Hands, Readies, Runs, Stays, Popped, list
    <2>2. CASE pc[t] = "link_first"
      <3>1. linked' = linked \union {Current(t)}
        BY <2>2, AtRousing DEF PushHead, Rousing
      <3>2. Current(t) # h /\ h \notin linked
        BY <3>1
      <3>3. PICK u \in Threads : pc[u] = "link_first" /\ Current(u) = h
        BY <1>1, <1>3, <3>2 DEF HeadAt, HeadLinked
      <3>4. u # t
        BY <3>2, <3>3
      <3>5. pc'[u] = pc[u] /\ stack'[u] = stack[u]
        BY <1>1, <3>4 DEF Keeps
      <3>. QED
        BY <3>3, <3>5 DEF Current
    <2>3. CASE pc[t] # "link_first"
      BY <1>2, <1>3, <2>1, <2>3
    <2>. QED
      BY <2>2, <2>3
  <1>4. CASE Pushes(t)
    <2>1. /\ stack' = stack /\ Current(t) \in Blocks /\ dq_items' = Append(dq_items, Current(t))
          /\ dq_items = <<>> => pc'[t] = "link_first"
      BY <1>4, PushesFirst
    <2>2. pc[t] = "push" /\ linked' = linked
      BY <1>4 DEF Pushes
    <2>3. CASE dq_items = <<>>
      <3>1. h = Current(t)
        BY <1>1, <2>1, <2>3, AppendProperties DEF Types
      <3>. QED
        BY <2>1, <2>3, <3>1 DEF Current
    <2>4. CASE dq_items # <<>>
      <3>1. h = Head(dq_items)
        BY <1>1, <2>1, <2>4, AppendProperties, ListFacts DEF Types
      <3>. QED
        BY <1>2, <2>2, <2>4, <3>1
    <2>. QED
      BY <2>3, <2>4
  <1>5. CASE Popped
    <2>1. dq_items # <<>> /\ dq_items' = Tail(dq_items) /\ linked' = linked \ {Head(dq_items)}
      BY <1>5 DEF Popped, CanPop, HeadLinked, Pop
    <2>2. /\ Head(dq_items) = dq_items[1] /\ Next2 \in Blocks /\ h = Next2 /\ Len(dq_items) >= 2 /\ Len(dq_items) \in Nat
      BY <1>1, <2>1, ListFacts
    <2>3. h = dq_items[2]
      BY <2>2 DEF Next2
    <2>4. 2 \in {2} \intersect DOMAIN dq_items /\ 1 \in 1..Len(dq_items) /\ 2 \in 1..Len(dq_items)
      BY <1>1, <2>2 DEF Types
    <2>5. h \in linked /\ h # Head(dq_items)
      BY <1>1, <1>5, <2>2, <2>3, <2>4 DEF Popped, CanPop, ListOnce
    <2>. QED
      BY <2>1, <2>5
  <1>. QED
    BY <1>1, <1>3, <1>4, <1>5, ListMoved

\* A call goes on to submit its block, and a thread that hands the queue over makes its waiter ready.
LEMMA Submitting ==
  ASSUME Inv, NEW t \in Threads, Acts(t)
  PROVE  /\ pc[t] \in Early =>
              \/ pc'[t] \in Early /\ stack' = stack
              \/ PushTail(t)
              \/ status'[Current(t)] # "called"
         /\ pc[t] \in Transfers => status'[dc[t]] = "ready"
PROOF
  <1>. USE DEF list, target, locals, calls
  <1>. SUFFICES ASSUME pc[t] \in Early \union Transfers
                PROVE  \/ pc[t] \in Early /\ pc'[t] \in Early /\ stack' = stack
                       \/ pc[t] \in Early /\ PushTail(t)
                       \/ pc[t] \in Early /\ status'[Current(t)] # "called"
                       \/ pc[t] \in Transfers /\ status'[dc[t]] = "ready"
    BY DEF Early, Transfers
  <1>1. Types /\ FrameAt(t) /\ (pc[t] \in Early => Current(t) \in Blocks) /\ (pc[t] \in Transfers => dc[t] \in Blocks)
    BY HasBlock DEF Inv, Threading, ThreadAt, Listing, TransferAt, Early, DrainPcs
  <1>2. \A label : Goto(t, label) => pc'[t] = label
    BY <1>1 DEF Goto, Types
  <1>3. ~(t \in Blocks /\ Call(t)) /\ ~NestedCall(t) /\ ~Return(t) /\ ~Wait(t)
    BY DEF Early, Transfers, At, Call, NestedCall, Return, Wait
  <1>4. ~NeedOverride(t) /\ ~PushLink(t) /\ ~PushHead(t) /\ ~WakeupProbe(t) /\ ~Wakeup(t)
          /\ ~OverrideLast(t) /\ ~MergeQos(t) /\ ~PushWaiter(t)
    BY DEF Early, Transfers, At, NeedOverride, PushLink, PushHead, WakeupProbe, Wakeup, OverrideLast, MergeQos, PushWaiter
  <1>5. ~NonBarrierComplete(t) /\ ~UnlockProbe(t) /\ ~Unlock(t) /\ ~BarrierComplete(t) /\ ~BarrierRelease(t)
          /\ ~BarrierRequeue(t) /\ ~PopWaiter(t) /\ ~Open(t) /\ ~GiveReserve(t) /\ ~Give(t) /\ ~Close(t) /\ ~Reload(t)
    BY DEF Early, Transfers, At, NonBarrierComplete, UnlockProbe, Unlock, BarrierComplete, BarrierRelease,
           BarrierRequeue, PopWaiter, Open, GiveReserve, Give, Close, Reload
  <1>6. ~Redirected(t) /\ ~PopLane(t) /\ ~DrainTryLock(t) /\ ~Drain(t) /\ ~DrainUpgrade(t) /\ ~DrainWaiter(t)
          /\ ~DrainBarrier(t) /\ ~DrainDrop(t) /\ ~DrainReserve(t) /\ ~DrainGive(t) /\ ~DrainProbe(t)
          /\ ~DrainNarrow(t) /\ ~DrainUnlock(t)
    BY DEF Early, Transfers, At, Draining, Redirected, PopLane, DrainTryLock, Drain, DrainUpgrade, DrainWaiter,
           DrainBarrier, DrainDrop, DrainReserve, DrainGive, DrainProbe, DrainNarrow, DrainUnlock
  <1>7. CASE AsyncProbe(t) \/ SyncProbe(t)
    BY <1>2, <1>7 DEF AsyncProbe, SyncProbe, At, Early
  <1>8. CASE AsyncTry(t)
    <2>1. CASE CanAcquireAsync(dq_state)
      BY <1>1, <1>8, <2>1 DEF AsyncTry, Dispatch, At, Early, Types
    <2>2. CASE ~CanAcquireAsync(dq_state)
      BY <1>2, <1>8, <2>2 DEF AsyncTry, At, Early
    <2>. QED
      BY <2>1, <2>2
  <1>9. CASE SyncTry(t)
    <2>1. CASE CanReserveSync(dq_state)
      BY <1>1, <1>9, <2>1 DEF SyncTry, Enter, Run, At, Early, Types
    <2>2. CASE ~CanReserveSync(dq_state)
      BY <1>2, <1>9, <2>2 DEF SyncTry, At, Early
    <2>. QED
      BY <2>1, <2>2
  <1>10. CASE BarrierTry(t)
    <2>1. CASE Free(dq_state)
      BY <1>1, <1>10, <2>1 DEF BarrierTry, Enter, Run, At, Early, Types
    <2>2. CASE ~Free(dq_state)
      BY <1>2, <1>10, <2>2 DEF BarrierTry, At, Early
    <2>. QED
      BY <2>1, <2>2
  <1>11. CASE Prepare(t)
    BY <1>2, <1>11 DEF Prepare, At, Early
  <1>12. CASE PushTail(t)
    BY <1>12 DEF PushTail, At, Early
  <1>13. CASE TransferLock(t)
    <2>1. pc[t] \in Transfers /\ status' = [status EXCEPT ![dc[t]] = "ready"]
      BY <1>13 DEF TransferLock, Transfers
    <2>. QED
      BY <1>1, <2>1 DEF Types
  <1>. QED
    BY <1>3, <1>4, <1>5, <1>6, <1>7, <1>8, <1>9, <1>10, <1>11, <1>12, <1>13 DEF Acts, Step

\* A block that has been called is on its way.
LEMMA WaitsStep ==
  ASSUME Inv, Wakeful, NEW t \in Threads, Acts(t), dq_width' = dq_width, NEW b \in Blocks
  PROVE  WaitsAt(b)'
PROOF
  <1>. SUFFICES ASSUME status'[b] = "called"
                PROVE  \/ OnList(b)'
                       \/ \E u \in Threads : pc'[u] \in Early /\ Current(u)' = b
                       \/ \E u \in Threads : pc'[u] \in Transfers /\ dc'[u] = b
    BY DEF WaitsAt
  <1>1. Types /\ Keeps(t) /\ Marks(t) /\ Places(t) /\ WaitsAt(b)
    BY After DEF Wakeful
  <1>2. CASE status[b] = "new"
    <2>1. ~Calm
      BY <1>2 DEF Calm
    <2>2. \A c \in Blocks : ~Readied(c) /\ ~Ran(c)
      BY <1>1, <1>2 DEF Readied, Ran, Types
    <2>3. ~Ended(t)
      BY <1>1, <1>2 DEF Ended, Types
    <2>4. PICK c \in Blocks : Called(t, c) /\ pc'[t] \in Early
      BY <1>1, <2>1, <2>2, <2>3 DEF Places, Idles, Pushes, Links, Hands, Comes, Readies, Runs
    <2>5. c = b
      BY <1>1, <1>2, <2>4 DEF Called, Types
    <2>. QED
      BY <2>4, <2>5 DEF Called
  <1>3. CASE status[b] = "called"
    <2>1. CASE OnList(b)
      <3>1. CASE Popped /\ b = Head(dq_items)
        <4>1. pc'[t] \in Transfers
          BY <1>1, <3>1, PoppedHead
        <4>2. Hands(t)
          BY <1>1, <4>1 DEF Places, Idles, Pushes, Links, Comes, Readies, Runs, Away, Early, Transfers
        <4>. QED
          BY <3>1, <4>1, <4>2 DEF Hands
      <3>2. CASE ~(Popped /\ b = Head(dq_items))
        BY <1>1, <2>1, <3>2, ListMoved
      <3>. QED
        BY <3>1, <3>2
    <2>2. ASSUME NEW u \in Threads, pc[u] \in Early, Current(u) = b
          PROVE  OnList(b)' \/ \E v \in Threads : pc'[v] \in Early /\ Current(v)' = b
      <3>1. CASE u # t
        BY <1>1, <2>2, <3>1 DEF Keeps, Current
      <3>2. CASE u = t
        <4>1. (pc'[t] \in Early /\ stack' = stack) \/ PushTail(t)
          BY <2>2, <3>2, Submitting
        <4>2. CASE pc'[t] \in Early /\ stack' = stack
          BY <2>2, <3>2, <4>2 DEF Current
        <4>3. CASE PushTail(t)
          <5>1. dq_items' = Append(dq_items, b) /\ dq_items \in Seq(Blocks)
            BY <1>1, <2>2, <3>2, <4>3 DEF PushTail, Types
          <5>2. Len(dq_items') = Len(dq_items) + 1 /\ dq_items'[Len(dq_items) + 1] = b /\ Len(dq_items) \in Nat
            BY <5>1, AppendProperties
          <5>. QED
            BY <5>2 DEF OnList
        <4>. QED
          BY <4>1, <4>2, <4>3
      <3>. QED
        BY <3>1, <3>2
    <2>3. ASSUME NEW u \in Threads, pc[u] \in Transfers, dc[u] = b
          PROVE  \E v \in Threads : pc'[v] \in Transfers /\ dc'[v] = b
      <3>1. u # t
        BY <2>3, Submitting
      <3>. QED
        BY <1>1, <2>3, <3>1 DEF Keeps
    <2>. QED
      BY <1>1, <1>3, <2>1, <2>2, <2>3 DEF WaitsAt
  <1>. QED
    BY <1>1, <1>2, <1>3, StatusMoves

LEMMA WakefulStep ==
  ASSUME Inv, Inv', Wakeful, Next
  PROVE  Wakeful'
PROOF
  <1>1. PICK t \in Threads : Acts(t) /\ dq_width' = dq_width
    BY Actor
  <1>. QED
    BY <1>1, AwakeStep, HeadAtStep, KnowsStep, WaitsStep DEF Wakeful

LEMMA WakefulStays ==
  ASSUME Wakeful, UNCHANGED vars
  PROVE  Wakeful'
PROOF
  <1>. USE DEF vars, list, target, locals, calls
  <1>1. InFlight' = InFlight /\ (Pusher' <=> Pusher)
    BY DEF InFlight, Submitted, Barrier, Current, Pusher
  <1>2. Awake' /\ HeadAt'
    BY <1>1 DEF Wakeful, Awake, HeadAt, Locked, HeadLinked, Current
  <1>3. \A t \in Threads : KnowsAt(t)'
    BY <1>1 DEF Wakeful, KnowsAt
  <1>4. \A b \in Blocks : WaitsAt(b)'
    BY DEF Wakeful, WaitsAt, OnList, Current
  <1>. QED
    BY <1>2, <1>3, <1>4 DEF Wakeful

LEMMA WakefulInit ==
  ASSUME Init
  PROVE  Wakeful
PROOF
  <1>1. Awake /\ HeadAt
    BY DEF Init, Idle, Awake, HeadAt
  <1>2. \A t \in Threads : KnowsAt(t)
    BY DEF Init, KnowsAt
  <1>3. \A b \in Blocks : WaitsAt(b)
    BY DEF Init, WaitsAt
  <1>. QED
    BY <1>1, <1>2, <1>3 DEF Wakeful

\* ... of every queue.
LEMMA LaneWakeful == Spec => []Wakeful
PROOF
  <1>1. Init => Wakeful
    BY WakefulInit
  <1>2. Inv /\ Inv' /\ Wakeful /\ [Next]_vars => Wakeful'
    BY WakefulStep, WakefulStays
  <1>. QED
    BY <1>1, <1>2, LaneInvariant, PTL DEF Spec

\* When nothing moves nobody holds the lane, nothing is in flight and the list is empty.
LEMMA InvStranded ==
  ASSUME Inv, Wakeful
  PROVE  NothingStranded
PROOF
  <1>. SUFFICES ASSUME Quiet, ~SleepsInBlock
                PROVE  dq_items = <<>> /\ [dq_state EXCEPT !.q = FALSE] = Idle /\ \A t \in Threads : pc[t] = "idle"
    BY DEF NothingStranded
  <1>1. /\ Types /\ dq_state \in WordRange /\ dq_width \in Nat /\ Users \in Nat /\ (Users = 0 <=> InFlight = {})
        /\ root = {} /\ pushes = 0
    BY Numbers DEF Inv, Quiet
  <1>2. ASSUME NEW t \in Threads
        PROVE  /\ pc[t] \in {"idle", "wait"} /\ (stack[t] = <<>> <=> pc[t] = "idle")
               /\ stack[t] # <<>> => Len(stack[t]) = 1 /\ Current(t) \notin events /\ Head(stack[t]).after \notin DrainAfter
               /\ Count(t) = 0
    <2>1. /\ Asleep(t) /\ ~(Len(stack[t]) > 1) /\ FrameAt(t)
          /\ Len(stack[t]) \in Nat /\ (stack[t] # <<>> <=> Len(stack[t]) >= 1)
      BY <1>1, StackFacts DEF Quiet, SleepsInBlock, Inv, Threading, ThreadAt
    <2>2. pc[t] \in {"idle", "wait"} /\ (stack[t] = <<>> <=> pc[t] = "idle")
      BY <2>1 DEF Asleep, FrameAt, DrainPcs
    <2>3. stack[t] # <<>> => Len(stack[t]) = 1 /\ Current(t) \notin events /\ Head(stack[t]).after \notin DrainAfter
      <3>1. stack[t] # <<>> => Len(stack[t]) = 1
        <4>. DEFINE n == Len(stack[t])
        <4>1. n \in Nat /\ ~(n > 1) /\ (stack[t] # <<>> => n >= 1)
          BY <2>1
        <4>. HIDE DEF n
        <4>2. stack[t] # <<>> => n = 1
          BY <4>1
        <4>. QED
          BY <4>2 DEF n
      <3>2. stack[t] # <<>> => Current(t) \notin events
        BY <2>1, <2>2 DEF Asleep
      <3>3. stack[t] # <<>> => Head(stack[t]).after \notin DrainAfter
        BY <2>1, <2>2 DEF FrameAt
      <3>. QED
        BY <3>1, <3>2, <3>3
    <2>4. Count(t) = 0
      BY <2>1, <2>2, <2>3 DEF Count
    <2>. QED
      BY <2>2, <2>3, <2>4
  <1>3. ~Locked(dq_state)
    <2>1. ASSUME NEW t \in Threads PROVE ~Holds(t)
      <3>1. pc[t] \notin Completing \union Giving \union DrainLocked
        BY <1>2 DEF Completing, Giving, DrainLocked, DrainPcs
      <3>2. ~RunsBarrier(t) /\ ~DrainRuns(t)
        BY <1>2 DEF RunsBarrier, DrainRuns
      <3>3. ~Handed(t)
        BY <1>2 DEF Handed
      <3>. QED
        BY <3>1, <3>2, <3>3 DEF Holds, HasBarrier
    <2>2. \A t \in Threads : dq_state.owner # t
      BY <2>1 DEF Inv, Locking, LockAt
    <2>. QED
      BY <1>1, <2>2 DEF Locked, WordRange
  <1>4. ~dq_state.e
    <2>1. ASSUME NEW t \in Workers PROVE ~Drains(t)
      <3>1. t \in Threads
        BY Constants
      <3>2. pc[t] \notin DrainPcs
        BY <1>2, <3>1 DEF DrainPcs
      <3>3. ASSUME NEW i \in DOMAIN stack[t], stack[t][i].after \in {"drain_probe", "drain_more"} PROVE FALSE
        <4>1. stack[t] \in Seq(Frames) /\ (stack[t] # <<>> => Head(stack[t]) = stack[t][1])
          BY <1>1, <3>1, StackFacts
        <4>2. Len(stack[t]) = 1 /\ i = 1
          BY <1>2, <3>1, <3>3, <4>1
        <4>. QED
          BY <1>2, <3>1, <3>3, <4>1, <4>2 DEF DrainAfter
      <3>. QED
        BY <3>2, <3>3 DEF Drains
    <2>2. {t \in Workers : Drains(t)} = {}
      BY <2>1
    <2>. QED
      BY <1>1, <2>2, FS_EmptySet DEF Inv, EnqueuedOnce
  <1>5. ASSUME NEW b \in Blocks, status[b] \in {"ready", "running"} PROVE FALSE
    <2>1. CASE status[b] = "ready"
      <3>1. b \in events /\ Waiter(b)
        BY <1>1, <2>1 DEF Inv, Listing, PlaceAt
      <3>2. caller[b] \in Threads /\ stack[caller[b]] # <<>> /\ Current(caller[b]) = b
        BY <2>1, <3>1 DEF Inv, Threading, WaiterAt
      <3>. QED
        BY <1>2, <3>1, <3>2
    <2>2. CASE status[b] = "running"
      <3>1. PICK t \in Threads : \E j \in 1..Count(t) : Live(t)[j].block = b
        BY <2>2 DEF Inv, Threading, LiveSome
      <3>. QED
        BY <1>2, <3>1
    <2>. QED
      BY <1>5, <2>1, <2>2
  <1>6. InFlight = {}
    BY <1>2, <1>5 DEF InFlight, Submitted
  <1>7. dq_items = <<>> /\ ~dq_state.d
    <2>1. ~Pusher
      BY <1>2 DEF Pusher, Rousing
    <2>. QED
      BY <1>3, <1>4, <1>6, <2>1 DEF Wakeful, Awake
  <1>8. ~dq_state.pb
    BY <1>7 DEF Inv, Locking, Pending
  <1>9. ~dq_state.ib /\ dq_state.used = 0
    BY <1>1, <1>3, <1>6, <1>8, Word
  <1>10. [dq_state EXCEPT !.q = FALSE] = Idle
    <2>. DEFINE word == [dq_state EXCEPT !.q = FALSE]
    <2>1. dq_state.owner = NoThread
      BY <1>3 DEF Locked
    <2>2. /\ word \in WordRange /\ word.used = 0 /\ word.owner = NoThread /\ ~word.q
          /\ ~word.e /\ ~word.d /\ ~word.pb /\ ~word.ib
      BY <1>1, <1>4, <1>7, <1>8, <1>9, <2>1 DEF WordRange
    <2>. HIDE DEF word
    <2>3. word = Idle
      BY <2>2 DEF Idle, WordRange
    <2>. QED
      BY <2>3 DEF word
  <1>11. ASSUME NEW t \in Threads PROVE pc[t] = "idle"
    <2>. SUFFICES ASSUME pc[t] = "wait" PROVE FALSE
      BY <1>2
    <2>1. Current(t) \in Blocks /\ status[Current(t)] \in {"called", "ready"}
      <3>1. stack[t] # <<>>
        BY <1>2
      <3>2. Current(t) \in Blocks
        BY <1>1, <3>1, StackFacts
      <3>. QED
        BY <3>2 DEF Inv, Threading, ThreadAt, CallAt, Submits, Calling, Waits
    <2>2. status[Current(t)] = "called"
      BY <1>5, <2>1
    <2>3. ~OnList(Current(t))
      BY <1>7 DEF OnList
    <2>4. \A u \in Threads : pc[u] \notin Early \union Transfers
      BY <1>2 DEF Early, Transfers
    <2>. QED
      BY <2>1, <2>2, <2>3, <2>4 DEF Wakeful, WaitsAt
  <1>. QED
    BY <1>7, <1>10, <1>11

\* No wakeup is lost on a queue of any width: when nothing moves any more, nobody waits for the
\* queue and its list is empty, unless a block waits for the queue it runs on.
THEOREM LaneWakes == Spec => []NothingStranded
PROOF
  <1>1. Inv /\ Wakeful => NothingStranded
    BY InvStranded
  <1>. QED
    BY <1>1, LaneInvariant, LaneWakeful, PTL

\* A block that starts after the others of earlier calls, or before the wakeup.
LEMMA StepOvertakes ==
  ASSUME Inv, Ordering, Awake, NEW t \in Threads, Acts(t), NEW b \in Started' \ Started
  PROVE  prior[b] \subseteq Started \/ Pusher
PROOF
  <1>1. /\ Types /\ Marks(t) /\ Places(t) /\ TriedAt(t) /\ PlaceAt(b) /\ b \in Blocks
        /\ status'[b] \in {"ready", "running", "done"} /\ status[b] \in {"new", "called"}
    <2>1. b \in Blocks /\ status'[b] \in {"ready", "running", "done"} /\ status[b] \notin {"ready", "running", "done"}
      BY DEF Started
    <2>. QED
      BY <2>1, Marking, Placing DEF Inv, Ordering, Listing, Types
  <1>2. Ahead(b) = {} => prior[b] \subseteq Started
    <2>. SUFFICES ASSUME Ahead(b) = {}, NEW a \in prior[b] PROVE a \in Started
      OBVIOUS
    <2>1. a \in Blocks /\ status[a] # "new" /\ status[a] # "called"
      BY <1>1 DEF Ordering, PriorAt, ReturnedAt, Types, Ahead
    <2>. QED
      BY <1>1, <2>1 DEF Started, Types
  <1>3. ~Calm /\ ~Ended(t) /\ \A c \in Blocks : ~Called(t, c)
    <2>1. ~Calm
      BY <1>1 DEF Calm
    <2>2. ~Ended(t)
      <3>1. ASSUME Ended(t) PROVE b = Current(t)
        BY <1>1, <3>1 DEF Ended, Types
      <3>. QED
        BY <1>1, <3>1, EndedRuns
    <2>3. \A c \in Blocks : ~Called(t, c)
      <3>1. status \in [Blocks -> {"new", "called", "ready", "running", "done"}]
        BY <1>1 DEF Types
      <3>2. ASSUME NEW c \in Blocks, Called(t, c) PROVE FALSE
        <4>1. status[c] = "new" /\ status' = [status EXCEPT ![c] = "called"]
          BY <3>2 DEF Called
        <4>2. status'[b] \in {status[b], "called"}
          BY <1>1, <3>1, <4>1
        <4>. QED
          BY <1>1, <4>2
      <3>. QED
        BY <3>2
    <2>. QED
      BY <2>1, <2>2, <2>3
  <1>4. \E c \in Blocks : Readies(t, c) \/ Runs(t, c)
    BY <1>1, <1>3 DEF Places, Idles, Pushes, Links, Hands, Comes
  <1>5. Readies(t, b) \/ Runs(t, b)
    <2>1. PICK c \in Blocks : Readies(t, c) \/ Runs(t, c)
      BY <1>4
    <2>2. c = b
      BY <1>1, <2>1 DEF Readies, Runs, Readied, Ran, Types
    <2>. QED
      BY <2>1, <2>2
  <1>6. status[b] = "called"
    BY <1>1, <1>5 DEF Readies, Runs, Readied, Ran
  <1>7. CASE Readies(t, b)
    <2>1. CASE pc[t] = "async_try" /\ b = Current(t)
      BY <1>1, <1>2, <2>1 DEF TriedAt
    <2>2. CASE pc[t] \in Transfers /\ b = dc[t]
      BY <1>1, <1>2, <2>2 DEF TriedAt
    <2>3. CASE b = Head(dq_items) /\ CanPop
      BY <1>2, <2>3, HeadFirst DEF CanPop, HeadLinked
    <2>. QED
      BY <1>7, <2>1, <2>2, <2>3 DEF Readies
  <1>8. CASE Runs(t, b)
    <2>1. CASE pc[t] = "sync_try" /\ b = Current(t)
      BY <1>1, <1>2, <2>1 DEF TriedAt
    <2>2. CASE pc[t] = "barrier_try"
      <3>1. dq_state = Idle
        <4>1. Ran(b)
          BY <1>8 DEF Runs
        <4>. QED
          BY <1>1, <2>2, <4>1, Beginning DEF Free
      <3>2. ~Locked(dq_state) /\ ~dq_state.e /\ dq_state.used = 0
        BY <3>1 DEF Idle, Locked
      <3>3. InFlight = {}
        <4>1. Users \in Nat /\ (Users = 0 <=> InFlight = {}) /\ dq_state.used >= Users
          BY <1>1, FlightFacts, Word
        <4>. QED
          BY <3>2, <4>1
      <3>4. CASE Ahead(b) = {}
        BY <1>2, <3>4
      <3>5. CASE Ahead(b) # {}
        <4>1. dq_items # <<>>
          BY <1>1, <3>5, HeadFirst
        <4>. QED
          BY <3>2, <3>3, <4>1 DEF Awake
      <3>. QED
        BY <3>4, <3>5
    <2>3. CASE b \in root \/ b \in events
      BY <1>1, <1>6, <2>3 DEF PlaceAt
    <2>4. CASE b = Head(dq_items) /\ CanPop
      BY <1>2, <2>4, HeadFirst DEF CanPop, HeadLinked
    <2>. QED
      BY <1>8, <2>1, <2>2, <2>3, <2>4 DEF Runs
  <1>. QED
    BY <1>5, <1>7, <1>8

\* On a queue of any width a block overtakes a block of an earlier call only as long as the thread
\* that pushed the first item of the list has not come to its wakeup.
THEOREM LaneOvertakes == Spec => OvertakesBeforeWakeup
PROOF
  <1>. DEFINE Overtakes == \A b \in Started' \ Started : prior[b] \subseteq Started
                \/ \E t \in Threads : pc[t] \in {"link_first", "wakeup_probe", "wakeup", "push_waiter"}
  <1>1. Inv /\ Ordering /\ Wakeful /\ [Next]_vars => [Overtakes]_vars
    <2>. SUFFICES ASSUME Inv, Ordering, Wakeful, Next, NEW b \in Started' \ Started
                  PROVE  prior[b] \subseteq Started
                           \/ \E t \in Threads : pc[t] \in {"link_first", "wakeup_probe", "wakeup", "push_waiter"}
      OBVIOUS
    <2>1. PICK t \in Threads : Acts(t)
      BY Actor
    <2>. QED
      BY <2>1, StepOvertakes DEF Wakeful, Pusher, Rousing
  <1>2. Spec => [][Overtakes]_vars
    BY <1>1, LaneInvariant, LaneOrder, LaneWakeful, PTL DEF Spec
  <1>. QED
    BY <1>2 DEF OvertakesBeforeWakeup
=============================================================================
