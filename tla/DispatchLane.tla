----------------------------- MODULE DispatchLane -----------------------------
(***************************************************************************)
(* The state word and the item list of a dispatch queue (src/queue.c,      *)
(* src/inline_internal.h, src/queue_internal.h): a lane of a given width   *)
(* whose target is a root queue.  Blocks come in by dispatch_async,        *)
(* dispatch_barrier_async, dispatch_sync and dispatch_barrier_sync, and    *)
(* run on their callers or on the workers of the root queue.               *)
(*                                                                         *)
(* An action is one atomic access to dq_state or to the list (or two that  *)
(* only their thread can tell apart).  A block is numbered in the order of *)
(* the calls, and a call that no block makes comes from a thread of its    *)
(* own, with the same number: what a thread did in an earlier call leaves  *)
(* no trace in the queue but the order of the calls.                       *)
(***************************************************************************)
EXTENDS Integers, Sequences, FiniteSets

CONSTANTS Widths,    \* the widths of queues that are looked at; 1 is a serial queue
          Calls,     \* bound on the blocks submitted
          Workers,   \* threads of the root queue
          Depth,     \* 1: blocks make no calls; 2: they may call dispatch_sync
          Kinds,     \* the calls made: a subset of AllKinds
          NoThread

Blocks == 1..Calls
Threads == Blocks \union Workers
AllKinds == {"async", "barrier_async", "sync", "barrier_sync"}

ASSUME LaneAssumption == /\ Widths \subseteq Nat \ {0} /\ Calls \in Nat /\ Depth \in {1, 2}
                         /\ Kinds \subseteq AllKinds /\ IsFiniteSet(Workers)
                         /\ Workers \intersect Blocks = {}
                         /\ NoThread \notin Workers \union Blocks

VARIABLES
  dq_width,    \* the number of readers allowed, fixed when the queue is created
  dq_state,    \* the word: [used, ib, pb, d, e, q, owner], see the operators below
  dq_items,    \* the list, in the order of the exchanges of its tail
  linked,      \* the blocks of the list whose predecessor (or the head) points to them
  root,        \* the root queue: redirected blocks
  pushes,      \* the root queue: how often the lane itself is on it
  kind,        \* kind[b]: how b was submitted; "none" before, and after b is done
  caller,      \* caller[b]: the thread that submitted b (dsc_waiter)
  events,      \* waiters whose dsc_event was signalled
  pc,          \* pc[t]: where thread t is
  stack,       \* stack[t]: the blocks t submits or runs, the innermost first: [block, after]
  own,         \* own[t]: what a drainer owns of the word: [ib, w]
  dc,          \* dc[t]: the next item of a drainer, 0 for NULL
  then,        \* then[t]: what t does after completing a barrier: return or wait
  crash,       \* "dispatch_sync called on queue already owned by current thread"
  status,      \* history: "new", "called", "ready" (dequeued), "running", "done"
  returned,    \* history: the blocks whose submission has returned
  prior        \* history: prior[b]: the blocks that had returned and were not done when the
               \* submission of b began; none after b is done

list == <<dq_items, linked>>
target == <<root, pushes>>
locals == <<own, dc, then>>
calls == <<kind, caller, prior>>
vars == <<dq_width, dq_state, list, target, calls, events, pc, stack, locals, crash, status, returned>>
-----------------------------------------------------------------------------
(***************************************************************************)
(* The word.  "used" is the width in use, which the code keeps as a signed *)
(* offset below the full bit; ib: in barrier; pb: pending barrier, with    *)
(* all width but one reserved; d: dirty; e: enqueued on the target; owner: *)
(* the drain lock; q: max_qos is set.  All the calls come with the same    *)
(* quality of service, above the queue's own, so it is set or it is not.   *)
(* Suspension is left out.                                                 *)
(***************************************************************************)
Idle == [used |-> 0, ib |-> FALSE, pb |-> FALSE, d |-> FALSE, e |-> FALSE, q |-> FALSE, owner |-> NoThread]

Runnable(s) == ~s.ib /\ s.used < dq_width
SyncRunnable(s) == ~s.ib
Locked(s) == s.owner # NoThread

\* Mutation: a barrier_sync takes a queue nobody holds, though it is enqueued.
Free_Unlocked(s) == ~Locked(s) /\ s.used = 0

Free(s) == s = Idle

\* Mutation: the width is not looked at.
CanAcquireAsync_Unbounded(s) == ~s.ib /\ ~s.d /\ ~s.pb

\* _dispatch_queue_try_acquire_async and _dispatch_queue_try_reserve_sync_width
CanAcquireAsync(s) == Runnable(s) /\ ~s.d /\ ~s.pb
CanReserveSync(s) == SyncRunnable(s) /\ ~s.d /\ ~s.pb
Take(s, n) == [s EXCEPT !.used = @ + n]

\* Nobody else has width: a pending barrier has reserved all but one, or all is free.
WholeWidthFree(s) == s.used = IF s.pb THEN dq_width - 1 ELSE 0

\* The full width, in a barrier, with the drain lock; the enqueued bit is kept.
FullLock(s, t) ==
  [s EXCEPT !.used = dq_width, !.ib = TRUE, !.pb = FALSE, !.d = FALSE, !.owner = t]

\* What the drainer gives back, with the drain lock.
Release(s, o) == [s EXCEPT !.used = @ - o.w, !.ib = @ /\ ~o.ib, !.owner = NoThread]

\* _dispatch_queue_adjust_owned: the next item is a barrier, so it is made pending.
Reserve(s) == [s EXCEPT !.pb = TRUE, !.used = @ + dq_width - 1]
-----------------------------------------------------------------------------
Waiter(b) == kind[b] \in {"sync", "barrier_sync"}                 \* DC_FLAG_SYNC_WAITER
Barrier(b) == dq_width = 1 \/ kind[b] \in {"barrier_async", "barrier_sync"}

Running == ~crash
At(t, label) == Running /\ pc[t] = label
Goto(t, label) == pc' = [pc EXCEPT ![t] = label]
Own(t, ib, w) == own' = [own EXCEPT ![t] = [ib |-> ib, w |-> w]]

\* The thread returns from the innermost of its calls, or a worker is done with a block.
Leave(t) ==
  LET frames == stack[t] IN
  /\ stack' = [stack EXCEPT ![t] = IF frames = <<>> THEN <<>> ELSE Tail(@)]
  /\ Goto(t, IF Len(frames) <= 1 THEN "idle" ELSE "body")
  /\ returned' = returned \union {b \in Blocks : caller[b] = t /\ frames # <<>> /\ frames[1].block = b}
  /\ UNCHANGED then

\* The end of the completion of a block, or of the push of a waiter that took the lock.
Complete(t) ==
  IF then[t] = "wait"
  THEN /\ Goto(t, "wait") /\ then' = [then EXCEPT ![t] = "return"]
       /\ UNCHANGED <<stack, returned>>
  ELSE Leave(t)

Enqueue(old, new) == pushes' = IF new.e /\ ~old.e THEN pushes + 1 ELSE pushes

\* os_mpsc_get_head and os_mpsc_pop_head wait for the enqueuer to write the link they need.
HeadLinked == dq_items # <<>> /\ Head(dq_items) \in linked
CanPop == HeadLinked /\ \A i \in {2} \intersect DOMAIN dq_items : dq_items[i] \in linked
Pop == dq_items' = Tail(dq_items) /\ linked' = linked \ {Head(dq_items)}
Next2 == IF Len(dq_items) = 1 THEN 0 ELSE dq_items[2]

\* A block that is not a barrier leaves the list: its waiter is woken, or it goes to the root queue.
Dispatch(b) ==
  /\ IF Waiter(b) THEN events' = events \union {b} /\ UNCHANGED root
                  ELSE root' = root \union {b} /\ UNCHANGED events
  /\ status' = [status EXCEPT ![b] = "ready"]

Current(t) == Head(stack[t]).block

\* A thread starts a block, and the waiter its own; "after" is how it goes on when the block ends.
Run(t, b, frames, after) ==
  /\ stack' = [stack EXCEPT ![t] = <<[block |-> b, after |-> after]>> \o frames]
  /\ status' = [status EXCEPT ![b] = "running"]
  /\ Goto(t, "body")

Enter(t, after) == Run(t, Current(t), Tail(stack[t]), after)
-----------------------------------------------------------------------------
Init == /\ dq_width \in Widths
        /\ dq_state = Idle
        /\ dq_items = <<>> /\ linked = {}
        /\ root = {} /\ pushes = 0
        /\ kind = [b \in Blocks |-> "none"]
        /\ caller = [b \in Blocks |-> NoThread]
        /\ events = {}
        /\ pc = [t \in Threads |-> "idle"]
        /\ stack = [t \in Threads |-> <<>>]
        /\ own = [t \in Threads |-> [ib |-> FALSE, w |-> 0]]
        /\ dc = [t \in Threads |-> 0]
        /\ then = [t \in Threads |-> "return"]
        /\ crash = FALSE
        /\ status = [b \in Blocks |-> "new"]
        /\ returned = {}
        /\ prior = [b \in Blocks |-> {}]

(***************************************************************************)
(* The calls: dispatch_async, dispatch_barrier_async, dispatch_sync and    *)
(* dispatch_barrier_sync, up to their first look at the queue.             *)
(***************************************************************************)
Entry(k) == CASE k = "barrier_async" -> "push"
              [] k = "async"         -> IF dq_width = 1 THEN "push" ELSE "async_probe"
              [] k = "barrier_sync"  -> "barrier_try"
              [] k = "sync"          -> IF dq_width = 1 THEN "barrier_try" ELSE "sync_probe"

Submit(t, b, k) ==
  /\ status[b] = "new" /\ \A a \in 1..(b - 1) : status[a] # "new"
  /\ kind' = [kind EXCEPT ![b] = k]
  /\ caller' = [caller EXCEPT ![b] = t]
  /\ prior' = [prior EXCEPT ![b] = {a \in returned : status[a] # "done"}]
  /\ status' = [status EXCEPT ![b] = "called"]
  /\ stack' = [stack EXCEPT ![t] = <<[block |-> b, after |-> "none"]>> \o @]
  /\ Goto(t, Entry(k))
  /\ UNCHANGED <<dq_state, list, target, events, locals, crash, returned>>

\* On a serial queue every block is a barrier: the two pairs of calls take the same path.
Distinct == IF dq_width = 1 THEN Kinds \ {"barrier_async", "barrier_sync"} ELSE Kinds

Call(b) == \E k \in Distinct : At(b, "idle") /\ Submit(b, b, k)

\* A block calls dispatch_sync on the queue it runs on.
NestedCall(t) ==
  /\ At(t, "body") /\ Len(stack[t]) < Depth
  /\ \E b \in Blocks, k \in Kinds \intersect {"sync"} : Submit(t, b, k)

\* _dispatch_lane_concurrent_push: the list is empty, so try to bypass it.
AsyncProbe(t) ==
  /\ At(t, "async_probe")
  /\ Goto(t, IF dq_items = <<>> THEN "async_try" ELSE "push")
  /\ UNCHANGED <<dq_state, list, target, calls, events, stack, locals, crash, status, returned>>

AsyncTry(t) ==
  /\ At(t, "async_try")
  /\ IF CanAcquireAsync(dq_state)
     THEN /\ dq_state' = Take(dq_state, 1)
          /\ Dispatch(Current(t)) /\ Leave(t)
     ELSE /\ Goto(t, "push")
          /\ UNCHANGED <<dq_state, root, events, stack, then, status, returned>>
  /\ UNCHANGED <<list, pushes, calls, own, dc, crash>>

\* Mutation: the list is not looked at.
SyncProbe_Blind(t) ==
  /\ At(t, "sync_probe") /\ Goto(t, "sync_try")
  /\ UNCHANGED <<dq_state, list, target, calls, events, stack, locals, crash, status, returned>>

\* _dispatch_sync_f_inline on a concurrent queue
SyncProbe(t) ==
  /\ At(t, "sync_probe")
  /\ Goto(t, IF dq_items = <<>> THEN "sync_try" ELSE "prepare")
  /\ UNCHANGED <<dq_state, list, target, calls, events, stack, locals, crash, status, returned>>

SyncTry(t) ==
  /\ At(t, "sync_try")
  /\ IF CanReserveSync(dq_state)
     THEN dq_state' = Take(dq_state, 1) /\ Enter(t, "uncount")
     ELSE Goto(t, "prepare") /\ UNCHANGED <<dq_state, stack, status>>
  /\ UNCHANGED <<list, target, calls, events, locals, crash, returned>>

\* _dispatch_queue_try_acquire_barrier_sync
BarrierTry(t) ==
  /\ At(t, "barrier_try")
  /\ IF Free(dq_state)
     THEN dq_state' = FullLock(dq_state, t) /\ Enter(t, IF dq_width > 1 THEN "complete" ELSE "unlock_probe")
     ELSE Goto(t, "prepare") /\ UNCHANGED <<dq_state, stack, status>>
  /\ UNCHANGED <<list, target, calls, events, locals, crash, returned>>

\* The head of __DISPATCH_WAIT_FOR_QUEUE__
Prepare(t) ==
  /\ At(t, "prepare")
  /\ IF dq_state.owner = t
     THEN crash' = TRUE /\ UNCHANGED pc
     ELSE Goto(t, "push") /\ UNCHANGED crash
  /\ UNCHANGED <<dq_state, list, target, calls, events, stack, locals, status, returned>>
-----------------------------------------------------------------------------
(***************************************************************************)
(* _dispatch_lane_push and _dispatch_lane_push_waiter: the exchange of the *)
(* tail, the link, and what the first item of the list calls for.          *)
(***************************************************************************)
PushTail(t) ==
  /\ At(t, "push")
  /\ dq_items' = Append(dq_items, Current(t))
  /\ Goto(t, CASE dq_items = <<>>                         -> "link_first"
               [] dq_items # <<>> /\ Waiter(Current(t))  -> "link"
               [] dq_items # <<>> /\ ~Waiter(Current(t)) -> "need_override")
  /\ UNCHANGED <<dq_state, linked, target, calls, events, stack, locals, crash, status, returned>>

\* _dispatch_queue_need_override: the thread that pushed the first item may not have come to
\* its wakeup yet.
NeedOverride(t) ==
  /\ At(t, "need_override")
  /\ Goto(t, IF dq_state.q THEN "link" ELSE "link_override")
  /\ UNCHANGED <<dq_state, list, target, calls, events, stack, locals, crash, status, returned>>

PushLink(t) ==
  /\ pc[t] \in {"link", "link_override"} /\ Running
  /\ linked' = linked \union {Current(t)}
  /\ IF pc[t] = "link" /\ ~Waiter(Current(t))
     THEN Leave(t)
     ELSE /\ Goto(t, IF pc[t] = "link" THEN "merge_qos" ELSE "override_probe")
          /\ UNCHANGED <<stack, then, returned>>
  /\ UNCHANGED <<dq_state, dq_items, target, calls, events, own, dc, crash, status>>

PushHead(t) ==
  /\ At(t, "link_first")
  /\ linked' = linked \union {Current(t)}
  /\ Goto(t, IF Waiter(Current(t)) THEN "push_waiter" ELSE "wakeup_probe")
  /\ UNCHANGED <<dq_state, dq_items, target, calls, events, stack, locals, crash, status, returned>>

\* _dispatch_lane_wakeup: the queue may have been drained meanwhile.
WakeupProbe(t) ==
  /\ pc[t] \in {"wakeup_probe", "override_probe"} /\ Running
  /\ Goto(t, CASE dq_items = <<>>                             -> "override_last"
               [] dq_items # <<>> /\ pc[t] = "wakeup_probe"   -> "wakeup"
               [] dq_items # <<>> /\ pc[t] = "override_probe" -> "override")
  /\ UNCHANGED <<dq_state, list, target, calls, events, stack, locals, crash, status, returned>>

Woken(s, dirty) == [s EXCEPT !.e = TRUE, !.q = TRUE, !.d = @ \/ dirty]

\* _dispatch_queue_wakeup, with DISPATCH_WAKEUP_MAKE_DIRTY by the thread that pushed the first item
Wakeup(t) ==
  /\ pc[t] \in {"wakeup", "override"} /\ Running
  /\ dq_state' = Woken(dq_state, pc[t] = "wakeup")
  /\ Enqueue(dq_state, dq_state') /\ Leave(t)
  /\ UNCHANGED <<list, root, calls, events, own, dc, crash, status>>

\* ... and for the last item of the queue, which has been taken from the list
OverrideLast(t) ==
  /\ At(t, "override_last")
  /\ dq_state' = [dq_state EXCEPT !.q = @ \/ Locked(dq_state) \/ dq_state.e]
  /\ Leave(t)
  /\ UNCHANGED <<list, target, calls, events, own, dc, crash, status>>

\* _dispatch_lane_push_waiter, for a waiter that is not the first item
MergeQos(t) ==
  /\ At(t, "merge_qos")
  /\ dq_state' = [dq_state EXCEPT !.q = TRUE]
  /\ Goto(t, "wait")
  /\ UNCHANGED <<list, target, calls, events, stack, locals, crash, status, returned>>

\* The first waiter of a list takes the lock of a free queue itself: nobody else may be awake.
PushWaiter(t) ==
  /\ At(t, "push_waiter")
  /\ LET free == ~Locked(dq_state) /\ Runnable(dq_state) /\ (dq_state.pb \/ dq_state.used = 0) IN
     /\ dq_state' = [IF free THEN FullLock(dq_state, t) ELSE [dq_state EXCEPT !.d = TRUE]
                     EXCEPT !.q = TRUE]
     /\ Goto(t, IF free THEN "complete" ELSE "wait")
     /\ then' = [then EXCEPT ![t] = IF free THEN "wait" ELSE @]
  /\ UNCHANGED <<list, target, calls, events, stack, own, dc, crash, status, returned>>

\* _dispatch_thread_event_wait
Wait(t) ==
  /\ At(t, "wait") /\ Current(t) \in events
  /\ events' = events \ {Current(t)}
  /\ Enter(t, IF Barrier(Current(t)) THEN "complete" ELSE "uncount")
  /\ UNCHANGED <<dq_state, list, target, calls, locals, crash, returned>>

\* The block ends; what was known of it is not needed any more.
Return(t) ==
  /\ At(t, "body")
  /\ status' = [status EXCEPT ![Current(t)] = "done"]
  /\ kind' = [kind EXCEPT ![Current(t)] = "none"]
  /\ prior' = [prior EXCEPT ![Current(t)] = {}]
  /\ LET after == Head(stack[t]).after IN
     /\ Goto(t, after)
     /\ stack' = [stack EXCEPT ![t] = IF after \in {"drain_probe", "drain_more"} THEN Tail(@) ELSE @]
  /\ UNCHANGED <<dq_state, list, target, caller, events, locals, crash, returned>>
-----------------------------------------------------------------------------
(***************************************************************************)
(* The completion of a block that is not a barrier.  If nobody drains and  *)
(* the full width is free, its thread takes the lock to see what is next.  *)
(***************************************************************************)
\* _dispatch_lane_non_barrier_complete_try_lock
TryFullLock(s, dirty, t) ==
  IF WholeWidthFree(s) THEN FullLock(s, t)
                       ELSE [s EXCEPT !.e = @ \/ dirty]

\* Mutation: a drainer at work is not told that there is width again.
Uncounted_Quiet(s, t) ==
  LET new == Take(s, -1) IN
  IF Locked(s) \/ ~Runnable(new) THEN new ELSE TryFullLock(new, s.d, t)

Uncounted(s, t) ==
  LET new == Take(s, -1) IN
  CASE Locked(s)                     -> [new EXCEPT !.d = TRUE]
    [] ~Locked(s) /\ Runnable(new)   -> TryFullLock(new, s.d, t)
    [] ~Locked(s) /\ ~Runnable(new)  -> new

\* _dispatch_lane_non_barrier_complete_finish, after old became new
CompleteNonBarrier(t, old, new) ==
  /\ Enqueue(old, new)
  /\ IF new.ib /\ ~old.ib THEN Goto(t, "complete") /\ UNCHANGED <<stack, then, returned>>
                          ELSE Complete(t)

\* _dispatch_lane_non_barrier_complete
NonBarrierComplete(t) ==
  /\ At(t, "uncount")
  /\ dq_state' = Uncounted(dq_state, t)
  /\ CompleteNonBarrier(t, dq_state, dq_state')
  /\ UNCHANGED <<list, root, calls, events, own, dc, crash, status>>
-----------------------------------------------------------------------------
(***************************************************************************)
(* The completion of a barrier: _dispatch_lane_barrier_complete and what   *)
(* it calls.  The thread holds the lock and the full width.                *)
(***************************************************************************)
\* The inlined unlock of _dispatch_lane_barrier_sync_invoke_and_complete, for serial queues
UnlockProbe(t) ==
  /\ At(t, "unlock_probe")
  /\ Goto(t, IF dq_items # <<>> THEN "complete" ELSE "unlock")
  /\ UNCHANGED <<dq_state, list, target, calls, events, stack, locals, crash, status, returned>>

Unlock(t) ==
  /\ At(t, "unlock")
  /\ IF dq_state.e \/ dq_state.d \/ dq_state.q
     THEN Goto(t, "complete") /\ UNCHANGED <<dq_state, stack, then, returned>>
     ELSE dq_state' = Release(dq_state, [ib |-> TRUE, w |-> 1]) /\ Complete(t)
  /\ UNCHANGED <<list, target, calls, events, own, dc, crash, status>>

BarrierComplete(t) ==
  /\ At(t, "complete")
  /\ dq_items # <<>> => HeadLinked
  /\ Goto(t, CASE dq_items = <<>>                                     -> "release"
               [] dq_items # <<>> /\ ~Barrier(Head(dq_items))          -> "open"
               [] dq_items # <<>> /\ Barrier(Head(dq_items))
                                  /\ Waiter(Head(dq_items))           -> "pop_waiter"
               [] dq_items # <<>> /\ Barrier(Head(dq_items))
                                  /\ ~Waiter(Head(dq_items))          -> "requeue")
  /\ UNCHANGED <<dq_state, list, target, calls, events, stack, locals, crash, status, returned>>

\* Mutation: a pending barrier's interval is given back on top of the full width.
Everything_Pending == [ib |-> TRUE, w |-> dq_width + 1]

Everything == [ib |-> TRUE, w |-> dq_width]

\* _dispatch_lane_class_barrier_complete without a target: a dirty lane is looked at again.
BarrierRelease(t) ==
  /\ At(t, "release")
  /\ IF dq_state.d
     THEN /\ dq_state' = [dq_state EXCEPT !.d = FALSE]
          /\ Goto(t, "complete") /\ UNCHANGED <<stack, then, returned>>
     ELSE dq_state' = [Release(dq_state, Everything) EXCEPT !.q = FALSE] /\ Complete(t)
  /\ UNCHANGED <<list, target, calls, events, own, dc, crash, status>>

\* ... and with one: an asynchronous barrier is left to a worker.
BarrierRequeue(t) ==
  /\ At(t, "requeue")
  /\ dq_state' = [Release(dq_state, Everything) EXCEPT !.e = TRUE]
  /\ Enqueue(dq_state, dq_state') /\ Complete(t)
  /\ UNCHANGED <<list, root, calls, events, own, dc, crash, status>>

\* _dispatch_lane_drain_barrier_waiter: the lock goes to the waiter at the head.
HandOver(t, label) ==
  /\ CanPop
  /\ dc' = [dc EXCEPT ![t] = Head(dq_items)] /\ Pop
  /\ Goto(t, label)
  /\ UNCHANGED <<dq_state, target, calls, events, stack, own, then, crash, status, returned>>

PopWaiter(t) == At(t, "pop_waiter") /\ HandOver(t, "transfer")

\* Mutation: the lock is left in the name of the thread that hands it over.
Transferred_Unnamed(s, b, draining) == [s EXCEPT !.d = FALSE, !.e = @ /\ ~draining]

\* Mutation: the drainer forgets that the lane is not on the root queue any more.
Transferred_Enqueued(s, b, draining) == [s EXCEPT !.owner = caller[b], !.d = FALSE]

\* A drainer also gives back the enqueued bit, which a completing thread does not own.
Transferred(s, b, draining) ==
  [s EXCEPT !.owner = caller[b], !.d = FALSE, !.e = @ /\ ~draining]

TransferLock(t) ==
  /\ pc[t] \in {"transfer", "drain_transfer"} /\ Running
  /\ dq_state' = Transferred(dq_state, dc[t], pc[t] = "drain_transfer")
  /\ events' = events \union {dc[t]}
  /\ status' = [status EXCEPT ![dc[t]] = "ready"]
  /\ dc' = [dc EXCEPT ![t] = 0] /\ Own(t, FALSE, 0)
  /\ Complete(t)
  /\ UNCHANGED <<list, target, calls, crash>>
-----------------------------------------------------------------------------
(***************************************************************************)
(* _dispatch_lane_drain_non_barriers: the barrier is dropped and the width *)
(* handed to the items at the head, until a barrier or the end.            *)
(***************************************************************************)
Open(t) ==
  /\ At(t, "open")
  /\ dq_state' = [dq_state EXCEPT !.ib = FALSE]
  /\ Own(t, FALSE, dq_width) /\ Goto(t, "give")
  /\ dc' = [dc EXCEPT ![t] = Head(dq_items)]
  /\ UNCHANGED <<list, target, calls, events, stack, then, crash, status, returned>>

\* A drainer without width left takes more: waiters do not observe the limit.
TakeMore(t, none) ==
  LET b == Head(dq_items) IN
  IF Waiter(b) \/ CanAcquireAsync(dq_state)
  THEN dq_state' = Take(dq_state, 1) /\ Own(t, FALSE, 1) /\ UNCHANGED pc
  ELSE Goto(t, none) /\ UNCHANGED <<dq_state, own>>

GiveReserve(t) ==
  /\ At(t, "give") /\ own[t].w = 0
  /\ TakeMore(t, "close")
  /\ UNCHANGED <<list, target, calls, events, stack, dc, then, crash, status, returned>>

Give(t) ==
  /\ At(t, "give") /\ own[t].w > 0 /\ CanPop
  /\ Own(t, FALSE, own[t].w - 1)
  /\ Dispatch(Head(dq_items)) /\ Pop
  /\ dc' = [dc EXCEPT ![t] = Next2]
  /\ Goto(t, IF Next2 = 0 \/ Barrier(Next2) THEN "close" ELSE "give")
  /\ UNCHANGED <<dq_state, pushes, calls, stack, then, crash, returned>>

\* The width that is left is given back; a barrier that comes next reserves its own.
Closed(s, o, next, t) ==
  LET free == Release(s, o)
      kept == IF dq_width > 1 /\ Barrier(next) THEN Reserve(free) ELSE free
  IN IF next = 0 THEN [free EXCEPT !.d = FALSE]
                 ELSE TryFullLock([kept EXCEPT !.d = TRUE], s.d, t)

Close(t) ==
  /\ At(t, "close")
  /\ IF dc[t] = 0 /\ dq_state.d
     THEN /\ dq_state' = [dq_state EXCEPT !.d = FALSE]
          /\ Goto(t, "reload") /\ UNCHANGED <<pushes, stack, own, dc, then, returned>>
     ELSE /\ dq_state' = Closed(dq_state, own[t], dc[t], t)
          /\ Own(t, FALSE, 0) /\ dc' = [dc EXCEPT ![t] = 0]
          /\ CompleteNonBarrier(t, dq_state, dq_state')
  /\ UNCHANGED <<list, root, calls, events, crash, status>>

\* The lane was dirty: its head is read again, without waiting for it.
Reload(t) ==
  /\ At(t, "reload")
  /\ LET head == IF HeadLinked THEN Head(dq_items) ELSE 0 IN
     /\ dc' = [dc EXCEPT ![t] = head]
     /\ Goto(t, IF head = 0 \/ Barrier(head) THEN "close" ELSE "give")
  /\ UNCHANGED <<dq_state, list, target, calls, events, stack, own, then, crash, status, returned>>
-----------------------------------------------------------------------------
(***************************************************************************)
(* The workers of the root queue: they run redirected blocks and drain the *)
(* lane (_dispatch_queue_class_invoke, _dispatch_lane_drain).  "enqueued"  *)
(* is owned by the drainer until it unlocks.                               *)
(***************************************************************************)
\* _dispatch_async_redirect_invoke
Redirected(t) ==
  /\ t \in Workers /\ At(t, "idle")
  /\ \E b \in root : root' = root \ {b} /\ Run(t, b, <<>>, "uncount")
  /\ UNCHANGED <<dq_state, list, pushes, calls, events, locals, crash, returned>>

PopLane(t) ==
  /\ t \in Workers /\ At(t, "idle") /\ pushes > 0
  /\ pushes' = pushes - 1
  /\ Goto(t, "try_lock")
  /\ UNCHANGED <<dq_state, list, root, calls, events, stack, locals, crash, status, returned>>

\* _dispatch_queue_drain_try_lock
DrainTryLock(t) ==
  /\ At(t, "try_lock")
  /\ IF ~Locked(dq_state) /\ Runnable(dq_state)
     THEN LET ib == dq_state.pb \/ dq_state.used = 0 IN
          /\ dq_state' = [FullLock(dq_state, t) EXCEPT !.ib = ib]
          /\ Own(t, ib, dq_width - dq_state.used) /\ Goto(t, "drain")
     ELSE /\ dq_state' = [dq_state EXCEPT !.e = FALSE]
          /\ Goto(t, "idle") /\ UNCHANGED own
  /\ UNCHANGED <<list, target, calls, events, stack, dc, then, crash, status, returned>>

\* Entering _dispatch_lane_drain, for the first time or again because the lane was dirty
Drain(t) ==
  /\ At(t, "drain")
  /\ IF dq_items = <<>>
     THEN Goto(t, "drain_done") /\ UNCHANGED own
     ELSE Goto(t, "drain_first") /\ Own(t, own[t].ib, IF own[t].ib THEN dq_width ELSE own[t].w)
  /\ UNCHANGED <<dq_state, list, target, calls, events, stack, dc, then, crash, status, returned>>

\* The drainer looks at an item: for the first time in the loop, or later on.
Draining(t) == pc[t] \in {"drain_first", "drain_more"} /\ Running /\ HeadLinked

\* Mutation: the width the drainer owns is not given back first.
Upgraded_Keeping(s, w) ==
  LET kept == IF s.pb THEN s ELSE Reserve(s)
  IN [IF Runnable(kept) THEN [Take(kept, 1) EXCEPT !.ib = TRUE, !.pb = FALSE] ELSE kept
      EXCEPT !.d = FALSE]

\* _dispatch_queue_try_upgrade_full_width
Upgraded(s, w) ==
  LET free == Take(s, -w)
      kept == IF s.pb THEN free ELSE Reserve(free)
  IN [IF Runnable(kept) THEN [Take(kept, 1) EXCEPT !.ib = TRUE, !.pb = FALSE] ELSE kept
      EXCEPT !.d = FALSE]

DrainUpgrade(t) ==
  /\ Draining(t) /\ Barrier(Head(dq_items)) /\ ~own[t].ib
  /\ dq_state' = Upgraded(dq_state, own[t].w)
  /\ Own(t, dq_state'.ib, IF dq_state'.ib THEN dq_width ELSE 0)
  /\ IF dq_state'.ib THEN UNCHANGED pc ELSE Goto(t, "drain_stop")
  /\ UNCHANGED <<list, target, calls, events, stack, dc, then, crash, status, returned>>

DrainWaiter(t) ==
  /\ Draining(t) /\ Barrier(Head(dq_items)) /\ own[t].ib /\ Waiter(Head(dq_items))
  /\ HandOver(t, "drain_transfer")

DrainBarrier(t) ==
  /\ Draining(t) /\ Barrier(Head(dq_items)) /\ own[t].ib /\ ~Waiter(Head(dq_items)) /\ CanPop
  /\ Pop
  /\ Run(t, Head(dq_items), <<>>, IF Next2 = 0 THEN "drain_probe" ELSE "drain_more")
  /\ UNCHANGED <<dq_state, target, calls, events, locals, crash, returned>>

\* The first item after barriers that is none: the barrier is dropped, the width kept.
DrainDrop(t) ==
  /\ Draining(t) /\ ~Barrier(Head(dq_items)) /\ own[t].ib
  /\ dq_state' = [dq_state EXCEPT !.ib = FALSE]
  /\ Own(t, FALSE, dq_width)
  /\ UNCHANGED <<list, target, calls, events, pc, stack, dc, then, crash, status, returned>>

DrainReserve(t) ==
  /\ Draining(t) /\ ~Barrier(Head(dq_items)) /\ ~own[t].ib /\ own[t].w = 0
  /\ TakeMore(t, "drain_stop")
  /\ UNCHANGED <<list, target, calls, events, stack, dc, then, crash, status, returned>>

DrainGive(t) ==
  /\ Draining(t) /\ ~Barrier(Head(dq_items)) /\ ~own[t].ib /\ own[t].w > 0 /\ CanPop
  /\ Own(t, FALSE, own[t].w - 1)
  /\ Dispatch(Head(dq_items)) /\ Pop
  /\ Goto(t, IF Next2 = 0 THEN "drain_probe" ELSE "drain_more")
  /\ UNCHANGED <<dq_state, pushes, calls, stack, dc, then, crash, returned>>

DrainProbe(t) ==
  /\ At(t, "drain_probe")
  /\ Goto(t, IF dq_items = <<>> THEN "drain_done" ELSE "drain_more")
  /\ UNCHANGED <<dq_state, list, target, calls, events, stack, locals, crash, status, returned>>

(***************************************************************************)
(* The pool is short of threads (_dispatch_queue_drain_should_narrow): the *)
(* drainer unlocks and enqueues the lane again (_dispatch_queue_invoke_    *)
(* finish).                                                                *)
(***************************************************************************)
Narrowed(s, o, next) ==
  LET free == [Release(s, o) EXCEPT !.e = FALSE, !.d = TRUE]
      kept == IF dq_width > 1 /\ Barrier(next) THEN Reserve(free) ELSE free
  IN [kept EXCEPT !.e = Runnable(kept)]

DrainNarrow(t) ==
  /\ At(t, "drain_more") /\ HeadLinked
  /\ dq_state' = Narrowed(dq_state, own[t], Head(dq_items))
  /\ pushes' = IF dq_state'.e THEN pushes + 1 ELSE pushes
  /\ Own(t, FALSE, 0) /\ Goto(t, "idle")
  /\ UNCHANGED <<list, root, calls, events, stack, dc, then, crash, status, returned>>

\* _dispatch_queue_drain_try_unlock: the list was empty, or no width was left for its head.
DrainUnlock(t) ==
  /\ pc[t] \in {"drain_done", "drain_stop"} /\ Running
  /\ IF dq_state.d
     THEN dq_state' = [dq_state EXCEPT !.d = FALSE] /\ Goto(t, "drain") /\ UNCHANGED own
     ELSE /\ dq_state' = [Release(dq_state, own[t]) EXCEPT !.e = FALSE, !.d = pc[t] = "drain_stop",
                                                              !.q = @ /\ pc[t] = "drain_stop"]
          /\ Own(t, FALSE, 0) /\ Goto(t, "idle")
  /\ UNCHANGED <<list, target, calls, events, stack, dc, then, crash, status, returned>>
-----------------------------------------------------------------------------
Step(t) ==
  \/ AsyncProbe(t) \/ AsyncTry(t) \/ SyncProbe(t) \/ SyncTry(t) \/ BarrierTry(t) \/ Prepare(t)
  \/ PushTail(t) \/ NeedOverride(t) \/ PushLink(t) \/ PushHead(t) \/ WakeupProbe(t) \/ Wakeup(t)
  \/ OverrideLast(t) \/ MergeQos(t) \/ PushWaiter(t)
  \/ Wait(t) \/ Return(t) \/ NonBarrierComplete(t)
  \/ UnlockProbe(t) \/ Unlock(t) \/ BarrierComplete(t) \/ BarrierRelease(t) \/ BarrierRequeue(t)
  \/ PopWaiter(t) \/ TransferLock(t)
  \/ Open(t) \/ GiveReserve(t) \/ Give(t) \/ Close(t) \/ Reload(t)
  \/ Redirected(t) \/ PopLane(t) \/ DrainTryLock(t) \/ Drain(t) \/ DrainUpgrade(t) \/ DrainWaiter(t)
  \/ DrainBarrier(t) \/ DrainDrop(t) \/ DrainReserve(t) \/ DrainGive(t) \/ DrainProbe(t)
  \/ DrainNarrow(t) \/ DrainUnlock(t)

Next == /\ \/ \E b \in Blocks : Call(b)
           \/ \E t \in Threads : NestedCall(t) \/ Step(t)
        /\ UNCHANGED dq_width
Spec == Init /\ [][Next]_vars
-----------------------------------------------------------------------------
Frames == [block : Blocks, after : {"none", "uncount", "unlock_probe", "complete", "drain_probe", "drain_more"}]
Labels == {"idle", "async_probe", "async_try", "sync_probe", "sync_try", "barrier_try", "prepare",
           "push", "need_override", "link", "link_override", "link_first", "wakeup_probe",
           "override_probe", "wakeup", "override", "override_last", "merge_qos", "push_waiter", "wait", "body",
           "uncount", "unlock_probe", "unlock", "complete", "release", "requeue", "pop_waiter",
           "transfer", "open", "give", "close", "reload", "try_lock", "drain", "drain_first",
           "drain_more", "drain_probe", "drain_transfer", "drain_stop", "drain_done"}

\* The range of every variable.
TypeOK ==
  /\ dq_width \in Widths
  /\ dq_state \in [used : 0..(2 * dq_width + Calls), ib : BOOLEAN, pb : BOOLEAN, d : BOOLEAN, e : BOOLEAN,
                   q : BOOLEAN, owner : Threads \union {NoThread}]
  /\ dq_items \in Seq(Blocks) /\ linked \subseteq Blocks
  /\ root \subseteq Blocks /\ pushes \in 0..1
  /\ kind \in [Blocks -> Kinds \union {"none"}]
  /\ caller \in [Blocks -> Threads \union {NoThread}]
  /\ events \subseteq Blocks
  /\ pc \in [Threads -> Labels] /\ stack \in [Threads -> Seq(Frames)]
  /\ own \in [Threads -> [ib : BOOLEAN, w : 0..dq_width]]
  /\ dc \in [Threads -> Blocks \union {0}] /\ then \in [Threads -> {"return", "wait"}]
  /\ crash \in BOOLEAN
  /\ status \in [Blocks -> {"new", "called", "ready", "running", "done"}]
  /\ returned \subseteq Blocks /\ prior \in [Blocks -> SUBSET Blocks]

Submitted == {b \in Blocks : status[b] # "new"}
Started == {b \in Blocks : status[b] \in {"ready", "running", "done"}}

\* These calls look at nothing but the word before they take a queue that looks idle.
Hasty(b) == Waiter(b) /\ Barrier(b)

Contract == INSTANCE QueueContract WITH
  phase <- [b \in Blocks |-> IF status[b] = "ready" THEN "called" ELSE status[b]],
  barrier <- {b \in Submitted : status[b] # "done" /\ Barrier(b)},
  earlier <- [b \in Blocks |-> IF Hasty(b) THEN {} ELSE prior[b]]

\* A barrier runs alone, and a block starts after the blocks it is ordered with of earlier
\* calls, unless it is hasty: the lane implements the contract of a queue with that exception.
KeepsContract == Contract!Spec

\* A hasty block overtakes a block of an earlier call only as long as the thread that pushed
\* the first item of the list has not come to its wakeup.
OvertakesBeforeWakeup ==
  [][\A b \in Started' \ Started : prior[b] \subseteq Started
       \/ \E t \in Threads : pc[t] \in {"link_first", "wakeup_probe", "wakeup", "push_waiter"}]_vars

\* "All blocks submitted to dispatch queues are dequeued in FIFO order": none is before a block
\* whose submission had returned when its own began.  The code does not keep this promise.
FirstInFirstOut == \A b \in Started : prior[b] \subseteq Started

Completing == {"unlock_probe", "unlock", "complete", "release", "requeue", "pop_waiter", "transfer", "open"}

\* t completes or runs a barrier of its own, or was handed the lock for it.
HoldsBarrier(t) ==
  \/ pc[t] \in Completing
  \/ \E i \in DOMAIN stack[t] : /\ i > 1 \/ pc[t] = "body"
                               /\ stack[t][i].after \in {"unlock_probe", "complete"}
  \/ stack[t] # <<>> /\ Current(t) \in events /\ Barrier(Current(t))

WidthOf(t) == IF HoldsBarrier(t) \/ own[t].ib THEN dq_width ELSE own[t].w

InFlight == {b \in Submitted : ~Barrier(b) /\ (status[b] \in {"ready", "running"}
                                 \/ \E t \in Threads : pc[t] = "uncount" /\ Current(t) = b)}

\* No width is lost or given twice: what the word counts is in the hands of the blocks in
\* flight, of the thread that drains or completes, or of a pending barrier; nobody but the
\* owner of the lock has any to hand out.  Waiters may exceed the width, but at most dq_width
\* asynchronous blocks are started and not done.
WidthBalance ==
  /\ \A t \in Threads : WidthOf(t) > 0 => dq_state.owner = t
  /\ dq_state.used = Cardinality(InFlight) + (IF Locked(dq_state) THEN WidthOf(dq_state.owner) ELSE 0)
                                           + (IF dq_state.pb THEN dq_width - 1 ELSE 0)
  /\ Cardinality({b \in InFlight : kind[b] = "async"}) <= dq_width

DrainPcs == {"try_lock", "drain", "drain_first", "drain_more", "drain_probe",
             "drain_transfer", "drain_stop", "drain_done"}
Drains(t) == \/ pc[t] \in DrainPcs
             \/ \E i \in DOMAIN stack[t] : stack[t][i].after \in {"drain_probe", "drain_more"}

\* The lane is on the root queue, or in the hands of one of its workers, once if the word
\* says that it is enqueued, and else not at all.
EnqueuedOnce == pushes + Cardinality({t \in Workers : Drains(t)}) = IF dq_state.e THEN 1 ELSE 0

\* What the word says of the width and of the root queue is what is there.
WordBalance == WidthBalance /\ EnqueuedOnce

Asleep(t) == pc[t] = "idle" \/ (pc[t] = "wait" /\ Current(t) \notin events)
Quiet == ~crash /\ root = {} /\ pushes = 0 /\ \A t \in Threads : Asleep(t)
SleepsInBlock == \E t \in Threads : Len(stack[t]) > 1

\* No wakeup is lost: when nothing moves any more, nobody waits for the queue and its list is
\* empty, unless a block waits for the queue it runs on.
NothingStranded ==
  Quiet /\ ~SleepsInBlock => dq_items = <<>> /\ [dq_state EXCEPT !.q = FALSE] = Idle /\ \A t \in Threads : pc[t] = "idle"

InBarrier(t) == \E i \in 2..Len(stack[t]) : Barrier(stack[t][i].block)

\* dispatch_sync on a queue from a barrier that runs on it, which would wait for itself, is
\* caught; and no other call is: the lock is in the name of the thread that runs the barrier
\* even if another one drained the queue and handed it over.
SelfSyncCaught ==
  /\ \A t \in Threads : pc[t] \in {"push", "link", "link_first", "merge_qos", "push_waiter", "wait"} => ~InBarrier(t)
  /\ crash => \E t \in Threads : pc[t] = "prepare" /\ InBarrier(t)
=============================================================================
