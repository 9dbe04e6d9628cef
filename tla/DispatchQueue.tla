----------------------------- MODULE DispatchQueue -----------------------------
(***************************************************************************)
(* What a dispatch queue promises to the code that uses it, as operators   *)
(* on a queue: items in the order of their submission, and those that run. *)
(* The pending barrier, the dirty and enqueued bits and the waiters'       *)
(* events by which src/queue.c keeps the promise are left out.             *)
(***************************************************************************)
EXTENDS Naturals, Sequences, FiniteSets

EmptyQueue == [items |-> <<>>, running |-> {}]

Item(work, barrier) == [work |-> work, barrier |-> barrier]

\* dispatch_async; dispatch_sync, whose caller then waits for its item; and the barrier.
Async(q, work) == [q EXCEPT !.items = Append(@, Item(work, FALSE))]
BarrierAsync(q, work) == [q EXCEPT !.items = Append(@, Item(work, TRUE))]

(***************************************************************************)
(* The decision of the drain loop on the head of a queue of the given      *)
(* width: a barrier needs the full width, any other item a share of it,    *)
(* and neither is there while a barrier runs.                              *)
(***************************************************************************)
CanStart(q, width) ==
  /\ q.items # <<>>
  /\ Cardinality(q.running) < width
  /\ \A item \in q.running : ~item.barrier /\ ~Head(q.items).barrier

Start(q) == [items |-> Tail(q.items), running |-> q.running \union {Head(q.items)}]

Running(q, work) == \E item \in q.running : item.work = work
Done(q, work) == [q EXCEPT !.running = {item \in @ : item.work # work}]
=============================================================================
