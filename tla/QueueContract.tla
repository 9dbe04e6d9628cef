----------------------------- MODULE QueueContract -----------------------------
(***************************************************************************)
(* What a dispatch queue promises those who submit blocks to it, whatever  *)
(* the interleaving: a block starts after every block of an earlier call   *)
(* it is ordered with, and a barrier runs alone.  A call is earlier than   *)
(* another if it returned before the other began; calls in progress at the *)
(* same time are in no order, and a call may be of a kind that asks for no *)
(* order at all.  Nothing is said of how a queue does it.                  *)
(***************************************************************************)
EXTENDS Naturals

CONSTANT Blocks

VARIABLES
  phase,     \* phase[b]: "new", "called", "running" or "done"
  barrier,   \* the blocks that exclude all others, until they are done
  returned,  \* the blocks whose submission has returned
  earlier    \* earlier[b]: the blocks not done whose submission had returned when b's began;
             \* none if the call asks for no order, and when b is done

vars == <<phase, barrier, returned, earlier>>

Ordered(a, b) == a \in barrier \/ b \in barrier
-----------------------------------------------------------------------------
Init == /\ phase = [b \in Blocks |-> "new"]
        /\ barrier = {} /\ returned = {}
        /\ earlier = [b \in Blocks |-> {}]

Call(b) ==
  /\ phase[b] = "new"
  /\ phase' = [phase EXCEPT ![b] = "called"]
  /\ barrier' \in {barrier, barrier \union {b}}
  /\ \E before \in {{}, {a \in returned : phase[a] # "done"}} : earlier' = [earlier EXCEPT ![b] = before]
  /\ UNCHANGED returned

Start(b) ==
  /\ phase[b] = "called"
  /\ \A a \in Blocks \ {b} : Ordered(a, b) =>
        /\ phase[a] # "running"
        /\ a \in earlier[b] => phase[a] = "done"
  /\ phase' = [phase EXCEPT ![b] = "running"]
  /\ UNCHANGED <<barrier, returned, earlier>>

Finish(b) ==
  /\ phase[b] = "running"
  /\ phase' = [phase EXCEPT ![b] = "done"]
  /\ barrier' = barrier \ {b} /\ earlier' = [earlier EXCEPT ![b] = {}]
  /\ UNCHANGED returned

Return(b) ==
  /\ phase[b] # "new" /\ b \notin returned
  /\ returned' = returned \union {b}
  /\ UNCHANGED <<phase, barrier, earlier>>

Next == \E b \in Blocks : Call(b) \/ Start(b) \/ Finish(b) \/ Return(b)
Spec == Init /\ [][Next]_vars
=============================================================================
