-------------------------- MODULE CountingSemaphore --------------------------
(***************************************************************************)
(* What dispatch_semaphore_t promises, with no counter word and no kernel  *)
(* semaphore: a number of permits, and the calls that are waiting for one. *)
(*                                                                         *)
(* The promise is about who may be served.  A newcomer overtakes the       *)
(* waiting calls only when there are more permits than waiting calls; a    *)
(* call gives up only when it would not leave behind a permit that nobody  *)
(* is waiting for; and a permit is consumed exactly once.                  *)
(***************************************************************************)
EXTENDS Integers, FiniteSets

CONSTANTS Threads,      \* the callers
          CreateValues  \* the values passed to dispatch_semaphore_create

VARIABLES permits,      \* signals not consumed yet, plus what is left of the initial value
          waiting       \* waiting[t] \in {"no", "bounded", "forever"}

vars == <<permits, waiting>>

Waiters == {t \in Threads : waiting[t] # "no"}

Init == /\ permits = 0
        /\ waiting = [t \in Threads |-> "no"]

\* A valid creation brings its initial value.
Create(v) == /\ Waiters = {} /\ permits = 0 /\ v >= 0
             /\ permits' = v
             /\ UNCHANGED waiting

Signal == /\ permits' = permits + 1
          /\ UNCHANGED waiting

\* An uncontended wait: a permit that no waiting call has a claim on.
Pass(t) == /\ waiting[t] = "no"
           /\ permits > Cardinality(Waiters)
           /\ permits' = permits - 1
           /\ UNCHANGED waiting

Block(t, mode) == /\ waiting[t] = "no"
                  /\ permits <= Cardinality(Waiters)
                  /\ waiting' = [waiting EXCEPT ![t] = mode]
                  /\ UNCHANGED permits

Grant(t) == /\ waiting[t] # "no"
            /\ permits > 0
            /\ permits' = permits - 1
            /\ waiting' = [waiting EXCEPT ![t] = "no"]

\* A call with a time limit gives up; every permit still has a taker.
GiveUp(t) == /\ waiting[t] = "bounded"
             /\ permits < Cardinality(Waiters)
             /\ waiting' = [waiting EXCEPT ![t] = "no"]
             /\ UNCHANGED permits

Next == \/ \E v \in CreateValues : Create(v)
        \/ Signal
        \/ \E t \in Threads : \/ Pass(t)
                              \/ \E mode \in {"bounded", "forever"} : Block(t, mode)
                              \/ Grant(t)
                              \/ GiveUp(t)

Spec == Init /\ [][Next]_vars
=============================================================================
