-------------------------- MODULE DispatchSemaphore --------------------------
(***************************************************************************)
(* dispatch_semaphore_t of libdispatch (src/semaphore.c), on the Mach      *)
(* build: a word dsema_value that the fast paths increment and decrement,  *)
(* and a kernel semaphore, created lazily, on which the slow paths wait    *)
(* and which they signal.  Each action is one atomic access to shared      *)
(* memory or one system call.                                              *)
(*                                                                         *)
(* LONG_MAX is a parameter: intptr_t wraps at LongMax, so that the         *)
(* overflow check of dispatch_semaphore_signal is reached and the state    *)
(* space is finite without any bound on the number of calls.               *)
(***************************************************************************)
EXTENDS Integers, FiniteSets

CONSTANTS Threads,       \* the threads that call into the semaphore
          CreateValues,  \* values handed to dispatch_semaphore_create
          LongMax,       \* LONG_MAX
          NULL, DEAD     \* MACH_PORT_NULL and MACH_PORT_DEAD

ASSUME ThreadsAssumption == IsFiniteSet(Threads) /\ NULL \notin Threads
                            /\ DEAD \notin Threads /\ NULL # DEAD
ASSUME WidthAssumption == LongMax \in Nat /\ Cardinality(Threads) <= LongMax
ASSUME CreateAssumption == \A v \in CreateValues : v \in Int /\ v <= LongMax

VARIABLES
  object,      \* "none", "null" (creation refused), "live" or "disposed"
  dsema_value, \* the word the fast paths work on
  dsema_orig,  \* the value given at creation
  dsema_sema,  \* the lazily created Mach port: NULL, a thread (its creator) or DEAD
  ports,       \* the Mach ports alive in the task, named by their creator
  kcount,      \* the count of the kernel semaphore behind dsema_sema
  pc,          \* pc[t]: where thread t is
  timeout,     \* timeout[t]: the argument of its current or last wait
  orig,        \* orig[t]: the local of _dispatch_semaphore_wait_slow
  crash,       \* the reason of the DISPATCH_CLIENT_CRASH that ended the process
  credit       \* history: initial value + signals - waits that returned 0

vars == <<object, dsema_value, dsema_orig, dsema_sema, ports, kcount, pc,
          timeout, orig, crash, credit>>
dsema == <<object, dsema_orig>>
kernel == <<dsema_sema, ports, kcount>>
-----------------------------------------------------------------------------
LongMin == -LongMax - 1
\* Mutation of Wrap: a word without an upper end.
Wrap_Unbounded(n) == n

\* The two's complement wrap of a word that moves by one.
Wrap(n) == IF n > LongMax THEN LongMin ELSE IF n < LongMin THEN LongMax ELSE n

Timeouts == {"NOW", "TIMED", "FOREVER"}

CreateLabels == {"w_create", "w_cmpxchg", "s_create", "s_cmpxchg"}
WaitLabels == {"w_create", "w_cmpxchg", "w_timedwait", "w_load", "w_undo", "w_wait"}
SignalLabels == {"s_create", "s_cmpxchg", "s_signal"}

\* Threads inside _dispatch_semaphore_wait_slow and _dispatch_semaphore_signal_slow.
SlowWaiters == {t \in Threads : pc[t] \in WaitLabels}
SlowSignallers == {t \in Threads : pc[t] \in SignalLabels}

Goto(t, label) == pc' = [pc EXCEPT ![t] = label]

\* A call returns, and its argument and its local are gone.
Return(t) == /\ Goto(t, "idle")
             /\ timeout' = [timeout EXCEPT ![t] = "FOREVER"]
             /\ orig' = [orig EXCEPT ![t] = 0]
-----------------------------------------------------------------------------
Init == /\ object = "none"
        /\ dsema_value = 0 /\ dsema_orig = 0
        /\ dsema_sema = NULL /\ ports = {} /\ kcount = 0
        /\ pc = [t \in Threads |-> "idle"]
        /\ timeout = [t \in Threads |-> "FOREVER"]
        /\ orig = [t \in Threads |-> 0]
        /\ crash = "none" /\ credit = 0

\* dispatch_semaphore_create: a negative value is refused.
Create(value) ==
  /\ object = "none"
  /\ IF value < 0
       THEN object' = "null" /\ UNCHANGED <<dsema_value, dsema_orig, credit>>
       ELSE /\ object' = "live" /\ dsema_value' = value /\ dsema_orig' = value
            /\ credit' = value
  /\ UNCHANGED <<kernel, pc, timeout, orig, crash>>

\* A thread may enter the semaphore, or go on in it.
Running == object = "live" /\ crash = "none"

\* Mutation of Wait: the fast path taken one permit too early.
Wait_OffByOne(t, to) ==
  /\ Running /\ pc[t] = "idle"
  /\ dsema_value' = Wrap(dsema_value - 1)
  /\ IF dsema_value' >= -1
       THEN credit' = credit - 1 /\ UNCHANGED <<pc, timeout>>
       ELSE /\ Goto(t, "w_create") /\ timeout' = [timeout EXCEPT ![t] = to]
            /\ UNCHANGED credit
  /\ UNCHANGED <<dsema, kernel, orig, crash>>

(***************************************************************************)
(* dispatch_semaphore_wait: the atomic decrement decides between the fast  *)
(* path, which returns 0, and _dispatch_semaphore_wait_slow.               *)
(***************************************************************************)
Wait(t, to) ==
  /\ Running /\ pc[t] = "idle"
  /\ dsema_value' = Wrap(dsema_value - 1)
  /\ IF dsema_value' >= 0
       THEN credit' = credit - 1 /\ UNCHANGED <<pc, timeout>>
       ELSE /\ Goto(t, "w_create") /\ timeout' = [timeout EXCEPT ![t] = to]
            /\ UNCHANGED credit
  /\ UNCHANGED <<dsema, kernel, orig, crash>>

\* Where wait_slow goes once the kernel semaphore exists: the switch on timeout.
WaitSwitch(t) == CASE timeout[t] = "NOW"     -> "w_load"
                   [] timeout[t] = "TIMED"   -> "w_timedwait"
                   [] timeout[t] = "FOREVER" -> "w_wait"

AfterCreate(t) == IF pc[t] \in WaitLabels THEN WaitSwitch(t) ELSE "s_signal"

(***************************************************************************)
(* _dispatch_sema4_create: the unlocked test of the port ...               *)
(***************************************************************************)
Sema4Create(t) ==
  /\ Running /\ pc[t] \in {"w_create", "s_create"}
  /\ IF dsema_sema # NULL
       THEN Goto(t, AfterCreate(t)) /\ UNCHANGED ports
       ELSE /\ ports' = ports \union {t}
            /\ Goto(t, IF pc[t] = "w_create" THEN "w_cmpxchg" ELSE "s_cmpxchg")
  /\ UNCHANGED <<dsema, dsema_value, dsema_sema, kcount, timeout, orig, crash, credit>>

\* Mutations of Sema4CmpXchg: the loser keeps its port; a store instead of the swap.
Sema4CmpXchg_Leak(t) ==
  /\ Running /\ pc[t] \in {"w_cmpxchg", "s_cmpxchg"}
  /\ dsema_sema' = IF dsema_sema = NULL THEN t ELSE dsema_sema
  /\ Goto(t, AfterCreate(t))
  /\ UNCHANGED <<dsema, dsema_value, ports, kcount, timeout, orig, crash, credit>>

Sema4CmpXchg_Store(t) ==
  /\ Running /\ pc[t] \in {"w_cmpxchg", "s_cmpxchg"}
  /\ dsema_sema' = t
  /\ Goto(t, AfterCreate(t))
  /\ UNCHANGED <<dsema, dsema_value, ports, kcount, timeout, orig, crash, credit>>

\* ... and the compare-and-swap of create_slow, whose loser destroys its port.
Sema4CmpXchg(t) ==
  /\ Running /\ pc[t] \in {"w_cmpxchg", "s_cmpxchg"}
  /\ IF dsema_sema = NULL
       THEN dsema_sema' = t /\ UNCHANGED ports
       ELSE ports' = ports \ {t} /\ UNCHANGED dsema_sema
  /\ Goto(t, AfterCreate(t))
  /\ UNCHANGED <<dsema, dsema_value, kcount, timeout, orig, crash, credit>>

\* semaphore_wait or semaphore_timedwait takes a kernel wakeup: wait returns 0.
Sema4Wait(t) ==
  /\ Running /\ pc[t] \in {"w_wait", "w_timedwait"}
  /\ kcount > 0
  /\ kcount' = kcount - 1
  /\ Return(t)
  /\ credit' = credit - 1
  /\ UNCHANGED <<dsema, dsema_value, dsema_sema, ports, crash>>

\* Mutation of TimedOut: return without undoing the decrement.
TimedOut_NoUndo(t) ==
  /\ Running /\ pc[t] = "w_timedwait"
  /\ Return(t)
  /\ UNCHANGED <<dsema, dsema_value, kernel, crash, credit>>

\* semaphore_timedwait returns KERN_OPERATION_TIMED_OUT.
TimedOut(t) ==
  /\ Running /\ pc[t] = "w_timedwait"
  /\ Goto(t, "w_load")
  /\ UNCHANGED <<dsema, dsema_value, kernel, timeout, orig, crash, credit>>

\* Mutation of Look: time out even when a signal has answered, and leave its wakeup behind.
Look_NoDrain(t) == /\ orig' = [orig EXCEPT ![t] = IF dsema_value < 0 THEN dsema_value ELSE 0]
                   /\ Goto(t, IF dsema_value < 0 THEN "w_undo" ELSE "idle")

\* orig becomes dsema_value; the loop goes on, and orig is looked at, while it is negative.
Look(t) == /\ orig' = [orig EXCEPT ![t] = IF dsema_value < 0 THEN dsema_value ELSE 0]
           /\ Goto(t, IF dsema_value < 0 THEN "w_undo" ELSE "w_wait")

\* orig = dsema->dsema_value, and the first test of the loop.
WaitLoad(t) ==
  /\ Running /\ pc[t] = "w_load"
  /\ Look(t)
  /\ UNCHANGED <<dsema, dsema_value, kernel, timeout, crash, credit>>

\* Mutation of WaitUndo: an unconditional increment instead of the compare-and-swap.
WaitUndo_Add(t) ==
  /\ Running /\ pc[t] = "w_undo"
  /\ dsema_value' = Wrap(dsema_value + 1)
  /\ Return(t)
  /\ UNCHANGED <<dsema, kernel, crash, credit>>

(***************************************************************************)
(* The compare-and-swap that undoes the decrement.  On success wait        *)
(* returns _DSEMA4_TIMEOUT(); on failure orig is the value just seen, and  *)
(* once that is not negative the caller waits, without a time limit, for   *)
(* the wakeup it believes is its own.                                      *)
(***************************************************************************)
WaitUndo(t) ==
  /\ Running /\ pc[t] = "w_undo"
  /\ IF dsema_value = orig[t]
       THEN dsema_value' = orig[t] + 1 /\ Return(t)
       ELSE Look(t) /\ UNCHANGED <<dsema_value, timeout>>
  /\ UNCHANGED <<dsema, kernel, crash, credit>>

\* Mutation of Signal: the last waiter is not woken.
Signal_OffByOne(t) ==
  /\ Running /\ pc[t] = "idle"
  /\ dsema_value' = Wrap(dsema_value + 1)
  /\ credit' = credit + 1
  /\ \/ dsema_value' >= 0 /\ UNCHANGED <<pc, crash>>
     \/ dsema_value' = LongMin /\ crash' = "unbalanced" /\ UNCHANGED pc
     \/ dsema_value' < 0 /\ dsema_value' # LongMin /\ Goto(t, "s_create") /\ UNCHANGED crash
  /\ UNCHANGED <<dsema, kernel, timeout, orig>>

(***************************************************************************)
(* dispatch_semaphore_signal: the atomic increment, and its three ways on. *)
(***************************************************************************)
Signal(t) ==
  /\ Running /\ pc[t] = "idle"
  /\ dsema_value' = Wrap(dsema_value + 1)
  /\ credit' = credit + 1
  /\ \/ dsema_value' > 0 /\ UNCHANGED <<pc, crash>>
     \/ dsema_value' = LongMin /\ crash' = "unbalanced" /\ UNCHANGED pc
     \/ dsema_value' <= 0 /\ dsema_value' # LongMin /\ Goto(t, "s_create") /\ UNCHANGED crash
  /\ UNCHANGED <<dsema, kernel, timeout, orig>>

\* _dispatch_sema4_signal(&dsema->dsema_sema, 1), and signal returns 1.
Sema4Signal(t) ==
  /\ Running /\ pc[t] = "s_signal"
  /\ kcount' = kcount + 1
  /\ Goto(t, "idle")
  /\ UNCHANGED <<dsema, dsema_value, dsema_sema, ports, timeout, orig, crash, credit>>

(***************************************************************************)
(* The last release.  Every call holds a reference to the semaphore, so no *)
(* thread is inside one.                                                   *)
(***************************************************************************)
Dispose ==
  /\ Running /\ \A t \in Threads : pc[t] = "idle"
  /\ IF dsema_value < dsema_orig
       THEN crash' = "in_use" /\ UNCHANGED <<object, dsema_sema, ports>>
       ELSE /\ object' = "disposed" /\ UNCHANGED crash
            /\ IF dsema_sema # NULL
                 THEN dsema_sema' = DEAD /\ ports' = ports \ {dsema_sema}
                 ELSE UNCHANGED <<dsema_sema, ports>>
  /\ UNCHANGED <<dsema_value, dsema_orig, kcount, pc, timeout, orig, credit>>

\* The steps a thread takes by itself once it is inside a call.
InCall(t) == \/ Sema4Create(t)
             \/ Sema4CmpXchg(t)
             \/ Sema4Wait(t)
             \/ TimedOut(t)
             \/ WaitLoad(t)
             \/ WaitUndo(t)
             \/ Sema4Signal(t)

Next == \/ \E v \in CreateValues : Create(v)
        \/ \E t \in Threads : \/ \E to \in Timeouts : Wait(t, to)
                              \/ Signal(t)
                              \/ InCall(t)
        \/ Dispose

(***************************************************************************)
(* A thread inside a call keeps running; whether it makes a call at all is *)
(* the client's choice.  The kernel semaphore serves its waiters in FIFO   *)
(* order (_DSEMA4_POLICY_FIFO), which makes its wakeups strongly fair.     *)
(***************************************************************************)
Fairness == \A t \in Threads : WF_vars(InCall(t)) /\ SF_vars(Sema4Wait(t))

Spec == Init /\ [][Next]_vars
FairSpec == Spec /\ Fairness
-----------------------------------------------------------------------------
TypeOK ==
  /\ object \in {"none", "null", "live", "disposed"}
  /\ dsema_value \in LongMin..LongMax /\ dsema_orig \in 0..LongMax
  /\ dsema_sema \in Threads \union {NULL, DEAD}
  /\ ports \subseteq Threads
  /\ kcount \in Nat
  /\ pc \in [Threads -> {"idle"} \union WaitLabels \union SignalLabels]
  /\ timeout \in [Threads -> Timeouts]
  /\ orig \in [Threads -> LongMin..LongMax]
  /\ crash \in {"none", "unbalanced", "in_use"}
  /\ credit \in Int

Positive(n) == IF n > 0 THEN n ELSE 0
Negative(n) == IF n < 0 THEN -n ELSE 0
Quiet == \A t \in Threads : pc[t] = "idle"

(***************************************************************************)
(* The bookkeeping the fast and slow paths share: a thread is inside       *)
(* wait_slow for each unit dsema_value is below zero, for each wakeup in   *)
(* the kernel, and for each signaller on its way to the kernel.  This is   *)
(* the comment in dispatch_semaphore_create ("the absolute of the value is *)
(* equal to the number of waiting threads") corrected for the wakeups in   *)
(* flight: no wakeup is lost, and none is sent for nobody.                 *)
(***************************************************************************)
WakeupBalance ==
  crash # "unbalanced" =>
    Cardinality(SlowWaiters) = Negative(dsema_value) + kcount + Cardinality(SlowSignallers)

(***************************************************************************)
(* dispatch_semaphore_wait never returns 0 more often than the initial     *)
(* value and the signals allow, whatever time limits, undone decrements    *)
(* and drained wakeups come between.                                       *)
(***************************************************************************)
NoOvergrant == credit >= 0

(***************************************************************************)
(* Once no thread is inside a call, no wakeup is left in the kernel: the   *)
(* port that _dispatch_semaphore_dispose hands back is at zero, and        *)
(* dsema_value alone says what is available.                               *)
(***************************************************************************)
WakeupsDrained ==
  crash # "unbalanced" /\ Quiet => kcount = 0 /\ dsema_value = credit

(***************************************************************************)
(* _dispatch_semaphore_dispose crashes exactly the clients that took more  *)
(* than they gave back; waits that timed out do not count against them.    *)
(***************************************************************************)
DisposeJustified ==
  /\ crash = "in_use" => credit < dsema_orig
  /\ object = "disposed" => credit >= dsema_orig

(***************************************************************************)
(* However many threads race through _dispatch_sema4_create, a port is     *)
(* kept only by the thread about to install it and by the semaphore, and   *)
(* none is left once the semaphore is disposed of.                         *)
(***************************************************************************)
NoPortLeak ==
  ports = {t \in Threads : pc[t] \in {"w_cmpxchg", "s_cmpxchg"} \/ dsema_sema = t}

(***************************************************************************)
(* A thread that waits in the kernel or signals it finds the port there,   *)
(* no step replaces a port once it is installed, and the threads that lost *)
(* the race destroy theirs: waiters and signallers meet on the same kernel *)
(* semaphore, the only one.                                                *)
(***************************************************************************)
OnePort ==
  [][/\ NoPortLeak'
     /\ \A t \in Threads : (kcount' # kcount \/ pc'[t] \in {"w_wait", "w_timedwait", "s_signal"})
                              => dsema_sema' # NULL
     /\ dsema_sema \in Threads => dsema_sema' \in {dsema_sema, DEAD}]_vars

(***************************************************************************)
(* The semaphore implements CountingSemaphore: the available permits are   *)
(* the positive part of dsema_value, the wakeups in the kernel and the     *)
(* signallers on their way to it.  (The word wraps only on the increment   *)
(* that crashes the process, which changes no permit.)                     *)
(***************************************************************************)
Permits == Positive(IF dsema_value = LongMin THEN LongMax ELSE dsema_value)
             + kcount + Cardinality(SlowSignallers)
WaitMode == [t \in Threads |->
               IF t \notin SlowWaiters THEN "no"
               ELSE IF timeout[t] = "FOREVER" THEN "forever" ELSE "bounded"]

Abstract == INSTANCE CountingSemaphore WITH permits <- Permits, waiting <- WaitMode

AbstractSpec == Abstract!Spec

(***************************************************************************)
(* No lost wakeup: as long as there are signals that no wait has consumed  *)
(* (counted by the client, not by the semaphore), every thread that waits  *)
(* in the kernel without a time limit eventually returns.                  *)
(***************************************************************************)
WaitersServed ==
  \A t \in Threads :
    []<>(credit > 0) => ((pc[t] = "w_wait") ~> (pc[t] = "idle" \/ crash # "none"))

(***************************************************************************)
(* "Another thread called semaphore_signal(). Fall through and drain the   *)
(* wakeup."  A wait with a time limit that finds its decrement already     *)
(* answered by a signal gets that wakeup, so it returns.                   *)
(***************************************************************************)
BoundedWaitDrains ==
  \A t \in Threads :
    (pc[t] = "w_wait" /\ timeout[t] # "FOREVER") ~> (pc[t] = "idle" \/ crash # "none")
=============================================================================
