---------------------------- MODULE DispatchGroup ----------------------------
(***************************************************************************)
(* dispatch_group_t of libdispatch (src/semaphore.c): a 64 bit word that   *)
(* holds a generation, the number of entered blocks and two flags, a       *)
(* multi-producer list of notification blocks, and threads that sleep on   *)
(* the address of the generation.  Each action is one atomic access to     *)
(* shared memory or one system call.                                       *)
(*                                                                         *)
(* dispatch_group_async is dispatch_group_enter, then a block on a queue   *)
(* whose invocation ends with dispatch_group_leave: Enter and Leave.       *)
(***************************************************************************)
EXTENDS Integers, Sequences, FiniteSets

CONSTANTS Threads,    \* the threads that call into the group
          Notifs,     \* notification blocks, each given to one dispatch_group_notify
          MaxCount,   \* the largest 30 bit value (2^30 - 1 in the code)
          MaxEnters,  \* bound on the calls of dispatch_group_enter
          NoItem      \* no notification block

ASSUME BoundsAssumption == MaxCount \in Nat \ {0} /\ MaxEnters \in Nat
ASSUME ThreadsAssumption == IsFiniteSet(Threads)
ASSUME NotifsAssumption == NoItem \notin Notifs /\ Threads \intersect Notifs = {}

VARIABLES
  dg_state,   \* [gen, value, notifs, waiters]; value counts the entered blocks
  dg_notify,  \* the notification list, in the order of the exchanges of its tail
  linked,     \* the notification blocks whose link has been written
  refcnt,     \* references to the group
  client,     \* the client still holds its own reference
  freed,      \* the group was disposed of
  sleepers,   \* threads asleep in the kernel on &dg_gen
  pc,         \* pc[t]: where thread t is
  old,        \* old[t]: the local old_state (its gen is the gen of wait_slow)
  snap,       \* snap[t]: what is left of the captured list
  refs,       \* refs[t]: references _dispatch_group_wake gives up
  item,       \* item[t]: the block thread t is pushing
  wait,       \* wait[t]: timeout and rc of a wait
  crash,      \* reason of the DISPATCH_CLIENT_CRASH that ended the process
  enters, inside,       \* history: calls of enter; enters returned and not yet left
  called, submitted,    \* history: blocks notified; how often each was submitted
  saw                   \* history: the group was empty since the call began

group == <<dg_state, dg_notify, linked>>
lifetime == <<refcnt, client, freed>>
locals == <<old, snap, refs, item, wait>>
history == <<enters, inside, called, submitted, saw>>
vars == <<group, lifetime, sleepers, pc, locals, crash, history>>
-----------------------------------------------------------------------------
States == [gen : Nat, value : 0..MaxCount, notifs : BOOLEAN, waiters : BOOLEAN]
NoState == [gen |-> 0, value |-> 0, notifs |-> FALSE, waiters |-> FALSE]
NoWait == [timeout |-> "FOREVER", rc |-> "0"]

Calls == Threads \union Notifs   \* what the history "saw" is kept for

Low32IsZero(s) == s.value = 0 /\ ~s.notifs /\ ~s.waiters

WaitLabels == {"w_wait", "w_asleep", "w_check", "w_done", "w_timedout"}
Waiting == {t \in Threads : pc[t] \in WaitLabels}

Goto(t, label) == pc' = [pc EXCEPT ![t] = label]

\* The call of t returns; its locals are gone.
Return(t) == /\ Goto(t, "idle")
             /\ old' = [old EXCEPT ![t] = NoState]
             /\ snap' = [snap EXCEPT ![t] = <<>>]
             /\ refs' = [refs EXCEPT ![t] = 0]
             /\ item' = [item EXCEPT ![t] = NoItem]
             /\ wait' = [wait EXCEPT ![t] = NoWait]

Running == crash = "none" /\ ~freed
-----------------------------------------------------------------------------
\* dispatch_group_create
Init == /\ dg_state = NoState
        /\ dg_notify = <<>> /\ linked = {}
        /\ refcnt = 1 /\ client = TRUE /\ freed = FALSE
        /\ sleepers = {}
        /\ pc = [t \in Threads |-> "idle"]
        /\ old = [t \in Threads |-> NoState]
        /\ snap = [t \in Threads |-> <<>>]
        /\ refs = [t \in Threads |-> 0]
        /\ item = [t \in Threads |-> NoItem]
        /\ wait = [t \in Threads |-> NoWait]
        /\ crash = "none"
        /\ enters = 0 /\ inside = 0
        /\ called = {} /\ submitted = [n \in Notifs |-> 0]
        /\ saw = [c \in Calls |-> FALSE]

\* Mutation of Enter: no overflow check.
Enter_Unchecked(t) ==
  /\ Running /\ client /\ pc[t] = "idle"
  /\ enters < MaxEnters
  /\ enters' = enters + 1
  /\ dg_state' = [dg_state EXCEPT !.value = @ + 1]
  /\ IF dg_state.value = 0
       THEN Goto(t, "e_retain") /\ UNCHANGED inside
       ELSE inside' = inside + 1 /\ UNCHANGED pc
  /\ UNCHANGED <<dg_notify, linked, lifetime, sleepers, locals, crash, called, submitted, saw>>

(***************************************************************************)
(* dispatch_group_enter: a 32 bit decrement that does not touch the        *)
(* generation; the first block retains the group.                          *)
(***************************************************************************)
Enter(t) ==
  /\ Running /\ client /\ pc[t] = "idle"
  /\ enters < MaxEnters
  /\ enters' = enters + 1
  /\ IF dg_state.value = MaxCount
       THEN /\ crash' = "nested_enters"
            /\ dg_state' = [dg_state EXCEPT !.value = 0]
       ELSE /\ dg_state' = [dg_state EXCEPT !.value = @ + 1]
            /\ UNCHANGED crash
  /\ IF dg_state.value = 0
       THEN Goto(t, "e_retain") /\ UNCHANGED inside
       ELSE inside' = inside + 1 /\ UNCHANGED pc
  /\ UNCHANGED <<dg_notify, linked, lifetime, sleepers, locals, called, submitted, saw>>

EnterRetain(t) ==
  /\ Running /\ pc[t] = "e_retain"
  /\ refcnt' = refcnt + 1
  /\ inside' = inside + 1
  /\ Goto(t, "idle")
  /\ UNCHANGED <<group, client, freed, sleepers, locals, crash, enters, called,
                 submitted, saw>>
-----------------------------------------------------------------------------
WakeLabel(s) == IF s.notifs THEN "k_snapshot" ELSE IF s.waiters THEN "k_wake" ELSE "k_release"

GroupWake(t, s, needs_release) ==
  /\ old' = [old EXCEPT ![t] = s]
  /\ refs' = [refs EXCEPT ![t] = (IF needs_release THEN 1 ELSE 0) + (IF s.notifs THEN 1 ELSE 0)]
  /\ Goto(t, WakeLabel(s))

\* Mutation of LeaveState: clear the waiters of a group that was entered again, too.
LeaveState_All(s) == [s EXCEPT !.waiters = FALSE, !.notifs = FALSE]

\* What the loop of dispatch_group_leave stores for old_state s.
LeaveState(s) == IF s.value = 0 THEN [s EXCEPT !.waiters = FALSE, !.notifs = FALSE]
                                ELSE [s EXCEPT !.notifs = FALSE]

\* One turn of that loop: stop when there is nothing to clear, else try to swap.
LeaveLoop(t, s) ==
  IF LeaveState(s) = s
    THEN GroupWake(t, s, TRUE)
    ELSE old' = [old EXCEPT ![t] = s] /\ Goto(t, "l_cas") /\ UNCHANGED refs

(***************************************************************************)
(* dispatch_group_leave: a 64 bit increment whose carry bumps the          *)
(* generation when the last block leaves.  A client leaves what it         *)
(* entered; the one unbalanced call considered is on an idle group.        *)
(***************************************************************************)
Leave(t) ==
  /\ Running /\ pc[t] = "idle"
  /\ \/ /\ inside > 0 /\ inside' = inside - 1
        /\ dg_state.value > 1
        /\ dg_state' = [dg_state EXCEPT !.value = @ - 1]
        /\ UNCHANGED <<pc, old, refs, crash, saw>>
     \/ /\ inside > 0 /\ inside' = inside - 1
        /\ dg_state.value = 1
        /\ dg_state' = [dg_state EXCEPT !.value = 0, !.gen = @ + 1]
        /\ LeaveLoop(t, dg_state')
        /\ saw' = [c \in Calls |-> c \in Waiting \/ c \in called]
        /\ UNCHANGED crash
     \/ /\ dg_state.value = 0 /\ client /\ \A u \in Threads : pc[u] = "idle"
        /\ dg_state' = [dg_state EXCEPT !.value = MaxCount]
        /\ crash' = "unbalanced"
        /\ UNCHANGED <<pc, old, refs, inside, saw>>
  /\ UNCHANGED <<dg_notify, linked, lifetime, sleepers, snap, item, wait, enters,
                 called, submitted>>

LeaveCas(t) ==
  /\ Running /\ pc[t] = "l_cas"
  /\ IF dg_state = old[t]
       THEN dg_state' = LeaveState(old[t]) /\ GroupWake(t, old[t], TRUE)
       ELSE LeaveLoop(t, dg_state) /\ UNCHANGED dg_state
  /\ UNCHANGED <<dg_notify, linked, lifetime, sleepers, snap, item, wait, crash, history>>

\* os_mpsc_capture_snapshot: waits for the head to be linked, takes the whole list.
WakeSnapshot(t) ==
  /\ Running /\ pc[t] = "k_snapshot"
  /\ dg_notify # <<>> /\ Head(dg_notify) \in linked
  /\ snap' = [snap EXCEPT ![t] = dg_notify]
  /\ dg_notify' = <<>>
  /\ Goto(t, "k_notify")
  /\ UNCHANGED <<dg_state, linked, lifetime, sleepers, old, refs, item, wait, crash, history>>

\* Mutation of WakeNotify: the last block is not taken off the list.
WakeNotify_NoPop(t) ==
  /\ Running /\ pc[t] = "k_notify"
  /\ Len(snap[t]) > 1 => snap[t][2] \in linked
  /\ submitted' = [submitted EXCEPT ![Head(snap[t])] = @ + 1]
  /\ snap' = [snap EXCEPT ![t] = IF Len(@) > 1 THEN Tail(@) ELSE @]
  /\ UNCHANGED <<group, lifetime, sleepers, pc, old, refs, item, wait, crash, enters,
                 inside, called, saw>>

\* One turn of the do-while loop: the next block must be linked before this one goes.
WakeNotify(t) ==
  /\ Running /\ pc[t] = "k_notify"
  /\ Len(snap[t]) > 1 => snap[t][2] \in linked
  /\ submitted' = [submitted EXCEPT ![Head(snap[t])] = @ + 1]
  /\ snap' = [snap EXCEPT ![t] = Tail(@)]
  /\ IF Len(snap[t]) > 1
       THEN UNCHANGED pc
       ELSE Goto(t, IF old[t].waiters THEN "k_wake" ELSE "k_release")
  /\ UNCHANGED <<group, lifetime, sleepers, old, refs, item, wait, crash, enters,
                 inside, called, saw>>

\* _dispatch_wake_by_address(&dg->dg_gen) wakes all the sleepers.
WakeByAddress(t) ==
  /\ Running /\ pc[t] = "k_wake"
  /\ sleepers' = {}
  /\ pc' = [u \in Threads |-> IF u = t THEN "k_release"
                              ELSE IF u \in sleepers THEN "w_check" ELSE pc[u]]
  /\ UNCHANGED <<group, lifetime, locals, crash, history>>

\* The last reference disposes of the group, and finds it in use or not.
Release(n) ==
  /\ refcnt' = refcnt - n
  /\ IF refcnt - n > 0 THEN UNCHANGED <<freed, crash>>
     ELSE /\ freed' = TRUE
          /\ IF Low32IsZero(dg_state) THEN UNCHANGED crash
             ELSE crash' = "in_use"

WakeRelease(t) ==
  /\ Running /\ pc[t] = "k_release"
  /\ IF refs[t] > 0 THEN Release(refs[t]) ELSE UNCHANGED <<refcnt, freed, crash>>
  /\ Return(t)
  /\ UNCHANGED <<group, client, sleepers, history>>

(***************************************************************************)
(* dispatch_release by the client.  Calls other than leave use its         *)
(* reference, so none is in progress; a wake-up has references of its own. *)
(***************************************************************************)
ClientRelease ==
  /\ Running /\ client
  /\ \A t \in Threads : pc[t] \in {"idle", "l_cas", "k_snapshot", "k_notify", "k_wake", "k_release"}
  /\ client' = FALSE
  /\ Release(1)
  /\ UNCHANGED <<group, sleepers, pc, locals, history>>
-----------------------------------------------------------------------------
\* Mutation of Notify: the list retains nothing.
Notify_NoRetain(t, n) ==
  /\ Running /\ client /\ pc[t] = "idle" /\ n \notin called
  /\ called' = called \union {n}
  /\ saw' = [saw EXCEPT ![n] = dg_state.value = 0]
  /\ dg_notify' = Append(dg_notify, n)
  /\ item' = [item EXCEPT ![t] = n]
  /\ Goto(t, IF dg_notify = <<>> THEN "n_head" ELSE "n_link")
  /\ UNCHANGED <<dg_state, linked, lifetime, sleepers, old, snap, refs, wait, crash,
                 enters, inside, submitted>>

(***************************************************************************)
(* dispatch_group_notify: exchange the tail, retain the group when the     *)
(* list was empty, write the link, and, when the list was empty, set       *)
(* HAS_NOTIFS or find the group idle and fire at once.                     *)
(***************************************************************************)
Notify(t, n) ==
  /\ Running /\ client /\ pc[t] = "idle" /\ n \notin called
  /\ called' = called \union {n}
  /\ saw' = [saw EXCEPT ![n] = dg_state.value = 0]
  /\ dg_notify' = Append(dg_notify, n)
  /\ item' = [item EXCEPT ![t] = n]
  /\ Goto(t, IF dg_notify = <<>> THEN "n_retain" ELSE "n_link")
  /\ UNCHANGED <<dg_state, linked, lifetime, sleepers, old, snap, refs, wait, crash,
                 enters, inside, submitted>>

NotifyRetain(t) ==
  /\ Running /\ pc[t] = "n_retain"
  /\ refcnt' = refcnt + 1
  /\ Goto(t, "n_head")
  /\ UNCHANGED <<group, client, freed, sleepers, locals, crash, history>>

\* os_mpsc_push_update_prev: the head of the list, or the link of its last block.
NotifyLink(t) ==
  /\ Running /\ pc[t] \in {"n_head", "n_link"}
  /\ linked' = linked \union {item[t]}
  /\ IF pc[t] = "n_head" THEN Goto(t, "n_state") /\ UNCHANGED locals ELSE Return(t)
  /\ UNCHANGED <<dg_state, dg_notify, lifetime, sleepers, crash, history>>

\* Mutations of NotifyState: set the flag, also on a group that is already empty; look at
\* the value alone, and fire although a flag is still up.
NotifyState_SetAlways(t) ==
  /\ Running /\ pc[t] = "n_state"
  /\ dg_state' = [dg_state EXCEPT !.notifs = TRUE] /\ Return(t)
  /\ UNCHANGED <<dg_notify, linked, lifetime, sleepers, crash, history>>

NotifyState_FireAlways(t) ==
  /\ Running /\ pc[t] = "n_state"
  /\ dg_state' = [dg_state EXCEPT !.notifs = dg_state.value > 0]
  /\ GroupWake(t, [dg_state EXCEPT !.notifs = TRUE], FALSE)
  /\ UNCHANGED <<dg_notify, linked, lifetime, sleepers, snap, item, wait, crash, history>>

NotifyState(t) ==
  /\ Running /\ pc[t] = "n_state"
  /\ IF Low32IsZero(dg_state)
       THEN /\ GroupWake(t, [dg_state EXCEPT !.notifs = TRUE], FALSE)
            /\ UNCHANGED <<dg_state, snap, item, wait>>
       ELSE dg_state' = [dg_state EXCEPT !.notifs = TRUE] /\ Return(t)
  /\ UNCHANGED <<dg_notify, linked, lifetime, sleepers, crash, history>>
-----------------------------------------------------------------------------
(***************************************************************************)
(* dispatch_group_wait: an empty group returns 0 and DISPATCH_TIME_NOW     *)
(* times out, both without a trace (the loop is given up), so they are no  *)
(* steps; any other call sets HAS_WAITERS and takes the generation.        *)
(***************************************************************************)
Wait(t, timeout) ==
  /\ Running /\ client /\ pc[t] = "idle"
  /\ dg_state.value > 0
  /\ dg_state' = [dg_state EXCEPT !.waiters = TRUE]
  /\ old' = [old EXCEPT ![t] = dg_state']
  /\ wait' = [wait EXCEPT ![t] = [timeout |-> timeout, rc |-> "0"]]
  /\ Goto(t, "w_wait")
  /\ UNCHANGED <<dg_notify, linked, lifetime, sleepers, snap, refs, item, crash, history>>

\* _dispatch_wait_on_address: the kernel compares the generation and sleeps, atomically.
WaitSleep(t) ==
  /\ Running /\ pc[t] = "w_wait"
  /\ IF dg_state.gen = old[t].gen
       THEN sleepers' = sleepers \union {t} /\ Goto(t, "w_asleep")
       ELSE Goto(t, "w_check") /\ UNCHANGED sleepers
  /\ UNCHANGED <<group, lifetime, locals, crash, history>>

\* A timed wait returns ETIMEDOUT, before or after it slept.
WaitTimedOut(t) ==
  /\ Running /\ pc[t] \in {"w_wait", "w_asleep"} /\ wait[t].timeout = "TIMED"
  /\ wait' = [wait EXCEPT ![t].rc = "ETIMEDOUT"]
  /\ sleepers' = sleepers \ {t}
  /\ Goto(t, "w_check")
  /\ UNCHANGED <<group, lifetime, old, snap, refs, item, crash, history>>

\* A timed wait is interrupted, and wait_slow goes round its loop.
WaitInterrupted(t) ==
  /\ Running /\ pc[t] = "w_asleep" /\ wait[t].timeout = "TIMED"
  /\ sleepers' = sleepers \ {t}
  /\ Goto(t, "w_check")
  /\ UNCHANGED <<group, lifetime, locals, crash, history>>

\* Mutation of WaitCheck: any wakeup that is not a timeout counts as success.
WaitCheck_NoGen(t) ==
  /\ Running /\ pc[t] = "w_check"
  /\ Goto(t, IF wait[t].rc = "ETIMEDOUT" THEN "w_timedout" ELSE "w_done")
  /\ UNCHANGED <<group, lifetime, sleepers, locals, crash, history>>

\* The tests of the loop of _dispatch_group_wait_slow.
WaitCheck(t) ==
  /\ Running /\ pc[t] = "w_check"
  /\ \/ dg_state.gen # old[t].gen /\ Goto(t, "w_done")
     \/ dg_state.gen = old[t].gen /\ wait[t].rc = "ETIMEDOUT" /\ Goto(t, "w_timedout")
     \/ dg_state.gen = old[t].gen /\ wait[t].rc # "ETIMEDOUT" /\ Goto(t, "w_wait")
  /\ UNCHANGED <<group, lifetime, sleepers, locals, crash, history>>

\* dispatch_group_wait returns 0 or _DSEMA4_TIMEOUT().
WaitReturn(t) ==
  /\ Running /\ pc[t] \in {"w_done", "w_timedout"}
  /\ Return(t)
  /\ saw' = [saw EXCEPT ![t] = FALSE]
  /\ UNCHANGED <<group, lifetime, sleepers, crash, enters, inside, called, submitted>>
-----------------------------------------------------------------------------
\* The steps a thread takes by itself once it is inside a call.
InCall(t) == \/ EnterRetain(t)
             \/ LeaveCas(t)
             \/ WakeSnapshot(t)
             \/ WakeNotify(t)
             \/ WakeByAddress(t)
             \/ WakeRelease(t)
             \/ NotifyRetain(t)
             \/ NotifyLink(t)
             \/ NotifyState(t)
             \/ WaitSleep(t)
             \/ WaitCheck(t)
             \/ WaitReturn(t)

Next == \/ \E t \in Threads : \/ Enter(t)
                              \/ Leave(t)
                              \/ \E n \in Notifs : Notify(t, n)
                              \/ \E to \in {"TIMED", "FOREVER"} : Wait(t, to)
                              \/ InCall(t)
                              \/ WaitTimedOut(t)
                              \/ WaitInterrupted(t)
        \/ ClientRelease

(***************************************************************************)
(* A thread inside a call keeps running.  Nothing is assumed of time       *)
(* limits, of interruptions, or of the calls the client makes.             *)
(***************************************************************************)
Fairness == \A t \in Threads : WF_vars(InCall(t))

Spec == Init /\ [][Next]_vars
FairSpec == Spec /\ Fairness
-----------------------------------------------------------------------------
Labels == {"idle", "e_retain", "l_cas", "k_snapshot", "k_notify", "k_wake", "k_release",
           "n_retain", "n_head", "n_link", "n_state"} \union WaitLabels

TypeOK ==
  /\ dg_state \in States
  /\ dg_notify \in Seq(Notifs) /\ linked \subseteq Notifs
  /\ refcnt \in Nat /\ client \in BOOLEAN /\ freed \in BOOLEAN
  /\ sleepers = {t \in Threads : pc[t] = "w_asleep"}
  /\ pc \in [Threads -> Labels]
  /\ \A t \in Threads : /\ old[t] \in States /\ snap[t] \in Seq(Notifs)
                        /\ refs[t] \in 0..2 /\ item[t] \in Notifs \union {NoItem}

(***************************************************************************)
(* dispatch_group_wait returns 0 only if the group was empty at some       *)
(* moment between the call and the return, also when other threads enter   *)
(* again before the waiter runs, and when it timed out meanwhile.          *)
(***************************************************************************)
WaitSawEmpty == \A t \in Threads : pc[t] = "w_done" => saw[t]

\* Threads that are about to capture the list, or to decide who will.
Firing == {t \in Threads : pc[t] \in {"k_snapshot", "n_retain", "n_head", "n_state"}}

(***************************************************************************)
(* HAS_NOTIFS "is also used as a lock": a non-empty list has exactly one   *)
(* party responsible for firing it, the flag (for whoever clears it) or    *)
(* one thread, and an empty list has none.                                 *)
(***************************************************************************)
OneResponsible ==
  crash = "none" => Cardinality(Firing) + (IF dg_state.notifs THEN 1 ELSE 0)
                      = IF dg_notify = <<>> THEN 0 ELSE 1

(***************************************************************************)
(* A flag left in an empty group belongs to a leaver that is still in its  *)
(* loop and will see it: nobody sets a flag on a group that has already    *)
(* been cleared, where no leave would ever look at it.                     *)
(***************************************************************************)
NoStrandedFlag ==
  crash = "none" /\ dg_state.value = 0 /\ ~Low32IsZero(dg_state)
    => \E t \in Threads : pc[t] = "l_cas"

(***************************************************************************)
(* A notification block is submitted once, however leaves, notifies and    *)
(* the list's late links interleave: there is always one party to do it,   *)
(* and a flag that some leave will look at.                                *)
(***************************************************************************)
NotifiedOnce == /\ \A n \in Notifs : submitted[n] <= 1
                /\ OneResponsible /\ NoStrandedFlag

(***************************************************************************)
(* The references taken late (after the decrement, after the exchange of   *)
(* the tail) keep the group alive: it is freed only when no thread is      *)
(* inside any call, no block is inside it and no notification is pending.  *)
(***************************************************************************)
NoUseAfterFree ==
  freed => /\ \A t \in Threads : pc[t] = "idle"
           /\ inside = 0 /\ dg_notify = <<>>
           /\ crash # "in_use"

(***************************************************************************)
(* No lost wakeup: once the group has been empty during a call of          *)
(* dispatch_group_wait, that call returns, time limit or not.              *)
(***************************************************************************)
WaitReturns ==
  \A t \in Threads :
    (t \in Waiting /\ saw[t])
      ~> (pc[t] = "idle" \/ crash # "none")

\* dispatch_group_notify has returned to the caller that gave it block n.
Returned(n) == n \in called /\ \A t \in Threads : item[t] # n
Notifying == \E t \in Threads : pc[t] \in {"n_retain", "n_head", "n_state"}

(***************************************************************************)
(* No lost notification: when the group is empty after                     *)
(* dispatch_group_notify returned, and no other notify is still about to   *)
(* set the flag for the list both share, the block is submitted.           *)
(***************************************************************************)
NotifyFires ==
  \A n \in Notifs : (Returned(n) /\ dg_state.value = 0 /\ ~Notifying)
                      ~> (submitted[n] > 0 \/ crash # "none")

(***************************************************************************)
(* "This function schedules a notification block to be submitted to the    *)
(* specified queue once all blocks associated with the dispatch group have *)
(* completed": the same promise without the proviso on other calls.        *)
(***************************************************************************)
NotifyOnceEmpty ==
  \A n \in Notifs : (Returned(n) /\ dg_state.value = 0)
                      ~> (submitted[n] > 0 \/ crash # "none")

(***************************************************************************)
(* The same sentence read the other way: between the call of               *)
(* dispatch_group_notify and the submission of its block the group was     *)
(* empty, so the blocks entered before the call have completed.            *)
(***************************************************************************)
NotifyAfterEmpty == \A n \in Notifs : submitted[n] > 0 => saw[n]
=============================================================================
