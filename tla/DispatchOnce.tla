----------------------------- MODULE DispatchOnce -----------------------------
(***************************************************************************)
(* dispatch_once of libdispatch (dispatch/once.h, src/once.c and the once  *)
(* gate of src/shims): a word that goes from unlocked, through locked by   *)
(* the thread that runs the block, to done, and threads that sleep on it.  *)
(*                                                                         *)
(* "quiescent" is DISPATCH_ONCE_USE_QUIESCENT_COUNTER (the ARM builds of   *)
(* Apple): the word then passes through a generation of the kernel's       *)
(* quiescent counter, and becomes done once four more have gone by, so     *)
(* that the inline fast path may read it without a barrier.  What the      *)
(* barriers guarantee is modelled by "seen": the threads (one per CPU)     *)
(* that cannot but see what the block wrote.  The counter is the kernel's; *)
(* it follows the algorithm in the comment of shims/lock.h.                *)
(***************************************************************************)
EXTENDS Naturals, FiniteSets

CONSTANTS Threads,    \* the threads that call dispatch_once, one per CPU
          Builds,     \* values of DISPATCH_ONCE_USE_QUIESCENT_COUNTER
          MaxGen,     \* bound on the quiescent counter
          NoThread

ASSUME OnceAssumption == Builds \subseteq BOOLEAN /\ MaxGen \in Nat /\ NoThread \notin Threads

VARIABLES
  quiescent,   \* the build: DISPATCH_ONCE_USE_QUIESCENT_COUNTER is defined
  dgo_once,    \* the word: [kind, owner, waiters, gen]
  pc,          \* pc[t]: where thread t is
  expected,    \* expected[t]: the local new_v of _dispatch_once_wait
  gen,         \* gen[t]: the generation thread t read
  recursing,   \* threads inside a dispatch_once called by the block itself
  generation,  \* the kernel's quiescent counter
  mask,        \* the CPUs that switched context since it last moved
  crash,       \* the reason of the DISPATCH_CLIENT_CRASH that ended the process
  runs,        \* history: how often the block was started
  seen,        \* history: threads to which the block's writes are visible
  flushed      \* history: a thread of seen has passed a full barrier

locals == <<expected, gen, recursing>>
counter == <<generation, mask>>
visibility == <<seen, flushed>>
program == <<dgo_once, pc, locals, counter, crash, runs, visibility>>
vars == <<quiescent, program>>
-----------------------------------------------------------------------------
Unlocked == [kind |-> "unlocked", owner |-> NoThread, waiters |-> FALSE, gen |-> 0]
LockedBy(t) == [Unlocked EXCEPT !.kind = "locked", !.owner = t]
Generation(g) == [Unlocked EXCEPT !.kind = "gen", !.gen = g]
Done == [Unlocked EXCEPT !.kind = "done"]

\* Mutation: the delta in the counter's raw units, without the shift.
DISPATCH_ONCE_GEN_SAFE_DELTA_Raw == 1

DISPATCH_ONCE_GEN_SAFE_DELTA == 4

Goto(t, label) == pc' = [pc EXCEPT ![t] = label]

\* Reading a done word orders the reads after it, except on the quiescent builds, where
\* it was stored relaxed; a generation was stored with release and is read with acquire.
Acquires(v) == v.kind = "gen" \/ (v.kind = "done" /\ ~quiescent)
See(t, v) == seen' = IF Acquires(v) THEN seen \union {t} ELSE seen

Running == crash = "none"
-----------------------------------------------------------------------------
Init == /\ quiescent \in Builds
        /\ dgo_once = Unlocked
        /\ pc = [t \in Threads |-> "idle"]
        /\ expected = [t \in Threads |-> Unlocked]
        /\ gen = [t \in Threads |-> 0]
        /\ recursing = {}
        /\ generation = 0
        /\ mask \in IF quiescent THEN SUBSET Threads \ {Threads} ELSE {{}}
        /\ crash = "none"
        /\ runs = 0 /\ seen = {} /\ flushed = FALSE

\* The inline _dispatch_once: a plain read of the predicate.
Once(t) ==
  /\ Running /\ pc[t] = "idle"
  /\ Goto(t, IF dgo_once = Done THEN "return" ELSE "load")
  /\ See(t, IF dgo_once = Done THEN Done ELSE Unlocked)
  /\ UNCHANGED <<dgo_once, locals, counter, crash, runs, flushed>>

\* The load-acquire at the head of dispatch_once_f.
OnceLoad(t) ==
  /\ Running /\ pc[t] = "load"
  /\ Goto(t, CASE dgo_once.kind = "done" -> "return"
               [] dgo_once.kind = "gen"  -> "quiesced"
               [] OTHER                  -> "tryenter")
  /\ gen' = [gen EXCEPT ![t] = dgo_once.gen]
  /\ See(t, dgo_once)
  /\ UNCHANGED <<dgo_once, expected, recursing, counter, crash, runs, flushed>>

\* _dispatch_once_mark_done_if_quiesced reads the counter ...
OnceQuiesced(t) ==
  /\ Running /\ pc[t] = "quiesced"
  /\ Goto(t, IF generation - gen[t] >= DISPATCH_ONCE_GEN_SAFE_DELTA THEN "markdone" ELSE "return")
  /\ UNCHANGED <<dgo_once, locals, counter, crash, runs, visibility>>

\* ... and stores DLOCK_ONCE_DONE.
OnceMarkDone(t) ==
  /\ Running /\ pc[t] = "markdone"
  /\ dgo_once' = Done
  /\ Goto(t, "return")
  /\ UNCHANGED <<locals, counter, crash, runs, visibility>>

\* Mutation of OnceTryEnter: a store that trusts the earlier load.
OnceTryEnter_Store(t) ==
  /\ Running /\ pc[t] = "tryenter"
  /\ dgo_once' = LockedBy(t) /\ Goto(t, "callout")
  /\ UNCHANGED <<locals, counter, crash, runs, visibility>>

\* _dispatch_once_gate_tryenter: the winner goes on to run the block.
OnceTryEnter(t) ==
  /\ Running /\ pc[t] = "tryenter"
  /\ IF dgo_once = Unlocked
       THEN dgo_once' = LockedBy(t) /\ Goto(t, "callout")
       ELSE Goto(t, "wait") /\ UNCHANGED dgo_once
  /\ UNCHANGED <<locals, counter, crash, runs, visibility>>

\* _dispatch_client_callout runs the block ...
OnceCallout(t) ==
  /\ Running /\ pc[t] = "callout"
  /\ runs' = runs + 1
  /\ Goto(t, "block")
  /\ UNCHANGED <<dgo_once, locals, counter, crash, visibility>>

\* ... to its end ...
BlockEnds(t) ==
  /\ Running /\ pc[t] = "block"
  /\ seen' = seen \union {t}
  /\ Goto(t, "generation")
  /\ UNCHANGED <<dgo_once, locals, counter, crash, runs, flushed>>

\* ... or into a dispatch_once on the same predicate.
BlockRecurses(t) ==
  /\ Running /\ pc[t] = "block"
  /\ recursing' = recursing \union {t}
  /\ Goto(t, "load")
  /\ UNCHANGED <<dgo_once, expected, gen, counter, crash, runs, visibility>>

\* _dispatch_once_generation, evaluated before the exchange.
OnceGeneration(t) ==
  /\ Running /\ pc[t] = "generation"
  /\ gen' = [gen EXCEPT ![t] = IF quiescent THEN generation ELSE 0]
  /\ Goto(t, "broadcast")
  /\ UNCHANGED <<dgo_once, expected, recursing, counter, crash, runs, visibility>>

\* Mutation of OnceBroadcast: wake nobody.
OnceBroadcast_NoWake(t) ==
  /\ Running /\ pc[t] = "broadcast"
  /\ dgo_once' = IF quiescent THEN Generation(gen[t]) ELSE Done
  /\ Goto(t, "return")
  /\ UNCHANGED <<locals, counter, crash, runs, visibility>>

\* The exchange of _dispatch_once_gate_broadcast: somebody may wait if the word moved.
OnceBroadcast(t) ==
  /\ Running /\ pc[t] = "broadcast"
  /\ dgo_once' = IF quiescent THEN Generation(gen[t]) ELSE Done
  /\ Goto(t, IF dgo_once = LockedBy(t) THEN "return" ELSE "wake")
  /\ UNCHANGED <<locals, counter, crash, runs, visibility>>

\* _dispatch_gate_broadcast_slow: the word it replaced was locked by this thread.
OnceWake(t) ==
  /\ Running /\ pc[t] = "wake"
  /\ pc' = [u \in Threads |-> IF u = t THEN "return"
                              ELSE IF pc[u] = "asleep" THEN "wait" ELSE pc[u]]
  /\ UNCHANGED <<dgo_once, locals, counter, crash, runs, visibility>>

\* Mutations of OnceWait: the waiters bit set on any word; no recursion check; a check
\* that forgets to compare the owner.
OnceWait_AnyWord(t) ==
  /\ Running /\ pc[t] = "wait"
  /\ dgo_once' = [dgo_once EXCEPT !.waiters = TRUE]
  /\ Goto(t, "sleep")
  /\ expected' = [expected EXCEPT ![t] = dgo_once']
  /\ UNCHANGED <<gen, seen, crash, recursing, counter, runs, flushed>>

OnceWait_NoCheck(t) ==
  /\ Running /\ pc[t] = "wait"
  /\ dgo_once.kind = "locked"
  /\ dgo_once' = [dgo_once EXCEPT !.waiters = TRUE]
  /\ Goto(t, "sleep")
  /\ expected' = [expected EXCEPT ![t] = dgo_once']
  /\ UNCHANGED <<gen, seen, crash, recursing, counter, runs, flushed>>

OnceWait_AnyOwner(t) ==
  /\ Running /\ pc[t] = "wait"
  /\ dgo_once.kind = "locked"
  /\ dgo_once' = [dgo_once EXCEPT !.waiters = TRUE]
  /\ crash' = "recursive_lock"
  /\ UNCHANGED <<pc, locals, seen, counter, runs, flushed>>

(***************************************************************************)
(* The loop of _dispatch_once_wait: give up on a word that is not locked   *)
(* any more, leave DLOCK_WAITERS_BIT on one that is; its owner crashes.    *)
(***************************************************************************)
OnceWait(t) ==
  /\ Running /\ pc[t] = "wait"
  /\ \/ /\ dgo_once.kind = "done"
        /\ See(t, Done) /\ Goto(t, "return")
        /\ UNCHANGED <<dgo_once, expected, gen, crash>>
     \/ /\ dgo_once.kind = "gen"
        /\ See(t, dgo_once) /\ Goto(t, "quiesced")
        /\ gen' = [gen EXCEPT ![t] = dgo_once.gen]
        /\ UNCHANGED <<dgo_once, expected, crash>>
     \/ /\ dgo_once.kind = "locked"
        /\ dgo_once' = [dgo_once EXCEPT !.waiters = TRUE]
        /\ IF dgo_once.owner = t
             THEN crash' = "recursive_lock" /\ UNCHANGED <<pc, expected>>
             ELSE /\ Goto(t, "sleep") /\ UNCHANGED crash
                  /\ expected' = [expected EXCEPT ![t] = dgo_once']
        /\ UNCHANGED <<gen, seen>>
  /\ UNCHANGED <<recursing, counter, runs, flushed>>

\* _dispatch_unfair_lock_wait: the kernel compares the word and sleeps, atomically.
OnceSleep(t) ==
  /\ Running /\ pc[t] = "sleep"
  /\ Goto(t, IF dgo_once = expected[t] THEN "asleep" ELSE "wait")
  /\ UNCHANGED <<dgo_once, locals, counter, crash, runs, visibility>>

\* dispatch_once returns, and its locals are gone.
OnceReturn(t) ==
  /\ Running /\ pc[t] = "return"
  /\ Goto(t, "idle")
  /\ expected' = [expected EXCEPT ![t] = Unlocked]
  /\ gen' = [gen EXCEPT ![t] = 0]
  /\ UNCHANGED <<dgo_once, recursing, counter, crash, runs, visibility>>

(***************************************************************************)
(* The kernel switches context on the CPU of t, a full barrier, and counts *)
(* it: the counter moves when all the CPUs have switched.  Nobody reads    *)
(* the counter before the block has ended, and only differences are ever   *)
(* used, so the switches up to then are left to Init: it starts the        *)
(* counter at 0 with any set of CPUs.                                      *)
(***************************************************************************)
ContextSwitch(t) ==
  /\ Running /\ quiescent /\ seen # {} /\ generation < MaxGen
  /\ flushed' = (flushed \/ t \in seen)
  /\ seen' = IF flushed THEN seen \union {t} ELSE seen
  /\ IF mask \union {t} = Threads
       THEN generation' = generation + 1 /\ mask' = {}
       ELSE mask' = mask \union {t} /\ UNCHANGED generation
  /\ UNCHANGED <<dgo_once, pc, locals, crash, runs>>

InCall(t) == \/ OnceLoad(t)
             \/ OnceQuiesced(t)
             \/ OnceMarkDone(t)
             \/ OnceTryEnter(t)
             \/ OnceCallout(t)
             \/ BlockEnds(t)
             \/ OnceGeneration(t)
             \/ OnceBroadcast(t)
             \/ OnceWake(t)
             \/ OnceWait(t)
             \/ OnceSleep(t)
             \/ OnceReturn(t)

Next == /\ \E t \in Threads : Once(t) \/ InCall(t) \/ BlockRecurses(t) \/ ContextSwitch(t)
        /\ UNCHANGED quiescent

\* A thread inside a call keeps running, and the block it runs ends.
Fairness == \A t \in Threads : WF_vars(InCall(t) /\ UNCHANGED quiescent)

Spec == Init /\ [][Next]_vars
FairSpec == Spec /\ Fairness
-----------------------------------------------------------------------------
Labels == {"idle", "load", "quiesced", "markdone", "tryenter", "callout", "block",
           "generation", "broadcast", "wake", "wait", "sleep", "asleep", "return"}
Words == {Unlocked, Done} \union {Generation(g) : g \in 0..MaxGen}
           \union [kind : {"locked"}, owner : Threads, waiters : BOOLEAN, gen : {0}]

TypeOK ==
  /\ quiescent \in Builds /\ dgo_once \in Words
  /\ pc \in [Threads -> Labels]
  /\ expected \in [Threads -> Words] /\ gen \in [Threads -> 0..MaxGen]
  /\ recursing \subseteq Threads /\ mask \subseteq Threads /\ seen \subseteq Threads
  /\ generation \in 0..MaxGen /\ flushed \in BOOLEAN
  /\ crash \in {"none", "recursive_lock"} /\ runs \in Nat

\* "Execute a block once and only once", whoever races for the word.
BlockRunsOnce == runs <= 1

(***************************************************************************)
(* Whoever returns from dispatch_once sees what the block wrote: through   *)
(* the lock, through the generation, or through a done word read with no   *)
(* barrier at all, which is why done waits for the quiescent counter.      *)
(***************************************************************************)
ReturnSeesBlock == \A t \in Threads : pc[t] = "return" => t \in seen

(***************************************************************************)
(* A thread sleeps only on the word as it stands, with the waiters bit, or *)
(* while its owner is about to wake everybody: no wakeup is lost.          *)
(***************************************************************************)
SleepersFlagged ==
  crash = "none" =>
    \A t \in Threads : pc[t] = "asleep" =>
      \/ dgo_once = expected[t] /\ dgo_once.waiters
      \/ \E u \in Threads : pc[u] = "wake"

(***************************************************************************)
(* The recursion check fires for the thread that runs the block, and only  *)
(* there: no other waiter is ever taken for the owner.                     *)
(***************************************************************************)
OnlyRecursionCrashes ==
  crash = "recursive_lock" => dgo_once.kind = "locked" /\ dgo_once.owner \in recursing

(***************************************************************************)
(* Every dispatch_once returns, unless the block itself called it again,   *)
(* and then the program is told so: it never just hangs.                   *)
(***************************************************************************)
OnceReturns ==
  \A t \in Threads : (pc[t] # "idle") ~> (pc[t] = "idle" \/ crash = "recursive_lock")
=============================================================================
