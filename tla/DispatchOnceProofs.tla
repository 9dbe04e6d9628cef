-------------------------- MODULE DispatchOnceProofs --------------------------
(***************************************************************************)
(* Proofs about DispatchOnce, for every set of threads, both builds and    *)
(* every bound on the quiescent counter.                                   *)
(***************************************************************************)
EXTENDS DispatchOnce, TLAPS

\* The thread that holds the gate while it runs the block, and until it opens the gate.
Owning == {"callout", "block", "generation", "broadcast"}

\* Where a thread may be inside the dispatch_once that its own block called.
Nested == {"load", "tryenter", "wait"}

Locked(t) == dgo_once.kind = "locked" /\ dgo_once.owner = t

(***************************************************************************)
(* The gate: the word tells who is where.  Nobody is past an unlocked      *)
(* gate, a locked one belongs to the thread that runs the block, and the   *)
(* block has been run once when it is open.                                *)
(***************************************************************************)
Gate ==
  /\ dgo_once = Unlocked =>
       /\ runs = 0 /\ seen = {}
       /\ \A t \in Threads : pc[t] \in {"idle", "load", "tryenter"}
  /\ \A t \in Threads : Locked(t) => pc[t] \in Owning \/ t \in recursing
  /\ dgo_once.kind = "locked" =>
       IF pc[dgo_once.owner] = "callout" THEN runs = 0 ELSE runs = 1
  /\ dgo_once.kind \in {"gen", "done"} => runs = 1
  /\ \A t \in Threads : pc[t] \in Owning => Locked(t)
  /\ \A t \in recursing : Locked(t) /\ pc[t] \in Nested
  /\ \A t \in Threads : pc[t] \in {"quiesced", "markdone"} => dgo_once.kind \in {"gen", "done"}
  /\ \A t \in Threads : pc[t] \in {"sleep", "asleep"} => expected[t].waiters

(***************************************************************************)
(* What the barriers have done by the time the counter has moved on from   *)
(* g, a value it had after the block had ended: once it has moved, there   *)
(* is a thread of seen that has not switched since, or a barrier came      *)
(* after the block's writes; when it has moved again, that barrier has     *)
(* come; and when it has moved three times everybody has switched since.   *)
(***************************************************************************)
Since(g) ==
  /\ g \in Nat /\ g <= generation
  /\ seen # {}
  /\ generation >= g + 1 => flushed \/ \E s \in seen : s \notin mask
  /\ generation >= g + 2 => flushed /\ (mask \subseteq seen)
  /\ generation >= g + 3 => seen = Threads

\* Who is sure to see what the block wrote, and how the generations bear on it.
Visibility ==
  /\ \A t \in Threads : pc[t] \in {"generation", "broadcast", "wake", "quiesced", "markdone", "return"}
                          => t \in seen
  /\ dgo_once.kind = "gen" => quiescent /\ Since(dgo_once.gen)
  /\ \A t \in Threads : pc[t] = "broadcast" /\ quiescent => Since(gen[t])
  /\ \A t \in Threads : pc[t] = "quiesced" => quiescent /\ Since(gen[t])
  /\ \A t \in Threads : pc[t] = "markdone" => seen = Threads
  /\ quiescent /\ dgo_once = Done => seen = Threads

(***************************************************************************)
(* The inductive invariant.  None of the properties is inductive alone:    *)
(* that a done word may be read without a barrier rests on what the        *)
(* counter has seen since the generation in the word was read.             *)
(***************************************************************************)
IInv == /\ TypeOK /\ Gate /\ Visibility
        /\ SleepersFlagged /\ OnlyRecursionCrashes
-----------------------------------------------------------------------------
\* The words are told apart by their kind.
LEMMA WordKinds ==
  /\ Unlocked.kind = "unlocked" /\ Unlocked.gen = 0 /\ ~Unlocked.waiters
  /\ Done.kind = "done" /\ Done.gen = 0 /\ ~Done.waiters
  /\ \A g : Generation(g).kind = "gen" /\ Generation(g).gen = g /\ ~Generation(g).waiters
  /\ \A t : LockedBy(t).kind = "locked" /\ LockedBy(t).owner = t /\ ~LockedBy(t).waiters
PROOF
  <1>1. Unlocked.kind = "unlocked" /\ Unlocked.gen = 0 /\ ~Unlocked.waiters
    BY DEF Unlocked
  <1>2. Done.kind = "done" /\ Done.gen = 0 /\ ~Done.waiters
    BY DEF Unlocked, Done
  <1>3. \A g : Generation(g).kind = "gen" /\ Generation(g).gen = g /\ ~Generation(g).waiters
    BY DEF Unlocked, Generation
  <1>4. \A t : LockedBy(t).kind = "locked" /\ LockedBy(t).owner = t /\ ~LockedBy(t).waiters
    BY DEF Unlocked, LockedBy
  <1>. QED
    BY <1>1, <1>2, <1>3, <1>4

\* Every word is one of the four, and its kind says which.
WordFacts(w) ==
  /\ w.kind \in {"unlocked", "done", "gen", "locked"}
  /\ w.kind = "unlocked" => w = Unlocked
  /\ w.kind = "done" => w = Done
  /\ w.kind = "gen" => w = Generation(w.gen)
  /\ w.kind = "locked" => w \in [kind : {"locked"}, owner : Threads, waiters : BOOLEAN, gen : {0}]
  /\ w.gen \in 0..MaxGen
  /\ w.waiters => w.kind = "locked"

\* What each form of the gate word is.
LEMMA WordCases == ASSUME NEW w \in Words PROVE WordFacts(w)
PROOF
  <1>. USE DEF WordFacts
  <1>0. 0 \in 0..MaxGen
    BY OnceAssumption
  <1>1. CASE w = Unlocked
    BY <1>0, <1>1, WordKinds
  <1>2. CASE w = Done
    BY <1>0, <1>2, WordKinds
  <1>3. CASE \E g \in 0..MaxGen : w = Generation(g)
    BY <1>3, WordKinds
  <1>4. CASE w \in [kind : {"locked"}, owner : Threads, waiters : BOOLEAN, gen : {0}]
    BY <1>0, <1>4
  <1>. QED
    BY <1>1, <1>2, <1>3, <1>4 DEF Words

\* Setting the waiters bit of a locked word changes nothing else.
LEMMA WaitersBit ==
  ASSUME NEW w \in Words, w.kind = "locked", NEW v, v = [w EXCEPT !.waiters = TRUE]
  PROVE  /\ v \in Words /\ v.kind = "locked" /\ v.owner = w.owner /\ v.waiters
         /\ w.waiters => v = w
PROOF
  <1>1. w \in [kind : {"locked"}, owner : Threads, waiters : BOOLEAN, gen : {0}]
    BY WordCases DEF WordFacts
  <1>. QED
    BY <1>1 DEF Words

\* The words the actions store are words.
LEMMA NewWords ==
  /\ \A t \in Threads : LockedBy(t) \in Words
  /\ Unlocked \in Words /\ Done \in Words /\ \A g \in 0..MaxGen : Generation(g) \in Words
PROOF
  <1>1. ASSUME NEW t \in Threads
        PROVE LockedBy(t) \in [kind : {"locked"}, owner : Threads, waiters : BOOLEAN, gen : {0}]
    BY <1>1 DEF Unlocked, LockedBy
  <1>. QED
    BY <1>1 DEF Words

\* A context switch keeps the counter's promise: the CPU that switches last completes a round.
LEMMA SinceSwitch ==
  ASSUME TypeOK, NEW t \in Threads, ContextSwitch(t), NEW g, Since(g)
  PROVE  Since(g)'
PROOF
  <1>. USE DEF TypeOK, ContextSwitch, Since
  <1>1. CASE mask \union {t} = Threads
    <2>1. generation' = generation + 1 /\ mask' = {}
      BY <1>1
    <2>2. generation >= g + 1 => flushed'
      BY <1>1
    <2>3. generation >= g + 2 => seen' = Threads
      BY <1>1
    <2>. QED
      BY <2>1, <2>2, <2>3
  <1>2. CASE mask \union {t} # Threads
    BY <1>2
  <1>. QED
    BY <1>1, <1>2
-----------------------------------------------------------------------------
\* Every action keeps the types: the word it stores is a word, the counter within its bound.
LEMMA TypeStep == ASSUME IInv, Next PROVE TypeOK'
PROOF
  <1>. USE WordKinds, NewWords DEF IInv, TypeOK, Goto, Running, locals, counter, visibility, WordFacts, Labels, Words, Gate
  <1>0. WordFacts(dgo_once)
    BY WordCases DEF IInv, TypeOK
  <1>1. ASSUME NEW t \in Threads, Once(t), UNCHANGED quiescent PROVE TypeOK'
    BY <1>0, <1>1 DEF Once, See, Acquires
  <1>2. ASSUME NEW t \in Threads, OnceLoad(t), UNCHANGED quiescent PROVE TypeOK'
    BY <1>0, <1>2 DEF OnceLoad, See, Acquires
  <1>3. ASSUME NEW t \in Threads, OnceQuiesced(t), UNCHANGED quiescent PROVE TypeOK'
    BY <1>0, <1>3 DEF OnceQuiesced
  <1>4. ASSUME NEW t \in Threads, OnceMarkDone(t), UNCHANGED quiescent PROVE TypeOK'
    BY <1>0, <1>4 DEF OnceMarkDone
  <1>5. ASSUME NEW t \in Threads, OnceTryEnter(t), UNCHANGED quiescent PROVE TypeOK'
    BY <1>0, <1>5 DEF OnceTryEnter
  <1>6. ASSUME NEW t \in Threads, OnceCallout(t), UNCHANGED quiescent PROVE TypeOK'
    BY <1>0, <1>6 DEF OnceCallout
  <1>7. ASSUME NEW t \in Threads, BlockEnds(t), UNCHANGED quiescent PROVE TypeOK'
    BY <1>0, <1>7 DEF BlockEnds
  <1>8. ASSUME NEW t \in Threads, BlockRecurses(t), UNCHANGED quiescent PROVE TypeOK'
    BY <1>0, <1>8 DEF BlockRecurses
  <1>9. ASSUME NEW t \in Threads, OnceGeneration(t), UNCHANGED quiescent PROVE TypeOK'
    BY <1>0, <1>9, OnceAssumption DEF OnceGeneration
  <1>10. ASSUME NEW t \in Threads, OnceBroadcast(t), UNCHANGED quiescent PROVE TypeOK'
    BY <1>0, <1>10 DEF OnceBroadcast
  <1>11. ASSUME NEW t \in Threads, OnceWake(t), UNCHANGED quiescent PROVE TypeOK'
    BY <1>0, <1>11 DEF OnceWake
  <1>12. ASSUME NEW t \in Threads, OnceWait(t), UNCHANGED quiescent PROVE TypeOK'
    BY <1>0, <1>12, WaitersBit DEF OnceWait, See, Acquires
  <1>13. ASSUME NEW t \in Threads, OnceSleep(t), UNCHANGED quiescent PROVE TypeOK'
    BY <1>0, <1>13 DEF OnceSleep
  <1>14. ASSUME NEW t \in Threads, OnceReturn(t), UNCHANGED quiescent PROVE TypeOK'
    BY <1>0, <1>14, OnceAssumption DEF OnceReturn
  <1>15. ASSUME NEW t \in Threads, ContextSwitch(t), UNCHANGED quiescent PROVE TypeOK'
    <2>1. generation' \in 0..MaxGen
      BY <1>15, OnceAssumption DEF ContextSwitch
    <2>2. flushed' \in BOOLEAN
      BY <1>15 DEF ContextSwitch
    <2>3. mask' \subseteq Threads /\ seen' \subseteq Threads
      BY <1>15 DEF ContextSwitch
    <2>4. UNCHANGED <<quiescent, dgo_once, pc, locals, crash, runs>>
      BY <1>15 DEF ContextSwitch
    <2>. QED
      BY <2>1, <2>2, <2>3, <2>4
  <1>. QED
    BY <1>1, <1>2, <1>3, <1>4, <1>5, <1>6, <1>7, <1>8, <1>9, <1>10, <1>11, <1>12, <1>13, <1>14, <1>15 DEF Next, InCall

\* Every action keeps the gate: only the winner of the exchange runs the block and opens it.
LEMMA GateStep == ASSUME IInv, Next PROVE Gate'
PROOF
  <1>. USE WordKinds DEF IInv, TypeOK, Goto, Running, locals, counter, visibility, WordFacts, Gate, Locked, Owning, Nested
  <1>0. WordFacts(dgo_once)
    BY WordCases DEF IInv, TypeOK
  <1>1. ASSUME NEW t \in Threads, Once(t), UNCHANGED quiescent PROVE Gate'
    BY <1>0, <1>1 DEF Once, See, Acquires
  <1>2. ASSUME NEW t \in Threads, OnceLoad(t), UNCHANGED quiescent PROVE Gate'
    BY <1>0, <1>2 DEF OnceLoad, See, Acquires
  <1>3. ASSUME NEW t \in Threads, OnceQuiesced(t), UNCHANGED quiescent PROVE Gate'
    BY <1>0, <1>3 DEF OnceQuiesced
  <1>4. ASSUME NEW t \in Threads, OnceMarkDone(t), UNCHANGED quiescent PROVE Gate'
    BY <1>0, <1>4 DEF OnceMarkDone
  <1>5. ASSUME NEW t \in Threads, OnceTryEnter(t), UNCHANGED quiescent PROVE Gate'
    BY <1>0, <1>5 DEF OnceTryEnter
  <1>6. ASSUME NEW t \in Threads, OnceCallout(t), UNCHANGED quiescent PROVE Gate'
    BY <1>0, <1>6 DEF OnceCallout
  <1>7. ASSUME NEW t \in Threads, BlockEnds(t), UNCHANGED quiescent PROVE Gate'
    BY <1>0, <1>7 DEF BlockEnds
  <1>8. ASSUME NEW t \in Threads, BlockRecurses(t), UNCHANGED quiescent PROVE Gate'
    BY <1>0, <1>8 DEF BlockRecurses
  <1>9. ASSUME NEW t \in Threads, OnceGeneration(t), UNCHANGED quiescent PROVE Gate'
    BY <1>0, <1>9 DEF OnceGeneration
  <1>10. ASSUME NEW t \in Threads, OnceBroadcast(t), UNCHANGED quiescent PROVE Gate'
    BY <1>0, <1>10 DEF OnceBroadcast
  <1>11. ASSUME NEW t \in Threads, OnceWake(t), UNCHANGED quiescent PROVE Gate'
    BY <1>0, <1>11 DEF OnceWake
  <1>12. ASSUME NEW t \in Threads, OnceWait(t), UNCHANGED quiescent PROVE Gate'
    BY <1>0, <1>12 DEF OnceWait, See, Acquires
  <1>13. ASSUME NEW t \in Threads, OnceSleep(t), UNCHANGED quiescent PROVE Gate'
    BY <1>0, <1>13 DEF OnceSleep
  <1>14. ASSUME NEW t \in Threads, OnceReturn(t), UNCHANGED quiescent PROVE Gate'
    BY <1>0, <1>14 DEF OnceReturn
  <1>15. ASSUME NEW t \in Threads, ContextSwitch(t), UNCHANGED quiescent PROVE Gate'
    BY <1>0, <1>15 DEF ContextSwitch
  <1>. QED
    BY <1>1, <1>2, <1>3, <1>4, <1>5, <1>6, <1>7, <1>8, <1>9, <1>10, <1>11, <1>12, <1>13, <1>14, <1>15 DEF Next, InCall

\* Every action keeps the order of the barriers: whoever leaves has acquired what the block wrote.
LEMMA VisibilityStep == ASSUME IInv, Next PROVE Visibility'
PROOF
  <1>. USE WordKinds DEF IInv, TypeOK, Goto, Running, locals, counter, visibility, WordFacts, Gate, Visibility, Locked, Owning, Nested, Since
  <1>0. WordFacts(dgo_once)
    BY WordCases DEF IInv, TypeOK
  <1>1. ASSUME NEW t \in Threads, Once(t), UNCHANGED quiescent PROVE Visibility'
    BY <1>0, <1>1 DEF Once, See, Acquires
  <1>2. ASSUME NEW t \in Threads, OnceLoad(t), UNCHANGED quiescent PROVE Visibility'
    BY <1>0, <1>2 DEF OnceLoad, See, Acquires
  <1>3. ASSUME NEW t \in Threads, OnceQuiesced(t), UNCHANGED quiescent PROVE Visibility'
    BY <1>0, <1>3 DEF OnceQuiesced, DISPATCH_ONCE_GEN_SAFE_DELTA
  <1>4. ASSUME NEW t \in Threads, OnceMarkDone(t), UNCHANGED quiescent PROVE Visibility'
    BY <1>0, <1>4 DEF OnceMarkDone
  <1>5. ASSUME NEW t \in Threads, OnceTryEnter(t), UNCHANGED quiescent PROVE Visibility'
    BY <1>0, <1>5 DEF OnceTryEnter
  <1>6. ASSUME NEW t \in Threads, OnceCallout(t), UNCHANGED quiescent PROVE Visibility'
    BY <1>0, <1>6 DEF OnceCallout
  <1>7. ASSUME NEW t \in Threads, BlockEnds(t), UNCHANGED quiescent PROVE Visibility'
    BY <1>0, <1>7 DEF BlockEnds
  <1>8. ASSUME NEW t \in Threads, BlockRecurses(t), UNCHANGED quiescent PROVE Visibility'
    BY <1>0, <1>8 DEF BlockRecurses
  <1>9. ASSUME NEW t \in Threads, OnceGeneration(t), UNCHANGED quiescent PROVE Visibility'
    BY <1>0, <1>9 DEF OnceGeneration
  <1>10. ASSUME NEW t \in Threads, OnceBroadcast(t), UNCHANGED quiescent PROVE Visibility'
    BY <1>0, <1>10 DEF OnceBroadcast
  <1>11. ASSUME NEW t \in Threads, OnceWake(t), UNCHANGED quiescent PROVE Visibility'
    BY <1>0, <1>11 DEF OnceWake
  <1>12. ASSUME NEW t \in Threads, OnceWait(t), UNCHANGED quiescent PROVE Visibility'
    <2>1. CASE dgo_once.kind = "locked"
      <3>1. dgo_once'.kind = "locked" /\ seen' = seen
        BY <1>12, <2>1, WaitersBit DEF OnceWait
      <3>. QED
        BY <1>12, <2>1, <3>1 DEF OnceWait
    <2>2. CASE dgo_once.kind = "done"
      <3>1. /\ UNCHANGED <<dgo_once, gen, counter, flushed, quiescent>> /\ pc' = [pc EXCEPT ![t] = "return"]
            /\ seen' = IF quiescent THEN seen ELSE seen \union {t}
        BY <1>12, <2>2 DEF OnceWait, See, Acquires
      <3>. QED
        BY <1>0, <2>2, <3>1
    <2>3. CASE dgo_once.kind = "gen"
      <3>1. /\ UNCHANGED <<dgo_once, counter, flushed, quiescent>> /\ seen' = seen \union {t}
            /\ pc' = [pc EXCEPT ![t] = "quiesced"] /\ gen' = [gen EXCEPT ![t] = dgo_once.gen]
        BY <1>12, <2>3 DEF OnceWait, See, Acquires
      <3>. QED
        BY <1>0, <2>3, <3>1
    <2>. QED
      BY <1>12, <2>1, <2>2, <2>3 DEF OnceWait
  <1>13. ASSUME NEW t \in Threads, OnceSleep(t), UNCHANGED quiescent PROVE Visibility'
    BY <1>0, <1>13 DEF OnceSleep
  <1>14. ASSUME NEW t \in Threads, OnceReturn(t), UNCHANGED quiescent PROVE Visibility'
    BY <1>0, <1>14 DEF OnceReturn
  <1>15. ASSUME NEW t \in Threads, ContextSwitch(t), UNCHANGED quiescent PROVE Visibility'
    <2>1. UNCHANGED <<quiescent, dgo_once, pc, gen>>
      BY <1>15 DEF ContextSwitch
    <2>2. \A g : Since(g) => Since(g)'
      BY <1>15, SinceSwitch
    <2>3. seen \subseteq seen' /\ seen' \subseteq Threads
      BY <1>15 DEF ContextSwitch
    <2>. QED
      BY <2>1, <2>2, <2>3, ZenonT(60)
  <1>. QED
    BY <1>1, <1>2, <1>3, <1>4, <1>5, <1>6, <1>7, <1>8, <1>9, <1>10, <1>11, <1>12, <1>13, <1>14, <1>15 DEF Next, InCall

\* Every action keeps the sleepers: the word they sleep on is not replaced without a wakeup.
LEMMA SleepersStep == ASSUME IInv, Next PROVE SleepersFlagged'
PROOF
  <1>. USE WordKinds DEF IInv, TypeOK, Goto, Running, locals, counter, visibility, WordFacts, Gate, SleepersFlagged, Locked, Owning, Nested
  <1>0. WordFacts(dgo_once)
    BY WordCases DEF IInv, TypeOK
  <1>1. ASSUME NEW t \in Threads, Once(t), UNCHANGED quiescent PROVE SleepersFlagged'
    BY <1>0, <1>1 DEF Once, See, Acquires
  <1>2. ASSUME NEW t \in Threads, OnceLoad(t), UNCHANGED quiescent PROVE SleepersFlagged'
    BY <1>0, <1>2 DEF OnceLoad, See, Acquires
  <1>3. ASSUME NEW t \in Threads, OnceQuiesced(t), UNCHANGED quiescent PROVE SleepersFlagged'
    BY <1>0, <1>3 DEF OnceQuiesced
  <1>4. ASSUME NEW t \in Threads, OnceMarkDone(t), UNCHANGED quiescent PROVE SleepersFlagged'
    BY <1>0, <1>4 DEF OnceMarkDone
  <1>5. ASSUME NEW t \in Threads, OnceTryEnter(t), UNCHANGED quiescent PROVE SleepersFlagged'
    BY <1>0, <1>5 DEF OnceTryEnter
  <1>6. ASSUME NEW t \in Threads, OnceCallout(t), UNCHANGED quiescent PROVE SleepersFlagged'
    BY <1>0, <1>6 DEF OnceCallout
  <1>7. ASSUME NEW t \in Threads, BlockEnds(t), UNCHANGED quiescent PROVE SleepersFlagged'
    BY <1>0, <1>7 DEF BlockEnds
  <1>8. ASSUME NEW t \in Threads, BlockRecurses(t), UNCHANGED quiescent PROVE SleepersFlagged'
    BY <1>0, <1>8 DEF BlockRecurses
  <1>9. ASSUME NEW t \in Threads, OnceGeneration(t), UNCHANGED quiescent PROVE SleepersFlagged'
    BY <1>0, <1>9 DEF OnceGeneration
  <1>10. ASSUME NEW t \in Threads, OnceBroadcast(t), UNCHANGED quiescent PROVE SleepersFlagged'
    BY <1>0, <1>10 DEF OnceBroadcast
  <1>11. ASSUME NEW t \in Threads, OnceWake(t), UNCHANGED quiescent PROVE SleepersFlagged'
    BY <1>0, <1>11 DEF OnceWake
  <1>12. ASSUME NEW t \in Threads, OnceWait(t), UNCHANGED quiescent PROVE SleepersFlagged'
    BY <1>0, <1>12, WaitersBit DEF OnceWait
  <1>13. ASSUME NEW t \in Threads, OnceSleep(t), UNCHANGED quiescent PROVE SleepersFlagged'
    BY <1>0, <1>13 DEF OnceSleep
  <1>14. ASSUME NEW t \in Threads, OnceReturn(t), UNCHANGED quiescent PROVE SleepersFlagged'
    BY <1>0, <1>14 DEF OnceReturn
  <1>15. ASSUME NEW t \in Threads, ContextSwitch(t), UNCHANGED quiescent PROVE SleepersFlagged'
    BY <1>0, <1>15 DEF ContextSwitch
  <1>. QED
    BY <1>1, <1>2, <1>3, <1>4, <1>5, <1>6, <1>7, <1>8, <1>9, <1>10, <1>11, <1>12, <1>13, <1>14, <1>15 DEF Next, InCall

\* Only a thread that finds its own name in the word ends the process.
LEMMA RecursionStep == ASSUME IInv, Next PROVE OnlyRecursionCrashes'
PROOF
  <1>. USE WordKinds DEF IInv, TypeOK, Goto, Running, locals, counter, visibility, WordFacts, Gate, OnlyRecursionCrashes, Locked, Owning
  <1>0. WordFacts(dgo_once)
    BY WordCases DEF IInv, TypeOK
  <1>1. ASSUME NEW t \in Threads, Once(t), UNCHANGED quiescent PROVE OnlyRecursionCrashes'
    BY <1>0, <1>1 DEF Once, See, Acquires
  <1>2. ASSUME NEW t \in Threads, OnceLoad(t), UNCHANGED quiescent PROVE OnlyRecursionCrashes'
    BY <1>0, <1>2 DEF OnceLoad, See, Acquires
  <1>3. ASSUME NEW t \in Threads, OnceQuiesced(t), UNCHANGED quiescent PROVE OnlyRecursionCrashes'
    BY <1>0, <1>3 DEF OnceQuiesced
  <1>4. ASSUME NEW t \in Threads, OnceMarkDone(t), UNCHANGED quiescent PROVE OnlyRecursionCrashes'
    BY <1>0, <1>4 DEF OnceMarkDone
  <1>5. ASSUME NEW t \in Threads, OnceTryEnter(t), UNCHANGED quiescent PROVE OnlyRecursionCrashes'
    BY <1>0, <1>5 DEF OnceTryEnter
  <1>6. ASSUME NEW t \in Threads, OnceCallout(t), UNCHANGED quiescent PROVE OnlyRecursionCrashes'
    BY <1>0, <1>6 DEF OnceCallout
  <1>7. ASSUME NEW t \in Threads, BlockEnds(t), UNCHANGED quiescent PROVE OnlyRecursionCrashes'
    BY <1>0, <1>7 DEF BlockEnds
  <1>8. ASSUME NEW t \in Threads, BlockRecurses(t), UNCHANGED quiescent PROVE OnlyRecursionCrashes'
    BY <1>0, <1>8 DEF BlockRecurses
  <1>9. ASSUME NEW t \in Threads, OnceGeneration(t), UNCHANGED quiescent PROVE OnlyRecursionCrashes'
    BY <1>0, <1>9 DEF OnceGeneration
  <1>10. ASSUME NEW t \in Threads, OnceBroadcast(t), UNCHANGED quiescent PROVE OnlyRecursionCrashes'
    BY <1>0, <1>10 DEF OnceBroadcast
  <1>11. ASSUME NEW t \in Threads, OnceWake(t), UNCHANGED quiescent PROVE OnlyRecursionCrashes'
    BY <1>0, <1>11 DEF OnceWake
  <1>12. ASSUME NEW t \in Threads, OnceWait(t), UNCHANGED quiescent PROVE OnlyRecursionCrashes'
    BY <1>0, <1>12 DEF OnceWait, See, Acquires
  <1>13. ASSUME NEW t \in Threads, OnceSleep(t), UNCHANGED quiescent PROVE OnlyRecursionCrashes'
    BY <1>0, <1>13 DEF OnceSleep
  <1>14. ASSUME NEW t \in Threads, OnceReturn(t), UNCHANGED quiescent PROVE OnlyRecursionCrashes'
    BY <1>0, <1>14 DEF OnceReturn
  <1>15. ASSUME NEW t \in Threads, ContextSwitch(t), UNCHANGED quiescent PROVE OnlyRecursionCrashes'
    BY <1>0, <1>15 DEF ContextSwitch
  <1>. QED
    BY <1>1, <1>2, <1>3, <1>4, <1>5, <1>6, <1>7, <1>8, <1>9, <1>10, <1>11, <1>12, <1>13, <1>14, <1>15 DEF Next, InCall


-----------------------------------------------------------------------------
\* At first nobody has called dispatch_once.
LEMMA InitInvariant == Init => IInv
PROOF
  <1>. SUFFICES ASSUME Init PROVE IInv
    OBVIOUS
  <1>. USE WordKinds, NewWords, OnceAssumption DEF Init
  <1>1. TypeOK
    <2>1. mask \subseteq Threads /\ 0 \in 0..MaxGen
      OBVIOUS
    <2>. QED
      BY <2>1 DEF TypeOK, Labels
  <1>2. Gate
    BY DEF Gate, Locked, Owning
  <1>3. Visibility
    BY DEF Visibility
  <1>4. SleepersFlagged /\ OnlyRecursionCrashes
    BY DEF SleepersFlagged, OnlyRecursionCrashes
  <1>. QED
    BY <1>1, <1>2, <1>3, <1>4 DEF IInv

\* Every step keeps the invariant, a stuttering one trivially.
LEMMA StepInvariant == IInv /\ [Next]_vars => IInv'
PROOF
  <1>1. ASSUME IInv, Next PROVE IInv'
    BY <1>1, TypeStep, GateStep, VisibilityStep, SleepersStep, RecursionStep DEF IInv
  <1>2. ASSUME IInv, UNCHANGED vars PROVE IInv'
    BY <1>2 DEF IInv, TypeOK, Gate, Locked, Visibility, Since, SleepersFlagged, OnlyRecursionCrashes,
                vars, program, locals, counter, visibility
  <1>. QED
    BY <1>1, <1>2

\* The inductive invariant holds of every state of dispatch_once.
THEOREM Invariant == Spec => []IInv
PROOF
  BY InitInvariant, StepInvariant, PTL DEF Spec

\* Every variable keeps its range: the word is never anything but the four words of the gate.
THEOREM TypeCorrect == Spec => []TypeOK
PROOF
  BY Invariant, PTL DEF IInv

\* dispatch_once runs the block once and only once.
THEOREM BlockRunsOnceHolds == Spec => []BlockRunsOnce
PROOF
  <1>1. IInv => BlockRunsOnce
    <2>1. ASSUME IInv PROVE WordFacts(dgo_once)
      BY <2>1, WordCases DEF IInv, TypeOK
    <2>. QED
      BY <2>1 DEF IInv, Gate, TypeOK, WordFacts, BlockRunsOnce
  <1>. QED
    BY <1>1, Invariant, PTL

\* Whoever returns from dispatch_once sees what the block wrote, on both builds.
THEOREM ReturnSeesBlockHolds == Spec => []ReturnSeesBlock
PROOF
  <1>1. IInv => ReturnSeesBlock
    BY DEF IInv, Visibility, ReturnSeesBlock
  <1>. QED
    BY <1>1, Invariant, PTL

\* A sleeper sleeps on the word as it stands, flagged, or is about to be woken.
THEOREM SleepersFlaggedHolds == Spec => []SleepersFlagged
PROOF
  BY Invariant, PTL DEF IInv

\* The process is only ever ended by a block that calls dispatch_once on its own predicate.
THEOREM OnlyRecursionCrashesHolds == Spec => []OnlyRecursionCrashes
PROOF
  BY Invariant, PTL DEF IInv
=============================================================================
