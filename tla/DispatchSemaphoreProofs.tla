----------------------- MODULE DispatchSemaphoreProofs -----------------------
(***************************************************************************)
(* Proofs about DispatchSemaphore, for every set of threads, every set of  *)
(* creation values and every width of the word.                            *)
(***************************************************************************)
EXTENDS DispatchSemaphore, FiniteSetTheorems, TLAPS

Labels == {"idle"} \union WaitLabels \union SignalLabels

\* Before a successful creation nothing has happened to the semaphore.
Pristine == /\ dsema_value = 0 /\ kcount = 0 /\ credit = 0
            /\ \A t \in Threads : pc[t] = "idle"

\* The number of threads inside each slow path.
Waiters == Cardinality(SlowWaiters)
Signallers == Cardinality(SlowSignallers)

\* WakeupBalance, and the client's bookkeeping beside the semaphore's: they
\* differ by the calls inside wait_slow.
Balances == crash # "unbalanced" =>
              /\ Waiters = Negative(dsema_value) + kcount + Signallers
              /\ credit = dsema_value + Waiters

\* In the loop of wait_slow the local is negative, so that undoing does not overflow.
LoopLocal == \A t \in Threads : pc[t] = "w_undo" => orig[t] < 0

TypeInv == TypeOK /\ LoopLocal

(***************************************************************************)
(* The inductive invariant.  WakeupBalance is not inductive alone: that    *)
(* the decrement does not wrap needs the number of threads, the undo needs *)
(* a negative local, and creation needs an untouched semaphore.            *)
(***************************************************************************)
IInv == /\ TypeInv
        /\ Balances
        /\ NoOvergrant
        /\ DisposeJustified
        /\ object \in {"none", "null"} => Pristine
        /\ crash # "none" => object = "live"
-----------------------------------------------------------------------------
\* The threads at one of a set of labels are finite in number, and so can be counted.
At(L) == {t \in Threads : pc[t] \in L}

\* The threads at given labels are a finite set.
LEMMA AtFinite ==
  ASSUME NEW L
  PROVE  /\ IsFiniteSet(At(L)) /\ Cardinality(At(L)) \in Nat
         /\ \A t \in Threads \ At(L) : Cardinality(At(L)) < Cardinality(Threads)
PROOF
  <1>1. At(L) \subseteq Threads /\ IsFiniteSet(Threads)
    BY ThreadsAssumption DEF At
  <1>2. IsFiniteSet(At(L)) /\ Cardinality(At(L)) \in Nat
    BY <1>1, FS_Subset, FS_CardinalityType
  <1>3. ASSUME NEW t \in Threads \ At(L) PROVE Cardinality(At(L)) < Cardinality(Threads)
    BY <1>1, <1>3, FS_Subset, FS_CardinalityType
  <1>. QED
    BY <1>2, <1>3

\* Moving one thread from one label to another moves the count by what the labels say.
LEMMA AtMoves ==
  ASSUME NEW t \in Threads, NEW label, NEW L,
         pc \in [Threads -> Labels], Goto(t, label)
  PROVE  Cardinality(At(L)') = Cardinality(At(L)) + (IF label \in L THEN 1 ELSE 0)
                                                  - (IF pc[t] \in L THEN 1 ELSE 0)
PROOF
  <1>1. pc'[t] = label /\ \A u \in Threads \ {t} : pc'[u] = pc[u]
    BY DEF Goto
  <1>2. CASE label \in L /\ pc[t] \notin L
    <2>1. At(L)' = At(L) \union {t} /\ t \notin At(L)
      BY <1>1, <1>2 DEF At
    <2>2. Cardinality(At(L)') = Cardinality(At(L)) + 1
      BY <2>1, AtFinite, FS_AddElement
    <2>. QED
      BY <2>2, <1>2, AtFinite
  <1>3. CASE label \notin L /\ pc[t] \in L
    <2>1. At(L)' = At(L) \ {t} /\ t \in At(L)
      BY <1>1, <1>3 DEF At
    <2>2. Cardinality(At(L)') = Cardinality(At(L)) - 1
      BY <2>1, AtFinite, FS_RemoveElement
    <2>. QED
      BY <2>2, <1>3, AtFinite
  <1>4. CASE (label \in L) <=> (pc[t] \in L)
    <2>1. At(L)' = At(L)
      BY <1>1, <1>4 DEF At
    <2>. QED
      BY <2>1, <1>4, AtFinite
  <1>. QED
    BY <1>2, <1>3, <1>4
-----------------------------------------------------------------------------
\* The numbers of a typed state, for the leaves that do arithmetic.
LEMMA Numbers ==
  ASSUME TypeInv
  PROVE  /\ LongMax \in Nat /\ LongMin = -LongMax - 1 /\ LongMin \in Int
         /\ dsema_value \in Int /\ LongMin <= dsema_value /\ dsema_value <= LongMax
         /\ dsema_orig \in Int /\ 0 <= dsema_orig
         /\ kcount \in Nat /\ credit \in Int
         /\ 0 \in LongMin..LongMax
PROOF
  <1>1. LongMax \in Nat /\ LongMin = -LongMax - 1
    BY WidthAssumption DEF LongMin
  <1>2. dsema_value \in LongMin..LongMax /\ dsema_orig \in 0..LongMax /\ kcount \in Nat /\ credit \in Int
    BY DEF TypeInv, TypeOK
  <1>. QED
    BY <1>1, <1>2

\* The word stays within its width when it wraps.
LEMMA WrapInWidth ==
  ASSUME TypeInv, NEW n \in {dsema_value - 1, dsema_value + 1}
  PROVE  Wrap(n) \in LongMin..LongMax /\ Wrap(n) \in Int
PROOF
  BY Numbers DEF Wrap

\* The locals and the position of each thread.
Control == /\ pc \in [Threads -> Labels]
           /\ timeout \in [Threads -> Timeouts]
           /\ orig \in [Threads -> LongMin..LongMax]
           /\ LoopLocal

\* The words of the semaphore and of the kernel.
Words == /\ object \in {"none", "null", "live", "disposed"}
         /\ dsema_value \in LongMin..LongMax /\ dsema_orig \in 0..LongMax
         /\ dsema_sema \in Threads \union {NULL, DEAD}
         /\ ports \subseteq Threads
         /\ kcount \in Nat
         /\ crash \in {"none", "unbalanced", "in_use"}
         /\ credit \in Int

\* The type invariant is that of the words and of control.
LEMMA TypeParts == TypeInv <=> Words /\ Control
PROOF
  BY DEF TypeInv, TypeOK, Words, Control, Labels

\* A step keeps the types of the words.
LEMMA WordsStep == ASSUME TypeInv, Next PROVE Words'
PROOF
  <1>. Words
    BY TypeParts
  <1>1. ASSUME NEW v \in CreateValues, Create(v) PROVE Words'
    <2>1. v \in Int /\ v <= LongMax
      BY CreateAssumption
    <2>2. v >= 0 => v \in 0..LongMax /\ v \in LongMin..LongMax
      BY <2>1, Numbers
    <2>3. \/ v < 0 /\ UNCHANGED <<dsema_value, dsema_orig, credit>>
          \/ ~(v < 0) /\ dsema_value' = v /\ dsema_orig' = v /\ credit' = v
      BY <1>1 DEF Create
    <2>4. ~(v < 0) => v >= 0
      BY <2>1
    <2>5. dsema_value' \in LongMin..LongMax /\ dsema_orig' \in 0..LongMax /\ credit' \in Int
      BY <2>1, <2>2, <2>3, <2>4 DEF Words
    <2>. QED
      BY <1>1, <2>5 DEF Create, Words, kernel
  <1>2. ASSUME NEW t \in Threads, NEW to \in Timeouts, Wait(t, to) PROVE Words'
    <2>1. dsema_value' \in LongMin..LongMax
      BY <1>2, WrapInWidth DEF Wait
    <2>2. credit' \in Int
      BY <1>2, Numbers DEF Wait
    <2>. QED
      BY <1>2, <2>1, <2>2 DEF Wait, Words, dsema, kernel
  <1>3. ASSUME NEW t \in Threads, Signal(t) PROVE Words'
    <2>1. dsema_value' \in LongMin..LongMax
      BY <1>3, WrapInWidth DEF Signal
    <2>2. credit' = credit + 1 /\ credit \in Int
      BY <1>3, Numbers DEF Signal
    <2>3. credit' \in Int
      BY <2>2
    <2>4. crash' \in {crash, "unbalanced"}
      BY <1>3 DEF Signal
    <2>5. UNCHANGED <<object, dsema_orig, dsema_sema, ports, kcount>>
      BY <1>3 DEF Signal, dsema, kernel
    <2>. QED
      BY <2>1, <2>3, <2>4, <2>5 DEF Words
  <1>4. ASSUME NEW t \in Threads, Sema4Create(t) \/ Sema4CmpXchg(t) PROVE Words'
    BY <1>4 DEF Sema4Create, Sema4CmpXchg, Words, dsema
  <1>5. ASSUME NEW t \in Threads, Sema4Wait(t) PROVE Words'
    <2>1. kcount' \in Nat /\ credit' \in Int
      BY <1>5, Numbers DEF Sema4Wait
    <2>. QED
      BY <1>5, <2>1 DEF Sema4Wait, Words, dsema
  <1>6. ASSUME NEW t \in Threads, TimedOut(t) \/ WaitLoad(t) PROVE Words'
    BY <1>6 DEF TimedOut, WaitLoad, Words, dsema, kernel
  <1>7. ASSUME NEW t \in Threads, WaitUndo(t) PROVE Words'
    <2>1. orig[t] \in LongMin..LongMax /\ orig[t] < 0
      BY <1>7, TypeParts DEF WaitUndo, Control, LoopLocal
    <2>2. orig[t] + 1 \in LongMin..LongMax
      BY <2>1, Numbers
    <2>3. dsema_value' \in LongMin..LongMax
      BY <1>7, <2>2 DEF WaitUndo, Words
    <2>. QED
      BY <1>7, <2>3 DEF WaitUndo, Words, dsema, kernel
  <1>8. ASSUME NEW t \in Threads, Sema4Signal(t) PROVE Words'
    <2>1. kcount' \in Nat
      BY <1>8, Numbers DEF Sema4Signal
    <2>. QED
      BY <1>8, <2>1 DEF Sema4Signal, Words, dsema
  <1>9. CASE Dispose
    BY <1>9 DEF Dispose, Words
  <1>. QED
    BY <1>1, <1>2, <1>3, <1>4, <1>5, <1>6, <1>7, <1>8, <1>9 DEF Next, InCall

\* Moving a thread to a label other than the loop's keeps Control; so does its return.
LEMMA GotoControl ==
  ASSUME Control, NEW t \in Threads, NEW label \in Labels \ {"w_undo"}, Goto(t, label),
         UNCHANGED orig, timeout' \in [Threads -> Timeouts]
  PROVE  Control'
PROOF
  <1>1. pc' \in [Threads -> Labels]
    BY DEF Control, Goto
  <1>2. LoopLocal'
    BY DEF Control, LoopLocal, Goto
  <1>. QED
    BY <1>1, <1>2 DEF Control, LongMin

\* A call that returns leaves control in a known place.
LEMMA ReturnControl ==
  ASSUME Control, NEW t \in Threads, Return(t), LongMax \in Nat
  PROVE  Control'
PROOF
  <1>1. pc' \in [Threads -> Labels] /\ timeout' \in [Threads -> Timeouts]
    BY DEF Control, Return, Goto, Labels, Timeouts
  <1>2. 0 \in LongMin..LongMax
    BY DEF LongMin
  <1>3. orig' \in [Threads -> LongMin..LongMax]
    BY <1>2 DEF Control, Return
  <1>4. LoopLocal'
    BY DEF Control, LoopLocal, Return, Goto
  <1>. QED
    BY <1>1, <1>3, <1>4 DEF Control

\* Looking at the word enters the loop only with a negative local.
LEMMA LookControl ==
  ASSUME TypeInv, NEW t \in Threads, Look(t), UNCHANGED timeout
  PROVE  Control'
PROOF
  <1>. Control
    BY TypeParts
  <1>1. pc' \in [Threads -> Labels]
    BY DEF Control, Look, Goto, Labels, WaitLabels
  <1>2. dsema_value \in LongMin..LongMax
    BY DEF TypeInv, TypeOK
  <1>3. orig' \in [Threads -> LongMin..LongMax]
    BY <1>2, Numbers DEF Control, Look
  <1>4. LoopLocal'
    BY Numbers DEF Control, LoopLocal, Look, Goto
  <1>. QED
    BY <1>1, <1>3, <1>4 DEF Control

\* Where _dispatch_sema4_create goes on is outside the loop, and on the caller's side.
LEMMA AfterCreateLabel ==
  ASSUME Control, NEW t \in Threads
  PROVE  /\ AfterCreate(t) \in Labels \ {"w_undo"}
         /\ AfterCreate(t) \in WaitLabels <=> pc[t] \in WaitLabels
         /\ AfterCreate(t) \in SignalLabels <=> pc[t] \notin WaitLabels
PROOF
  <1>1. timeout[t] \in {"NOW", "TIMED", "FOREVER"}
    BY DEF Control, Timeouts
  <1>2. WaitSwitch(t) \in {"w_load", "w_timedwait", "w_wait"}
    BY <1>1 DEF WaitSwitch
  <1>. QED
    BY <1>2 DEF AfterCreate, Labels, WaitLabels, SignalLabels

\* A step keeps every thread in a known place.
LEMMA ControlStep == ASSUME TypeInv, Next PROVE Control'
PROOF
  <1>. Control /\ LongMax \in Nat
    BY TypeParts, Numbers
  <1>. timeout \in [Threads -> Timeouts]
    BY DEF Control
  <1>1. CASE UNCHANGED <<pc, timeout, orig>>
    BY <1>1 DEF Control, LoopLocal, LongMin
  <1>2. ASSUME NEW v \in CreateValues, Create(v) PROVE Control'
    BY <1>1, <1>2 DEF Create
  <1>3. ASSUME NEW t \in Threads, NEW to \in Timeouts, Wait(t, to) PROVE Control'
    <2>1. CASE UNCHANGED <<pc, timeout>>
      BY <1>1, <1>3, <2>1 DEF Wait
    <2>2. CASE Goto(t, "w_create") /\ timeout' = [timeout EXCEPT ![t] = to]
      <3>1. timeout' \in [Threads -> Timeouts] /\ UNCHANGED orig
        BY <1>3, <2>2 DEF Wait
      <3>. QED
        BY <2>2, <3>1, GotoControl DEF Labels, WaitLabels
    <2>. QED
      BY <1>3, <2>1, <2>2 DEF Wait
  <1>4. ASSUME NEW t \in Threads, Signal(t) PROVE Control'
    <2>1. CASE UNCHANGED pc
      BY <1>1, <1>4, <2>1 DEF Signal
    <2>2. CASE Goto(t, "s_create")
      BY <1>4, <2>2, GotoControl DEF Signal, Labels, SignalLabels
    <2>. QED
      BY <1>4, <2>1, <2>2 DEF Signal
  <1>5. ASSUME NEW t \in Threads, Sema4Create(t) \/ Sema4CmpXchg(t) PROVE Control'
    <2>1. \E label \in {AfterCreate(t), "w_cmpxchg", "s_cmpxchg"} : Goto(t, label)
      BY <1>5 DEF Sema4Create, Sema4CmpXchg
    <2>2. {AfterCreate(t), "w_cmpxchg", "s_cmpxchg"} \subseteq Labels \ {"w_undo"}
      BY AfterCreateLabel DEF Labels, WaitLabels, SignalLabels
    <2>3. UNCHANGED <<orig, timeout>>
      BY <1>5 DEF Sema4Create, Sema4CmpXchg
    <2>. QED
      BY <2>1, <2>2, <2>3, GotoControl
  <1>6. ASSUME NEW t \in Threads, Sema4Wait(t) PROVE Control'
    BY <1>6, ReturnControl DEF Sema4Wait
  <1>7. ASSUME NEW t \in Threads, TimedOut(t) PROVE Control'
    BY <1>7, GotoControl DEF TimedOut, Labels, WaitLabels
  <1>8. ASSUME NEW t \in Threads, WaitLoad(t) PROVE Control'
    BY <1>8, LookControl DEF WaitLoad
  <1>9. ASSUME NEW t \in Threads, WaitUndo(t) PROVE Control'
    BY <1>9, ReturnControl, LookControl DEF WaitUndo
  <1>10. ASSUME NEW t \in Threads, Sema4Signal(t) PROVE Control'
    BY <1>10, GotoControl DEF Sema4Signal, Labels
  <1>11. CASE Dispose
    BY <1>1, <1>11 DEF Dispose
  <1>. QED
    BY <1>2, <1>3, <1>4, <1>5, <1>6, <1>7, <1>8, <1>9, <1>10, <1>11 DEF Next, InCall

\* A step keeps the types.
LEMMA TypeStep == TypeInv /\ [Next]_vars => TypeInv'
PROOF
  <1>1. TypeInv /\ Next => Words' /\ Control'
    BY WordsStep, ControlStep
  <1>2. Words' /\ Control' => TypeInv'
    BY DEF TypeInv, TypeOK, Words, Control, Labels
  <1>3. TypeInv /\ UNCHANGED vars => TypeInv'
    BY DEF vars, TypeInv, TypeOK, LoopLocal, LongMin
  <1>. QED
    BY <1>1, <1>2, <1>3

(***************************************************************************)
(* Type correctness: in particular the word stays within its width, and    *)
(* the kernel semaphore is never taken below zero.                         *)
(***************************************************************************)
THEOREM TypeCorrect == Spec => []TypeOK
PROOF
  <1>1. Init => TypeInv
    BY WidthAssumption DEF Init, TypeInv, TypeOK, LoopLocal, LongMin, Timeouts
  <1>2. TypeInv => TypeOK
    BY DEF TypeInv
  <1>. QED
    BY <1>1, <1>2, TypeStep, PTL DEF Spec
-----------------------------------------------------------------------------
\* The two balances as arithmetic, and the bound that keeps a decrement from wrapping.
LEMMA CountFacts ==
  /\ Waiters \in Nat /\ Signallers \in Nat
  /\ \A t \in Threads : pc[t] = "idle" => Waiters < LongMax
  /\ Quiet => Waiters = 0 /\ Signallers = 0
PROOF
  <1>1. SlowWaiters = At(WaitLabels) /\ SlowSignallers = At(SignalLabels)
    BY DEF SlowWaiters, SlowSignallers, At
  <1>2. Waiters \in Nat /\ Signallers \in Nat
    BY <1>1, AtFinite DEF Waiters, Signallers
  <1>3. ASSUME NEW t \in Threads, pc[t] = "idle" PROVE Waiters < LongMax
    <2>1. t \in Threads \ At(WaitLabels)
      BY <1>3 DEF At, WaitLabels
    <2>2. Waiters < Cardinality(Threads)
      BY <2>1, <1>1, AtFinite DEF Waiters
    <2>3. Cardinality(Threads) \in Nat
      BY ThreadsAssumption, FS_CardinalityType
    <2>. QED
      BY <2>2, <2>3, <1>2, WidthAssumption
  <1>4. Quiet => SlowWaiters = {} /\ SlowSignallers = {}
    BY DEF Quiet, SlowWaiters, SlowSignallers, WaitLabels, SignalLabels
  <1>. QED
    BY <1>2, <1>3, <1>4, FS_EmptySet DEF Waiters, Signallers

\* How the number of threads at given labels changes when one thread moves.
LEMMA CountMoves ==
  ASSUME TypeInv, NEW t \in Threads, NEW label, Goto(t, label)
  PROVE  /\ Waiters' = Waiters + (IF label \in WaitLabels THEN 1 ELSE 0)
                               - (IF pc[t] \in WaitLabels THEN 1 ELSE 0)
         /\ Signallers' = Signallers + (IF label \in SignalLabels THEN 1 ELSE 0)
                                     - (IF pc[t] \in SignalLabels THEN 1 ELSE 0)
PROOF
  <1>1. pc \in [Threads -> Labels]
    BY DEF TypeInv, TypeOK, Labels
  <1>2. /\ SlowWaiters = At(WaitLabels) /\ SlowSignallers = At(SignalLabels)
        /\ SlowWaiters' = At(WaitLabels)' /\ SlowSignallers' = At(SignalLabels)'
    BY DEF SlowWaiters, SlowSignallers, At, WaitLabels, SignalLabels
  <1>3. Cardinality(At(WaitLabels)') = Cardinality(At(WaitLabels))
           + (IF label \in WaitLabels THEN 1 ELSE 0) - (IF pc[t] \in WaitLabels THEN 1 ELSE 0)
    BY <1>1, AtMoves
  <1>4. Cardinality(At(SignalLabels)') = Cardinality(At(SignalLabels))
           + (IF label \in SignalLabels THEN 1 ELSE 0) - (IF pc[t] \in SignalLabels THEN 1 ELSE 0)
    BY <1>1, AtMoves
  <1>. QED
    BY <1>2, <1>3, <1>4 DEF Waiters, Signallers

\* A step that moves no thread, or moves it within one side, moves no count.
LEMMA CountStays ==
  ASSUME UNCHANGED pc
  PROVE  Waiters' = Waiters /\ Signallers' = Signallers
PROOF
  BY DEF Waiters, Signallers, SlowWaiters, SlowSignallers, WaitLabels, SignalLabels

\* One step keeps the two balances and never grants too much.
LEMMA BalanceStep == ASSUME IInv, Next PROVE Balances' /\ NoOvergrant'
PROOF
  <1>. DEFINE Calm == crash # "unbalanced"
  <1>0. TypeInv /\ Balances /\ NoOvergrant
    BY DEF IInv
  <1>. /\ LongMax \in Nat /\ LongMin = -LongMax - 1 /\ LongMin \in Int
       /\ dsema_value \in Int /\ LongMin <= dsema_value /\ dsema_value <= LongMax
       /\ kcount \in Nat /\ credit \in Int /\ credit >= 0
       /\ Waiters \in Nat /\ Signallers \in Nat
    BY <1>0, Numbers, CountFacts DEF NoOvergrant
  <1>a. Calm => /\ Waiters = Negative(dsema_value) + kcount + Signallers
                /\ credit = dsema_value + Waiters
    BY <1>0 DEF Balances
  <1>1. ASSUME NEW v \in CreateValues, Create(v) PROVE Balances' /\ NoOvergrant'
    <2>1. Pristine /\ v \in Int
      BY <1>1, CreateAssumption DEF IInv, Create
    <2>2. Waiters' = Waiters /\ Signallers' = Signallers /\ Waiters = 0 /\ Signallers = 0
      BY <1>1, <2>1, CountStays, CountFacts DEF Create, Pristine, Quiet
    <2>3. dsema_value' \in Int /\ dsema_value' >= 0 /\ kcount' = 0 /\ credit' = dsema_value'
      BY <1>1, <2>1 DEF Create, Pristine, kernel
    <2>4. Negative(dsema_value') = 0
      <3>1. \A n \in Int : n >= 0 => Negative(n) = 0
        BY DEF Negative
      <3>. QED
        BY <2>3, <3>1
    <2>5. credit' = dsema_value' + Waiters'
      <3>1. Waiters' = 0
        BY <2>2
      <3>2. \A n \in Int : n = n + 0
        OBVIOUS
      <3>. QED
        BY <2>3, <3>1, <3>2
    <2>6. Balances'
      BY <2>2, <2>3, <2>4, <2>5 DEF Balances
    <2>. QED
      BY <2>3, <2>6 DEF NoOvergrant
  <1>2. ASSUME NEW t \in Threads, NEW to \in Timeouts, Wait(t, to) PROVE Balances' /\ NoOvergrant'
    <2>1. Calm /\ UNCHANGED <<kcount, crash>> /\ pc[t] = "idle"
      BY <1>2 DEF Wait, Running, kernel
    <2>2. -LongMax <= dsema_value /\ Waiters < LongMax
      BY <2>1, <1>a, CountFacts DEF Negative
    <2>3. dsema_value' = dsema_value - 1
      BY <1>2, <2>2 DEF Wait, Wrap
    <2>4. CASE dsema_value' >= 0
      <3>1. credit' = credit - 1 /\ UNCHANGED pc
        BY <1>2, <2>4 DEF Wait
      <3>2. Waiters' = Waiters /\ Signallers' = Signallers
        BY <3>1, CountStays
      <3>. QED
        BY <1>a, <2>1, <2>3, <2>4, <3>1, <3>2 DEF Balances, NoOvergrant, Negative
    <2>5. CASE ~(dsema_value' >= 0)
      <3>1. credit' = credit /\ Goto(t, "w_create")
        BY <1>2, <2>5 DEF Wait
      <3>2. Waiters' = Waiters + 1 /\ Signallers' = Signallers
        BY <1>0, <2>1, <3>1, CountMoves DEF WaitLabels, SignalLabels
      <3>. QED
        BY <1>a, <2>1, <2>3, <2>5, <3>1, <3>2 DEF Balances, NoOvergrant, Negative
    <2>. QED
      BY <2>4, <2>5
  <1>3. ASSUME NEW t \in Threads, Signal(t) PROVE Balances' /\ NoOvergrant'
    <2>1. Calm /\ UNCHANGED kcount /\ pc[t] = "idle" /\ credit' = credit + 1
      BY <1>3 DEF Signal, Running, kernel
    <2>2. CASE dsema_value = LongMax
      <3>1. dsema_value' = LongMin
        BY <1>3, <2>2 DEF Signal, Wrap
      <3>2. crash' = "unbalanced"
        BY <1>3, <3>1 DEF Signal
      <3>. QED
        BY <2>1, <3>2 DEF Balances, NoOvergrant
    <2>3. CASE dsema_value # LongMax
      <3>1. dsema_value' = dsema_value + 1 /\ dsema_value' # LongMin
        BY <1>3, <2>3 DEF Signal, Wrap
      <3>2. CASE dsema_value' > 0
        <4>1. UNCHANGED <<pc, crash>>
          BY <1>3, <3>1, <3>2 DEF Signal
        <4>2. Waiters' = Waiters /\ Signallers' = Signallers
          BY <4>1, CountStays
        <4>. QED
          BY <1>a, <2>1, <3>1, <3>2, <4>1, <4>2 DEF Balances, NoOvergrant, Negative
      <3>3. CASE ~(dsema_value' > 0)
        <4>1. Goto(t, "s_create") /\ UNCHANGED crash
          BY <1>3, <3>1, <3>3 DEF Signal
        <4>2. Waiters' = Waiters /\ Signallers' = Signallers + 1
          BY <1>0, <2>1, <4>1, CountMoves DEF WaitLabels, SignalLabels
        <4>. QED
          BY <1>a, <2>1, <3>1, <3>3, <4>1, <4>2 DEF Balances, NoOvergrant, Negative
      <3>. QED
        BY <3>2, <3>3
    <2>. QED
      BY <2>2, <2>3
  <1>4. ASSUME NEW t \in Threads, Sema4Create(t) \/ Sema4CmpXchg(t) PROVE Balances' /\ NoOvergrant'
    <2>1. UNCHANGED <<dsema_value, kcount, crash, credit>>
      BY <1>4 DEF Sema4Create, Sema4CmpXchg
    <2>2. pc[t] \in {"w_create", "w_cmpxchg", "s_create", "s_cmpxchg"}
      BY <1>4 DEF Sema4Create, Sema4CmpXchg
    <2>3. PICK label : /\ Goto(t, label)
                       /\ \/ label = AfterCreate(t)
                          \/ label = "w_cmpxchg" /\ pc[t] = "w_create"
                          \/ label = "s_cmpxchg" /\ pc[t] = "s_create"
      BY <1>4 DEF Sema4Create, Sema4CmpXchg
    <2>4. Control
      BY <1>0, TypeParts
    <2>5. /\ label \in WaitLabels <=> pc[t] \in WaitLabels
          /\ label \in SignalLabels <=> pc[t] \in SignalLabels
      BY <2>2, <2>3, <2>4, AfterCreateLabel DEF WaitLabels, SignalLabels
    <2>6. Waiters' = Waiters /\ Signallers' = Signallers
      BY <1>0, <2>3, <2>5, CountMoves
    <2>. QED
      BY <1>a, <1>0, <2>1, <2>6 DEF Balances, NoOvergrant
  <1>5. ASSUME NEW t \in Threads, Sema4Wait(t) PROVE Balances' /\ NoOvergrant'
    <2>1. /\ Calm /\ UNCHANGED <<dsema_value, crash>> /\ pc[t] \in {"w_wait", "w_timedwait"}
          /\ kcount > 0 /\ kcount' = kcount - 1 /\ credit' = credit - 1 /\ Goto(t, "idle")
      BY <1>5 DEF Sema4Wait, Running, Return
    <2>2. Waiters' = Waiters - 1 /\ Signallers' = Signallers
      BY <1>0, <2>1, CountMoves DEF WaitLabels, SignalLabels
    <2>. QED
      BY <1>a, <2>1, <2>2 DEF Balances, NoOvergrant, Negative
  <1>6. ASSUME NEW t \in Threads, TimedOut(t) \/ WaitLoad(t) PROVE Balances' /\ NoOvergrant'
    <2>1. UNCHANGED <<dsema_value, kcount, crash, credit>> /\ pc[t] \in {"w_timedwait", "w_load"}
      BY <1>6 DEF TimedOut, WaitLoad, kernel
    <2>2. Goto(t, "w_load") \/ Goto(t, "w_undo") \/ Goto(t, "w_wait")
      BY <1>6 DEF TimedOut, WaitLoad, Look
    <2>3. Waiters' = Waiters /\ Signallers' = Signallers
      BY <1>0, <2>1, <2>2, CountMoves DEF WaitLabels, SignalLabels
    <2>. QED
      BY <1>a, <1>0, <2>1, <2>3 DEF Balances, NoOvergrant
  <1>7. ASSUME NEW t \in Threads, WaitUndo(t) PROVE Balances' /\ NoOvergrant'
    <2>1. /\ Calm /\ UNCHANGED <<kcount, crash, credit>> /\ pc[t] = "w_undo"
          /\ orig[t] \in Int /\ orig[t] < 0
      <3>1. orig[t] \in LongMin..LongMax /\ LoopLocal
        BY <1>0 DEF TypeInv, TypeOK
      <3>. QED
        BY <1>7, <3>1 DEF WaitUndo, Running, kernel, LoopLocal
    <2>2. CASE dsema_value = orig[t]
      <3>1. dsema_value' = dsema_value + 1 /\ Goto(t, "idle")
        BY <1>7, <2>2 DEF WaitUndo, Return
      <3>2. Waiters' = Waiters - 1 /\ Signallers' = Signallers
        BY <1>0, <2>1, <3>1, CountMoves DEF WaitLabels, SignalLabels
      <3>. QED
        BY <1>a, <2>1, <2>2, <3>1, <3>2 DEF Balances, NoOvergrant, Negative
    <2>3. CASE dsema_value # orig[t]
      <3>1. UNCHANGED dsema_value /\ (Goto(t, "w_undo") \/ Goto(t, "w_wait"))
        BY <1>7, <2>3 DEF WaitUndo, Look
      <3>2. Waiters' = Waiters /\ Signallers' = Signallers
        BY <1>0, <2>1, <3>1, CountMoves DEF WaitLabels, SignalLabels
      <3>. QED
        BY <1>a, <1>0, <2>1, <3>1, <3>2 DEF Balances, NoOvergrant
    <2>. QED
      BY <2>2, <2>3
  <1>8. ASSUME NEW t \in Threads, Sema4Signal(t) PROVE Balances' /\ NoOvergrant'
    <2>1. /\ Calm /\ UNCHANGED <<dsema_value, crash, credit>> /\ pc[t] = "s_signal"
          /\ kcount' = kcount + 1 /\ Goto(t, "idle")
      BY <1>8 DEF Sema4Signal, Running
    <2>2. Waiters' = Waiters /\ Signallers' = Signallers - 1
      BY <1>0, <2>1, CountMoves DEF WaitLabels, SignalLabels
    <2>. QED
      BY <1>a, <2>1, <2>2 DEF Balances, NoOvergrant, Negative
  <1>9. CASE Dispose
    <2>1. Calm /\ UNCHANGED <<dsema_value, kcount, credit, pc>>
      BY <1>9 DEF Dispose, Running
    <2>2. Waiters' = Waiters /\ Signallers' = Signallers
      BY <2>1, CountStays
    <2>. QED
      BY <1>a, <1>0, <2>1, <2>2 DEF Balances, NoOvergrant
  <1>. QED
    BY <1>1, <1>2, <1>3, <1>4, <1>5, <1>6, <1>7, <1>8, <1>9 DEF Next, InCall

\* One step keeps what concerns the two ends of the semaphore's life.
LEMMA LifeStep ==
  ASSUME IInv, Next
  PROVE  /\ DisposeJustified'
         /\ (object \in {"none", "null"} => Pristine)'
         /\ (crash # "none" => object = "live")'
PROOF
  <1>0. TypeInv /\ Balances /\ DisposeJustified
        /\ (object \in {"none", "null"} => Pristine) /\ (crash # "none" => object = "live")
    BY DEF IInv
  <1>1. ASSUME NEW v \in CreateValues, Create(v)
        PROVE  /\ DisposeJustified'
               /\ (object \in {"none", "null"} => Pristine)'
               /\ (crash # "none" => object = "live")'
    <2>1. crash' = "none" /\ object' \in {"null", "live"}
      BY <1>0, <1>1 DEF Create
    <2>2. object' = "null" => Pristine'
      BY <1>0, <1>1 DEF Create, Pristine, kernel
    <2>. QED
      BY <2>1, <2>2 DEF DisposeJustified
  <1>2. CASE Dispose
    <2>1. /\ crash = "none" /\ object = "live" /\ Quiet
          /\ UNCHANGED <<credit, dsema_value, dsema_orig>>
      BY <1>2 DEF Dispose, Running, Quiet
    <2>2. credit = dsema_value /\ dsema_value \in Int /\ dsema_orig \in Int
      BY <1>0, <2>1, CountFacts, Numbers DEF Balances
    <2>3. \/ /\ dsema_value < dsema_orig
             /\ crash' = "in_use" /\ object' = "live"
          \/ /\ ~(dsema_value < dsema_orig)
             /\ crash' = "none" /\ object' = "disposed"
      BY <1>2, <2>1 DEF Dispose
    <2>. QED
      BY <2>1, <2>2, <2>3 DEF DisposeJustified
  <1>3. CASE \E t \in Threads : (\E to \in Timeouts : Wait(t, to)) \/ Signal(t) \/ InCall(t)
    <2>1. object = "live" /\ crash = "none" /\ UNCHANGED <<object, dsema_orig>>
      BY <1>3 DEF Wait, Signal, InCall, Sema4Create, Sema4CmpXchg, Sema4Wait, TimedOut,
                  WaitLoad, WaitUndo, Sema4Signal, Running, dsema
    <2>2. crash' \in {"none", "unbalanced"}
      BY <1>3, <2>1 DEF Wait, Signal, InCall, Sema4Create, Sema4CmpXchg, Sema4Wait, TimedOut,
                  WaitLoad, WaitUndo, Sema4Signal
    <2>. QED
      BY <2>1, <2>2 DEF DisposeJustified
  <1>. QED
    BY <1>1, <1>2, <1>3 DEF Next

\* Every step keeps IInv.
LEMMA Preserved == ASSUME IInv, Next PROVE IInv'
PROOF
  <1>1. TypeInv'
    BY TypeStep DEF IInv
  <1>. QED
    BY <1>1, BalanceStep, LifeStep DEF IInv

\* IInv is an invariant.
LEMMA Inductive == Spec => []IInv
PROOF
  <1>1. Init => IInv
    <2>1. Init => TypeInv
      BY WidthAssumption DEF Init, TypeInv, TypeOK, LoopLocal, LongMin, Timeouts
    <2>2. Init => Quiet
      BY DEF Init, Quiet
    <2>3. Init => Waiters = 0 /\ Signallers = 0
      BY <2>2, CountFacts
    <2>. QED
      BY <2>1, <2>3 DEF Init, IInv, Balances, NoOvergrant, DisposeJustified, Pristine, Negative
  <1>2. IInv /\ Next => IInv'
    BY Preserved
  <1>3. IInv /\ UNCHANGED vars => IInv'
    <2>. SUFFICES ASSUME IInv, UNCHANGED vars PROVE IInv'
      OBVIOUS
    <2>1. TypeInv'
      BY TypeStep DEF IInv
    <2>2. Waiters' = Waiters /\ Signallers' = Signallers
      BY CountStays DEF vars
    <2>. QED
      BY <2>1, <2>2 DEF IInv, vars, Balances, NoOvergrant, DisposeJustified, Pristine
  <1>. QED
    BY <1>1, <1>2, <1>3, PTL DEF Spec

(***************************************************************************)
(* No wakeup is lost and none is sent for nobody: the threads inside       *)
(* wait_slow are as many as the units below zero, the kernel wakeups and   *)
(* the signallers on their way, for any number of threads.                 *)
(***************************************************************************)
THEOREM WakeupBalanceHolds == Spec => []WakeupBalance
PROOF
  <1>1. IInv => WakeupBalance
    BY DEF IInv, Balances, WakeupBalance, Waiters, Signallers
  <1>. QED
    BY <1>1, Inductive, PTL

(***************************************************************************)
(* dispatch_semaphore_wait never returns 0 more often than the creation    *)
(* value and the signals allow.                                            *)
(***************************************************************************)
THEOREM NoOvergrantHolds == Spec => []NoOvergrant
PROOF
  <1>1. IInv => NoOvergrant
    BY DEF IInv
  <1>. QED
    BY <1>1, Inductive, PTL

(***************************************************************************)
(* When no thread is inside a call, the kernel semaphore is at zero and    *)
(* the word alone says what is available.                                  *)
(***************************************************************************)
THEOREM WakeupsDrainedHolds == Spec => []WakeupsDrained
PROOF
  <1>1. IInv => WakeupsDrained
    <2>. SUFFICES ASSUME IInv, crash # "unbalanced", Quiet
                  PROVE  kcount = 0 /\ dsema_value = credit
      BY DEF WakeupsDrained
    <2>1. Waiters = 0 /\ Signallers = 0
      BY CountFacts
    <2>2. dsema_value \in Int /\ kcount \in Nat
      BY Numbers DEF IInv
    <2>. QED
      BY <2>1, <2>2 DEF IInv, Balances, Negative
  <1>. QED
    BY <1>1, Inductive, PTL

(***************************************************************************)
(* _dispatch_semaphore_dispose crashes exactly the clients that took more  *)
(* than they gave back.                                                    *)
(***************************************************************************)
THEOREM DisposeJustifiedHolds == Spec => []DisposeJustified
PROOF
  <1>1. IInv => DisposeJustified
    BY DEF IInv
  <1>. QED
    BY <1>1, Inductive, PTL
-----------------------------------------------------------------------------
\* Once past _dispatch_sema4_create a thread finds a port, which only disposal marks dead, and
\* a thread that still brings one has not installed any.
PortInstalled ==
  /\ \A t \in Threads : pc[t] \in {"w_timedwait", "w_load", "w_undo", "w_wait", "s_signal"}
                          => dsema_sema # NULL
  /\ \A t \in Threads : pc[t] \in {"w_cmpxchg", "s_cmpxchg"} => dsema_sema # t
  /\ dsema_sema = DEAD => object = "disposed"

\* Only a wait with a time limit looks at the clock and gives up.
TimeLimits == \A t \in Threads : pc[t] \in {"w_timedwait", "w_load", "w_undo"} => timeout[t] # "FOREVER"

PortInv == NoPortLeak /\ PortInstalled /\ TimeLimits

\* A thread leaves _dispatch_sema4_create for one of four labels, by its time limit.
LEMMA AfterCreateFacts ==
  ASSUME TypeInv, NEW t \in Threads
  PROVE  /\ AfterCreate(t) \in {"w_load", "w_timedwait", "w_wait", "s_signal"}
         /\ AfterCreate(t) \in {"w_load", "w_timedwait"} => timeout[t] # "FOREVER"
PROOF
  <1>1. timeout[t] \in {"NOW", "TIMED", "FOREVER"}
    BY DEF TypeInv, TypeOK, Timeouts
  <1>. QED
    BY <1>1 DEF AfterCreate, WaitSwitch

\* Every step keeps the ports: the loser of the race destroys its own.
LEMMA PortStep == ASSUME IInv, PortInv, Next PROVE PortInv'
PROOF
  <1>. USE DEF PortInv, NoPortLeak, PortInstalled, TimeLimits, Goto
  <1>0. /\ TypeInv /\ NULL \notin Threads /\ DEAD \notin Threads /\ NULL # DEAD
        /\ pc \in [Threads -> Labels] /\ timeout \in [Threads -> Timeouts]
        /\ dsema_sema \in Threads \union {NULL, DEAD}
    BY ThreadsAssumption DEF IInv, TypeInv, TypeOK, Labels
  <1>1. ASSUME NEW v \in CreateValues, Create(v) PROVE PortInv'
    BY <1>0, <1>1 DEF Create, kernel
  <1>2. ASSUME NEW t \in Threads, NEW to \in Timeouts, Wait(t, to) PROVE PortInv'
    BY <1>0, <1>2 DEF Wait, Running, dsema, kernel
  <1>3. ASSUME NEW t \in Threads, Signal(t) PROVE PortInv'
    BY <1>0, <1>3 DEF Signal, Running, dsema, kernel
  <1>4. ASSUME NEW t \in Threads, Sema4Create(t) PROVE PortInv'
    BY <1>0, <1>4, AfterCreateFacts DEF Sema4Create, Running, dsema
  <1>5. ASSUME NEW t \in Threads, Sema4CmpXchg(t) PROVE PortInv'
    BY <1>0, <1>5, AfterCreateFacts DEF Sema4CmpXchg, Running, dsema
  <1>6. ASSUME NEW t \in Threads, Sema4Wait(t) PROVE PortInv'
    BY <1>0, <1>6 DEF Sema4Wait, Return, Running, dsema
  <1>7. ASSUME NEW t \in Threads, TimedOut(t) \/ WaitLoad(t) PROVE PortInv'
    BY <1>0, <1>7 DEF TimedOut, WaitLoad, Look, Running, dsema, kernel
  <1>8. ASSUME NEW t \in Threads, WaitUndo(t) PROVE PortInv'
    BY <1>0, <1>8 DEF WaitUndo, Look, Return, Running, dsema, kernel
  <1>9. ASSUME NEW t \in Threads, Sema4Signal(t) PROVE PortInv'
    BY <1>0, <1>9 DEF Sema4Signal, Running, dsema
  <1>10. CASE Dispose
    BY <1>0, <1>10 DEF Dispose, Running
  <1>. QED
    BY <1>1, <1>2, <1>3, <1>4, <1>5, <1>6, <1>7, <1>8, <1>9, <1>10 DEF Next, InCall

\* PortInv is an invariant.
LEMMA PortInductive == Spec => []PortInv
PROOF
  <1>1. Init => PortInv
    BY ThreadsAssumption DEF Init, PortInv, NoPortLeak, PortInstalled, TimeLimits
  <1>2. IInv /\ PortInv /\ [Next]_vars => PortInv'
    <2>1. ASSUME PortInv, UNCHANGED vars PROVE PortInv'
      BY <2>1 DEF vars, PortInv, NoPortLeak, PortInstalled, TimeLimits
    <2>. QED
      BY <2>1, PortStep
  <1>. QED
    BY <1>1, <1>2, Inductive, PTL DEF Spec

(***************************************************************************)
(* Waiters and signallers meet on one kernel semaphore: a port is kept     *)
(* only by its installer and the semaphore, is there when it is used, and  *)
(* is never replaced, however many threads race to create it.              *)
(***************************************************************************)
THEOREM OnePortHolds == Spec => OnePort
PROOF
  <1>. DEFINE Step == /\ NoPortLeak'
                      /\ \A t \in Threads : (kcount' # kcount \/ pc'[t] \in {"w_wait", "w_timedwait", "s_signal"})
                                               => dsema_sema' # NULL
                      /\ dsema_sema \in Threads => dsema_sema' \in {dsema_sema, DEAD}
  <1>1. ASSUME IInv, PortInv, Next PROVE Step
    <2>1. PortInv'
      BY <1>1, PortStep
    <2>2. kcount' # kcount => dsema_sema' # NULL
      BY <1>1 DEF PortInv, PortInstalled, Next, Create, Wait, Signal, InCall, Sema4Create, Sema4CmpXchg,
                  Sema4Wait, TimedOut, WaitLoad, WaitUndo, Sema4Signal, Dispose, kernel
    <2>3. dsema_sema \in Threads => dsema_sema' \in {dsema_sema, DEAD}
      BY <1>1, ThreadsAssumption DEF Next, Create, Wait, Signal, InCall, Sema4Create, Sema4CmpXchg, Sema4Wait,
                  TimedOut, WaitLoad, WaitUndo, Sema4Signal, Dispose, kernel
    <2>. QED
      BY <2>1, <2>2, <2>3 DEF PortInv, PortInstalled
  <1>2. IInv /\ PortInv /\ [Next]_vars => [Step]_vars
    BY <1>1
  <1>. QED
    BY <1>2, Inductive, PortInductive, PTL DEF Spec, OnePort
-----------------------------------------------------------------------------
\* The abstract semaphore counts as FiniteSets does.
LEMMA SameCardinality == \A S : Abstract!Cardinality(S) = Cardinality(S)
PROOF
  BY DEF Abstract!Cardinality, Cardinality

\* The permits and the waiting calls of the abstract semaphore, in the terms of the balances.
PermitsSum == Permits \in Nat /\ Permits = Positive(dsema_value) + kcount + Signallers

\* The permits and the waiters of the abstract state, counted in this one.
LEMMA AbstractCounts ==
  ASSUME IInv, crash # "unbalanced"
  PROVE  /\ PermitsSum
         /\ Waiters = Abstract!Cardinality(Abstract!Waiters)
         /\ Permits - Waiters = dsema_value
         /\ dsema_value # LongMin
PROOF
  <1>1. /\ LongMax \in Nat /\ LongMin = -LongMax - 1 /\ dsema_value \in Int /\ kcount \in Nat
        /\ Waiters \in Nat /\ Signallers \in Nat
        /\ Waiters = Negative(dsema_value) + kcount + Signallers
    BY Numbers, CountFacts DEF IInv, Balances
  <1>2. SlowWaiters = Abstract!Waiters
    BY DEF Abstract!Waiters, WaitMode, SlowWaiters
  <1>3. Waiters <= LongMax
    <2>1. IsFiniteSet(Threads) /\ SlowWaiters \subseteq Threads
      BY ThreadsAssumption DEF SlowWaiters
    <2>2. Waiters <= Cardinality(Threads) /\ Cardinality(Threads) \in Nat
      BY <2>1, FS_Subset, FS_CardinalityType DEF Waiters
    <2>. QED
      BY <1>1, <2>2, WidthAssumption
  <1>4. dsema_value # LongMin
    BY <1>1, <1>3 DEF Negative
  <1>5. Permits = Positive(dsema_value) + kcount + Signallers
    BY <1>4 DEF Permits, Signallers
  <1>. QED
    BY <1>1, <1>2, <1>4, <1>5, SameCardinality DEF PermitsSum, Waiters, Positive, Negative

\* What a waiting call has asked for moves only with its thread.
LEMMA ModeMoves ==
  ASSUME TypeInv, NEW t \in Threads, NEW label, Goto(t, label),
         NEW to, timeout' = [timeout EXCEPT ![t] = to]
  PROVE  /\ label \in WaitLabels =>
              WaitMode' = [WaitMode EXCEPT ![t] = IF to = "FOREVER" THEN "forever" ELSE "bounded"]
         /\ label \notin WaitLabels => WaitMode' = [WaitMode EXCEPT ![t] = "no"]
PROOF
  BY DEF WaitMode, SlowWaiters, Goto, TypeInv, TypeOK, WaitLabels

\* ... and of nobody else.
LEMMA ModeStays ==
  ASSUME UNCHANGED <<pc, timeout>>
  PROVE  WaitMode' = WaitMode
PROOF
  BY DEF WaitMode, SlowWaiters, WaitLabels

\* Moving within the slow path of a wait, or without it, moves nothing of the abstract semaphore.
LEMMA ModeKept ==
  ASSUME TypeInv, NEW t \in Threads, NEW label, Goto(t, label), UNCHANGED timeout,
         (label \in WaitLabels) <=> (pc[t] \in WaitLabels)
  PROVE  WaitMode' = WaitMode
PROOF
  BY DEF WaitMode, SlowWaiters, Goto, TypeInv, TypeOK, WaitLabels

\* Every step of the semaphore is one of the abstract semaphore, or moves neither permit nor caller.
LEMMA RefinementStep ==
  ASSUME IInv, PortInv, Next
  PROVE  Abstract!Next \/ UNCHANGED Abstract!vars
PROOF
  <1>. USE DEF Abstract!vars
  <1>0. IInv'
    BY Preserved
  <1>a. /\ TypeInv /\ LongMax \in Nat /\ LongMin = -LongMax - 1
        /\ dsema_value \in Int /\ dsema_value <= LongMax
        /\ kcount \in Nat /\ Waiters \in Nat /\ Signallers \in Nat
    BY Numbers, CountFacts DEF IInv
  <1>c. ASSUME crash # "unbalanced"
        PROVE  /\ Permits \in Nat /\ Permits = Positive(dsema_value) + kcount + Signallers
               /\ Waiters = Abstract!Cardinality(Abstract!Waiters)
               /\ Permits - Waiters = dsema_value
    BY <1>c, AbstractCounts DEF PermitsSum
  <1>d. ASSUME crash' # "unbalanced"
        PROVE  Permits' \in Nat /\ Permits' = Positive(dsema_value)' + kcount' + Signallers'
    <2>1. IInv' /\ (crash # "unbalanced")' => PermitsSum'
      BY AbstractCounts, PTL
    <2>. QED
      BY <1>d, <1>0, <2>1 DEF PermitsSum
  <1>e. "idle" \notin WaitLabels
    BY DEF WaitLabels
  <1>1. ASSUME NEW v \in CreateValues, Create(v) PROVE Abstract!Next \/ UNCHANGED Abstract!vars
    <2>1. WaitMode' = WaitMode
      BY <1>1, ModeStays DEF Create
    <2>2. Pristine /\ v \in Int /\ crash = "none" /\ crash' = "none"
      BY <1>1, CreateAssumption DEF IInv, Create
    <2>3. Waiters = 0 /\ Signallers = 0 /\ Signallers' = 0 /\ kcount = 0 /\ kcount' = 0 /\ dsema_value = 0
      BY <1>1, <2>2, CountFacts, CountStays DEF Pristine, Quiet, Create, kernel
    <2>4. CASE v < 0
      <3>1. UNCHANGED dsema_value
        BY <1>1, <2>4 DEF Create
      <3>2. Permits' = Permits
        BY <1>c, <1>d, <2>2, <2>3, <3>1
      <3>. QED
        BY <2>1, <3>2
    <2>5. CASE ~(v < 0)
      <3>1. dsema_value' = v /\ v >= 0
        BY <1>1, <2>2, <2>5 DEF Create
      <3>2. Permits = 0 /\ Permits' = v
        BY <1>c, <1>d, <2>2, <2>3, <3>1 DEF Positive
      <3>3. Abstract!Waiters = {}
        BY <2>2 DEF Abstract!Waiters, WaitMode, SlowWaiters, Pristine, WaitLabels
      <3>. QED
        BY <2>1, <3>1, <3>2, <3>3 DEF Abstract!Next, Abstract!Create
    <2>. QED
      BY <2>4, <2>5
  <1>2. ASSUME NEW t \in Threads, NEW to \in Timeouts, Wait(t, to)
        PROVE  Abstract!Next \/ UNCHANGED Abstract!vars
    <2>1. /\ crash = "none" /\ crash' = "none" /\ pc[t] = "idle" /\ kcount' = kcount
          /\ WaitMode[t] = "no"
      BY <1>2 DEF Wait, Running, kernel, WaitMode, SlowWaiters, WaitLabels
    <2>2. dsema_value' = dsema_value - 1
      <3>1. dsema_value # LongMin
        BY <2>1, AbstractCounts
      <3>2. dsema_value >= LongMin
        BY Numbers DEF IInv
      <3>. QED
        BY <1>2, <1>a, <3>1, <3>2 DEF Wait, Wrap
    <2>3. CASE dsema_value' >= 0
      <3>1. UNCHANGED <<pc, timeout>>
        BY <1>2, <2>3 DEF Wait
      <3>2. WaitMode' = WaitMode /\ Signallers' = Signallers
        BY <3>1, ModeStays, CountStays
      <3>3. Permits' = Permits - 1 /\ Permits > Abstract!Cardinality(Abstract!Waiters)
        BY <1>a, <1>c, <1>d, <2>1, <2>2, <2>3, <3>2 DEF Positive
      <3>. QED
        BY <2>1, <3>2, <3>3 DEF Abstract!Next, Abstract!Pass
    <2>4. CASE ~(dsema_value' >= 0)
      <3>1. Goto(t, "w_create") /\ timeout' = [timeout EXCEPT ![t] = to]
        BY <1>2, <2>4 DEF Wait
      <3>2. Signallers' = Signallers
        BY <1>a, <2>1, <3>1, CountMoves DEF SignalLabels
      <3>3. Permits' = Permits /\ Permits <= Abstract!Cardinality(Abstract!Waiters)
        BY <1>a, <1>c, <1>d, <2>1, <2>2, <2>4, <3>2 DEF Positive
      <3>4. WaitMode' = [WaitMode EXCEPT ![t] = IF to = "FOREVER" THEN "forever" ELSE "bounded"]
        BY <1>a, <3>1, ModeMoves DEF WaitLabels
      <3>. QED
        BY <2>1, <3>3, <3>4 DEF Abstract!Next, Abstract!Block
    <2>. QED
      BY <2>3, <2>4
  <1>3. ASSUME NEW t \in Threads, Signal(t) PROVE Abstract!Next \/ UNCHANGED Abstract!vars
    <2>1. crash = "none" /\ kcount' = kcount /\ UNCHANGED timeout /\ pc[t] = "idle"
      BY <1>3 DEF Signal, Running, kernel
    <2>2. CASE dsema_value = LongMax
      <3>1. dsema_value' = LongMin /\ LongMax # LongMin
        BY <1>3, <1>a, <2>2 DEF Signal, Wrap
      <3>2. UNCHANGED <<pc, timeout>>
        BY <1>3, <1>a, <3>1 DEF Signal
      <3>3. WaitMode' = WaitMode /\ Signallers' = Signallers
        BY <3>2, ModeStays, CountStays
      <3>4. Permits' = Permits
        BY <1>a, <2>1, <2>2, <3>1, <3>3 DEF Permits, Signallers
      <3>. QED
        BY <3>3, <3>4
    <2>3. CASE dsema_value # LongMax
      <3>1. dsema_value' = dsema_value + 1 /\ dsema_value' # LongMin /\ crash' = "none"
        <4>1. dsema_value # LongMin /\ dsema_value >= LongMin
          BY <2>1, AbstractCounts, Numbers DEF IInv
        <4>2. dsema_value' = dsema_value + 1
          BY <1>3, <1>a, <2>3, <4>1 DEF Signal, Wrap
        <4>3. dsema_value' # LongMin
          BY <1>a, <4>1, <4>2
        <4>. QED
          BY <1>3, <2>1, <4>2, <4>3 DEF Signal
      <3>2. CASE dsema_value' > 0
        <4>1. UNCHANGED <<pc, timeout>>
          BY <1>3, <3>1, <3>2 DEF Signal
        <4>2. WaitMode' = WaitMode /\ Signallers' = Signallers
          BY <4>1, ModeStays, CountStays
        <4>3. Permits' = Permits + 1
          BY <1>a, <1>c, <1>d, <2>1, <3>1, <3>2, <4>2 DEF Positive
        <4>. QED
          BY <4>2, <4>3 DEF Abstract!Next, Abstract!Signal
      <3>3. CASE ~(dsema_value' > 0)
        <4>1. Goto(t, "s_create")
          BY <1>3, <3>1, <3>3 DEF Signal
        <4>2. WaitMode' = WaitMode
          BY <1>a, <2>1, <4>1, ModeKept DEF WaitLabels
        <4>3. Signallers' = Signallers + 1
          BY <1>a, <2>1, <4>1, CountMoves DEF SignalLabels
        <4>4. Permits' = Permits + 1
          BY <1>a, <1>c, <1>d, <2>1, <3>1, <3>3, <4>3 DEF Positive
        <4>. QED
          BY <4>2, <4>4 DEF Abstract!Next, Abstract!Signal
      <3>. QED
        BY <3>2, <3>3
    <2>. QED
      BY <2>2, <2>3
  <1>4. ASSUME NEW t \in Threads, Sema4Create(t) \/ Sema4CmpXchg(t) \/ TimedOut(t) \/ WaitLoad(t)
        PROVE  UNCHANGED Abstract!vars
    <2>1. UNCHANGED <<dsema_value, kcount, timeout>>
      BY <1>4 DEF Sema4Create, Sema4CmpXchg, TimedOut, WaitLoad, kernel
    <2>2. Control
      BY <1>a, TypeParts
    <2>3. PICK label : /\ Goto(t, label)
                       /\ (label \in WaitLabels) <=> (pc[t] \in WaitLabels)
                       /\ (label \in SignalLabels) <=> (pc[t] \in SignalLabels)
      BY <1>4, <2>2, AfterCreateLabel
         DEF Sema4Create, Sema4CmpXchg, TimedOut, WaitLoad, Look, WaitLabels, SignalLabels
    <2>4. WaitMode' = WaitMode /\ Signallers' = Signallers
      BY <1>a, <2>1, <2>3, ModeKept, CountMoves
    <2>. QED
      BY <2>1, <2>4 DEF Permits, Signallers, LongMin
  <1>5. ASSUME NEW t \in Threads, Sema4Wait(t) PROVE Abstract!Next
    <2>1. /\ crash = "none" /\ crash' = "none" /\ pc[t] \in {"w_wait", "w_timedwait"}
          /\ kcount > 0 /\ kcount' = kcount - 1 /\ UNCHANGED dsema_value
          /\ Goto(t, "idle") /\ timeout' = [timeout EXCEPT ![t] = "FOREVER"]
      BY <1>5 DEF Sema4Wait, Running, Return
    <2>2. Signallers' = Signallers
      BY <1>a, <2>1, CountMoves DEF SignalLabels
    <2>3. WaitMode' = [WaitMode EXCEPT ![t] = "no"]
      BY <1>a, <1>e, <2>1, ModeMoves
    <2>4. WaitMode[t] # "no"
      BY <2>1 DEF WaitMode, SlowWaiters, WaitLabels
    <2>5. Permits > 0 /\ Permits' = Permits - 1
      BY <1>a, <1>c, <1>d, <2>1, <2>2 DEF Positive
    <2>. QED
      BY <2>3, <2>4, <2>5 DEF Abstract!Next, Abstract!Grant
  <1>6. ASSUME NEW t \in Threads, WaitUndo(t) PROVE Abstract!Next \/ UNCHANGED Abstract!vars
    <2>1. crash = "none" /\ crash' = "none" /\ pc[t] = "w_undo" /\ kcount' = kcount
      BY <1>6 DEF WaitUndo, Running, kernel
    <2>2. CASE dsema_value = orig[t]
      <3>1. /\ dsema_value' = dsema_value + 1 /\ Goto(t, "idle")
            /\ timeout' = [timeout EXCEPT ![t] = "FOREVER"]
        BY <1>6, <2>2 DEF WaitUndo, Return
      <3>2. dsema_value < 0
        BY <1>a, <2>1, <2>2 DEF TypeInv, LoopLocal
      <3>3. Signallers' = Signallers
        BY <1>a, <2>1, <3>1, CountMoves DEF SignalLabels
      <3>4. WaitMode' = [WaitMode EXCEPT ![t] = "no"]
        BY <1>a, <1>e, <3>1, ModeMoves
      <3>5. WaitMode[t] = "bounded"
        BY <2>1 DEF WaitMode, SlowWaiters, WaitLabels, PortInv, TimeLimits
      <3>6. Permits' = Permits /\ Permits < Abstract!Cardinality(Abstract!Waiters)
        BY <1>a, <1>c, <1>d, <2>1, <3>1, <3>2, <3>3 DEF Positive
      <3>. QED
        BY <3>4, <3>5, <3>6 DEF Abstract!Next, Abstract!GiveUp
    <2>3. CASE dsema_value # orig[t]
      <3>1. UNCHANGED <<dsema_value, timeout>> /\ (Goto(t, "w_undo") \/ Goto(t, "w_wait"))
        BY <1>6, <2>3 DEF WaitUndo, Look
      <3>2. WaitMode' = WaitMode /\ Signallers' = Signallers
        BY <1>a, <2>1, <3>1, ModeKept, CountMoves DEF WaitLabels, SignalLabels
      <3>. QED
        BY <2>1, <3>1, <3>2 DEF Permits, Signallers, LongMin
    <2>. QED
      BY <2>2, <2>3
  <1>7. ASSUME NEW t \in Threads, Sema4Signal(t) PROVE UNCHANGED Abstract!vars
    <2>1. /\ crash = "none" /\ crash' = "none" /\ pc[t] = "s_signal" /\ kcount' = kcount + 1
          /\ UNCHANGED <<dsema_value, timeout>> /\ Goto(t, "idle")
      BY <1>7 DEF Sema4Signal, Running
    <2>2. Signallers' = Signallers - 1
      BY <1>a, <2>1, CountMoves DEF SignalLabels
    <2>3. WaitMode' = WaitMode
      BY <1>a, <2>1, ModeKept DEF WaitLabels
    <2>4. Permits' = Permits
      BY <1>a, <1>c, <1>d, <2>1, <2>2 DEF Positive
    <2>. QED
      BY <2>3, <2>4
  <1>8. CASE Dispose
    <2>1. UNCHANGED <<dsema_value, kcount, pc, timeout>>
      BY <1>8 DEF Dispose
    <2>2. WaitMode' = WaitMode /\ Signallers' = Signallers
      BY <2>1, ModeStays, CountStays
    <2>. QED
      BY <2>1, <2>2 DEF Permits, Signallers, LongMin
  <1>. QED
    BY <1>1, <1>2, <1>3, <1>4, <1>5, <1>6, <1>7, <1>8 DEF Next, InCall

(***************************************************************************)
(* The semaphore implements CountingSemaphore: a newcomer overtakes the    *)
(* waiting calls only when there are permits for all of them, a call gives *)
(* up only if that strands no permit, and a permit is consumed once.       *)
(***************************************************************************)
THEOREM Refinement == Spec => AbstractSpec
PROOF
  <1>1. Init => Abstract!Init
    <2>. SUFFICES ASSUME Init PROVE Abstract!Init
      OBVIOUS
    <2>1. SlowWaiters = {} /\ SlowSignallers = {}
      BY DEF Init, SlowWaiters, SlowSignallers, WaitLabels, SignalLabels
    <2>2. Permits = 0
      <3>1. dsema_value = 0 /\ kcount = 0 /\ LongMin # 0
        BY WidthAssumption DEF Init, LongMin
      <3>. QED
        BY <2>1, <3>1, FS_EmptySet DEF Permits, Positive
    <2>3. WaitMode = [t \in Threads |-> "no"]
      BY <2>1 DEF WaitMode
    <2>. QED
      BY <2>2, <2>3 DEF Abstract!Init
  <1>2. IInv /\ PortInv /\ [Next]_vars => [Abstract!Next]_Abstract!vars
    <2>1. ASSUME UNCHANGED vars PROVE UNCHANGED Abstract!vars
      <3>1. UNCHANGED <<dsema_value, kcount, pc, timeout>>
        BY <2>1 DEF vars
      <3>. QED
        BY <3>1, ModeStays, CountStays DEF Abstract!vars, Permits, Signallers, LongMin
    <2>. QED
      BY <2>1, RefinementStep
  <1>. QED
    BY <1>1, <1>2, Inductive, PortInductive, PTL DEF Spec, AbstractSpec, Abstract!Spec
=============================================================================
