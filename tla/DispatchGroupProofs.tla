------------------------- MODULE DispatchGroupProofs -------------------------
(***************************************************************************)
(* Proofs about DispatchGroup, for every finite set of threads, any set of *)
(* notification blocks, and every width of the counter.                    *)
(***************************************************************************)
EXTENDS DispatchGroup, FiniteSetTheorems, SequenceTheorems, TLAPS

\* Where a thread is in _dispatch_group_wake, in dispatch_group_notify.
Waking == {"k_snapshot", "k_notify", "k_wake", "k_release"}
Pushing == {"n_retain", "n_head", "n_link", "n_state"}

\* What the types leave out: the history, and which locals a thread has where.
TypeInv ==
  /\ TypeOK
  /\ old \in [Threads -> States] /\ snap \in [Threads -> Seq(Notifs)]
  /\ refs \in [Threads -> 0..2] /\ item \in [Threads -> Notifs \union {NoItem}]
  /\ inside \in Nat /\ called \subseteq Notifs
  /\ submitted \in [Notifs -> Nat] /\ saw \in [Calls -> BOOLEAN]
  /\ \A t \in Threads : /\ pc[t] \in Pushing => item[t] \in Notifs
                        /\ pc[t] \in Waking <=> refs[t] >= 1
                        /\ pc[t] = "k_notify" <=> snap[t] # <<>>

\* A waiter that still has the generation of its call has no later one to find.
Generations ==
  \A t \in Threads :
    /\ pc[t] \in WaitLabels => old[t].gen <= dg_state.gen
    /\ pc[t] \in WaitLabels /\ old[t].gen < dg_state.gen => saw[t]
    /\ pc[t] = "w_done" => saw[t]

\* Who is responsible for the list: nobody for an empty one, else the flag or one thread.
Responsible ==
  crash = "none" =>
    /\ \A t, u \in Firing : t = u
    /\ dg_state.notifs => Firing = {}
    /\ dg_notify = <<>> <=> Firing = {} /\ ~dg_state.notifs

\* Where a block is that has not been submitted.
Listed(n) == \E i \in 1..Len(dg_notify) : dg_notify[i] = n
Captured(t, n) == \E i \in 1..Len(snap[t]) : snap[t][i] = n

\* A block is in one place of one list, and then it has not been submitted.
Places ==
  /\ \A i, j \in 1..Len(dg_notify) : dg_notify[i] = dg_notify[j] => i = j
  /\ \A t \in Threads : \A i, j \in 1..Len(snap[t]) : snap[t][i] = snap[t][j] => i = j
  /\ \A t \in Threads, n \in Notifs : Captured(t, n) => /\ ~Listed(n)
                                                        /\ \A u \in Threads : Captured(u, n) => u = t
                                                        /\ n \in called /\ submitted[n] = 0
  /\ \A n \in Notifs : Listed(n) => n \in called /\ submitted[n] = 0
  /\ \A n \in Notifs : submitted[n] <= 1 /\ (n \notin called => submitted[n] = 0)

Bit(b) == IF b THEN 1 ELSE 0
Entering == {t \in Threads : pc[t] = "e_retain"}
Holders == {t \in Threads : pc[t] \in {"l_cas", "n_head", "n_state"} \union Waking}
TwiceHolders == {t \in Threads : refs[t] = 2}

(***************************************************************************)
(* Every reference has an owner: the client, the blocks inside, the flag,  *)
(* or a thread that will give it up or hand it over; and a reference the   *)
(* blocks inside have not taken yet will be taken by the thread that       *)
(* entered first, before which no block leaves.                            *)
(***************************************************************************)
Accounts ==
  /\ refcnt + Cardinality(Entering)
       = Bit(client) + Bit(dg_state.value > 0) + Bit(dg_state.notifs)
           + Cardinality(Holders) + Cardinality(TwiceHolders)
  /\ dg_state.value = inside + Cardinality(Entering)
  /\ \A t, u \in Entering : t = u
  /\ ~client => \A t \in Threads : pc[t] \in {"idle", "l_cas"} \union Waking

References == crash = "none" => Accounts

(***************************************************************************)
(* The inductive invariant.  The properties need each other: a flag is set *)
(* only by the thread responsible for the list, so that its reference is   *)
(* counted once; and the group is disposed of only when nobody owns a      *)
(* reference, when no flag can be stranded.                                *)
(***************************************************************************)
IInv == /\ TypeInv /\ Generations /\ Responsible /\ NoStrandedFlag /\ Places /\ References
        /\ NoUseAfterFree
-----------------------------------------------------------------------------
\* The types of the shared words and of the history, and those of the threads.
Words ==
  /\ dg_state \in States
  /\ dg_notify \in Seq(Notifs) /\ linked \subseteq Notifs
  /\ client \in BOOLEAN /\ freed \in BOOLEAN
  /\ inside \in Nat /\ called \subseteq Notifs
  /\ submitted \in [Notifs -> Nat] /\ saw \in [Calls -> BOOLEAN]

Control ==
  /\ pc \in [Threads -> Labels]
  /\ sleepers = {t \in Threads : pc[t] = "w_asleep"}
  /\ old \in [Threads -> States] /\ snap \in [Threads -> Seq(Notifs)]
  /\ refs \in [Threads -> 0..2] /\ item \in [Threads -> Notifs \union {NoItem}]
  /\ \A t \in Threads : /\ pc[t] \in Pushing => item[t] \in Notifs
                        /\ pc[t] \in Waking <=> refs[t] >= 1
                        /\ pc[t] = "k_notify" <=> snap[t] # <<>>

\* The type invariant is that of the words, of control and of the references.
LEMMA TypeParts == TypeInv <=> Words /\ Control /\ refcnt \in Nat
PROOF
  BY DEF TypeInv, TypeOK, Words, Control

\* The count of references, named: a fact about the next state is used through its name.
Counted == refcnt \in Nat
Counting == refcnt \in Int

\* The same, with the references as a named part.
LEMMA TypePartsNamed == TypeInv <=> Words /\ Control /\ Counted
PROOF
  BY TypeParts DEF Counted

\* The same in the next state.
LEMMA TypePartsNext == TypeInv' <=> Words' /\ Control' /\ refcnt' \in Nat
PROOF
  <1>1. TypeInv' <=> Words' /\ Control' /\ Counted'
    BY TypePartsNamed, PTL
  <1>. QED
    BY <1>1 DEF Counted

\* What the two words of the loop of dispatch_group_leave are.
LEMMA StateFacts ==
  ASSUME NEW s \in States
  PROVE  /\ s.gen \in Nat /\ s.value \in 0..MaxCount /\ s.notifs \in BOOLEAN /\ s.waiters \in BOOLEAN
         /\ LeaveState(s) \in States
         /\ LeaveState(s).gen = s.gen /\ LeaveState(s).value = s.value /\ ~LeaveState(s).notifs
         /\ s.value = 0 => ~LeaveState(s).waiters
         /\ LeaveState(s) = s => ~s.notifs /\ (s.value = 0 => ~s.waiters)
         /\ ~s.notifs /\ ~s.waiters => LeaveState(s) = s
PROOF
  <1>1. CASE s.value = 0
    BY <1>1 DEF States, LeaveState
  <1>2. CASE s.value # 0
    BY <1>2 DEF States, LeaveState
  <1>. QED
    BY <1>1, <1>2

\* A step keeps the types of the words.
LEMMA WordsStep == ASSUME TypeInv, Next PROVE Words'
PROOF
  <1>. Words /\ Control
    BY TypeParts
  <1>0. MaxCount \in Nat \ {0} /\ NoState \in States
    BY BoundsAssumption DEF NoState, States
  <1>. USE DEF Words, Calls
  <1>1. ASSUME NEW t \in Threads, Enter(t) PROVE Words'
    <2>1. CASE dg_state.value = MaxCount
      <3>1. dg_state' = [dg_state EXCEPT !.value = 0]
        BY <2>1, <1>1 DEF Enter
      <3>2. dg_state' \in States
        BY <3>1, <1>0 DEF States
      <3>. QED
        BY <3>2, <1>1 DEF Enter, lifetime, locals
    <2>2. CASE dg_state.value # MaxCount
      <3>1. dg_state' = [dg_state EXCEPT !.value = @ + 1]
        BY <2>2, <1>1 DEF Enter
      <3>2. dg_state.value + 1 \in 0..MaxCount
        BY <2>2, <1>0 DEF States
      <3>3. dg_state' \in States
        BY <3>1, <3>2 DEF States
      <3>. QED
        BY <3>3, <1>1 DEF Enter, lifetime, locals
    <2>. QED
      BY <2>1, <2>2
  <1>2. ASSUME NEW t \in Threads, EnterRetain(t) PROVE Words'
    BY <1>2 DEF EnterRetain, group, lifetime, locals, history, Return, Goto, GroupWake, LeaveLoop, Release, Running
  <1>3. ASSUME NEW t \in Threads, Leave(t) PROVE Words'
    <2>1. dg_state.value \in 0..MaxCount /\ dg_state.gen \in Nat
      BY DEF States
    <2>2. dg_state' \in States
      <3>1. CASE dg_state.value > 1 /\ dg_state' = [dg_state EXCEPT !.value = @ - 1]
        <4>1. dg_state.value - 1 \in 0..MaxCount
          BY <3>1, <2>1, <1>0
        <4>. QED
          BY <4>1, <3>1 DEF States
      <3>2. CASE dg_state' = [dg_state EXCEPT !.value = 0, !.gen = @ + 1]
        <4>1. 0 \in 0..MaxCount /\ dg_state.gen + 1 \in Nat
          BY <2>1, <1>0
        <4>2. [dg_state EXCEPT !.value = 0] \in States
          BY <4>1 DEF States
        <4>3. dg_state' = [[dg_state EXCEPT !.value = 0] EXCEPT !.gen = dg_state.gen + 1]
          BY <3>2
        <4>. QED
          BY <4>1, <4>2, <4>3 DEF States
      <3>3. CASE dg_state' = [dg_state EXCEPT !.value = MaxCount]
        <4>1. MaxCount \in 0..MaxCount
          BY <1>0
        <4>. QED
          BY <3>3, <4>1 DEF States
      <3>. QED
        BY <3>1, <3>2, <3>3, <1>3 DEF Leave
    <2>3. inside' \in Nat
      BY <1>3 DEF Leave
    <2>4. saw' \in [Calls -> BOOLEAN]
      <3>1. saw' = saw \/ saw' = [c \in Calls |-> c \in Waiting \/ c \in called]
        BY <1>3 DEF Leave
      <3>2. \A c : (c \in Waiting \/ c \in called) \in BOOLEAN
        OBVIOUS
      <3>. QED
        BY <3>1, <3>2
    <2>. QED
      BY <2>2, <2>3, <2>4, <1>3 DEF Leave, lifetime
  <1>4. ASSUME NEW t \in Threads, LeaveCas(t) PROVE Words'
    <2>1. old[t] \in States
      BY DEF Control
    <2>. QED
      BY <2>1, <1>4, StateFacts DEF LeaveCas, group, lifetime, locals, history
  <1>5. ASSUME NEW t \in Threads, WakeSnapshot(t) PROVE Words'
    BY <1>5 DEF WakeSnapshot, group, lifetime, locals, history, Return, Goto, GroupWake, LeaveLoop, Release, Running
  <1>6. ASSUME NEW t \in Threads, WakeNotify(t) PROVE Words'
    <2>1. Head(snap[t]) \in Notifs
      BY <1>6 DEF Control, WakeNotify
    <2>. QED
      BY <2>1, <1>6 DEF WakeNotify, group, lifetime
  <1>7. ASSUME NEW t \in Threads, WakeByAddress(t) PROVE Words'
    BY <1>7 DEF WakeByAddress, group, lifetime, locals, history, Return, Goto, GroupWake, LeaveLoop, Release, Running
  <1>8. ASSUME NEW t \in Threads, WakeRelease(t) PROVE Words'
    BY <1>8 DEF WakeRelease, group, lifetime, locals, history, Return, Goto, GroupWake, LeaveLoop, Release, Running
  <1>9. ASSUME NEW t \in Threads, NEW n \in Notifs, Notify(t, n) PROVE Words'
    BY <1>9 DEF Notify, group, lifetime, locals, history, Return, Goto, GroupWake, LeaveLoop, Release, Running
  <1>10. ASSUME NEW t \in Threads, NotifyRetain(t) PROVE Words'
    BY <1>10 DEF NotifyRetain, group, lifetime, locals, history, Return, Goto, GroupWake, LeaveLoop, Release, Running
  <1>11. ASSUME NEW t \in Threads, NotifyLink(t) PROVE Words'
    <2>1. item[t] \in Notifs
      BY <1>11 DEF Control, NotifyLink, Pushing
    <2>. QED
      BY <2>1, <1>11 DEF NotifyLink, lifetime, locals, history
  <1>12. ASSUME NEW t \in Threads, NotifyState(t) PROVE Words'
    <2>1. [dg_state EXCEPT !.notifs = TRUE] \in States
      BY DEF States
    <2>. QED
      BY <2>1, <1>12 DEF NotifyState, lifetime, locals, history
  <1>13. ASSUME NEW t \in Threads, NEW to \in {"TIMED", "FOREVER"}, Wait(t, to) PROVE Words'
    <2>1. [dg_state EXCEPT !.waiters = TRUE] \in States
      BY DEF States
    <2>. QED
      BY <2>1, <1>13 DEF Wait, lifetime, locals, history
  <1>14. ASSUME NEW t \in Threads, WaitSleep(t) PROVE Words'
    BY <1>14 DEF WaitSleep, group, lifetime, locals, history, Return, Goto, GroupWake, LeaveLoop, Release, Running
  <1>15. ASSUME NEW t \in Threads, WaitTimedOut(t) PROVE Words'
    BY <1>15 DEF WaitTimedOut, group, lifetime, locals, history, Return, Goto, GroupWake, LeaveLoop, Release, Running
  <1>16. ASSUME NEW t \in Threads, WaitInterrupted(t) PROVE Words'
    BY <1>16 DEF WaitInterrupted, group, lifetime, locals, history, Return, Goto, GroupWake, LeaveLoop, Release, Running
  <1>17. ASSUME NEW t \in Threads, WaitCheck(t) PROVE Words'
    BY <1>17 DEF WaitCheck, group, lifetime, locals, history, Return, Goto, GroupWake, LeaveLoop, Release, Running
  <1>18. ASSUME NEW t \in Threads, WaitReturn(t) PROVE Words'
    BY <1>18 DEF WaitReturn, group, lifetime, locals, history, Return, Goto, GroupWake, LeaveLoop, Release, Running
  <1>19. ASSUME ClientRelease PROVE Words'
    BY <1>19 DEF ClientRelease, group, lifetime, locals, history, Return, Goto, GroupWake, LeaveLoop, Release, Running
  <1>. QED
    BY <1>1, <1>2, <1>3, <1>4, <1>5, <1>6, <1>7, <1>8, <1>9, <1>10, <1>11, <1>12, <1>13, <1>14, <1>15, <1>16, <1>17, <1>18, <1>19 DEF Next, InCall

\* A list without its first block.
LEMMA TailFacts ==
  ASSUME NEW S, NEW s \in Seq(S), s # <<>>
  PROVE  /\ Len(s) \in Nat /\ Len(s) >= 1 /\ Head(s) = s[1] /\ Head(s) \in S
         /\ Tail(s) \in Seq(S) /\ Len(Tail(s)) = Len(s) - 1
         /\ \A i \in 1..(Len(s) - 1) : Tail(s)[i] = s[i + 1]
         /\ Tail(s) # <<>> <=> Len(s) > 1
PROOF
  <1>1. /\ Head(s) \in S /\ Head(s) = s[1] /\ Tail(s) \in Seq(S) /\ Len(Tail(s)) = Len(s) - 1
        /\ \A i \in 1..Len(Tail(s)) : Tail(s)[i] = s[i + 1]
    BY HeadTailProperties
  <1>2. Len(s) \in Nat /\ Len(s) # 0
    BY EmptySeq, LenProperties
  <1>3. Tail(s) = <<>> <=> Len(Tail(s)) = 0
    BY <1>1, EmptySeq
  <1>. QED
    BY <1>1, <1>2, <1>3

\* One thread moves to a label other than "w_asleep", and back from it at most.
LEMMA ControlMoves ==
  ASSUME Control, NEW t \in Threads, NEW label \in Labels \ {"w_asleep"}, Goto(t, label),
         sleepers' = sleepers \ {t} \/ (sleepers' = sleepers /\ pc[t] # "w_asleep"),
         old' \in [Threads -> States],
         NEW s \in Seq(Notifs), snap' = [snap EXCEPT ![t] = s],
         NEW r \in 0..2, refs' = [refs EXCEPT ![t] = r],
         NEW i \in Notifs \union {NoItem}, item' = [item EXCEPT ![t] = i],
         label \in Pushing => i \in Notifs,
         label \in Waking <=> r >= 1,
         label = "k_notify" <=> s # <<>>
  PROVE  Control'
PROOF
  <1>1. pc' \in [Threads -> Labels] /\ pc'[t] = label /\ \A u \in Threads \ {t} : pc'[u] = pc[u]
    BY DEF Control, Goto
  <1>2. sleepers' = {u \in Threads : pc'[u] = "w_asleep"}
    BY <1>1 DEF Control
  <1>3. /\ snap' \in [Threads -> Seq(Notifs)] /\ refs' \in [Threads -> 0..2]
        /\ item' \in [Threads -> Notifs \union {NoItem}]
        /\ snap'[t] = s /\ refs'[t] = r /\ item'[t] = i
        /\ \A u \in Threads \ {t} : snap'[u] = snap[u] /\ refs'[u] = refs[u] /\ item'[u] = item[u]
    BY DEF Control
  <1>4. ASSUME NEW u \in Threads
        PROVE  /\ pc'[u] \in Pushing => item'[u] \in Notifs
               /\ pc'[u] \in Waking <=> refs'[u] >= 1
               /\ pc'[u] = "k_notify" <=> snap'[u] # <<>>
    <2>1. CASE u = t
      BY <1>1, <1>3, <2>1
    <2>2. CASE u # t
      BY <1>1, <1>3, <2>2 DEF Control
    <2>. QED
      BY <2>1, <2>2
  <1>. QED
    BY <1>1, <1>2, <1>3, <1>4 DEF Control

\* ... and keeps its list, its references and its block.
LEMMA ControlGoes ==
  ASSUME Control, NEW t \in Threads, NEW label \in Labels \ {"w_asleep"}, Goto(t, label),
         sleepers' = sleepers \ {t} \/ (sleepers' = sleepers /\ pc[t] # "w_asleep"),
         old' \in [Threads -> States], UNCHANGED <<snap, refs, item>>,
         label \in Pushing => item[t] \in Notifs,
         label \in Waking <=> pc[t] \in Waking,
         label = "k_notify" <=> pc[t] = "k_notify"
  PROVE  Control'
PROOF
  <1>1. pc' \in [Threads -> Labels] /\ pc'[t] = label /\ \A u \in Threads \ {t} : pc'[u] = pc[u]
    BY DEF Control, Goto
  <1>2. sleepers' = {u \in Threads : pc'[u] = "w_asleep"}
    BY <1>1 DEF Control
  <1>3. ASSUME NEW u \in Threads
        PROVE  /\ pc'[u] \in Pushing => item[u] \in Notifs
               /\ pc'[u] \in Waking <=> refs[u] >= 1
               /\ pc'[u] = "k_notify" <=> snap[u] # <<>>
    BY <1>1 DEF Control
  <1>. QED
    BY <1>1, <1>2, <1>3 DEF Control

\* A call returns.
LEMMA ControlReturns ==
  ASSUME Control, NEW t \in Threads, Return(t), pc[t] # "w_asleep", UNCHANGED sleepers
  PROVE  Control'
PROOF
  <1>1. /\ "idle" \in Labels \ {"w_asleep"} /\ "idle" \notin Pushing /\ "idle" \notin Waking
        /\ NoState \in States /\ <<>> \in Seq(Notifs)
    BY BoundsAssumption DEF Labels, Pushing, Waking, NoState, States
  <1>2. old' \in [Threads -> States]
    BY <1>1 DEF Control, Return
  <1>3. /\ Goto(t, "idle") /\ snap' = [snap EXCEPT ![t] = <<>>]
        /\ refs' = [refs EXCEPT ![t] = 0] /\ item' = [item EXCEPT ![t] = NoItem]
    BY DEF Return
  <1>4. /\ 0 \in 0..2 /\ ~(0 >= 1) /\ NoItem \in Notifs \union {NoItem}
    OBVIOUS
  <1>. QED
    BY <1>1, <1>2, <1>3, <1>4, ControlMoves

\* A thread enters _dispatch_group_wake.
LEMMA ControlWakes ==
  ASSUME Control, NEW t \in Threads, NEW s \in States, NEW b \in BOOLEAN, GroupWake(t, s, b),
         b \/ s.notifs, pc[t] \in {"idle", "l_cas", "n_state"}, UNCHANGED <<sleepers, snap, item>>
  PROVE  Control'
PROOF
  <1>. DEFINE r == (IF b THEN 1 ELSE 0) + (IF s.notifs THEN 1 ELSE 0)
  <1>1. r \in 0..2 /\ r >= 1
    OBVIOUS
  <1>2. /\ WakeLabel(s) \in Labels \ {"w_asleep"} /\ WakeLabel(s) \in Waking
        /\ WakeLabel(s) \notin Pushing /\ WakeLabel(s) # "k_notify"
    BY DEF WakeLabel, Labels, Waking, Pushing
  <1>3. /\ snap[t] \in Seq(Notifs) /\ snap' = [snap EXCEPT ![t] = snap[t]] /\ snap[t] = <<>>
        /\ item[t] \in Notifs \union {NoItem} /\ item' = [item EXCEPT ![t] = item[t]]
        /\ old' \in [Threads -> States]
    BY DEF Control, GroupWake
  <1>4. Goto(t, WakeLabel(s)) /\ refs' = [refs EXCEPT ![t] = r]
    BY DEF GroupWake
  <1>. QED
    BY <1>1, <1>2, <1>3, <1>4, ControlMoves

\* One turn of the loop of dispatch_group_leave.
LEMMA ControlLoops ==
  ASSUME Control, NEW t \in Threads, NEW s \in States, LeaveLoop(t, s),
         pc[t] \in {"idle", "l_cas"}, UNCHANGED <<sleepers, snap, item>>
  PROVE  Control'
PROOF
  <1>1. CASE LeaveState(s) = s
    BY <1>1, ControlWakes DEF LeaveLoop
  <1>2. CASE LeaveState(s) # s
    <2>1. Goto(t, "l_cas") /\ UNCHANGED refs /\ old' \in [Threads -> States]
      BY <1>2 DEF LeaveLoop, Control
    <2>2. "l_cas" \in Labels \ {"w_asleep"} /\ "l_cas" \notin Pushing /\ "l_cas" \notin Waking
          /\ pc[t] \notin Waking
      BY DEF Labels, Pushing, Waking
    <2>. QED
      BY <2>1, <2>2, ControlGoes
  <1>. QED
    BY <1>1, <1>2

\* The threads alone do not move.
LEMMA ControlStays ==
  ASSUME Control, UNCHANGED <<pc, sleepers, old, snap, refs, item>> PROVE Control'
PROOF
  BY DEF Control

\* A step keeps every thread in a known place.
LEMMA ControlStep == ASSUME TypeInv, Next PROVE Control'
PROOF
  <1>. Words /\ Control
    BY TypeParts
  <1>. USE DEF Labels, WaitLabels, Pushing, Waking, locals
  <1>0. ASSUME NEW t \in Threads, NEW label \in Labels \ {"w_asleep"}, Goto(t, label),
               UNCHANGED <<sleepers, locals>>, pc[t] # "w_asleep",
               label \in Pushing => item[t] \in Notifs,
               label \in Waking <=> pc[t] \in Waking,
               label = "k_notify" <=> pc[t] = "k_notify"
        PROVE  Control'
    <2>1. old' \in [Threads -> States]
      BY <1>0 DEF Control
    <2>. QED
      BY <1>0, <2>1, ControlGoes
  <1>1. ASSUME NEW t \in Threads, Enter(t) PROVE Control'
    <2>1. CASE dg_state.value = 0
      BY <1>0, <2>1, <1>1 DEF Enter
    <2>2. CASE dg_state.value # 0
      BY <2>2, <1>1, ControlStays DEF Enter
    <2>. QED
      BY <2>1, <2>2
  <1>2. ASSUME NEW t \in Threads, EnterRetain(t) PROVE Control'
    BY <1>0, <1>2 DEF EnterRetain
  <1>3. ASSUME NEW t \in Threads, Leave(t) PROVE Control'
    <2>1. CASE UNCHANGED <<pc, old, refs>>
      BY <2>1, <1>3, ControlStays DEF Leave
    <2>2. CASE LeaveLoop(t, dg_state')
      <3>1. dg_state' \in States
        BY WordsStep DEF Words
      <3>. QED
        BY <2>2, <3>1, <1>3, ControlLoops DEF Leave
    <2>. QED
      BY <2>1, <2>2, <1>3 DEF Leave
  <1>4. ASSUME NEW t \in Threads, LeaveCas(t) PROVE Control'
    <2>1. old[t] \in States /\ dg_state \in States
      BY DEF Control, Words
    <2>. QED
      BY <2>1, <1>4, ControlLoops, ControlWakes DEF LeaveCas
  <1>5. ASSUME NEW t \in Threads, WakeSnapshot(t) PROVE Control'
    <2>1. dg_notify \in Seq(Notifs) /\ dg_notify # <<>> /\ snap' = [snap EXCEPT ![t] = dg_notify]
      BY <1>5 DEF WakeSnapshot, Words
    <2>2. /\ refs[t] \in 0..2 /\ refs' = [refs EXCEPT ![t] = refs[t]] /\ refs[t] >= 1
          /\ item[t] \in Notifs \union {NoItem} /\ item' = [item EXCEPT ![t] = item[t]]
          /\ old' \in [Threads -> States]
      BY <1>5 DEF WakeSnapshot, Control
    <2>3. Goto(t, "k_notify") /\ UNCHANGED sleepers /\ pc[t] # "w_asleep"
      BY <1>5 DEF WakeSnapshot
    <2>. QED
      BY <2>1, <2>2, <2>3, ControlMoves
  <1>6. ASSUME NEW t \in Threads, WakeNotify(t) PROVE Control'
    <2>1. /\ snap[t] \in Seq(Notifs) /\ snap[t] # <<>> /\ snap' = [snap EXCEPT ![t] = Tail(snap[t])]
          /\ pc[t] = "k_notify"
      BY <1>6 DEF WakeNotify, Control
    <2>2. Tail(snap[t]) \in Seq(Notifs) /\ (Tail(snap[t]) # <<>> <=> Len(snap[t]) > 1)
      BY <2>1, TailFacts
    <2>3. /\ refs[t] \in 0..2 /\ refs' = [refs EXCEPT ![t] = refs[t]] /\ refs[t] >= 1
          /\ item[t] \in Notifs \union {NoItem} /\ item' = [item EXCEPT ![t] = item[t]]
          /\ old' \in [Threads -> States] /\ UNCHANGED sleepers
      BY <1>6 DEF WakeNotify, Control
    <2>. DEFINE label == IF Len(snap[t]) > 1 THEN "k_notify"
                         ELSE IF old[t].waiters THEN "k_wake" ELSE "k_release"
    <2>4. Goto(t, label)
      <3>1. pc = [pc EXCEPT ![t] = pc[t]]
        BY DEF Control
      <3>. QED
        BY <2>1, <3>1, <1>6 DEF WakeNotify, Goto
    <2>5. label \in Labels \ {"w_asleep"} /\ label \in Waking /\ label \notin Pushing
          /\ (label = "k_notify" <=> Len(snap[t]) > 1)
      OBVIOUS
    <2>. HIDE DEF label
    <2>. QED
      BY <2>1, <2>2, <2>3, <2>4, <2>5, ControlMoves
  <1>7. ASSUME NEW t \in Threads, WakeByAddress(t) PROVE Control'
    <2>1. /\ pc' \in [Threads -> Labels]
          /\ pc'[t] = "k_release"
          /\ \A u \in Threads \ {t} : pc'[u] = IF pc[u] = "w_asleep" THEN "w_check" ELSE pc[u]
      BY <1>7 DEF WakeByAddress, Control
    <2>2. sleepers' = {u \in Threads : pc'[u] = "w_asleep"}
      BY <2>1, <1>7 DEF WakeByAddress
    <2>. QED
      BY <2>1, <2>2, <1>7 DEF WakeByAddress, Control
  <1>8. ASSUME NEW t \in Threads, WakeRelease(t) PROVE Control'
    BY <1>8, ControlReturns DEF WakeRelease
  <1>9. ASSUME NEW t \in Threads, NEW n \in Notifs, Notify(t, n) PROVE Control'
    <2>. DEFINE label == IF dg_notify = <<>> THEN "n_retain" ELSE "n_link"
    <2>1. /\ refs[t] \in 0..2 /\ refs' = [refs EXCEPT ![t] = refs[t]] /\ ~(refs[t] >= 1)
          /\ snap[t] \in Seq(Notifs) /\ snap' = [snap EXCEPT ![t] = snap[t]] /\ snap[t] = <<>>
          /\ old' \in [Threads -> States] /\ UNCHANGED sleepers /\ pc[t] # "w_asleep"
      BY <1>9 DEF Notify, Control
    <2>2. Goto(t, label) /\ item' = [item EXCEPT ![t] = n]
      BY <1>9 DEF Notify
    <2>3. label \in Labels \ {"w_asleep"} /\ label \notin Waking /\ label # "k_notify"
      OBVIOUS
    <2>. HIDE DEF label
    <2>. QED
      BY <2>1, <2>2, <2>3, ControlMoves
  <1>10. ASSUME NEW t \in Threads, NotifyRetain(t) PROVE Control'
    <2>1. item[t] \in Notifs
      BY <1>10 DEF NotifyRetain, Control
    <2>. QED
      BY <1>0, <2>1, <1>10 DEF NotifyRetain
  <1>11. ASSUME NEW t \in Threads, NotifyLink(t) PROVE Control'
    <2>1. item[t] \in Notifs
      BY <1>11 DEF NotifyLink, Control
    <2>. QED
      BY <1>0, <2>1, <1>11, ControlReturns DEF NotifyLink
  <1>12. ASSUME NEW t \in Threads, NotifyState(t) PROVE Control'
    <2>1. [dg_state EXCEPT !.notifs = TRUE] \in States /\ [dg_state EXCEPT !.notifs = TRUE].notifs
      BY DEF Words, States
    <2>2. CASE Low32IsZero(dg_state)
      BY <2>1, <2>2, <1>12, ControlWakes DEF NotifyState
    <2>3. CASE ~Low32IsZero(dg_state)
      BY <2>3, <1>12, ControlReturns DEF NotifyState
    <2>. QED
      BY <2>2, <2>3
  <1>13. ASSUME NEW t \in Threads, NEW to \in {"TIMED", "FOREVER"}, Wait(t, to) PROVE Control'
    <2>1. dg_state' \in States
      BY WordsStep DEF Words
    <2>2. Goto(t, "w_wait") /\ UNCHANGED <<sleepers, snap, refs, item>> /\ pc[t] = "idle"
      BY <1>13 DEF Wait
    <2>3. old' \in [Threads -> States]
      BY <2>1, <1>13 DEF Wait, Control
    <2>. QED
      BY <2>2, <2>3, ControlGoes
  <1>14. ASSUME NEW t \in Threads, WaitSleep(t) PROVE Control'
    <2>1. CASE dg_state.gen = old[t].gen
      <3>1. pc' = [pc EXCEPT ![t] = "w_asleep"] /\ sleepers' = sleepers \union {t} /\ UNCHANGED locals
            /\ pc[t] = "w_wait"
        BY <2>1, <1>14 DEF WaitSleep, Goto
      <3>2. pc' \in [Threads -> Labels] /\ pc'[t] = "w_asleep" /\ \A u \in Threads \ {t} : pc'[u] = pc[u]
        BY <3>1 DEF Control
      <3>3. sleepers' = {u \in Threads : pc'[u] = "w_asleep"}
        BY <3>1, <3>2 DEF Control
      <3>. QED
        BY <3>1, <3>2, <3>3 DEF Control
    <2>2. CASE dg_state.gen # old[t].gen
      BY <1>0, <2>2, <1>14 DEF WaitSleep
    <2>. QED
      BY <2>1, <2>2
  <1>15. ASSUME NEW t \in Threads, WaitTimedOut(t) PROVE Control'
    <2>1. Goto(t, "w_check") /\ UNCHANGED <<snap, refs, item>> /\ old' \in [Threads -> States]
          /\ sleepers' = sleepers \ {t} /\ pc[t] \in {"w_wait", "w_asleep"}
      BY <1>15 DEF WaitTimedOut, Control
    <2>. QED
      BY <2>1, ControlGoes
  <1>16. ASSUME NEW t \in Threads, WaitInterrupted(t) PROVE Control'
    <2>1. Goto(t, "w_check") /\ UNCHANGED <<snap, refs, item>> /\ old' \in [Threads -> States]
          /\ sleepers' = sleepers \ {t} /\ pc[t] = "w_asleep"
      BY <1>16 DEF WaitInterrupted, Control
    <2>. QED
      BY <2>1, ControlGoes
  <1>17. ASSUME NEW t \in Threads, WaitCheck(t) PROVE Control'
    BY <1>0, <1>17 DEF WaitCheck
  <1>18. ASSUME NEW t \in Threads, WaitReturn(t) PROVE Control'
    BY <1>18, ControlReturns DEF WaitReturn
  <1>19. ASSUME ClientRelease PROVE Control'
    BY <1>19, ControlStays DEF ClientRelease
  <1>. QED
    BY <1>1, <1>2, <1>3, <1>4, <1>5, <1>6, <1>7, <1>8, <1>9, <1>10, <1>11, <1>12, <1>13, <1>14, <1>15, <1>16, <1>17, <1>18, <1>19 DEF Next, InCall

\* A step keeps what a waiter knows of the generation it waits for.
LEMMA GenerationsStep == ASSUME TypeInv, Generations, Next, Words', Control' PROVE Generations'
PROOF
  <1>. Words /\ Control
    BY TypeParts
  <1>. USE DEF WaitLabels, Words, Control
  <1>0. dg_state.gen \in Nat /\ \A t \in Threads : old[t].gen \in Nat
    BY StateFacts
  \* A thread that is not waiting afterwards is no concern, nor is one that nothing changed for.
  <1>a. ASSUME UNCHANGED <<saw>>, dg_state'.gen = dg_state.gen,
               \A u \in Threads : pc'[u] \in WaitLabels =>
                 \/ pc'[u] = pc[u] /\ old'[u] = old[u]
                 \/ pc'[u] # "w_done" /\ (old'[u].gen = dg_state.gen
                                           \/ (pc[u] \in WaitLabels /\ old'[u] = old[u]))
        PROVE  Generations'
    BY <1>a, <1>0 DEF Generations
  <1>1. ASSUME NEW t \in Threads, Enter(t) PROVE Generations'
    <2>1. dg_state'.gen = dg_state.gen
      BY <1>1 DEF Enter, States
    <2>. QED
      BY <1>a, <2>1, <1>1 DEF Enter, Goto, locals
  <1>2. ASSUME NEW t \in Threads, EnterRetain(t) PROVE Generations'
    BY <1>0, <1>a, <1>2 DEF EnterRetain, Return, Goto, group, locals, history, lifetime
  <1>3. ASSUME NEW t \in Threads, Leave(t) PROVE Generations'
    <2>0. \A u \in Threads : (pc'[u] \in WaitLabels => pc'[u] = pc[u] /\ old'[u] = old[u])
      BY <1>3 DEF Leave, LeaveLoop, GroupWake, WakeLabel, Goto
    <2>1. CASE dg_state'.gen = dg_state.gen /\ UNCHANGED saw
      BY <1>a, <2>0, <2>1
    <2>2. CASE saw' = [c \in Calls |-> c \in Waiting \/ c \in called] /\ dg_state'.gen = dg_state.gen + 1
      <3>1. \A u \in Threads : pc'[u] \in WaitLabels => saw'[u]
        BY <2>0, <2>2 DEF Waiting, Calls
      <3>2. \A u \in Threads : pc'[u] \in WaitLabels => old'[u].gen <= dg_state'.gen
        <4>. SUFFICES ASSUME NEW u \in Threads, pc'[u] \in WaitLabels PROVE old'[u].gen <= dg_state'.gen
          OBVIOUS
        <4>1. pc[u] \in WaitLabels /\ old'[u] = old[u]
          BY <2>0
        <4>2. old[u].gen <= dg_state.gen
          BY <4>1 DEF Generations
        <4>. QED
          BY <4>1, <4>2, <2>2, <1>0
      <3>. QED
        BY <3>1, <3>2 DEF Generations
    <2>. QED
      BY <2>1, <2>2, <1>3 DEF Leave, States
  <1>4. ASSUME NEW t \in Threads, LeaveCas(t) PROVE Generations'
    <2>0. LeaveState(old[t]).gen = old[t].gen
      BY StateFacts
    <2>1. dg_state'.gen = dg_state.gen
      BY <2>0, <1>4 DEF LeaveCas
    <2>2. \A u \in Threads : (pc'[u] \in WaitLabels => pc'[u] = pc[u] /\ old'[u] = old[u])
      BY <1>4 DEF LeaveCas, LeaveLoop, GroupWake, WakeLabel, Goto
    <2>. QED
      BY <1>a, <2>1, <2>2, <1>4 DEF LeaveCas, history
  <1>5. ASSUME NEW t \in Threads, WakeSnapshot(t) PROVE Generations'
    BY <1>0, <1>a, <1>5 DEF WakeSnapshot, Return, Goto, group, locals, history, lifetime
  <1>6. ASSUME NEW t \in Threads, WakeNotify(t) PROVE Generations'
    <2>1. UNCHANGED <<saw, dg_state, old>> /\ \A u \in Threads : pc'[u] \in WaitLabels => pc'[u] = pc[u]
      BY <1>6 DEF WakeNotify, Goto, group
    <2>. QED
      BY <1>a, <2>1
  <1>7. ASSUME NEW t \in Threads, WakeByAddress(t) PROVE Generations'
    BY <1>0, <1>a, <1>7 DEF WakeByAddress, Return, Goto, group, locals, history, lifetime
  <1>8. ASSUME NEW t \in Threads, WakeRelease(t) PROVE Generations'
    BY <1>0, <1>a, <1>8 DEF WakeRelease, Return, Goto, group, locals, history, lifetime
  <1>9. ASSUME NEW t \in Threads, NEW n \in Notifs, Notify(t, n) PROVE Generations'
    <2>1. /\ UNCHANGED <<dg_state, old>> /\ \A u \in Threads : pc'[u] \in WaitLabels => pc'[u] = pc[u]
          /\ \A u \in Threads : saw'[u] = saw[u]
      BY <1>9, NotifsAssumption DEF Notify, Goto
    <2>. QED
      BY <2>1 DEF Generations
  <1>10. ASSUME NEW t \in Threads, NotifyRetain(t) PROVE Generations'
    BY <1>0, <1>a, <1>10 DEF NotifyRetain, Return, Goto, group, locals, history, lifetime
  <1>11. ASSUME NEW t \in Threads, NotifyLink(t) PROVE Generations'
    BY <1>0, <1>a, <1>11 DEF NotifyLink, Return, Goto, group, locals, history, lifetime
  <1>12. ASSUME NEW t \in Threads, NotifyState(t) PROVE Generations'
    <2>1. dg_state'.gen = dg_state.gen
      BY <1>12 DEF NotifyState, States
    <2>2. \A u \in Threads : (pc'[u] \in WaitLabels => pc'[u] = pc[u] /\ old'[u] = old[u])
      BY <1>12 DEF NotifyState, Return, GroupWake, WakeLabel, Goto
    <2>. QED
      BY <1>a, <2>1, <2>2, <1>12 DEF NotifyState, history
  <1>13. ASSUME NEW t \in Threads, NEW to \in {"TIMED", "FOREVER"}, Wait(t, to) PROVE Generations'
    <2>1. dg_state'.gen = dg_state.gen
      BY <1>13 DEF Wait, States
    <2>2. \A u \in Threads : (pc'[u] \in WaitLabels =>
             (pc'[u] = pc[u] /\ old'[u] = old[u]) \/ (pc'[u] # "w_done" /\ old'[u].gen = dg_state.gen))
      BY <2>1, <1>13 DEF Wait, Goto
    <2>. QED
      BY <1>a, <2>1, <2>2, <1>13 DEF Wait, history
  <1>14. ASSUME NEW t \in Threads, WaitSleep(t) PROVE Generations'
    <2>1. UNCHANGED <<dg_state, old, saw>> /\ pc[t] = "w_wait" /\ pc'[t] # "w_done"
          /\ \A u \in Threads \ {t} : pc'[u] = pc[u]
      BY <1>14 DEF WaitSleep, Goto, group, locals, history
    <2>. QED
      BY <1>a, <2>1
  <1>15. ASSUME NEW t \in Threads, WaitTimedOut(t) PROVE Generations'
    BY <1>0, <1>a, <1>15 DEF WaitTimedOut, Return, Goto, group, locals, history, lifetime
  <1>16. ASSUME NEW t \in Threads, WaitInterrupted(t) PROVE Generations'
    BY <1>0, <1>a, <1>16 DEF WaitInterrupted, Return, Goto, group, locals, history, lifetime
  <1>17. ASSUME NEW t \in Threads, WaitCheck(t) PROVE Generations'
    <2>1. UNCHANGED <<dg_state, old, saw>> /\ pc[t] = "w_check"
          /\ \A u \in Threads \ {t} : pc'[u] = pc[u]
      BY <1>17 DEF WaitCheck, Goto, group, locals, history
    <2>2. CASE pc'[t] = "w_done" /\ dg_state.gen # old[t].gen
      BY <2>1, <2>2, <1>0 DEF Generations
    <2>3. CASE pc'[t] \in {"w_timedout", "w_wait"}
      BY <1>a, <2>1, <2>3
    <2>. QED
      BY <2>2, <2>3, <1>17 DEF WaitCheck, Goto
  <1>18. ASSUME NEW t \in Threads, WaitReturn(t) PROVE Generations'
    <2>1. /\ UNCHANGED dg_state /\ pc'[t] = "idle" /\ \A u \in Threads \ {t} : pc'[u] = pc[u]
          /\ \A u \in Threads \ {t} : saw'[u] = saw[u] /\ old'[u] = old[u]
      BY <1>18 DEF WaitReturn, Return, Goto, group
    <2>. QED
      BY <2>1 DEF Generations
  <1>19. ASSUME ClientRelease PROVE Generations'
    BY <1>0, <1>a, <1>19 DEF ClientRelease, Return, Goto, group, locals, history, lifetime
  <1>. QED
    BY <1>1, <1>2, <1>3, <1>4, <1>5, <1>6, <1>7, <1>8, <1>9, <1>10, <1>11, <1>12, <1>13, <1>14, <1>15, <1>16, <1>17, <1>18, <1>19 DEF Next, InCall

\* A step keeps one party responsible for the notifications.
LEMMA ResponsibleStep == ASSUME TypeInv, Responsible, Next, Words', Control' PROVE Responsible'
PROOF
  <1>. Words /\ Control
    BY TypeParts
  <1>. USE DEF Words, Control, Firing
  <1>0. pc \in [Threads -> Labels] /\ pc' \in [Threads -> Labels]
    OBVIOUS
  \* Who fires the list stays, and so does the list.
  <1>a. ASSUME crash = "none", dg_state'.notifs = dg_state.notifs,
               (dg_notify' = <<>>) <=> (dg_notify = <<>>), Firing' = Firing
        PROVE  Responsible'
    BY <1>a DEF Responsible
  <1>b. ASSUME NEW label \in Labels, NEW t \in Threads, Goto(t, label),
               label \in {"k_snapshot", "n_retain", "n_head", "n_state"}
                 <=> pc[t] \in {"k_snapshot", "n_retain", "n_head", "n_state"}
        PROVE  Firing' = Firing
    BY <1>b DEF Goto
  <1>c. ASSUME UNCHANGED pc PROVE Firing' = Firing
    BY <1>c
  <1>1. ASSUME NEW t \in Threads, Enter(t) PROVE Responsible'
    <2>1. CASE crash' = "none"
      <3>1. dg_state'.notifs = dg_state.notifs
        BY <1>1 DEF Enter, States
      <3>2. Firing' = Firing
        BY <1>b, <1>c, <1>1 DEF Enter, Labels
      <3>. QED
        BY <1>a, <3>1, <3>2, <1>1 DEF Enter, Running
    <2>2. CASE crash' # "none"
      BY <2>2 DEF Responsible
    <2>. QED
      BY <2>1, <2>2
  <1>2. ASSUME NEW t \in Threads, EnterRetain(t) PROVE Responsible'
    BY <1>a, <1>b, <1>2 DEF EnterRetain, Running, Return, group, locals, history, lifetime, Labels, WaitLabels
  <1>3. ASSUME NEW t \in Threads, Leave(t) PROVE Responsible'
    <2>1. CASE dg_state'.notifs = dg_state.notifs /\ Firing' = Firing
      BY <1>a, <2>1, <1>3 DEF Leave, Running
    <2>2. CASE inside > 0
      <3>1. dg_state'.notifs = dg_state.notifs
        BY <1>3, ZenonT(60) DEF Leave, States
      <3>2. CASE UNCHANGED pc
        BY <3>1, <3>2, <2>1, <1>c
      <3>3. CASE LeaveLoop(t, dg_state')
        <4>1. dg_state' \in States
          OBVIOUS
        <4>2. \E label \in Labels \ {"k_snapshot", "n_retain", "n_head", "n_state"} : Goto(t, label)
          BY <3>3, <4>1, StateFacts DEF LeaveLoop, GroupWake, WakeLabel, Labels
        <4>3. pc[t] = "idle"
          BY <1>3 DEF Leave
        <4>. QED
          BY <3>1, <4>2, <4>3, <2>1, <1>b
      <3>. QED
        BY <3>2, <3>3, <1>3, <2>2 DEF Leave
    <2>3. CASE crash' # "none"
      BY <2>3 DEF Responsible
    <2>. QED
      BY <2>2, <2>3, <1>3 DEF Leave
  <1>4. ASSUME NEW t \in Threads, LeaveCas(t) PROVE Responsible'
    <2>0. old[t] \in States /\ dg_state \in States /\ pc[t] = "l_cas" /\ crash = "none" /\ UNCHANGED <<dg_notify, crash>>
      BY <1>4 DEF LeaveCas, Running
    <2>1. CASE dg_state = old[t]
      <3>1. ~dg_state'.notifs /\ Goto(t, WakeLabel(dg_state))
        BY <2>0, <2>1, <1>4, StateFacts DEF LeaveCas, GroupWake
      <3>2. CASE dg_state.notifs
        <4>1. Firing' = Firing \union {t}
          BY <2>0, <3>1, <3>2 DEF WakeLabel, Goto
        <4>. QED
          BY <2>0, <3>1, <3>2, <4>1 DEF Responsible
      <3>3. CASE ~dg_state.notifs
        <4>1. Firing' = Firing
          BY <2>0, <3>1, <3>3, <1>b DEF WakeLabel, Labels
        <4>. QED
          BY <2>0, <3>1, <3>3, <4>1 DEF Responsible
      <3>. QED
        BY <3>2, <3>3
    <2>2. CASE dg_state # old[t]
      <3>1. LeaveLoop(t, dg_state) /\ UNCHANGED dg_state
        BY <2>2, <1>4 DEF LeaveCas
      <3>2. \E label \in Labels \ {"k_snapshot", "n_retain", "n_head", "n_state"} : Goto(t, label)
        BY <2>0, <3>1, StateFacts DEF LeaveLoop, GroupWake, WakeLabel, Labels
      <3>. QED
        BY <2>0, <3>1, <3>2, <1>a, <1>b
    <2>. QED
      BY <2>1, <2>2
  <1>5. ASSUME NEW t \in Threads, WakeSnapshot(t) PROVE Responsible'
    <2>1. /\ crash = "none" /\ UNCHANGED dg_state /\ dg_notify' = <<>>
          /\ t \in Firing /\ Firing' = Firing \ {t}
      BY <1>5 DEF WakeSnapshot, Running, Goto
    <2>. QED
      BY <2>1 DEF Responsible
  <1>6. ASSUME NEW t \in Threads, WakeNotify(t) PROVE Responsible'
    <2>1. pc[t] = "k_notify" /\ crash = "none" /\ UNCHANGED <<dg_state, dg_notify>>
      BY <1>6 DEF WakeNotify, Running, group
    <2>2. Firing' = Firing
      BY <1>b, <1>c, <2>1, <1>6 DEF WakeNotify, Labels
    <2>. QED
      BY <1>a, <2>1, <2>2
  <1>7. ASSUME NEW t \in Threads, WakeByAddress(t) PROVE Responsible'
    <2>1. Firing' = Firing
      BY <1>7 DEF WakeByAddress
    <2>. QED
      BY <1>a, <2>1, <1>7 DEF WakeByAddress, Running, group
  <1>8. ASSUME NEW t \in Threads, WakeRelease(t) PROVE Responsible'
    <2>1. Firing' = Firing
      BY <1>b, <1>8 DEF WakeRelease, Return, Labels
    <2>. QED
      BY <1>a, <2>1, <1>8 DEF WakeRelease, Running, group
  <1>9. ASSUME NEW t \in Threads, NEW n \in Notifs, Notify(t, n) PROVE Responsible'
    <2>0. crash = "none" /\ UNCHANGED dg_state /\ pc[t] = "idle" /\ dg_notify' # <<>>
      BY <1>9, AppendProperties DEF Notify, Running
    <2>1. CASE dg_notify = <<>>
      <3>1. Firing' = Firing \union {t}
        BY <2>1, <1>9 DEF Notify, Goto
      <3>. QED
        BY <2>0, <2>1, <3>1 DEF Responsible
    <2>2. CASE dg_notify # <<>>
      <3>1. Firing' = Firing
        BY <2>2, <1>b, <1>9 DEF Notify, Labels
      <3>. QED
        BY <2>0, <2>2, <3>1, <1>a
    <2>. QED
      BY <2>1, <2>2
  <1>10. ASSUME NEW t \in Threads, NotifyRetain(t) PROVE Responsible'
    BY <1>a, <1>b, <1>10 DEF NotifyRetain, Running, Return, group, locals, history, lifetime, Labels, WaitLabels
  <1>11. ASSUME NEW t \in Threads, NotifyLink(t) PROVE Responsible'
    <2>1. Firing' = Firing
      BY <1>b, <1>11 DEF NotifyLink, Return, Labels
    <2>. QED
      BY <1>a, <2>1, <1>11 DEF NotifyLink, Running
  <1>12. ASSUME NEW t \in Threads, NotifyState(t) PROVE Responsible'
    <2>0. crash = "none" /\ UNCHANGED dg_notify /\ t \in Firing
      BY <1>12 DEF NotifyState, Running
    <2>1. CASE Low32IsZero(dg_state)
      <3>1. [dg_state EXCEPT !.notifs = TRUE].notifs
        BY DEF States
      <3>2. UNCHANGED dg_state /\ Goto(t, "k_snapshot")
        BY <2>1, <3>1, <1>12 DEF NotifyState, GroupWake, WakeLabel
      <3>3. Firing' = Firing
        BY <2>0, <3>2 DEF Goto
      <3>. QED
        BY <1>a, <2>0, <3>2, <3>3
    <2>2. CASE ~Low32IsZero(dg_state)
      <3>1. dg_state'.notifs /\ Goto(t, "idle")
        BY <2>2, <1>12 DEF NotifyState, Return, States
      <3>2. Firing' = Firing \ {t}
        BY <3>1 DEF Goto
      <3>. QED
        BY <2>0, <3>1, <3>2 DEF Responsible
    <2>. QED
      BY <2>1, <2>2
  <1>13. ASSUME NEW t \in Threads, NEW to \in {"TIMED", "FOREVER"}, Wait(t, to) PROVE Responsible'
    <2>1. dg_state'.notifs = dg_state.notifs
      BY <1>13 DEF Wait, States
    <2>2. Firing' = Firing
      BY <1>b, <1>13 DEF Wait, Labels, WaitLabels
    <2>. QED
      BY <1>a, <2>1, <2>2, <1>13 DEF Wait, Running
  <1>14. ASSUME NEW t \in Threads, WaitSleep(t) PROVE Responsible'
    <2>1. Firing' = Firing
      BY <1>b, <1>14 DEF WaitSleep, Labels, WaitLabels
    <2>. QED
      BY <1>a, <2>1, <1>14 DEF WaitSleep, Running, group
  <1>15. ASSUME NEW t \in Threads, WaitTimedOut(t) PROVE Responsible'
    BY <1>a, <1>b, <1>15 DEF WaitTimedOut, Running, Return, group, locals, history, lifetime, Labels, WaitLabels
  <1>16. ASSUME NEW t \in Threads, WaitInterrupted(t) PROVE Responsible'
    BY <1>a, <1>b, <1>16 DEF WaitInterrupted, Running, Return, group, locals, history, lifetime, Labels, WaitLabels
  <1>17. ASSUME NEW t \in Threads, WaitCheck(t) PROVE Responsible'
    <2>1. Firing' = Firing
      BY <1>b, <1>17 DEF WaitCheck, Labels, WaitLabels
    <2>. QED
      BY <1>a, <2>1, <1>17 DEF WaitCheck, Running, group
  <1>18. ASSUME NEW t \in Threads, WaitReturn(t) PROVE Responsible'
    BY <1>a, <1>b, <1>18 DEF WaitReturn, Running, Return, group, locals, history, lifetime, Labels, WaitLabels
  <1>19. ASSUME ClientRelease PROVE Responsible'
    BY <1>a, <1>c, <1>19 DEF ClientRelease, Running, group
  <1>. QED
    BY <1>1, <1>2, <1>3, <1>4, <1>5, <1>6, <1>7, <1>8, <1>9, <1>10, <1>11, <1>12, <1>13, <1>14, <1>15, <1>16, <1>17, <1>18, <1>19 DEF Next, InCall

\* A step strands no flag.
LEMMA StrandedStep == ASSUME TypeInv, NoStrandedFlag, Next, Words', Control' PROVE NoStrandedFlag'
PROOF
  <1>. Words /\ Control
    BY TypeParts
  <1>. USE DEF Words, Control
  \* The word stays, and so does a leaver in its loop.
  <1>a. ASSUME crash = "none", UNCHANGED dg_state, \A u \in Threads : pc[u] = "l_cas" => pc'[u] = "l_cas"
        PROVE  NoStrandedFlag'
    BY <1>a DEF NoStrandedFlag, Low32IsZero
  <1>b. ASSUME NEW t \in Threads, NEW label, Goto(t, label), pc[t] # "l_cas"
        PROVE  \A u \in Threads : pc[u] = "l_cas" => pc'[u] = "l_cas"
    BY <1>b DEF Goto
  \* A leaver looks at the word.
  <1>c. ASSUME NEW t \in Threads, LeaveLoop(t, dg_state'), dg_state' \in States
        PROVE  NoStrandedFlag'
    <2>1. CASE LeaveState(dg_state') = dg_state'
      BY <1>c, <2>1, StateFacts DEF NoStrandedFlag, Low32IsZero
    <2>2. CASE LeaveState(dg_state') # dg_state'
      BY <1>c, <2>2 DEF NoStrandedFlag, LeaveLoop, Goto
    <2>. QED
      BY <2>1, <2>2
  <1>1. ASSUME NEW t \in Threads, Enter(t) PROVE NoStrandedFlag'
    <2>1. crash' = "none" => dg_state'.value # 0
      BY <1>1, BoundsAssumption DEF Enter, States, Running
    <2>. QED
      BY <2>1 DEF NoStrandedFlag
  <1>2. ASSUME NEW t \in Threads, EnterRetain(t) PROVE NoStrandedFlag'
    BY <1>a, <1>b, <1>2 DEF EnterRetain, Running, Return, group, locals, history, lifetime
  <1>3. ASSUME NEW t \in Threads, Leave(t) PROVE NoStrandedFlag'
    <2>1. CASE dg_state' = [dg_state EXCEPT !.value = @ - 1] /\ dg_state.value > 1
      BY <2>1, BoundsAssumption DEF NoStrandedFlag, States
    <2>2. CASE LeaveLoop(t, dg_state')
      BY <2>2, <1>c
    <2>3. CASE crash' # "none"
      BY <2>3 DEF NoStrandedFlag
    <2>. QED
      BY <2>1, <2>2, <2>3, <1>3 DEF Leave
  <1>4. ASSUME NEW t \in Threads, LeaveCas(t) PROVE NoStrandedFlag'
    <2>1. CASE dg_state = old[t]
      <3>1. old[t] \in States /\ dg_state' = LeaveState(old[t])
        BY <2>1, <1>4 DEF LeaveCas
      <3>. QED
        BY <3>1, StateFacts, ZenonT(60) DEF NoStrandedFlag, Low32IsZero
    <2>2. CASE dg_state # old[t]
      BY <2>2, <1>c, <1>4 DEF LeaveCas
    <2>. QED
      BY <2>1, <2>2
  <1>5. ASSUME NEW t \in Threads, WakeSnapshot(t) PROVE NoStrandedFlag'
    BY <1>a, <1>b, <1>5 DEF WakeSnapshot, Running, Return, group, locals, history, lifetime
  <1>6. ASSUME NEW t \in Threads, WakeNotify(t) PROVE NoStrandedFlag'
    <2>1. \A u \in Threads : pc[u] = "l_cas" => pc'[u] = "l_cas"
      BY <1>6 DEF WakeNotify, Goto
    <2>. QED
      BY <1>a, <2>1, <1>6 DEF WakeNotify, Running, group
  <1>7. ASSUME NEW t \in Threads, WakeByAddress(t) PROVE NoStrandedFlag'
    <2>1. \A u \in Threads : pc[u] = "l_cas" => pc'[u] = "l_cas"
      BY <1>7 DEF WakeByAddress
    <2>. QED
      BY <1>a, <2>1, <1>7 DEF WakeByAddress, Running, group
  <1>8. ASSUME NEW t \in Threads, WakeRelease(t) PROVE NoStrandedFlag'
    BY <1>a, <1>b, <1>8 DEF WakeRelease, Running, Return, group, locals, history, lifetime
  <1>9. ASSUME NEW t \in Threads, NEW n \in Notifs, Notify(t, n) PROVE NoStrandedFlag'
    BY <1>a, <1>b, <1>9 DEF Notify, Running, Return, group, locals, history, lifetime
  <1>10. ASSUME NEW t \in Threads, NotifyRetain(t) PROVE NoStrandedFlag'
    BY <1>a, <1>b, <1>10 DEF NotifyRetain, Running, Return, group, locals, history, lifetime
  <1>11. ASSUME NEW t \in Threads, NotifyLink(t) PROVE NoStrandedFlag'
    <2>1. \A u \in Threads : pc[u] = "l_cas" => pc'[u] = "l_cas"
      BY <1>b, <1>11 DEF NotifyLink, Return
    <2>. QED
      BY <1>a, <2>1, <1>11 DEF NotifyLink, Running
  <1>12. ASSUME NEW t \in Threads, NotifyState(t) PROVE NoStrandedFlag'
    <2>0. \A u \in Threads : pc[u] = "l_cas" => pc'[u] = "l_cas"
      BY <1>b, <1>12 DEF NotifyState, GroupWake, Return
    <2>1. CASE Low32IsZero(dg_state)
      BY <1>a, <2>0, <2>1, <1>12 DEF NotifyState, Running
    <2>2. CASE ~Low32IsZero(dg_state)
      <3>1. dg_state'.value = dg_state.value /\ UNCHANGED crash
        BY <2>2, <1>12 DEF NotifyState, States
      <3>. QED
        BY <2>0, <2>2, <3>1 DEF NoStrandedFlag
    <2>. QED
      BY <2>1, <2>2
  <1>13. ASSUME NEW t \in Threads, NEW to \in {"TIMED", "FOREVER"}, Wait(t, to) PROVE NoStrandedFlag'
    <2>1. dg_state'.value # 0
      BY <1>13, BoundsAssumption DEF Wait, States
    <2>. QED
      BY <2>1 DEF NoStrandedFlag
  <1>14. ASSUME NEW t \in Threads, WaitSleep(t) PROVE NoStrandedFlag'
    <2>1. \A u \in Threads : pc[u] = "l_cas" => pc'[u] = "l_cas"
      BY <1>b, <1>14 DEF WaitSleep
    <2>. QED
      BY <1>a, <2>1, <1>14 DEF WaitSleep, Running, group
  <1>15. ASSUME NEW t \in Threads, WaitTimedOut(t) PROVE NoStrandedFlag'
    BY <1>a, <1>b, <1>15 DEF WaitTimedOut, Running, Return, group, locals, history, lifetime
  <1>16. ASSUME NEW t \in Threads, WaitInterrupted(t) PROVE NoStrandedFlag'
    BY <1>a, <1>b, <1>16 DEF WaitInterrupted, Running, Return, group, locals, history, lifetime
  <1>17. ASSUME NEW t \in Threads, WaitCheck(t) PROVE NoStrandedFlag'
    <2>1. \A u \in Threads : pc[u] = "l_cas" => pc'[u] = "l_cas"
      BY <1>b, <1>17 DEF WaitCheck
    <2>. QED
      BY <1>a, <2>1, <1>17 DEF WaitCheck, Running, group
  <1>18. ASSUME NEW t \in Threads, WaitReturn(t) PROVE NoStrandedFlag'
    BY <1>a, <1>b, <1>18 DEF WaitReturn, Running, Return, group, locals, history, lifetime
  <1>19. ASSUME ClientRelease PROVE NoStrandedFlag'
    BY <1>a, <1>b, <1>19 DEF ClientRelease, Running, Return, group, locals, history, lifetime
  <1>. QED
    BY <1>1, <1>2, <1>3, <1>4, <1>5, <1>6, <1>7, <1>8, <1>9, <1>10, <1>11, <1>12, <1>13, <1>14, <1>15, <1>16, <1>17, <1>18, <1>19 DEF Next, InCall

\* The blocks stay in their places where neither lists nor submissions change.
LEMMA PlacesStay ==
  ASSUME Places, UNCHANGED <<dg_notify, snap, called, submitted>> PROVE Places'
PROOF
  BY DEF Places, Listed, Captured

\* A thread that is not firing a list has none that its return could drop.
LEMMA ReturnKeeps ==
  ASSUME Control, NEW t \in Threads, Return(t), pc[t] # "k_notify"
  PROVE  UNCHANGED snap
PROOF
  <1>1. snap[t] = <<>> /\ snap' = [snap EXCEPT ![t] = <<>>] /\ snap \in [Threads -> Seq(Notifs)]
    BY DEF Control, Return
  <1>. QED
    BY <1>1

\* A step keeps every notification block in one place.
LEMMA PlacesStep == ASSUME TypeInv, Places, Next, Words', Control' PROVE Places'
PROOF
  <1>. Words /\ Control
    BY TypeParts
  <1>1. ASSUME NEW t \in Threads, Enter(t) PROVE Places'
    BY <1>1, PlacesStay DEF Enter, group, locals, history, lifetime
  <1>2. ASSUME NEW t \in Threads, EnterRetain(t) PROVE Places'
    BY <1>2, PlacesStay DEF EnterRetain, group, locals, history, lifetime
  <1>3. ASSUME NEW t \in Threads, Leave(t) PROVE Places'
    BY <1>3, PlacesStay DEF Leave, group, locals, history, lifetime
  <1>4. ASSUME NEW t \in Threads, LeaveCas(t) PROVE Places'
    BY <1>4, PlacesStay DEF LeaveCas, group, locals, history, lifetime
  <1>5. ASSUME NEW t \in Threads, WakeSnapshot(t) PROVE Places'
    <2>1. /\ snap[t] = <<>> /\ Len(snap[t]) = 0 /\ snap \in [Threads -> Seq(Notifs)]
          /\ snap' = [snap EXCEPT ![t] = dg_notify]
          /\ dg_notify' = <<>> /\ Len(dg_notify') = 0 /\ UNCHANGED <<called, submitted>>
      BY <1>5, EmptySeq DEF WakeSnapshot, Control, history
    <2>2. snap'[t] = dg_notify /\ \A u \in Threads \ {t} : snap'[u] = snap[u]
      BY <2>1
    <2>3. \A m \in Notifs : ~Listed(m)' /\ ~Captured(t, m) /\ (Captured(t, m)' <=> Listed(m))
      BY <2>1, <2>2 DEF Listed, Captured
    <2>4. \A u \in Threads \ {t}, m \in Notifs : Captured(u, m)' <=> Captured(u, m)
      BY <2>2 DEF Captured
    <2>5. \A i, j \in 1..Len(dg_notify') : dg_notify'[i] = dg_notify'[j] => i = j
      BY <2>1
    <2>6. \A u \in Threads : \A i, j \in 1..Len(snap'[u]) : snap'[u][i] = snap'[u][j] => i = j
      BY <2>2 DEF Places
    <2>7. ASSUME NEW u \in Threads, NEW m \in Notifs, Captured(u, m)'
          PROVE  /\ ~Listed(m)' /\ \A v \in Threads : Captured(v, m)' => v = u
                 /\ m \in called' /\ submitted'[m] = 0
      BY <2>1, <2>3, <2>4, <2>7 DEF Places
    <2>8. \A m \in Notifs : submitted'[m] <= 1 /\ (m \notin called' => submitted'[m] = 0)
      BY <2>1 DEF Places
    <2>. QED
      BY <2>3, <2>5, <2>6, <2>7, <2>8 DEF Places
  <1>6. ASSUME NEW t \in Threads, WakeNotify(t) PROVE Places'
    <2>. DEFINE h == Head(snap[t])
    <2>1. /\ snap[t] \in Seq(Notifs) /\ snap[t] # <<>> /\ snap \in [Threads -> Seq(Notifs)]
          /\ snap' = [snap EXCEPT ![t] = Tail(snap[t])]
          /\ submitted' = [submitted EXCEPT ![h] = @ + 1] /\ submitted \in [Notifs -> Nat]
          /\ UNCHANGED <<dg_notify, called>>
      BY <1>6 DEF WakeNotify, Words, Control, group
    <2>2. /\ Len(snap[t]) \in Nat /\ Len(snap[t]) >= 1 /\ h = snap[t][1] /\ h \in Notifs
          /\ Len(Tail(snap[t])) = Len(snap[t]) - 1
          /\ \A i \in 1..(Len(snap[t]) - 1) : Tail(snap[t])[i] = snap[t][i + 1]
      BY <2>1, TailFacts
    <2>3. snap'[t] = Tail(snap[t]) /\ \A u \in Threads \ {t} : snap'[u] = snap[u]
      BY <2>1
    <2>. HIDE DEF h
    <2>4. \A i \in 1..(Len(snap[t]) - 1) : i + 1 \in 1..Len(snap[t]) /\ i + 1 # 1 /\ 1 \in 1..Len(snap[t])
      BY <2>2
    <2>5. \A m \in Notifs : Captured(t, m)' => Captured(t, m) /\ m # h
      BY <2>2, <2>3, <2>4 DEF Captured, Places
    <2>6. /\ \A u \in Threads \ {t}, m \in Notifs : Captured(u, m)' <=> Captured(u, m)
          /\ \A m \in Notifs : Listed(m)' <=> Listed(m)
      BY <2>1, <2>3 DEF Captured, Listed
    <2>7. Captured(t, h) /\ submitted[h] = 0 /\ h \in called /\ ~Listed(h)
          /\ \A u \in Threads : Captured(u, h) => u = t
      <3>1. Captured(t, h)
        BY <2>2 DEF Captured
      <3>. QED
        BY <3>1, <2>2 DEF Places
    <2>8. submitted'[h] = 1 /\ \A m \in Notifs \ {h} : submitted'[m] = submitted[m]
      BY <2>1, <2>2, <2>7
    <2>9. \A i, j \in 1..Len(dg_notify') : dg_notify'[i] = dg_notify'[j] => i = j
      BY <2>1 DEF Places
    <2>10. \A u \in Threads : \A i, j \in 1..Len(snap'[u]) : snap'[u][i] = snap'[u][j] => i = j
      <3>1. \A i, j \in 1..Len(snap'[t]) : snap'[t][i] = snap'[t][j] => i = j
        <4>1. ASSUME NEW i \in 1..(Len(snap[t]) - 1), NEW j \in 1..(Len(snap[t]) - 1),
                     snap'[t][i] = snap'[t][j]
              PROVE  i = j
          <5>1. snap[t][i + 1] = snap[t][j + 1]
            BY <4>1, <2>2, <2>3
          <5>2. i + 1 = j + 1
            BY <5>1, <2>4 DEF Places
          <5>. QED
            BY <5>2
        <4>. QED
          BY <4>1, <2>2, <2>3
      <3>2. \A u \in Threads \ {t} : \A i, j \in 1..Len(snap'[u]) : snap'[u][i] = snap'[u][j] => i = j
        BY <2>3 DEF Places
      <3>. QED
        BY <3>1, <3>2
    <2>11. ASSUME NEW u \in Threads, NEW m \in Notifs, Captured(u, m)'
          PROVE  /\ ~Listed(m)' /\ \A v \in Threads : Captured(v, m)' => v = u
                 /\ m \in called' /\ submitted'[m] = 0
      <3>1. Captured(u, m) /\ m # h
        BY <2>5, <2>6, <2>7, <2>11
      <3>2. \A v \in Threads : Captured(v, m)' => Captured(v, m)
        BY <2>5, <2>6
      <3>. QED
        BY <3>1, <3>2, <2>1, <2>6, <2>8 DEF Places
    <2>12. \A m \in Notifs : Listed(m)' => m \in called' /\ submitted'[m] = 0
      BY <2>1, <2>6, <2>7, <2>8 DEF Places
    <2>13. \A m \in Notifs : submitted'[m] <= 1 /\ (m \notin called' => submitted'[m] = 0)
      BY <2>1, <2>7, <2>8 DEF Places
    <2>. QED
      BY <2>9, <2>10, <2>11, <2>12, <2>13 DEF Places
  <1>7. ASSUME NEW t \in Threads, WakeByAddress(t) PROVE Places'
    BY <1>7, PlacesStay DEF WakeByAddress, group, locals, history, lifetime
  <1>8. ASSUME NEW t \in Threads, WakeRelease(t) PROVE Places'
    BY <1>8, PlacesStay, ReturnKeeps DEF WakeRelease, group, history
  <1>9. ASSUME NEW t \in Threads, NEW n \in Notifs, Notify(t, n) PROVE Places'
    <2>1. /\ dg_notify \in Seq(Notifs) /\ dg_notify' = Append(dg_notify, n)
          /\ called' = called \union {n} /\ n \notin called /\ UNCHANGED <<snap, submitted>>
      BY <1>9 DEF Notify, Words
    <2>2. /\ Len(dg_notify) \in Nat /\ Len(dg_notify') = Len(dg_notify) + 1
          /\ \A i \in 1..Len(dg_notify) : dg_notify'[i] = dg_notify[i]
          /\ dg_notify'[Len(dg_notify) + 1] = n
      BY <2>1, AppendProperties, LenProperties
    <2>3. \A i \in 1..Len(dg_notify') : i \in 1..Len(dg_notify) \/ i = Len(dg_notify) + 1
      BY <2>2
    <2>4. /\ ~Listed(n) /\ submitted[n] = 0
          /\ \A u \in Threads : ~Captured(u, n)
      BY <2>1 DEF Places
    <2>5. /\ \A m \in Notifs : Listed(m)' => Listed(m) \/ m = n
          /\ \A u \in Threads, m \in Notifs : Captured(u, m)' <=> Captured(u, m)
      BY <2>1, <2>2, <2>3 DEF Listed, Captured
    <2>6. ASSUME NEW i \in 1..Len(dg_notify'), NEW j \in 1..Len(dg_notify'), dg_notify'[i] = dg_notify'[j]
          PROVE  i = j
      <3>1. \A k \in 1..Len(dg_notify) : dg_notify[k] # n
        BY <2>4 DEF Listed
      <3>. QED
        BY <3>1, <2>2, <2>3, <2>6 DEF Places
    <2>7. \A u \in Threads : \A i, j \in 1..Len(snap'[u]) : snap'[u][i] = snap'[u][j] => i = j
      BY <2>1 DEF Places
    <2>8. ASSUME NEW u \in Threads, NEW m \in Notifs, Captured(u, m)'
          PROVE  /\ ~Listed(m)' /\ \A v \in Threads : Captured(v, m)' => v = u
                 /\ m \in called' /\ submitted'[m] = 0
      BY <2>1, <2>4, <2>5, <2>8 DEF Places
    <2>9. \A m \in Notifs : Listed(m)' => m \in called' /\ submitted'[m] = 0
      BY <2>1, <2>4, <2>5 DEF Places
    <2>10. \A m \in Notifs : submitted'[m] <= 1 /\ (m \notin called' => submitted'[m] = 0)
      BY <2>1 DEF Places
    <2>. QED
      BY <2>6, <2>7, <2>8, <2>9, <2>10 DEF Places
  <1>10. ASSUME NEW t \in Threads, NotifyRetain(t) PROVE Places'
    BY <1>10, PlacesStay DEF NotifyRetain, group, locals, history, lifetime
  <1>11. ASSUME NEW t \in Threads, NotifyLink(t) PROVE Places'
    BY <1>11, PlacesStay, ReturnKeeps DEF NotifyLink, locals, history
  <1>12. ASSUME NEW t \in Threads, NotifyState(t) PROVE Places'
    BY <1>12, PlacesStay, ReturnKeeps DEF NotifyState, history
  <1>13. ASSUME NEW t \in Threads, NEW to \in {"TIMED", "FOREVER"}, Wait(t, to) PROVE Places'
    BY <1>13, PlacesStay DEF Wait, group, locals, history, lifetime
  <1>14. ASSUME NEW t \in Threads, WaitSleep(t) PROVE Places'
    BY <1>14, PlacesStay DEF WaitSleep, group, locals, history, lifetime
  <1>15. ASSUME NEW t \in Threads, WaitTimedOut(t) PROVE Places'
    BY <1>15, PlacesStay DEF WaitTimedOut, group, locals, history, lifetime
  <1>16. ASSUME NEW t \in Threads, WaitInterrupted(t) PROVE Places'
    BY <1>16, PlacesStay DEF WaitInterrupted, group, locals, history, lifetime
  <1>17. ASSUME NEW t \in Threads, WaitCheck(t) PROVE Places'
    BY <1>17, PlacesStay DEF WaitCheck, group, locals, history, lifetime
  <1>18. ASSUME NEW t \in Threads, WaitReturn(t) PROVE Places'
    BY <1>18, PlacesStay, ReturnKeeps DEF WaitReturn, group
  <1>19. ASSUME ClientRelease PROVE Places'
    BY <1>19, PlacesStay DEF ClientRelease, group, locals, history, lifetime
  <1>. QED
    BY <1>1, <1>2, <1>3, <1>4, <1>5, <1>6, <1>7, <1>8, <1>9, <1>10, <1>11, <1>12, <1>13, <1>14, <1>15, <1>16, <1>17, <1>18, <1>19 DEF Next, InCall

-----------------------------------------------------------------------------
\* A set that may gain or lose one element.
LEMMA OneElement ==
  ASSUME NEW S, NEW S2, IsFiniteSet(S), NEW x, S2 \ {x} = S \ {x}
  PROVE  /\ IsFiniteSet(S2)
         /\ Cardinality(S) \in Nat /\ Cardinality(S2) \in Nat
         /\ Cardinality(S2) = Cardinality(S) + Bit(x \in S2) - Bit(x \in S)
PROOF
  <1>. USE DEF Bit
  <1>0. Cardinality(S) \in Nat
    BY FS_CardinalityType
  <1>1. CASE x \in S2 /\ x \notin S
    <2>1. S2 = S \union {x}
      BY <1>1
    <2>. QED
      BY <1>0, <1>1, <2>1, FS_AddElement
  <1>2. CASE x \notin S2 /\ x \in S
    <2>1. S2 = S \ {x}
      BY <1>2
    <2>2. IsFiniteSet(S2) /\ Cardinality(S2) = Cardinality(S) - 1
      BY <1>2, <2>1, FS_RemoveElement
    <2>3. Cardinality(S2) \in Nat
      BY <2>2, FS_CardinalityType
    <2>. QED
      BY <1>0, <1>2, <2>2, <2>3
  <1>3. CASE x \in S2 <=> x \in S
    <2>1. S2 = S
      BY <1>3
    <2>. QED
      BY <1>0, <1>3, <2>1
  <1>. QED
    BY <1>1, <1>2, <1>3

Holding == {"l_cas", "n_head", "n_state"} \union Waking

\* The owners of references are finite sets.
LEMMA OwnersFinite ==
  /\ IsFiniteSet(Entering) /\ IsFiniteSet(Holders) /\ IsFiniteSet(TwiceHolders)
  /\ Cardinality(Entering) \in Nat /\ Cardinality(Holders) \in Nat /\ Cardinality(TwiceHolders) \in Nat
PROOF
  <1>1. /\ Entering \subseteq Threads /\ Holders \subseteq Threads /\ TwiceHolders \subseteq Threads
    BY DEF Entering, Holders, TwiceHolders
  <1>2. IsFiniteSet(Entering) /\ IsFiniteSet(Holders) /\ IsFiniteSet(TwiceHolders)
    BY <1>1, ThreadsAssumption, FS_Subset
  <1>. QED
    BY <1>2, FS_CardinalityType

\* The owners of references when only t, or sleepers that wake up, have moved.
LEMMA OwnersMove ==
  ASSUME Control, Control', NEW t \in Threads,
         \A u \in Threads \ {t} : /\ refs'[u] = refs[u]
                                  /\ pc'[u] = pc[u] \/ (pc[u] = "w_asleep" /\ pc'[u] = "w_check")
  PROVE  /\ Cardinality(Entering) \in Nat /\ Cardinality(Holders) \in Nat /\ Cardinality(TwiceHolders) \in Nat
         /\ Cardinality(Entering') = Cardinality(Entering) + Bit(pc'[t] = "e_retain") - Bit(pc[t] = "e_retain")
         /\ Cardinality(Holders') = Cardinality(Holders) + Bit(pc'[t] \in Holding) - Bit(pc[t] \in Holding)
         /\ Cardinality(TwiceHolders') = Cardinality(TwiceHolders) + Bit(refs'[t] = 2) - Bit(refs[t] = 2)
         /\ Entering' \ {t} = Entering \ {t}
         /\ pc'[t] # "e_retain" => Entering' = Entering \ {t}
         /\ (pc'[t] = "e_retain" <=> pc[t] = "e_retain") => Entering' = Entering
PROOF
  <1>1. /\ t \in Entering <=> pc[t] = "e_retain"
        /\ t \in Entering' <=> pc'[t] = "e_retain"
        /\ t \in Holders <=> pc[t] \in Holding
        /\ t \in Holders' <=> pc'[t] \in Holding
        /\ t \in TwiceHolders <=> refs[t] = 2
        /\ t \in TwiceHolders' <=> refs'[t] = 2
    BY DEF Entering, Holders, TwiceHolders, Holding
  <1>2. Entering' \ {t} = Entering \ {t}
    BY DEF Entering
  <1>3. Holders' \ {t} = Holders \ {t}
    BY DEF Holders, Waking
  <1>4. TwiceHolders' \ {t} = TwiceHolders \ {t}
    BY DEF TwiceHolders
  <1>5. Cardinality(Entering') = Cardinality(Entering) + Bit(t \in Entering') - Bit(t \in Entering)
    BY <1>2, OwnersFinite, OneElement
  <1>6. Cardinality(Holders') = Cardinality(Holders) + Bit(t \in Holders') - Bit(t \in Holders)
    BY <1>3, OwnersFinite, OneElement
  <1>7. Cardinality(TwiceHolders') = Cardinality(TwiceHolders) + Bit(t \in TwiceHolders') - Bit(t \in TwiceHolders)
    BY <1>4, OwnersFinite, OneElement
  <1>8. /\ Bit(t \in Entering) = Bit(pc[t] = "e_retain") /\ Bit(t \in Entering') = Bit(pc'[t] = "e_retain")
        /\ Bit(t \in Holders) = Bit(pc[t] \in Holding) /\ Bit(t \in Holders') = Bit(pc'[t] \in Holding)
        /\ Bit(t \in TwiceHolders) = Bit(refs[t] = 2) /\ Bit(t \in TwiceHolders') = Bit(refs'[t] = 2)
    BY <1>1 DEF Bit
  <1>9. /\ pc'[t] # "e_retain" => Entering' = Entering \ {t}
        /\ (pc'[t] = "e_retain" <=> pc[t] = "e_retain") => Entering' = Entering
    BY <1>1, <1>2
  <1>. QED
    BY <1>2, <1>5, <1>6, <1>7, <1>8, <1>9, OwnersFinite

\* At most one thread has entered without its reference, and then the group is not empty.
LEMMA EnteringBound ==
  Words /\ Control /\ Accounts /\ refcnt \in Int =>
    /\ Cardinality(Entering) <= Bit(dg_state.value > 0) /\ Cardinality(Entering) \in {0, 1}
    /\ Cardinality(Entering) = 0 <=> Entering = {}
    /\ refcnt \in Nat
PROOF
  <1>. SUFFICES ASSUME Words, Control, Accounts, refcnt \in Int
                PROVE  /\ Cardinality(Entering) <= Bit(dg_state.value > 0) /\ Cardinality(Entering) \in {0, 1}
                       /\ Cardinality(Entering) = 0 <=> Entering = {}
                       /\ refcnt \in Nat
    OBVIOUS
  <1>1. Cardinality(Entering) = 0 <=> Entering = {}
    BY OwnersFinite, FS_EmptySet
  <1>2. Cardinality(Entering) \in {0, 1}
    <2>1. CASE Entering = {}
      BY <1>1, <2>1
    <2>2. CASE \E x \in Entering : TRUE
      <3>1. PICK x \in Entering : TRUE
        BY <2>2
      <3>2. Entering = {x}
        BY <3>1 DEF Accounts
      <3>. QED
        BY <3>2, FS_Singleton
    <2>. QED
      BY <2>1, <2>2
  <1>3. Cardinality(Entering) <= Bit(dg_state.value > 0)
    BY <1>2, StateFacts DEF Accounts, Bit, Words
  <1>. QED
    BY <1>1, <1>2, <1>3, OwnersFinite DEF Accounts, Bit

\* What a step does to the references, unless it is the misuse of a client.
Accounting == (crash' \notin {"nested_enters", "unbalanced"} => Accounts') /\ refcnt' \in Int

\* A step keeps the references balanced.
LEMMA ReferencesStep ==
  ASSUME TypeInv, Responsible, References, crash = "none", Next, Words', Control'
  PROVE  Accounting
PROOF
  <1>. Words /\ Control /\ Accounts /\ refcnt \in Nat
    BY TypeParts DEF References
  <1>. USE DEF Bit, Holding, Waking
  <1>n. /\ dg_state.value \in Nat /\ inside \in Nat /\ MaxCount \in Nat \ {0}
        /\ \A u \in Threads : refs[u] \in 0..2 /\ (refs[u] >= 1 <=> pc[u] \in Waking)
        /\ pc \in [Threads -> Labels] /\ refs \in [Threads -> 0..2]
    BY StateFacts, BoundsAssumption DEF Words, Control
  <1>e. /\ Cardinality(Entering) <= Bit(dg_state.value > 0) /\ Cardinality(Entering) \in {0, 1}
        /\ Cardinality(Entering) = 0 <=> Entering = {}
    BY EnteringBound
  \* Nothing that is counted moves.
  <1>m. ASSUME NEW t \in Threads,
               \A u \in Threads \ {t} : /\ refs'[u] = refs[u]
                                        /\ pc'[u] = pc[u] \/ (pc[u] = "w_asleep" /\ pc'[u] = "w_check"),
               pc'[t] = "e_retain" <=> pc[t] = "e_retain", pc'[t] \in Holding <=> pc[t] \in Holding,
               refs'[t] = 2 <=> refs[t] = 2, UNCHANGED <<refcnt, client, inside>>,
               dg_state'.value = dg_state.value, dg_state'.notifs = dg_state.notifs,
               client \/ pc'[t] \in {"idle", "l_cas"} \union Waking
        PROVE  Accounting
    <2>1. /\ Cardinality(Entering') = Cardinality(Entering) /\ Cardinality(Holders') = Cardinality(Holders)
          /\ Cardinality(TwiceHolders') = Cardinality(TwiceHolders) /\ Entering' = Entering
      BY <1>m, OwnersMove
    <2>2. ~client => \A u \in Threads : pc'[u] \in {"idle", "l_cas"} \union Waking
      BY <1>m DEF Accounts
    <2>. QED
      BY <1>m, <2>1, <2>2 DEF Accounts, Accounting
  <1>1. ASSUME NEW t \in Threads, Enter(t) PROVE Accounting
    <2>0. /\ client /\ client' /\ UNCHANGED <<refcnt, refs>> /\ pc[t] = "idle"
      BY <1>1 DEF Enter, lifetime, locals
    <2>1. CASE dg_state.value = MaxCount
      BY <2>0, <2>1, <1>1 DEF Enter, Accounting
    <2>2. CASE dg_state.value # MaxCount /\ dg_state.value = 0
      <3>1. dg_state'.value = 1 /\ dg_state'.notifs = dg_state.notifs /\ UNCHANGED inside /\ Goto(t, "e_retain")
        BY <2>2, <1>1 DEF Enter, Words, States
      <3>2. /\ Cardinality(Entering') = Cardinality(Entering) + 1 /\ Cardinality(Holders') = Cardinality(Holders)
            /\ Cardinality(TwiceHolders') = Cardinality(TwiceHolders) /\ Entering' \ {t} = Entering \ {t}
        BY <2>0, <3>1, <1>n, OwnersMove DEF Goto
      <3>3. Cardinality(Entering) = 0
        BY <2>2, <1>e
      <3>4. \A u, v \in Entering' : u = v
        BY <3>2, <3>3, <1>e
      <3>5. inside = 0
        BY <2>2, <3>3, <1>n DEF Accounts
      <3>. QED
        BY <2>0, <2>2, <3>1, <3>2, <3>3, <3>4, <3>5, <1>n, OwnersFinite DEF Accounts, Accounting
    <2>3. CASE dg_state.value # MaxCount /\ dg_state.value # 0
      <3>1. dg_state'.value = dg_state.value + 1 /\ dg_state'.notifs = dg_state.notifs
            /\ inside' = inside + 1 /\ UNCHANGED pc
        BY <2>3, <1>1 DEF Enter, Words, States
      <3>2. Entering' = Entering /\ Holders' = Holders /\ TwiceHolders' = TwiceHolders
        BY <2>0, <3>1 DEF Entering, Holders, TwiceHolders
      <3>. QED
        BY <2>0, <2>3, <3>1, <3>2, <1>n, OwnersFinite DEF Accounts, Accounting
    <2>. QED
      BY <2>1, <2>2, <2>3
  <1>2. ASSUME NEW t \in Threads, EnterRetain(t) PROVE Accounting
    <2>1. /\ pc[t] = "e_retain" /\ Goto(t, "idle") /\ UNCHANGED <<dg_state, client, refs>>
          /\ refcnt' = refcnt + 1 /\ inside' = inside + 1
      BY <1>2 DEF EnterRetain, group, locals
    <2>2. /\ Cardinality(Entering') = Cardinality(Entering) - 1 /\ Cardinality(Holders') = Cardinality(Holders)
          /\ Cardinality(TwiceHolders') = Cardinality(TwiceHolders) /\ Entering' = Entering \ {t}
      BY <2>1, <1>n, OwnersMove DEF Goto
    <2>3. client
      BY <2>1 DEF Accounts
    <2>. QED
      BY <2>1, <2>2, <2>3, <1>n, OwnersFinite DEF Accounts, Accounting
  <1>3. ASSUME NEW t \in Threads, Leave(t) PROVE Accounting
    <2>0. UNCHANGED <<refcnt, client>> /\ pc[t] = "idle"
      BY <1>3 DEF Leave, lifetime
    <2>1. CASE inside > 0 /\ dg_state.value > 1
      <3>1. /\ dg_state'.value = dg_state.value - 1 /\ dg_state'.notifs = dg_state.notifs
            /\ inside' = inside - 1 /\ UNCHANGED <<pc, refs>>
        BY <2>1, <1>n, <1>3 DEF Leave, Words, States
      <3>2. Entering' = Entering /\ Holders' = Holders /\ TwiceHolders' = TwiceHolders
        BY <3>1 DEF Entering, Holders, TwiceHolders
      <3>. QED
        BY <2>0, <2>1, <3>1, <3>2, <1>n, OwnersFinite DEF Accounts, Accounting
    <2>2. CASE inside > 0 /\ dg_state.value = 1
      <3>1. /\ dg_state'.value = 0 /\ dg_state'.notifs = dg_state.notifs /\ inside' = inside - 1
            /\ LeaveLoop(t, dg_state')
        <4>1. dg_state' = [dg_state EXCEPT !.value = 0, !.gen = @ + 1] /\ inside' = inside - 1 /\ LeaveLoop(t, dg_state')
          BY <2>2, <1>n, <1>3 DEF Leave
        <4>2. dg_state'.value = 0 /\ dg_state'.notifs = dg_state.notifs
          BY <4>1 DEF Words, States
        <4>. QED
          BY <4>1, <4>2
      <3>2. inside = 1 /\ Cardinality(Entering) = 0
        BY <2>2, <1>n, <1>e DEF Accounts
      <3>3. /\ pc'[t] \in {"l_cas"} \union Waking /\ refs'[t] # 2 /\ refs[t] # 2
            /\ \A u \in Threads \ {t} : pc'[u] = pc[u] /\ refs'[u] = refs[u]
        <4>1. dg_state' \in States
          BY DEF Words
        <4>2. CASE LeaveState(dg_state') = dg_state'
          <5>1. ~dg_state'.notifs /\ GroupWake(t, dg_state', TRUE)
            BY <3>1, <4>1, <4>2, StateFacts DEF LeaveLoop
          <5>. QED
            BY <5>1, <2>0, <1>n DEF GroupWake, WakeLabel, Goto
        <4>3. CASE LeaveState(dg_state') # dg_state'
          BY <3>1, <4>3, <2>0, <1>n DEF LeaveLoop, Goto
        <4>. QED
          BY <4>2, <4>3
      <3>4. /\ Cardinality(Entering') = Cardinality(Entering) /\ Cardinality(Holders') = Cardinality(Holders) + 1
            /\ Cardinality(TwiceHolders') = Cardinality(TwiceHolders) /\ Entering' = Entering
        BY <2>0, <3>3, <1>n, OwnersMove
      <3>5. ~client => \A u \in Threads : pc'[u] \in {"idle", "l_cas"} \union Waking
        BY <3>3 DEF Accounts
      <3>. QED
        BY <2>0, <2>2, <3>1, <3>2, <3>4, <3>5, <1>n, OwnersFinite DEF Accounts, Accounting
    <2>3. CASE crash' = "unbalanced"
      BY <2>0, <2>3 DEF Accounting
    <2>. QED
      BY <2>1, <2>2, <2>3, <1>3 DEF Leave
  <1>4. ASSUME NEW t \in Threads, LeaveCas(t) PROVE Accounting
    <2>0. UNCHANGED <<refcnt, client, inside>> /\ pc[t] = "l_cas" /\ old[t] \in States /\ dg_state \in States
      BY <1>4 DEF LeaveCas, lifetime, history, Control, Words
    <2>1. CASE dg_state = old[t]
      <3>1. /\ dg_state'.value = dg_state.value /\ ~dg_state'.notifs /\ GroupWake(t, dg_state, TRUE)
        BY <2>0, <2>1, <1>4, StateFacts DEF LeaveCas
      <3>2. /\ pc'[t] \in Waking /\ (refs'[t] = 2 <=> dg_state.notifs) /\ refs[t] # 2
            /\ \A u \in Threads \ {t} : pc'[u] = pc[u] /\ refs'[u] = refs[u]
        BY <2>0, <3>1, <1>n DEF GroupWake, WakeLabel, Goto
      <3>3. /\ Cardinality(Entering') = Cardinality(Entering) /\ Cardinality(Holders') = Cardinality(Holders)
            /\ Cardinality(TwiceHolders') = Cardinality(TwiceHolders) + Bit(dg_state.notifs) /\ Entering' = Entering
        BY <2>0, <3>2, <1>n, OwnersMove
      <3>4. ~client => \A u \in Threads : pc'[u] \in {"idle", "l_cas"} \union Waking
        BY <3>2 DEF Accounts
      <3>. QED
        BY <2>0, <3>1, <3>3, <3>4, <1>n, OwnersFinite DEF Accounts, Accounting
    <2>2. CASE dg_state # old[t]
      <3>1. LeaveLoop(t, dg_state) /\ UNCHANGED dg_state
        BY <2>2, <1>4 DEF LeaveCas
      <3>2. CASE LeaveState(dg_state) = dg_state
        <4>1. ~dg_state.notifs /\ GroupWake(t, dg_state, TRUE)
          BY <2>0, <3>1, <3>2, StateFacts DEF LeaveLoop
        <4>2. /\ pc'[t] \in Waking /\ refs'[t] # 2 /\ refs[t] # 2
              /\ \A u \in Threads \ {t} : pc'[u] = pc[u] /\ refs'[u] = refs[u]
          BY <4>1, <2>0, <1>n DEF GroupWake, WakeLabel, Goto
        <4>. QED
          BY <1>m, <2>0, <3>1, <4>2
      <3>3. CASE LeaveState(dg_state) # dg_state
        <4>1. /\ pc'[t] = "l_cas" /\ UNCHANGED refs /\ \A u \in Threads \ {t} : pc'[u] = pc[u]
          BY <3>1, <3>3, <1>n DEF LeaveLoop, Goto
        <4>. QED
          BY <1>m, <2>0, <3>1, <4>1
      <3>. QED
        BY <3>2, <3>3
    <2>. QED
      BY <2>1, <2>2
  <1>5. ASSUME NEW t \in Threads, WakeSnapshot(t) PROVE Accounting
    <2>1. /\ pc[t] = "k_snapshot" /\ pc'[t] = "k_notify" /\ UNCHANGED <<dg_state, refcnt, client, inside, refs>>
          /\ \A u \in Threads \ {t} : pc'[u] = pc[u]
      BY <1>5, <1>n DEF WakeSnapshot, Goto, group, lifetime, locals, history
    <2>2. pc'[t] \in Waking
      BY <2>1 DEF Accounts
    <2>. QED
      BY <1>m, <2>1, <2>2
  <1>6. ASSUME NEW t \in Threads, WakeNotify(t) PROVE Accounting
    <2>1. /\ pc[t] = "k_notify" /\ pc'[t] \in Waking /\ UNCHANGED <<dg_state, refcnt, client, inside, refs>>
          /\ \A u \in Threads \ {t} : pc'[u] = pc[u]
      BY <1>6, <1>n DEF WakeNotify, Goto, group, lifetime
    <2>. QED
      BY <1>m, <2>1
  <1>7. ASSUME NEW t \in Threads, WakeByAddress(t) PROVE Accounting
    <2>1. /\ pc[t] = "k_wake" /\ pc'[t] = "k_release" /\ UNCHANGED <<dg_state, refcnt, client, inside, refs>>
          /\ \A u \in Threads \ {t} : pc'[u] = pc[u] \/ (pc[u] = "w_asleep" /\ pc'[u] = "w_check")
      <3>1. sleepers = {u \in Threads : pc[u] = "w_asleep"}
        BY DEF Control
      <3>. QED
        BY <3>1, <1>7, <1>n DEF WakeByAddress, group, lifetime, locals, history
    <2>. QED
      BY <1>m, <2>1
  <1>8. ASSUME NEW t \in Threads, WakeRelease(t) PROVE Accounting
    <2>1. /\ pc[t] = "k_release" /\ refs[t] \in {1, 2} /\ refcnt' = refcnt - refs[t]
          /\ UNCHANGED <<dg_state, client, inside>> /\ Return(t)
      BY <1>8, <1>n DEF WakeRelease, Release, group, history
    <2>2. /\ pc'[t] = "idle" /\ refs'[t] = 0 /\ \A u \in Threads \ {t} : pc'[u] = pc[u] /\ refs'[u] = refs[u]
      BY <2>1, <1>n DEF Return, Goto
    <2>3. /\ Cardinality(Entering') = Cardinality(Entering) /\ Cardinality(Holders') = Cardinality(Holders) - 1
          /\ Cardinality(TwiceHolders') = Cardinality(TwiceHolders) - Bit(refs[t] = 2) /\ Entering' = Entering
      BY <2>1, <2>2, <1>n, OwnersMove
    <2>4. ~client => \A u \in Threads : pc'[u] \in {"idle", "l_cas"} \union Waking
      BY <2>2 DEF Accounts
    <2>. QED
      BY <2>1, <2>3, <2>4, <1>n, OwnersFinite DEF Accounts, Accounting
  <1>9. ASSUME NEW t \in Threads, NEW n \in Notifs, Notify(t, n) PROVE Accounting
    <2>1. /\ pc[t] = "idle" /\ pc'[t] \in {"n_retain", "n_link"} /\ client
          /\ UNCHANGED <<dg_state, refcnt, client, inside, refs>> /\ \A u \in Threads \ {t} : pc'[u] = pc[u]
      BY <1>9, <1>n DEF Notify, Goto, lifetime
    <2>. QED
      BY <1>m, <2>1
  <1>10. ASSUME NEW t \in Threads, NotifyRetain(t) PROVE Accounting
    <2>1. /\ pc[t] = "n_retain" /\ Goto(t, "n_head") /\ UNCHANGED <<dg_state, client, refs, inside>>
          /\ refcnt' = refcnt + 1
      BY <1>10 DEF NotifyRetain, group, locals, history
    <2>2. /\ Cardinality(Entering') = Cardinality(Entering) /\ Cardinality(Holders') = Cardinality(Holders) + 1
          /\ Cardinality(TwiceHolders') = Cardinality(TwiceHolders) /\ Entering' = Entering
      BY <2>1, <1>n, OwnersMove DEF Goto
    <2>3. client
      BY <2>1 DEF Accounts
    <2>. QED
      BY <2>1, <2>2, <2>3, <1>n, OwnersFinite DEF Accounts, Accounting
  <1>11. ASSUME NEW t \in Threads, NotifyLink(t) PROVE Accounting
    <2>1. /\ UNCHANGED <<dg_state, refcnt, client, inside>> /\ \A u \in Threads \ {t} : pc'[u] = pc[u] /\ refs'[u] = refs[u]
          /\ \/ pc[t] = "n_head" /\ pc'[t] = "n_state" /\ refs'[t] = refs[t]
             \/ pc[t] = "n_link" /\ pc'[t] = "idle" /\ refs'[t] = 0 /\ refs[t] = 0
      BY <1>11, <1>n DEF NotifyLink, Return, Goto, lifetime, locals, history
    <2>2. client
      BY <2>1 DEF Accounts
    <2>. QED
      BY <1>m, <2>1, <2>2
  <1>12. ASSUME NEW t \in Threads, NotifyState(t) PROVE Accounting
    <2>0. /\ pc[t] = "n_state" /\ UNCHANGED <<refcnt, client, inside>> /\ client /\ ~dg_state.notifs
          /\ refs[t] = 0
      BY <1>12, <1>n DEF NotifyState, Accounts, Responsible, Firing, lifetime, history
    <2>1. CASE Low32IsZero(dg_state)
      <3>1. [dg_state EXCEPT !.notifs = TRUE].notifs
        BY DEF Words, States
      <3>2. UNCHANGED dg_state /\ Goto(t, "k_snapshot") /\ refs' = [refs EXCEPT ![t] = 1]
        BY <2>1, <3>1, <1>12 DEF NotifyState, GroupWake, WakeLabel
      <3>3. pc'[t] = "k_snapshot" /\ refs'[t] = 1 /\ \A u \in Threads \ {t} : pc'[u] = pc[u] /\ refs'[u] = refs[u]
        BY <3>2, <1>n DEF Goto, Control
      <3>. QED
        BY <1>m, <2>0, <3>2, <3>3
    <2>2. CASE ~Low32IsZero(dg_state)
      <3>1. dg_state'.notifs /\ dg_state'.value = dg_state.value /\ Return(t)
        BY <2>2, <1>12 DEF NotifyState, Words, States
      <3>2. pc'[t] = "idle" /\ refs'[t] = 0 /\ \A u \in Threads \ {t} : pc'[u] = pc[u] /\ refs'[u] = refs[u]
        BY <3>1, <1>n DEF Return, Goto
      <3>3. /\ Cardinality(Entering') = Cardinality(Entering) /\ Cardinality(Holders') = Cardinality(Holders) - 1
            /\ Cardinality(TwiceHolders') = Cardinality(TwiceHolders) /\ Entering' = Entering
        BY <2>0, <3>2, <1>n, OwnersMove
      <3>. QED
        BY <2>0, <3>1, <3>3, <1>n, OwnersFinite DEF Accounts, Accounting
    <2>. QED
      BY <2>1, <2>2
  <1>13. ASSUME NEW t \in Threads, NEW to \in {"TIMED", "FOREVER"}, Wait(t, to) PROVE Accounting
    <2>1. /\ pc[t] = "idle" /\ pc'[t] = "w_wait" /\ client /\ dg_state'.value = dg_state.value
          /\ dg_state'.notifs = dg_state.notifs
          /\ UNCHANGED <<refcnt, client, inside, refs>> /\ \A u \in Threads \ {t} : pc'[u] = pc[u]
      BY <1>13, <1>n DEF Wait, Goto, lifetime, Words, States, history
    <2>. QED
      BY <1>m, <2>1
  <1>14. ASSUME NEW t \in Threads, WaitSleep(t) PROVE Accounting
    <2>1. /\ pc[t] = "w_wait" /\ pc'[t] \in {"w_asleep", "w_check"} /\ UNCHANGED <<dg_state, refcnt, client, inside, refs>>
          /\ \A u \in Threads \ {t} : pc'[u] = pc[u]
      BY <1>14, <1>n DEF WaitSleep, Goto, group, lifetime, locals, history
    <2>2. client
      BY <2>1 DEF Accounts
    <2>. QED
      BY <1>m, <2>1, <2>2
  <1>15. ASSUME NEW t \in Threads, WaitTimedOut(t) PROVE Accounting
    <2>1. /\ pc[t] \in {"w_wait", "w_asleep"} /\ pc'[t] = "w_check" /\ UNCHANGED <<dg_state, refcnt, client, inside, refs>>
          /\ \A u \in Threads \ {t} : pc'[u] = pc[u]
      BY <1>15, <1>n DEF WaitTimedOut, Goto, group, lifetime, locals, history
    <2>2. client
      BY <2>1 DEF Accounts
    <2>. QED
      BY <1>m, <2>1, <2>2
  <1>16. ASSUME NEW t \in Threads, WaitInterrupted(t) PROVE Accounting
    <2>1. /\ pc[t] = "w_asleep" /\ pc'[t] = "w_check" /\ UNCHANGED <<dg_state, refcnt, client, inside, refs>>
          /\ \A u \in Threads \ {t} : pc'[u] = pc[u]
      BY <1>16, <1>n DEF WaitInterrupted, Goto, group, lifetime, locals, history
    <2>2. client
      BY <2>1 DEF Accounts
    <2>. QED
      BY <1>m, <2>1, <2>2
  <1>17. ASSUME NEW t \in Threads, WaitCheck(t) PROVE Accounting
    <2>1. /\ pc[t] = "w_check" /\ pc'[t] \in {"w_done", "w_timedout", "w_wait"} /\ UNCHANGED <<dg_state, refcnt, client, inside, refs>>
          /\ \A u \in Threads \ {t} : pc'[u] = pc[u]
      BY <1>17, <1>n DEF WaitCheck, Goto, group, lifetime, locals, history
    <2>2. client
      BY <2>1 DEF Accounts
    <2>. QED
      BY <1>m, <2>1, <2>2
  <1>18. ASSUME NEW t \in Threads, WaitReturn(t) PROVE Accounting
    <2>1. /\ pc[t] \in {"w_done", "w_timedout"} /\ pc'[t] = "idle" /\ refs'[t] = 0 /\ refs[t] = 0
          /\ UNCHANGED <<dg_state, refcnt, client, inside>>
          /\ \A u \in Threads \ {t} : pc'[u] = pc[u] /\ refs'[u] = refs[u]
      BY <1>18, <1>n DEF WaitReturn, Return, Goto, lifetime, group
    <2>. QED
      BY <1>m, <2>1
  <1>19. ASSUME ClientRelease PROVE Accounting
    <2>1. /\ client /\ ~client' /\ refcnt' = refcnt - 1 /\ UNCHANGED <<dg_state, inside, pc, refs>>
          /\ \A u \in Threads : pc'[u] \in {"idle", "l_cas"} \union Waking
      BY <1>19 DEF ClientRelease, Release, group, locals, history
    <2>2. Entering' = Entering /\ Holders' = Holders /\ TwiceHolders' = TwiceHolders
      BY <2>1 DEF Entering, Holders, TwiceHolders
    <2>. QED
      BY <2>1, <2>2, <1>n, OwnersFinite DEF Accounts, Accounting
  <1>. QED
    BY <1>1, <1>2, <1>3, <1>4, <1>5, <1>6, <1>7, <1>8, <1>9, <1>10, <1>11, <1>12, <1>13, <1>14, <1>15, <1>16, <1>17, <1>18, <1>19 DEF Next, InCall

\* A group without references: nobody is inside a call, and nothing is left to do.
Unowned ==
  /\ Words /\ Control /\ Accounts /\ refcnt = 0
  /\ dg_notify = <<>> <=> Firing = {} /\ ~dg_state.notifs
  /\ dg_state.value = 0 /\ ~Low32IsZero(dg_state) => \E t \in Threads : pc[t] = "l_cas"

Settled ==
  /\ \A t \in Threads : pc[t] = "idle"
  /\ inside = 0 /\ dg_notify = <<>> /\ Low32IsZero(dg_state)

\* A group nobody owns is at rest.
LEMMA UnownedSettled == Unowned => Settled
PROOF
  <1>. SUFFICES ASSUME Unowned PROVE Settled
    OBVIOUS
  <1>. USE DEF Bit
  <1>0. /\ Words /\ Control /\ Accounts /\ refcnt = 0 /\ refcnt \in Int
        /\ dg_state.value \in Nat /\ dg_state.notifs \in BOOLEAN /\ client \in BOOLEAN
    BY StateFacts DEF Unowned, Words
  <1>1. Cardinality(Entering) <= Bit(dg_state.value > 0)
    BY <1>0, EnteringBound
  <1>2. ~client /\ ~dg_state.notifs /\ Cardinality(Holders) = 0
    BY <1>0, <1>1, OwnersFinite DEF Accounts
  <1>3. Holders = {}
    BY <1>2, OwnersFinite, FS_EmptySet
  <1>4. \A t \in Threads : pc[t] = "idle"
    BY <1>0, <1>2, <1>3 DEF Accounts, Holders
  <1>5. Entering = {} /\ Cardinality(Entering) = 0
    BY <1>4, FS_EmptySet DEF Entering
  <1>6. dg_state.value = 0 /\ inside = 0
    <2>1. /\ inside \in Nat /\ Cardinality(TwiceHolders) \in Nat
          /\ dg_state.value = inside + Cardinality(Entering)
          /\ refcnt + Cardinality(Entering)
               = Bit(client) + Bit(dg_state.value > 0) + Bit(dg_state.notifs)
                   + Cardinality(Holders) + Cardinality(TwiceHolders)
      BY <1>0, OwnersFinite DEF Accounts, Words
    <2>2. ~(dg_state.value > 0)
      BY <2>1, <1>0, <1>2, <1>5
    <2>. QED
      BY <2>1, <2>2, <1>0, <1>5
  <1>7. Firing = {}
    BY <1>4 DEF Firing
  <1>8. dg_notify = <<>> /\ Low32IsZero(dg_state)
    BY <1>2, <1>4, <1>6, <1>7 DEF Unowned
  <1>. QED
    BY <1>4, <1>6, <1>8 DEF Settled

\* The bound on the references, from the named parts.
LEMMA EnteringBoundNamed == Words /\ Control /\ Accounts /\ Counting => Counted
PROOF
  BY EnteringBound DEF Counting, Counted

\* The same in the next state.
LEMMA EnteringBoundNext ==
  Words' /\ Control' /\ Accounts' /\ refcnt' \in Int => refcnt' \in Nat
PROOF
  <1>1. Words' /\ Control' /\ Accounts' /\ Counting' => Counted'
    BY EnteringBoundNamed, PTL
  <1>. QED
    BY <1>1 DEF Counting, Counted

\* A group nobody owns after a step is at rest then.
LEMMA UnownedSettledNext == Unowned' => Settled'
PROOF
  BY UnownedSettled, PTL

\* Disposal finds the group settled, so it neither crashes nor leaves a thread behind.
LEMMA ReleaseStep ==
  ASSUME IInv, crash = "none", ~freed, NEW n \in Nat, Release(n), Words', Control', Accounting,
         UNCHANGED group, \A t \in Threads : (pc[t] = "l_cas" <=> pc'[t] = "l_cas") /\ (t \in Firing <=> t \in Firing')
  PROVE  NoUseAfterFree' /\ refcnt' \in Nat
PROOF
  <1>1. crash' \in {"none", "in_use"} /\ Accounts' /\ refcnt' \in Int
    BY DEF Release, Accounting
  <1>2. refcnt' \in Nat
    BY <1>1, EnteringBoundNext
  <1>3. CASE refcnt' > 0
    <2>1. ~freed'
      BY <1>3 DEF Release
    <2>. QED
      BY <1>2, <2>1 DEF NoUseAfterFree
  <1>4. CASE refcnt' = 0
    <2>1. UNCHANGED <<dg_state, dg_notify>>
      BY DEF group
    <2>2. Firing' = Firing
      BY DEF Firing
    <2>3. dg_notify' = <<>> <=> Firing' = {} /\ ~dg_state'.notifs
      BY <2>1, <2>2 DEF IInv, Responsible
    <2>4. dg_state'.value = 0 /\ ~Low32IsZero(dg_state') => \E t \in Threads : pc'[t] = "l_cas"
      BY <2>1 DEF IInv, NoStrandedFlag
    <2>5. Unowned'
      BY <1>1, <1>4, <2>3, <2>4 DEF Unowned, Low32IsZero
    <2>6. Settled'
      BY <2>5, UnownedSettledNext
    <2>7. crash' = "none"
      BY <2>1, <2>6 DEF Release, Settled, Low32IsZero
    <2>. QED
      BY <1>2, <2>6, <2>7 DEF NoUseAfterFree, Settled
  <1>. QED
    BY <1>2, <1>3, <1>4

\* Nothing happens after a crash or after the group is freed.
LEMMA StepRuns == Next => crash = "none" /\ ~freed
PROOF
  BY ZenonT(60) DEF Next, InCall, Running, Enter, EnterRetain, Leave, LeaveCas, WakeSnapshot, WakeNotify,
         WakeByAddress, WakeRelease, ClientRelease, Notify, NotifyRetain, NotifyLink, NotifyState,
         Wait, WaitSleep, WaitTimedOut, WaitInterrupted, WaitCheck, WaitReturn

\* A step keeps the group alive while it is used.
LEMMA LifetimeStep ==
  ASSUME IInv, Next, Words', Control', Accounting
  PROVE  NoUseAfterFree' /\ refcnt' \in Nat
PROOF
  <1>. crash = "none" /\ ~freed /\ TypeInv /\ Words /\ Control /\ refcnt \in Nat
    BY StepRuns, TypeParts DEF IInv
  <1>. USE DEF NoUseAfterFree
  <1>1. ASSUME NEW t \in Threads, Enter(t) PROVE NoUseAfterFree' /\ refcnt' \in Nat
    BY <1>1 DEF Enter, lifetime
  <1>2. ASSUME NEW t \in Threads, EnterRetain(t) PROVE NoUseAfterFree' /\ refcnt' \in Nat
    BY <1>2 DEF EnterRetain
  <1>3. ASSUME NEW t \in Threads, Leave(t) PROVE NoUseAfterFree' /\ refcnt' \in Nat
    BY <1>3 DEF Leave, lifetime
  <1>4. ASSUME NEW t \in Threads, LeaveCas(t) PROVE NoUseAfterFree' /\ refcnt' \in Nat
    BY <1>4 DEF LeaveCas, lifetime
  <1>5. ASSUME NEW t \in Threads, WakeSnapshot(t) PROVE NoUseAfterFree' /\ refcnt' \in Nat
    BY <1>5 DEF WakeSnapshot, lifetime
  <1>6. ASSUME NEW t \in Threads, WakeNotify(t) PROVE NoUseAfterFree' /\ refcnt' \in Nat
    BY <1>6 DEF WakeNotify, lifetime
  <1>7. ASSUME NEW t \in Threads, WakeByAddress(t) PROVE NoUseAfterFree' /\ refcnt' \in Nat
    BY <1>7 DEF WakeByAddress, lifetime
  <1>8. ASSUME NEW t \in Threads, WakeRelease(t) PROVE NoUseAfterFree' /\ refcnt' \in Nat
    <2>1. /\ refs[t] \in Nat /\ refs[t] > 0 /\ Release(refs[t]) /\ UNCHANGED group
          /\ pc[t] = "k_release" /\ Goto(t, "idle")
      BY <1>8 DEF WakeRelease, Return, Control, Waking
    <2>2. \A u \in Threads : (pc[u] = "l_cas" <=> pc'[u] = "l_cas") /\ (u \in Firing <=> u \in Firing')
      BY <2>1 DEF Goto, Firing, Control
    <2>. QED
      BY <2>1, <2>2, ReleaseStep
  <1>9. ASSUME NEW t \in Threads, NEW n \in Notifs, Notify(t, n) PROVE NoUseAfterFree' /\ refcnt' \in Nat
    BY <1>9 DEF Notify, lifetime
  <1>10. ASSUME NEW t \in Threads, NotifyRetain(t) PROVE NoUseAfterFree' /\ refcnt' \in Nat
    BY <1>10 DEF NotifyRetain
  <1>11. ASSUME NEW t \in Threads, NotifyLink(t) PROVE NoUseAfterFree' /\ refcnt' \in Nat
    BY <1>11 DEF NotifyLink, lifetime
  <1>12. ASSUME NEW t \in Threads, NotifyState(t) PROVE NoUseAfterFree' /\ refcnt' \in Nat
    BY <1>12 DEF NotifyState, lifetime
  <1>13. ASSUME NEW t \in Threads, NEW to \in {"TIMED", "FOREVER"}, Wait(t, to) PROVE NoUseAfterFree' /\ refcnt' \in Nat
    BY <1>13 DEF Wait, lifetime
  <1>14. ASSUME NEW t \in Threads, WaitSleep(t) PROVE NoUseAfterFree' /\ refcnt' \in Nat
    BY <1>14 DEF WaitSleep, lifetime
  <1>15. ASSUME NEW t \in Threads, WaitTimedOut(t) PROVE NoUseAfterFree' /\ refcnt' \in Nat
    BY <1>15 DEF WaitTimedOut, lifetime
  <1>16. ASSUME NEW t \in Threads, WaitInterrupted(t) PROVE NoUseAfterFree' /\ refcnt' \in Nat
    BY <1>16 DEF WaitInterrupted, lifetime
  <1>17. ASSUME NEW t \in Threads, WaitCheck(t) PROVE NoUseAfterFree' /\ refcnt' \in Nat
    BY <1>17 DEF WaitCheck, lifetime
  <1>18. ASSUME NEW t \in Threads, WaitReturn(t) PROVE NoUseAfterFree' /\ refcnt' \in Nat
    BY <1>18 DEF WaitReturn, lifetime
  <1>19. ASSUME ClientRelease PROVE NoUseAfterFree' /\ refcnt' \in Nat
    <2>1. Release(1) /\ UNCHANGED group /\ UNCHANGED pc
      BY <1>19 DEF ClientRelease
    <2>2. \A u \in Threads : (pc[u] = "l_cas" <=> pc'[u] = "l_cas") /\ (u \in Firing <=> u \in Firing')
      BY <2>1 DEF Firing
    <2>. QED
      BY <2>1, <2>2, ReleaseStep
  <1>. QED
    BY <1>1, <1>2, <1>3, <1>4, <1>5, <1>6, <1>7, <1>8, <1>9, <1>10, <1>11, <1>12, <1>13, <1>14, <1>15, <1>16, <1>17, <1>18, <1>19 DEF Next, InCall

\* The invariant holds at the start.
LEMMA InitInvariant == Init => IInv
PROOF
  <1>. SUFFICES ASSUME Init PROVE IInv
    OBVIOUS
  <1>. USE DEF Init
  <1>1. NoState \in States /\ NoState.gen = 0 /\ NoState.value = 0 /\ ~NoState.notifs /\ ~NoState.waiters
    BY BoundsAssumption DEF NoState, States
  <1>2. <<>> \in Seq(Notifs) /\ Len(<<>>) = 0
    BY EmptySeq
  <1>3. Words
    BY <1>1, <1>2 DEF Words
  <1>4. Control
    BY <1>1, <1>2 DEF Control, Labels, Pushing, Waking
  <1>5. TypeInv
    BY <1>3, <1>4, TypeParts
  <1>6. Entering = {} /\ Holders = {} /\ TwiceHolders = {} /\ Firing = {}
    BY DEF Entering, Holders, TwiceHolders, Firing, Waking
  <1>7. Accounts
    BY <1>1, <1>6, FS_EmptySet DEF Accounts, Bit
  <1>8. Generations /\ Responsible /\ NoStrandedFlag /\ NoUseAfterFree
    BY <1>1, <1>6 DEF Generations, WaitLabels, Responsible, NoStrandedFlag, Low32IsZero, NoUseAfterFree
  <1>9. Places
    BY <1>2 DEF Places, Listed, Captured
  <1>. QED
    BY <1>5, <1>7, <1>8, <1>9 DEF IInv, References

\* A step keeps the invariant.
LEMMA StepInvariant == IInv /\ [Next]_vars => IInv'
PROOF
  <1>1. ASSUME IInv, Next PROVE IInv'
    <2>1. TypeInv /\ Generations /\ Responsible /\ NoStrandedFlag /\ Places /\ References /\ crash = "none"
      BY <1>1, StepRuns DEF IInv
    <2>2. Words' /\ Control'
      BY <1>1, <2>1, WordsStep, ControlStep
    <2>3. Generations' /\ Responsible' /\ NoStrandedFlag' /\ Places'
      BY <1>1, <2>1, <2>2, GenerationsStep, ResponsibleStep, StrandedStep, PlacesStep
    <2>4. Accounting
      BY <1>1, <2>1, <2>2, ReferencesStep
    <2>5. NoUseAfterFree' /\ refcnt' \in Nat
      BY <1>1, <2>2, <2>4, LifetimeStep
    <2>6. TypeInv'
      BY <2>2, <2>5, TypePartsNext
    <2>7. References'
      BY <2>4 DEF References, Accounting
    <2>. QED
      BY <2>3, <2>5, <2>6, <2>7 DEF IInv
  <1>2. ASSUME IInv, UNCHANGED vars PROVE IInv'
    BY <1>2 DEF IInv, TypeInv, TypeOK, Generations, Responsible, NoStrandedFlag, Places, Listed, Captured,
                References, Accounts, Entering, Holders, TwiceHolders, Firing, NoUseAfterFree,
                vars, group, lifetime, locals, history
  <1>. QED
    BY <1>1, <1>2

\* The inductive invariant holds of every state of a group.
THEOREM Invariant == Spec => []IInv
PROOF
  BY InitInvariant, StepInvariant, PTL DEF Spec

\* Every word keeps its width, and every thread is in a known place with the locals it has there.
THEOREM TypeCorrect == Spec => []TypeOK
PROOF
  <1>1. IInv => TypeOK
    BY DEF IInv, TypeInv
  <1>. QED
    BY <1>1, Invariant, PTL

\* dispatch_group_wait returns 0 only when the group was empty at some moment of the call.
THEOREM WaitSawEmptyHolds == Spec => []WaitSawEmpty
PROOF
  <1>1. IInv => WaitSawEmpty
    BY DEF IInv, Generations, WaitSawEmpty
  <1>. QED
    BY <1>1, Invariant, PTL

\* A block is submitted at most once; one party is responsible for a list that is not empty, and
\* no flag is set where no leave would look at it.
THEOREM NotifiedOnceHolds == Spec => []NotifiedOnce
PROOF
  <1>1. IInv => NotifiedOnce
    <2>. SUFFICES ASSUME IInv PROVE NotifiedOnce
      OBVIOUS
    <2>1. \A n \in Notifs : submitted[n] <= 1
      BY DEF IInv, Places
    <2>2. OneResponsible
      <3>. SUFFICES ASSUME crash = "none"
                    PROVE  Cardinality(Firing) + (IF dg_state.notifs THEN 1 ELSE 0)
                             = IF dg_notify = <<>> THEN 0 ELSE 1
        BY DEF OneResponsible
      <3>1. Responsible
        BY DEF IInv
      <3>2. CASE Firing = {}
        BY <3>1, <3>2, FS_EmptySet DEF Responsible
      <3>3. CASE Firing # {}
        <4>1. PICK t \in Firing : TRUE
          BY <3>3
        <4>2. Firing = {t}
          BY <3>1, <4>1 DEF Responsible
        <4>3. Cardinality(Firing) = 1
          BY <4>2, FS_Singleton
        <4>. QED
          BY <3>1, <3>3, <4>3 DEF Responsible
      <3>. QED
        BY <3>2, <3>3
    <2>3. NoStrandedFlag
      BY DEF IInv
    <2>. QED
      BY <2>1, <2>2, <2>3 DEF NotifiedOnce
  <1>. QED
    BY <1>1, Invariant, PTL

\* The group is disposed of only when nobody is inside a call or the group, and it is not in use.
THEOREM NoUseAfterFreeHolds == Spec => []NoUseAfterFree
PROOF
  BY Invariant, PTL DEF IInv
=============================================================================
