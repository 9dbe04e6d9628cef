------------------------- MODULE DispatchLaneProofs -------------------------
(***************************************************************************)
(* Proofs about DispatchLane, for queues of every width, any number of     *)
(* blocks and every finite set of workers, on which blocks may call        *)
(* dispatch_sync to any depth.                                             *)
(***************************************************************************)
EXTENDS DispatchLane, FiniteSetTheorems, SequenceTheorems, TLAPS

\* Where the thread of a call is: before its block is in the list, between the exchange and the
\* link, waking the lane, or waiting.
Early == {"async_probe", "async_try", "sync_probe", "sync_try", "barrier_try", "prepare", "push"}
Linking == {"need_override", "link", "link_override", "link_first"}
Waking == {"wakeup_probe", "override_probe", "wakeup", "override", "override_last"}
Waits == {"merge_qos", "push_waiter", "wait"}
Calling == Early \union Linking \union Waking \union Waits
Giving == {"give", "close", "reload"}
Transfers == {"transfer", "drain_transfer"}
DrainLocked == DrainPcs \ {"try_lock"}

\* How a frame goes on after a barrier, and after one that a drainer runs.
Exclusive == {"unlock_probe", "complete", "drain_probe", "drain_more"}
DrainAfter == {"drain_probe", "drain_more"}
InTry == {"sync_probe", "sync_try", "barrier_try", "prepare"}

OnList(b) == \E i \in 1..Len(dq_items) : dq_items[i] = b

\* The innermost frame of t is that of a call whose block does not run yet on t.
Submits(t) == pc[t] \in Calling \/ then[t] = "wait"

\* The frames of t whose block runs, the outermost first: all but the one of a call or of a
\* completion.  A call that begins or ends leaves them as they are.
Count(t) == IF stack[t] = <<>> \/ pc[t] = "body" THEN Len(stack[t]) ELSE Len(stack[t]) - 1
Live(t) == [j \in 1..Count(t) |-> stack[t][Len(stack[t]) + 1 - j]]

\* The ranges; the numbers are bounded by the invariants below.
Types ==
  /\ dq_width \in Widths
  /\ dq_state \in [used : Int, ib : BOOLEAN, pb : BOOLEAN, d : BOOLEAN, e : BOOLEAN,
                   q : BOOLEAN, owner : Threads \union {NoThread}]
  /\ dq_items \in Seq(Blocks) /\ linked \subseteq Blocks
  /\ root \subseteq Blocks /\ pushes \in Nat
  /\ kind \in [Blocks -> Kinds \union {"none"}]
  /\ caller \in [Blocks -> Threads \union {NoThread}]
  /\ events \subseteq Blocks
  /\ pc \in [Threads -> Labels] /\ stack \in [Threads -> Seq(Frames)]
  /\ own \in [Threads -> [ib : BOOLEAN, w : Int]]
  /\ dc \in [Threads -> Blocks \union {0}] /\ then \in [Threads -> {"return", "wait"}]
  /\ crash \in BOOLEAN
  /\ status \in [Blocks -> {"new", "called", "ready", "running", "done"}]
  /\ returned \subseteq Blocks /\ prior \in [Blocks -> SUBSET Blocks]

\* A block has a kind from its call to its end.
KindAt(b) == kind[b] = "none" <=> status[b] \in {"new", "done"}

\* What a label says of the thread.
FrameAt(t) ==
  /\ stack[t] = <<>> <=> pc[t] \in {"idle"} \union DrainPcs
  /\ pc[t] \in DrainPcs => t \in Workers
  /\ then[t] = "wait" => pc[t] \in (Completing \ {"unlock_probe", "unlock"}) \union Giving
  /\ pc[t] \in {"unlock_probe", "unlock"} => dq_width = 1
  /\ pc[t] = "uncount" => dq_width > 1
  /\ stack[t] # <<>> => /\ status[Current(t)] # "new"
                        /\ pc[t] # "body" => Head(stack[t]).after \notin DrainAfter

\* A frame whose block runs says how it was started; a thread that runs a barrier is caught
\* when it submits another block.
LiveAt(t) ==
  \A j \in 1..Count(t) :
    /\ status[Live(t)[j].block] = "running"
    /\ Live(t)[j].after \in (IF Barrier(Live(t)[j].block) THEN Exclusive ELSE {"uncount"})
    /\ Live(t)[j].after = "unlock_probe" => dq_width = 1
    /\ Live(t)[j].after \in DrainAfter => t \in Workers /\ j = 1
    /\ Live(t)[j].after \in Exclusive => (pc[t] = "body" /\ j = Count(t)) \/ pc[t] \in InTry

\* What a call knows of its block.
CallAt(t) ==
  Submits(t) =>
    /\ caller[Current(t)] = t
    /\ pc[t] \in Early => status[Current(t)] = "called"
    /\ pc[t] \in {"async_probe", "async_try"} => kind[Current(t)] = "async" /\ dq_width > 1
    /\ pc[t] \in {"sync_probe", "sync_try"} => kind[Current(t)] = "sync" /\ dq_width > 1
    /\ pc[t] = "barrier_try" => Waiter(Current(t)) /\ Barrier(Current(t))
    /\ pc[t] \in {"prepare"} \union Waits \/ then[t] = "wait" => Waiter(Current(t))
    /\ pc[t] \in Waking \union {"need_override", "link_override"} => ~Waiter(Current(t))
    /\ Waiter(Current(t)) => status[Current(t)] \in {"called", "ready"}

\* The block of a thread that completes it has ended.
FinishedAt(t) ==
  pc[t] \in {"uncount"} \union Completing \union Giving /\ then[t] # "wait" => status[Current(t)] = "done"

ThreadAt(t) == FrameAt(t) /\ LiveAt(t) /\ CallAt(t) /\ FinishedAt(t)

\* A block runs in one frame, is counted out by one thread, and a waiter is with its caller.
LiveOnce ==
  \A t, u \in Threads : \A i \in 1..Count(t), j \in 1..Count(u) :
    Live(t)[i].block = Live(u)[j].block => t = u /\ i = j

LiveSome ==
  \A b \in Blocks : status[b] = "running" =>
    \E t \in Threads : \E j \in 1..Count(t) : Live(t)[j].block = b

UncountOnce ==
  \A t, u \in Threads : pc[t] = "uncount" /\ pc[u] = "uncount" /\ Current(t) = Current(u) => t = u

WaiterAt(b) ==
  Waiter(b) /\ status[b] \in {"called", "ready"} =>
    /\ caller[b] \in Threads /\ stack[caller[b]] # <<>>
    /\ Current(caller[b]) = b /\ Submits(caller[b])

Threading ==
  /\ LiveOnce /\ LiveSome /\ UncountOnce
  /\ \A t \in Threads : ThreadAt(t)
  /\ \A b \in Blocks : KindAt(b) /\ WaiterAt(b)

\* A block is in the list once, from the exchange of the tail until it is taken out, and is
\* not handed to two threads.
ListAt(t) ==
  /\ pc[t] \in Early => ~OnList(Current(t))
  /\ pc[t] \in Linking => OnList(Current(t)) /\ Current(t) \notin linked

TransferAt(t) ==
  pc[t] \in Transfers =>
    /\ dc[t] \in Blocks /\ Waiter(dc[t]) /\ Barrier(dc[t]) /\ status[dc[t]] = "called"
    /\ ~OnList(dc[t]) /\ pc[caller[dc[t]]] \notin Early \union Linking

PlaceAt(b) ==
  /\ b \in root => status[b] = "ready" /\ ~Waiter(b) /\ ~Barrier(b)
  /\ b \in events => status[b] = "ready" /\ Waiter(b)
  /\ status[b] = "ready" => b \in root \union events
  /\ OnList(b) => status[b] = "called"
  /\ b \in linked => OnList(b)

ListOnce == \A i, j \in 1..Len(dq_items) : dq_items[i] = dq_items[j] => i = j

Listing ==
  /\ ListOnce
  /\ \A t \in Threads : ListAt(t) /\ TransferAt(t)
  /\ \A b \in Blocks : PlaceAt(b)

\* The lock is held by the thread that runs or completes a barrier, or was handed the lock for
\* one, that hands out width, or that drains.
Handed(t) == stack[t] # <<>> /\ Current(t) \in events /\ Barrier(Current(t))
RunsBarrier(t) == \E j \in 1..Count(t) : Live(t)[j].after \in {"unlock_probe", "complete"}
DrainRuns(t) == \E j \in 1..Count(t) : Live(t)[j].after \in DrainAfter
HasBarrier(t) == pc[t] \in Completing \/ RunsBarrier(t) \/ Handed(t)
Holds(t) == HasBarrier(t) \/ pc[t] \in Giving \union DrainLocked \/ DrainRuns(t)

LockAt(t) == Holds(t) <=> dq_state.owner = t

\* A thread that was handed the lock has not woken up yet.
HandedAt(t) == Handed(t) => pc[t] \in Waits

\* What a thread owns of the word.
OwnNone == [ib |-> FALSE, w |-> 0]
OwnAll == [ib |-> TRUE, w |-> dq_width]

OwnAt(t) ==
  /\ own[t].w \in 0..dq_width
  /\ ~Holds(t) \/ HasBarrier(t) \/ pc[t] = "drain_stop" => own[t] = OwnNone
  /\ DrainRuns(t) => own[t] = OwnAll
  /\ pc[t] \in Giving => ~own[t].ib
  /\ own[t].ib => own[t] = OwnAll \/ (pc[t] = "drain" /\ dq_items # <<>>)
  /\ pc[t] = "drain_transfer" => own[t].ib

\* The word says that there is a barrier when the owner of the lock has one.
IbAt(t) == Holds(t) => (dq_state.ib <=> HasBarrier(t) \/ own[t].ib)
Alone == dq_state.ib => Locked(dq_state) /\ InFlight = {} /\ ~dq_state.pb

\* A pending barrier is the first item, and who drains has no width.
PendingAt(t) == dq_state.pb /\ Holds(t) => pc[t] \in {"drain", "drain_first", "drain_stop"} /\ own[t] = OwnNone
Pending == dq_state.pb => dq_items # <<>> /\ Barrier(Head(dq_items))

\* What the owner of the lock knows of the list: others add to it only.
OwnerAt(t) ==
  /\ pc[t] \in {"open", "pop_waiter", "requeue", "give", "drain_first", "drain_more", "drain_stop"} => dq_items # <<>>
  /\ pc[t] = "open" => ~Barrier(Head(dq_items))
  /\ pc[t] = "pop_waiter" => Barrier(Head(dq_items)) /\ Waiter(Head(dq_items))
  /\ pc[t] = "give" => dc[t] = Head(dq_items) /\ ~Barrier(Head(dq_items))
  /\ pc[t] = "close" /\ dc[t] # 0 => dq_items # <<>> /\ dc[t] = Head(dq_items)
  /\ \A j \in 1..Count(t) : Live(t)[j].after = "drain_more" => dq_items # <<>>

Locking ==
  /\ Alone /\ Pending
  /\ \A t \in Threads : LockAt(t) /\ HandedAt(t) /\ OwnAt(t) /\ IbAt(t) /\ PendingAt(t) /\ OwnerAt(t)

\* The width in use, and who has it.
Held == IF dq_state.ib THEN dq_width ELSE IF Locked(dq_state) THEN own[dq_state.owner].w ELSE 0
Asyncs == {b \in InFlight : kind[b] = "async"}

Users == Cardinality(InFlight)
AsyncUsers == Cardinality(Asyncs)

RoomAt(t) ==
  own[t].w > 0 /\ ~own[t].ib =>
    \/ AsyncUsers + own[t].w <= dq_width
    \/ /\ own[t].w = 1 /\ pc[t] \in {"give", "drain_first", "drain_more"}
       /\ dq_items # <<>> /\ Waiter(Head(dq_items)) /\ ~Barrier(Head(dq_items))

Balanced == dq_state.used = Users + Held + (IF dq_state.pb THEN dq_width - 1 ELSE 0)
Counting == Balanced /\ AsyncUsers <= dq_width /\ \A t \in Threads : RoomAt(t)

Crashing == crash => \E t \in Threads : pc[t] = "prepare" /\ dq_state.owner = t

Inv == Types /\ Threading /\ Listing /\ Locking /\ Counting /\ EnqueuedOnce /\ Crashing
-----------------------------------------------------------------------------
\* The constants.
LEMMA Constants ==
  /\ Widths \subseteq Nat \ {0} /\ Kinds \subseteq AllKinds /\ IsFiniteSet(Workers)
  /\ Blocks \subseteq Nat /\ 0 \notin Blocks /\ IsFiniteSet(Blocks)
  /\ Blocks \subseteq Threads /\ Workers \subseteq Threads /\ NoThread \notin Threads
  /\ Workers \intersect Blocks = {}
PROOF
  <1>1. IsFiniteSet(1..Calls)
    BY LaneAssumption, FS_Interval
  <1>. QED
    BY <1>1, LaneAssumption DEF Blocks, Threads

\* The frames of a thread.
LEMMA StackFacts ==
  ASSUME Types, NEW t \in Threads
  PROVE  /\ stack[t] \in Seq(Frames) /\ Len(stack[t]) \in Nat
         /\ stack[t] # <<>> <=> Len(stack[t]) >= 1
         /\ \A i \in 1..Len(stack[t]) : stack[t][i] \in Frames
         /\ stack[t] # <<>> => /\ Head(stack[t]) = stack[t][1] /\ Current(t) \in Blocks
                               /\ Tail(stack[t]) \in Seq(Frames)
                               /\ Len(Tail(stack[t])) = Len(stack[t]) - 1
                               /\ \A i \in 1..(Len(stack[t]) - 1) : Tail(stack[t])[i] = stack[t][i + 1]
PROOF
  <1>1. stack[t] \in Seq(Frames) /\ Len(stack[t]) \in Nat
    BY DEF Types
  <1>2. stack[t] # <<>> <=> Len(stack[t]) >= 1
    BY <1>1
  <1>3. \A i \in 1..Len(stack[t]) : stack[t][i] \in Frames
    BY <1>1
  <1>4. ASSUME stack[t] # <<>>
        PROVE  /\ Head(stack[t]) = stack[t][1] /\ Current(t) \in Blocks
               /\ Tail(stack[t]) \in Seq(Frames)
               /\ Len(Tail(stack[t])) = Len(stack[t]) - 1
               /\ \A i \in 1..(Len(stack[t]) - 1) : Tail(stack[t])[i] = stack[t][i + 1]
    <2>1. Head(stack[t]) = stack[t][1] /\ stack[t][1] \in Frames
      BY <1>1, <1>2, <1>3, <1>4
    <2>2. Current(t) \in Blocks
      BY <2>1 DEF Current, Frames
    <2>. QED
      BY <1>1, <1>2, <1>4, <2>1, <2>2
  <1>. QED
    BY <1>1, <1>2, <1>3, <1>4

\* The frames whose block runs.
LEMMA LiveFacts ==
  ASSUME Types, NEW t \in Threads
  PROVE  /\ Count(t) \in Nat /\ Count(t) <= Len(stack[t])
         /\ stack[t] # <<>> /\ pc[t] # "body" => Count(t) = Len(stack[t]) - 1
         /\ stack[t] = <<>> \/ pc[t] = "body" => Count(t) = Len(stack[t])
         /\ stack[t] = <<>> => Count(t) = 0
         /\ \A j \in 1..Count(t) : /\ Live(t)[j] = stack[t][Len(stack[t]) + 1 - j]
                                   /\ Live(t)[j] \in Frames /\ Live(t)[j].block \in Blocks
         /\ stack[t] # <<>> /\ pc[t] = "body" =>
              Count(t) >= 1 /\ Live(t)[Count(t)] = Head(stack[t]) /\ Live(t)[Count(t)].block = Current(t)
PROOF
  <1>1. Count(t) \in Nat /\ Count(t) <= Len(stack[t])
    BY StackFacts DEF Count
  <1>2. /\ stack[t] # <<>> /\ pc[t] # "body" => Count(t) = Len(stack[t]) - 1
        /\ stack[t] = <<>> \/ pc[t] = "body" => Count(t) = Len(stack[t])
        /\ stack[t] = <<>> => Count(t) = 0
    BY StackFacts DEF Count
  <1>3. ASSUME NEW j \in 1..Count(t)
        PROVE  /\ Live(t)[j] = stack[t][Len(stack[t]) + 1 - j]
               /\ Live(t)[j] \in Frames /\ Live(t)[j].block \in Blocks
    <2>1. Live(t)[j] = stack[t][Len(stack[t]) + 1 - j]
      BY DEF Live
    <2>2. Len(stack[t]) + 1 - j \in 1..Len(stack[t])
      BY <1>1, StackFacts
    <2>3. Live(t)[j] \in Frames
      BY <2>1, <2>2, StackFacts
    <2>. QED
      BY <2>1, <2>3 DEF Frames
  <1>4. ASSUME stack[t] # <<>>, pc[t] = "body"
        PROVE  Count(t) >= 1 /\ Live(t)[Count(t)] = Head(stack[t]) /\ Live(t)[Count(t)].block = Current(t)
    <2>1. Count(t) = Len(stack[t]) /\ Count(t) \in 1..Count(t)
      BY <1>1, <1>2, <1>4, StackFacts
    <2>2. Live(t)[Count(t)] = stack[t][1]
      BY <1>3, <2>1
    <2>. QED
      BY <1>4, <2>1, <2>2, StackFacts DEF Current
  <1>. QED
    BY <1>1, <1>2, <1>3, <1>4

\* A frame on top of others.
LEMMA OnTop ==
  ASSUME NEW f, NEW S, f \in S, NEW s \in Seq(S)
  PROVE  /\ <<f>> \o s \in Seq(S) /\ Len(<<f>> \o s) = Len(s) + 1 /\ <<f>> \o s # <<>>
         /\ (<<f>> \o s)[1] = f /\ Head(<<f>> \o s) = f
         /\ \A i \in 1..Len(s) : (<<f>> \o s)[i + 1] = s[i]
PROOF
  <1>1. <<f>> \in Seq(S) /\ Len(<<f>>) = 1 /\ <<f>>[1] = f /\ Len(s) \in Nat
    OBVIOUS
  <1>2. /\ <<f>> \o s \in Seq(S) /\ Len(<<f>> \o s) = Len(s) + 1
        /\ (<<f>> \o s)[1] = f
        /\ \A i \in 1..Len(s) : (<<f>> \o s)[i + 1] = s[i]
    BY <1>1, ConcatProperties
  <1>. QED
    BY <1>1, <1>2
-----------------------------------------------------------------------------
(***************************************************************************)
(* What the steps of a thread do to its frames.                            *)
(***************************************************************************)
SameLive(t) == Count(t)' = Count(t) /\ Live(t)' = Live(t)

\* The thread starts block b.
Begins(t, b, after) ==
  /\ status' = [status EXCEPT ![b] = "running"]
  /\ stack[t] = <<>> => b \in Blocks
  /\ stack[t] # <<>> => b = Current(t)
  /\ stack'[t] = <<[block |-> b, after |-> after]>> \o (IF stack[t] = <<>> THEN <<>> ELSE Tail(stack[t]))
  /\ pc[t] # "body" /\ pc'[t] = "body"

\* ... and its frame comes to the others.
Begun(t, b, after) ==
  /\ Count(t)' = Count(t) + 1
  /\ \A j \in 1..Count(t) : Live(t)'[j] = Live(t)[j]
  /\ Live(t)'[Count(t) + 1] = [block |-> b, after |-> after]
  /\ stack'[t] # <<>> /\ Current(t)' = b /\ Head(stack'[t]).after = after

\* The frames are the same if the stack is, and the thread does not start or end a block.
LEMMA LiveMoved ==
  ASSUME NEW t \in Threads, stack'[t] = stack[t],
         stack[t] = <<>> \/ (pc'[t] = "body" <=> pc[t] = "body")
  PROVE  SameLive(t)
BY DEF SameLive, Count, Live

\* A call puts a frame on top of them ...
LEMMA LiveSubmitted ==
  ASSUME Types, NEW t \in Threads, NEW f \in Frames, stack'[t] = <<f>> \o stack[t],
         stack[t] = <<>> \/ pc[t] = "body", pc'[t] # "body"
  PROVE  SameLive(t) /\ stack'[t] # <<>> /\ Head(stack'[t]) = f
PROOF
  <1>1. /\ stack'[t] \in Seq(Frames) /\ Len(stack'[t]) = Len(stack[t]) + 1 /\ stack'[t] # <<>>
        /\ Head(stack'[t]) = f
        /\ \A i \in 1..Len(stack[t]) : stack'[t][i + 1] = stack[t][i]
    BY StackFacts, OnTop
  <1>2. Count(t) = Len(stack[t]) /\ Count(t)' = Count(t) /\ Count(t) \in Nat
    BY <1>1, StackFacts DEF Count
  <1>3. \A j \in 1..Count(t) : stack'[t][Len(stack'[t]) + 1 - j] = stack[t][Len(stack[t]) + 1 - j]
    <2>. TAKE j \in 1..Count(t)
    <2>1. Len(stack[t]) + 1 - j \in 1..Len(stack[t]) /\ Len(stack'[t]) + 1 - j = (Len(stack[t]) + 1 - j) + 1
      BY <1>1, <1>2
    <2>. QED
      BY <1>1, <2>1
  <1>. QED
    BY <1>1, <1>2, <1>3 DEF SameLive, Live

\* ... and takes it away when it returns.
LEMMA LiveLeft ==
  ASSUME Types, NEW t \in Threads, stack[t] # <<>>, pc[t] # "body", stack'[t] = Tail(stack[t]),
         pc'[t] = IF Len(stack[t]) <= 1 THEN "idle" ELSE "body"
  PROVE  /\ SameLive(t) /\ (stack'[t] = <<>> <=> pc'[t] = "idle")
         /\ stack'[t] # <<>> => /\ Count(t) \in Nat /\ Count(t) >= 1 /\ Head(stack'[t]) = Live(t)[Count(t)]
                                /\ Current(t)' = Live(t)[Count(t)].block
PROOF
  <1>1. /\ Len(stack[t]) \in Nat /\ Len(stack[t]) >= 1 /\ stack'[t] \in Seq(Frames)
        /\ Len(stack'[t]) = Len(stack[t]) - 1
        /\ \A i \in 1..(Len(stack[t]) - 1) : stack'[t][i] = stack[t][i + 1]
    BY StackFacts
  <1>2. stack'[t] = <<>> <=> Len(stack[t]) <= 1
    BY <1>1, EmptySeq
  <1>3. Count(t) = Len(stack[t]) - 1 /\ Count(t)' = Len(stack[t]) - 1
    BY <1>1, <1>2 DEF Count
  <1>4. \A j \in 1..Count(t) : stack'[t][Len(stack'[t]) + 1 - j] = stack[t][Len(stack[t]) + 1 - j]
    <2>. TAKE j \in 1..Count(t)
    <2>1. Len(stack'[t]) + 1 - j \in 1..(Len(stack[t]) - 1)
      BY <1>1, <1>3
    <2>2. (Len(stack'[t]) + 1 - j) + 1 = Len(stack[t]) + 1 - j
      BY <1>1
    <2>. QED
      BY <1>1, <2>1, <2>2
  <1>5. SameLive(t)
    BY <1>3, <1>4 DEF SameLive, Live
  <1>6. ASSUME stack'[t] # <<>>
        PROVE  /\ Count(t) \in Nat /\ Count(t) >= 1 /\ Head(stack'[t]) = Live(t)[Count(t)]
               /\ Current(t)' = Live(t)[Count(t)].block
    <2>1. Len(stack[t]) \in Nat /\ Len(stack[t]) >= 2 /\ Count(t) = Len(stack[t]) - 1
      BY <1>1, <1>2, <1>3, <1>6
    <2>2. Count(t) \in 1..Count(t) /\ Len(stack[t]) + 1 - Count(t) = 2 /\ 1 \in 1..(Len(stack[t]) - 1)
      BY <2>1
    <2>3. Live(t)[Count(t)] = stack[t][2]
      BY <2>2 DEF Live
    <2>4. Head(stack'[t]) = stack'[t][1] /\ stack'[t][1] = stack[t][2]
      BY <1>1, <1>6, <2>2
    <2>. QED
      BY <2>1, <2>3, <2>4 DEF Current
  <1>. QED
    BY <1>2, <1>5, <1>6

\* A block that starts is in one frame more.
LEMMA LiveBegun ==
  ASSUME Types, NEW t \in Threads, NEW b, NEW after, Begins(t, b, after),
         [block |-> b, after |-> after] \in Frames
  PROVE  Begun(t, b, after)
PROOF
  <1>. DEFINE f == [block |-> b, after |-> after]
              rest == IF stack[t] = <<>> THEN <<>> ELSE Tail(stack[t])
  <1>1. rest \in Seq(Frames) /\ Len(rest) = Count(t) /\ Len(rest) \in Nat
    <2>1. CASE stack[t] = <<>>
      BY <2>1 DEF Begins, Count
    <2>2. CASE stack[t] # <<>>
      BY <2>2, StackFacts DEF Begins, Count
    <2>. QED
      BY <2>1, <2>2
  <1>2. \A i \in 1..Len(rest) : rest[i] = stack[t][i + Len(stack[t]) - Len(rest)]
    <2>1. CASE stack[t] = <<>>
      <3>1. Len(rest) = 0
        BY <2>1
      <3>. QED
        BY <3>1
    <2>2. CASE stack[t] # <<>>
      <3>1. rest = Tail(stack[t]) /\ Len(rest) = Len(stack[t]) - 1 /\ Len(stack[t]) \in Nat
        BY <2>2, StackFacts
      <3>2. \A i \in 1..(Len(stack[t]) - 1) : rest[i] = stack[t][i + 1]
        BY <2>2, <3>1, StackFacts
      <3>. HIDE DEF rest
      <3>3. \A n \in Nat : \A i \in 1..(n - 1) : i + n - (n - 1) = i + 1
        OBVIOUS
      <3>. QED
        <4>1. ASSUME NEW i \in 1..Len(rest) PROVE rest[i] = stack[t][i + Len(stack[t]) - Len(rest)]
          <5>1. i + Len(stack[t]) - Len(rest) = i + 1 /\ i \in 1..(Len(stack[t]) - 1)
            BY <3>1, <3>3
          <5>. QED
            BY <3>2, <5>1
        <4>. QED
          BY <4>1
    <2>. QED
      BY <2>1, <2>2
  <1>3. stack'[t] = <<f>> \o rest
    BY DEF Begins
  <1>. HIDE DEF f, rest
  <1>4. f \in Frames
    BY DEF f
  <1>5. /\ Len(stack'[t]) = Len(rest) + 1 /\ stack'[t][1] = f /\ stack'[t] # <<>> /\ Head(stack'[t]) = f
        /\ \A i \in 1..Len(rest) : stack'[t][i + 1] = rest[i]
    BY <1>1, <1>3, <1>4, OnTop
  <1>6. Count(t)' = Count(t) + 1
    BY <1>1, <1>5 DEF Count, Begins
  <1>11. Count(t) \in Nat /\ Len(rest) = Count(t) /\ Len(stack'[t]) = Count(t) + 1
    BY <1>1, <1>5
  <1>7. \A j \in 1..(Count(t) + 1) : Live(t)'[j] = stack'[t][Len(stack'[t]) + 1 - j]
    BY <1>6 DEF Live
  <1>8. ASSUME NEW j \in 1..Count(t) PROVE Live(t)'[j] = Live(t)[j]
    <2>1. Len(rest) + 1 - j \in 1..Len(rest) /\ Len(stack'[t]) + 1 - j = (Len(rest) + 1 - j) + 1
      BY <1>11
    <2>2. stack'[t][Len(stack'[t]) + 1 - j] = rest[Len(rest) + 1 - j]
      BY <1>5, <2>1
    <2>3. (Len(rest) + 1 - j) + Len(stack[t]) - Len(rest) = Len(stack[t]) + 1 - j
      BY <1>1, StackFacts
    <2>4. rest[Len(rest) + 1 - j] = stack[t][Len(stack[t]) + 1 - j]
      BY <1>2, <2>1, <2>3
    <2>5. j \in 1..(Count(t) + 1)
      BY <1>1
    <2>. QED
      BY <1>7, <2>2, <2>4, <2>5 DEF Live
  <1>9. Live(t)'[Count(t) + 1] = f
    <2>1. Count(t) + 1 \in 1..(Count(t) + 1) /\ Len(stack'[t]) + 1 - (Count(t) + 1) = 1
      <3>1. \A n \in Nat : n + 1 \in 1..(n + 1) /\ (n + 1) + 1 - (n + 1) = 1
        OBVIOUS
      <3>. QED
        BY <1>11, <3>1
    <2>. QED
      BY <1>5, <1>7, <2>1
  <1>10. Current(t)' = b /\ Head(stack'[t]).after = after
    BY <1>5 DEF f, Current
  <1>. QED
    BY <1>5, <1>6, <1>8, <1>9, <1>10 DEF Begun, f

\* A block that ends is in none any more; a drainer has no other frame.
LEMMA LiveEnded ==
  ASSUME Types, NEW t \in Threads, stack[t] # <<>>, pc[t] = "body", pc'[t] # "body",
         stack'[t] = stack[t] \/ (Len(stack[t]) = 1 /\ stack'[t] = Tail(stack[t]))
  PROVE  /\ Count(t)' = Count(t) - 1
         /\ \A j \in 1..(Count(t) - 1) : Live(t)'[j] = Live(t)[j]
PROOF
  <1>1. Count(t) = Len(stack[t]) /\ Len(stack[t]) \in Nat /\ Len(stack[t]) >= 1
    BY StackFacts, LiveFacts
  <1>2. CASE stack'[t] = stack[t]
    <2>1. Count(t)' = Count(t) - 1
      BY <1>1, <1>2 DEF Count
    <2>2. ASSUME NEW j \in 1..(Count(t) - 1) PROVE Live(t)'[j] = Live(t)[j]
      <3>1. j \in 1..Count(t)
        BY <1>1
      <3>2. Live(t)[j] = stack[t][Len(stack[t]) + 1 - j]
        BY <3>1 DEF Live
      <3>3. Live(t)'[j] = stack'[t][Len(stack'[t]) + 1 - j]
        BY <2>1 DEF Live
      <3>. QED
        BY <1>2, <3>2, <3>3
    <2>. QED
      BY <2>1, <2>2
  <1>3. CASE Len(stack[t]) = 1 /\ stack'[t] = Tail(stack[t])
    <2>1. stack'[t] = <<>>
      BY <1>3, StackFacts
    <2>2. Count(t)' = 0
      BY <2>1 DEF Count
    <2>. QED
      BY <1>1, <1>3, <2>2
  <1>. QED
    BY <1>2, <1>3
-----------------------------------------------------------------------------
(***************************************************************************)
(* A step is a step of one thread, which leaves the others where they are. *)
(***************************************************************************)
Acts(t) == (t \in Blocks /\ Call(t)) \/ NestedCall(t) \/ Step(t)

Keeps(t) ==
  \A u \in Threads \ {t} : /\ pc'[u] = pc[u] /\ stack'[u] = stack[u] /\ then'[u] = then[u]
                           /\ own'[u] = own[u] /\ dc'[u] = dc[u]

\* Every step is one of a thread.
LEMMA Actor ==
  ASSUME Next
  PROVE  \E t \in Threads : Acts(t) /\ dq_width' = dq_width
BY DEF Next, Acts, Threads

\* The threads that do not step stay where they are.
LEMMA OthersKeep ==
  ASSUME Types, NEW t \in Threads, Acts(t)
  PROVE  Keeps(t)
PROOF
  <1>. USE DEF Types, Goto, Own, Keeps, list, target, locals, calls
  <1>1. ASSUME NEW b, NEW k, Submit(t, b, k) PROVE Keeps(t)
    BY <1>1 DEF Submit
  <1>2. ASSUME NEW b, NEW frames, NEW after, Run(t, b, frames, after), UNCHANGED <<own, dc, then>> PROVE Keeps(t)
    BY <1>2 DEF Run
  <1>3. ASSUME Complete(t), NEW x, own' = [own EXCEPT ![t] = x] \/ own' = own,
               NEW y, dc' = [dc EXCEPT ![t] = y] \/ dc' = dc
        PROVE  Keeps(t)
    BY <1>3 DEF Complete, Leave
  <1>4. CASE t \in Blocks /\ Call(t)
    BY <1>1, <1>4 DEF Call
  <1>5. CASE NestedCall(t)
    BY <1>1, <1>5 DEF NestedCall
  <1>6. CASE AsyncProbe(t) \/ AsyncTry(t) \/ SyncProbe(t) \/ Prepare(t)
    BY <1>6 DEF AsyncProbe, AsyncTry, SyncProbe, Prepare, Leave
  <1>7. CASE SyncTry(t) \/ BarrierTry(t) \/ Wait(t)
    BY <1>7 DEF SyncTry, BarrierTry, Wait, Enter, Run
  <1>8. CASE PushTail(t) \/ NeedOverride(t) \/ PushLink(t) \/ PushHead(t) \/ WakeupProbe(t)
    BY <1>8 DEF PushTail, NeedOverride, PushLink, PushHead, WakeupProbe, Leave
  <1>9. CASE Wakeup(t) \/ OverrideLast(t) \/ MergeQos(t) \/ PushWaiter(t)
    BY <1>9 DEF Wakeup, OverrideLast, MergeQos, PushWaiter, Leave
  <1>10. CASE Return(t)
    BY <1>10 DEF Return
  <1>11. CASE NonBarrierComplete(t)
    BY <1>11 DEF NonBarrierComplete, CompleteNonBarrier, Complete, Leave
  <1>12. CASE UnlockProbe(t) \/ Unlock(t) \/ BarrierComplete(t) \/ BarrierRelease(t) \/ BarrierRequeue(t)
    BY <1>12 DEF UnlockProbe, Unlock, BarrierComplete, BarrierRelease, BarrierRequeue, Complete, Leave
  <1>13. CASE PopWaiter(t) \/ TransferLock(t) \/ DrainWaiter(t)
    BY <1>13 DEF PopWaiter, TransferLock, DrainWaiter, HandOver, Complete, Leave
  <1>14. CASE Open(t) \/ GiveReserve(t) \/ Give(t) \/ Reload(t)
    BY <1>14 DEF Open, GiveReserve, TakeMore, Give, Reload
  <1>15. CASE Close(t)
    BY <1>15 DEF Close, CompleteNonBarrier, Complete, Leave
  <1>16. CASE Redirected(t) \/ PopLane(t) \/ DrainTryLock(t) \/ Drain(t) \/ DrainUpgrade(t)
    BY <1>16 DEF Redirected, PopLane, DrainTryLock, Drain, DrainUpgrade, Run
  <1>17. CASE DrainBarrier(t) \/ DrainDrop(t) \/ DrainReserve(t) \/ DrainGive(t)
    BY <1>17 DEF DrainBarrier, DrainDrop, DrainReserve, TakeMore, DrainGive, Run
  <1>18. CASE DrainProbe(t) \/ DrainNarrow(t) \/ DrainUnlock(t)
    BY <1>18 DEF DrainProbe, DrainNarrow, DrainUnlock
  <1>. QED
    BY <1>4, <1>5, <1>6, <1>7, <1>8, <1>9, <1>10, <1>11, <1>12, <1>13, <1>14, <1>15, <1>16, <1>17, <1>18
       DEF Acts, Step
-----------------------------------------------------------------------------
(***************************************************************************)
(* The ranges.                                                             *)
(***************************************************************************)
\* A record of the word is one of its fields.
WordRange == [used : Int, ib : BOOLEAN, pb : BOOLEAN, d : BOOLEAN, e : BOOLEAN,
              q : BOOLEAN, owner : Threads \union {NoThread}]

\* A thread that is not idle and does not drain has a block.
LEMMA HasBlock ==
  ASSUME Types, NEW t \in Threads, FrameAt(t), pc[t] \notin {"idle"} \union DrainPcs
  PROVE  stack[t] # <<>> /\ Current(t) \in Blocks
BY StackFacts DEF FrameAt

\* The operators on the word give a word.
LEMMA WordTypes ==
  ASSUME Types, NEW s \in WordRange, NEW t \in Threads
  PROVE  /\ \A n \in Int : Take(s, n) \in WordRange
         /\ FullLock(s, t) \in WordRange /\ Reserve(s) \in WordRange
         /\ \A o \in [ib : BOOLEAN, w : Int] : Release(s, o) \in WordRange
         /\ \A dirty \in BOOLEAN : TryFullLock(s, dirty, t) \in WordRange /\ Woken(s, dirty) \in WordRange
         /\ Uncounted(s, t) \in WordRange
         /\ \A b \in Blocks : \A draining \in BOOLEAN : Transferred(s, b, draining) \in WordRange
PROOF
  <1>1. dq_width \in Int /\ dq_width > 0
    BY Constants DEF Types
  <1>2. ASSUME NEW x \in WordRange
        PROVE  /\ \A n \in Int : Take(x, n) \in WordRange
               /\ FullLock(x, t) \in WordRange /\ Reserve(x) \in WordRange
    <2>1. ASSUME NEW n \in Int PROVE Take(x, n) \in WordRange
      BY DEF WordRange, Take
    <2>2. FullLock(x, t) \in WordRange
      BY <1>1 DEF WordRange, FullLock
    <2>3. x.used + dq_width - 1 \in Int
      BY <1>1 DEF WordRange
    <2>4. Reserve(x) \in WordRange
      BY <2>3 DEF WordRange, Reserve
    <2>. QED
      BY <2>1, <2>2, <2>4
  <1>3. ASSUME NEW o \in [ib : BOOLEAN, w : Int] PROVE Release(s, o) \in WordRange
    <2>1. s.used - o.w \in Int /\ (s.ib /\ ~o.ib) \in BOOLEAN
      BY DEF WordRange
    <2>. QED
      BY <2>1 DEF WordRange, Release
  <1>4. ASSUME NEW x \in WordRange, NEW dirty \in BOOLEAN
        PROVE  TryFullLock(x, dirty, t) \in WordRange /\ Woken(x, dirty) \in WordRange
    <2>1. FullLock(x, t) \in WordRange
      BY <1>2
    <2>. QED
      BY <2>1 DEF WordRange, TryFullLock, Woken
  <1>5. Uncounted(s, t) \in WordRange
    <2>1. Take(s, -1) \in WordRange /\ s.d \in BOOLEAN
      BY <1>2 DEF WordRange
    <2>2. [Take(s, -1) EXCEPT !.d = TRUE] \in WordRange
      BY <2>1 DEF WordRange
    <2>3. TryFullLock(Take(s, -1), s.d, t) \in WordRange
      BY <1>4, <2>1
    <2>. QED
      BY <2>1, <2>2, <2>3 DEF Uncounted
  <1>6. \A b \in Blocks : \A draining \in BOOLEAN : Transferred(s, b, draining) \in WordRange
    BY DEF WordRange, Transferred, Types
  <1>. QED
    BY <1>2, <1>3, <1>4, <1>5, <1>6

\* What a thread does when it leaves, or starts a block.
LEMMA LeaveTypes ==
  ASSUME Types, NEW t \in Threads
  PROVE  /\ Leave(t) => /\ stack' \in [Threads -> Seq(Frames)] /\ pc' \in [Threads -> Labels]
                        /\ returned' \subseteq Blocks /\ then' = then
         /\ Complete(t) => /\ stack' \in [Threads -> Seq(Frames)] /\ pc' \in [Threads -> Labels]
                           /\ returned' \subseteq Blocks /\ then' \in [Threads -> {"return", "wait"}]
PROOF
  <1>1. ASSUME Leave(t)
        PROVE  /\ stack' \in [Threads -> Seq(Frames)] /\ pc' \in [Threads -> Labels]
               /\ returned' \subseteq Blocks /\ then' = then
    <2>1. (IF stack[t] = <<>> THEN <<>> ELSE Tail(stack[t])) \in Seq(Frames)
      BY StackFacts
    <2>. QED
      BY <1>1, <2>1 DEF Leave, Goto, Types, Labels
  <1>. QED
    <2>1. ASSUME Complete(t), then[t] = "wait"
          PROVE  /\ stack' = stack /\ returned' = returned
                 /\ pc' \in [Threads -> Labels] /\ then' \in [Threads -> {"return", "wait"}]
      <3>1. /\ stack' = stack /\ returned' = returned
            /\ pc' = [pc EXCEPT ![t] = "wait"] /\ then' = [then EXCEPT ![t] = "return"]
        BY <2>1 DEF Complete, Goto
      <3>2. "wait" \in Labels
        BY DEF Labels
      <3>. QED
        BY <3>1, <3>2 DEF Types
    <2>2. ASSUME Complete(t), then[t] # "wait" PROVE Leave(t)
      BY <2>2 DEF Complete
    <2>3. /\ stack \in [Threads -> Seq(Frames)] /\ returned \subseteq Blocks
          /\ then \in [Threads -> {"return", "wait"}]
      BY DEF Types
    <2>. QED
      BY <1>1, <2>1, <2>2, <2>3

\* A thread that starts a block.
LEMMA RunTypes ==
  ASSUME Types, NEW t \in Threads, NEW b \in Blocks, NEW frames \in Seq(Frames),
         NEW after \in {"uncount", "unlock_probe", "complete", "drain_probe", "drain_more"},
         Run(t, b, frames, after)
  PROVE  /\ stack' \in [Threads -> Seq(Frames)] /\ pc' \in [Threads -> Labels]
         /\ status' \in [Blocks -> {"new", "called", "ready", "running", "done"}]
PROOF
  <1>1. [block |-> b, after |-> after] \in Frames
    BY DEF Frames
  <1>2. <<[block |-> b, after |-> after]>> \o frames \in Seq(Frames)
    BY <1>1, OnTop
  <1>. QED
    BY <1>2 DEF Run, Goto, Types, Labels

\* The list of a drainer.
LEMMA ListFacts ==
  ASSUME Types
  PROVE  /\ Len(dq_items) \in Nat
         /\ \A i \in 1..Len(dq_items) : dq_items[i] \in Blocks
         /\ dq_items # <<>> => /\ Len(dq_items) >= 1 /\ Head(dq_items) = dq_items[1] /\ Head(dq_items) \in Blocks
                               /\ Tail(dq_items) \in Seq(Blocks) /\ Len(Tail(dq_items)) = Len(dq_items) - 1
                               /\ \A i \in 1..(Len(dq_items) - 1) : Tail(dq_items)[i] = dq_items[i + 1]
                               /\ Next2 \in Blocks \union {0}
                               /\ Next2 = 0 <=> Tail(dq_items) = <<>>
                               /\ Next2 # 0 => Head(Tail(dq_items)) = Next2 /\ Len(dq_items) >= 2
         /\ dq_items = <<>> => Len(dq_items) = 0
PROOF
  <1>1. dq_items \in Seq(Blocks)
    BY DEF Types
  <1>2. Len(dq_items) \in Nat /\ (dq_items = <<>> => Len(dq_items) = 0)
        /\ \A i \in 1..Len(dq_items) : dq_items[i] \in Blocks
    BY <1>1
  <1>3. ASSUME dq_items # <<>>
        PROVE  /\ Len(dq_items) >= 1 /\ Head(dq_items) = dq_items[1] /\ Head(dq_items) \in Blocks
               /\ Tail(dq_items) \in Seq(Blocks) /\ Len(Tail(dq_items)) = Len(dq_items) - 1
               /\ \A i \in 1..(Len(dq_items) - 1) : Tail(dq_items)[i] = dq_items[i + 1]
    BY <1>1, <1>3
  <1>4. ASSUME dq_items # <<>>
        PROVE  /\ Next2 \in Blocks \union {0}
               /\ Next2 = 0 <=> Tail(dq_items) = <<>>
               /\ Next2 # 0 => Head(Tail(dq_items)) = Next2 /\ Len(dq_items) >= 2
    <2>1. CASE Len(dq_items) = 1
      <3>1. Next2 = 0 /\ Len(Tail(dq_items)) = 0 /\ Tail(dq_items) \in Seq(Blocks)
        BY <1>3, <1>4, <2>1 DEF Next2
      <3>. QED
        BY <3>1, EmptySeq
    <2>2. CASE Len(dq_items) # 1
      <3>1. Len(dq_items) >= 2 /\ Next2 = dq_items[2] /\ dq_items[2] \in Blocks
        <4>1. Len(dq_items) >= 2
          <5>1. Len(dq_items) \in Nat /\ Len(dq_items) >= 1
            BY <1>2, <1>3, <1>4
          <5>. QED
            BY <2>2, <5>1
        <4>2. 2 \in 1..Len(dq_items)
          BY <1>2, <4>1
        <4>. QED
          BY <1>2, <2>2, <4>1, <4>2 DEF Next2
      <3>2. Tail(dq_items) \in Seq(Blocks) /\ Len(Tail(dq_items)) >= 1 /\ Tail(dq_items)[1] = dq_items[2]
        BY <1>2, <1>3, <1>4, <3>1
      <3>3. Tail(dq_items) # <<>> /\ Head(Tail(dq_items)) = dq_items[2]
        BY <3>2
      <3>. QED
        BY <3>1, <3>3, Constants
    <2>. QED
      BY <2>1, <2>2
  <1>. QED
    BY <1>2, <1>3, <1>4

\* One bit of the word changes.
LEMMA WordBits ==
  ASSUME Types, NEW s \in WordRange, NEW x \in BOOLEAN
  PROVE  /\ [s EXCEPT !.ib = x] \in WordRange /\ [s EXCEPT !.d = x] \in WordRange
         /\ [s EXCEPT !.e = x] \in WordRange /\ [s EXCEPT !.q = x] \in WordRange
BY DEF WordRange

\* The larger operators on the word.
LEMMA WordTypesMore ==
  ASSUME Types, NEW s \in WordRange, NEW t \in Threads
  PROVE  /\ \A o \in [ib : BOOLEAN, w : Int], next \in Blocks \union {0} :
              Closed(s, o, next, t) \in WordRange /\ Narrowed(s, o, next) \in WordRange
         /\ \A w \in Int : Upgraded(s, w) \in WordRange
PROOF
  <1>1. dq_width \in Int
    BY Constants DEF Types
  <1>2. ASSUME NEW o \in [ib : BOOLEAN, w : Int], NEW next \in Blocks \union {0}
        PROVE  Closed(s, o, next, t) \in WordRange
    <2>. DEFINE free == Release(s, o)
                kept == IF dq_width > 1 /\ Barrier(next) THEN Reserve(free) ELSE free
    <2>1. free \in WordRange
      BY WordTypes
    <2>2. kept \in WordRange
      BY <2>1, WordTypes
    <2>3. [free EXCEPT !.d = FALSE] \in WordRange /\ [kept EXCEPT !.d = TRUE] \in WordRange
      BY <2>1, <2>2, WordBits
    <2>4. s.d \in BOOLEAN
      BY DEF WordRange
    <2>5. TryFullLock([kept EXCEPT !.d = TRUE], s.d, t) \in WordRange
      BY <2>3, <2>4, WordTypes
    <2>. QED
      BY <2>3, <2>5 DEF Closed
  <1>3. ASSUME NEW o \in [ib : BOOLEAN, w : Int], NEW next \in Blocks \union {0}
        PROVE  Narrowed(s, o, next) \in WordRange
    <2>. DEFINE free == [Release(s, o) EXCEPT !.e = FALSE, !.d = TRUE]
                kept == IF dq_width > 1 /\ Barrier(next) THEN Reserve(free) ELSE free
    <2>1. Release(s, o) \in WordRange
      BY WordTypes
    <2>2. free \in WordRange
      BY <2>1 DEF WordRange
    <2>3. kept \in WordRange
      BY <2>2, WordTypes
    <2>4. Runnable(kept) \in BOOLEAN
      BY DEF Runnable
    <2>5. [kept EXCEPT !.e = Runnable(kept)] \in WordRange
      BY <2>3, <2>4, WordBits
    <2>. QED
      BY <2>5 DEF Narrowed
  <1>4. ASSUME NEW w \in Int PROVE Upgraded(s, w) \in WordRange
    <2>. DEFINE free == Take(s, -w)
                kept == IF s.pb THEN free ELSE Reserve(free)
                new == IF Runnable(kept) THEN [Take(kept, 1) EXCEPT !.ib = TRUE, !.pb = FALSE] ELSE kept
    <2>1. free \in WordRange
      BY WordTypes
    <2>2. kept \in WordRange
      BY <2>1, WordTypes
    <2>3. Take(kept, 1) \in WordRange
      BY <2>2, WordTypes
    <2>4. new \in WordRange
      <3>1. \A x \in WordRange : [x EXCEPT !.ib = TRUE, !.pb = FALSE] \in WordRange
        BY DEF WordRange
      <3>. QED
        BY <2>2, <2>3, <3>1
    <2>5. [new EXCEPT !.d = FALSE] \in WordRange
      BY <2>4, WordBits
    <2>. QED
      BY <2>5 DEF Upgraded
  <1>. QED
    BY <1>2, <1>3, <1>4

\* What the word is after each step that changes it.
LEMMA WordStep ==
  ASSUME Inv, NEW t \in Threads, Acts(t)
  PROVE  dq_state' \in WordRange
PROOF
  <1>. USE DEF list, target, locals, calls
  <1>1. dq_state \in WordRange
    BY DEF Inv, Types, WordRange
  <1>2. Types /\ own[t] \in [ib : BOOLEAN, w : Int] /\ dc[t] \in Blocks \union {0} /\ own[t].w \in Int
    BY DEF Inv, Types
  <1>3. dq_state.d \in BOOLEAN /\ dq_state.q \in BOOLEAN /\ dq_state.pb \in BOOLEAN
    BY DEF Inv, Types
  <1>4. ASSUME \/ AsyncTry(t) \/ SyncTry(t) \/ BarrierTry(t)
        PROVE  dq_state' \in WordRange
    BY <1>1, <1>2, <1>4, WordTypes DEF AsyncTry, SyncTry, BarrierTry
  <1>5. ASSUME Wakeup(t) PROVE dq_state' \in WordRange
    BY <1>1, <1>2, <1>5, WordTypes DEF Wakeup
  <1>6. ASSUME OverrideLast(t) \/ MergeQos(t) PROVE dq_state' \in WordRange
    BY <1>1, <1>2, <1>6, WordBits DEF OverrideLast, MergeQos
  <1>7. ASSUME PushWaiter(t) PROVE dq_state' \in WordRange
    <2>1. [FullLock(dq_state, t) EXCEPT !.q = TRUE] \in WordRange
      BY <1>1, <1>2, WordTypes, WordBits
    <2>2. [dq_state EXCEPT !.d = TRUE] \in WordRange
      BY <1>1, <1>2, WordBits
    <2>3. [[dq_state EXCEPT !.d = TRUE] EXCEPT !.q = TRUE] \in WordRange
      BY <2>2, <1>2, WordBits
    <2>. QED
      BY <1>7, <2>1, <2>3 DEF PushWaiter
  <1>8. ASSUME NonBarrierComplete(t) PROVE dq_state' \in WordRange
    BY <1>1, <1>2, <1>8, WordTypes DEF NonBarrierComplete
  <1>9. ASSUME Unlock(t) \/ BarrierRelease(t) \/ BarrierRequeue(t) PROVE dq_state' \in WordRange
    <2>1. dq_width \in Int
      BY <1>2, Constants DEF Types
    <2>2. Release(dq_state, [ib |-> TRUE, w |-> 1]) \in WordRange
      <3>1. [ib |-> TRUE, w |-> 1] \in [ib : BOOLEAN, w : Int]
        OBVIOUS
      <3>. QED
        BY <1>1, <1>2, <3>1, WordTypes
    <2>3. Release(dq_state, Everything) \in WordRange
      BY <1>1, <1>2, <2>1, WordTypes DEF Everything
    <2>4. /\ [Release(dq_state, Everything) EXCEPT !.q = FALSE] \in WordRange
          /\ [Release(dq_state, Everything) EXCEPT !.e = TRUE] \in WordRange
          /\ [dq_state EXCEPT !.d = FALSE] \in WordRange
      BY <1>1, <1>2, <2>3, WordBits
    <2>. QED
      BY <1>1, <1>9, <2>2, <2>4 DEF Unlock, BarrierRelease, BarrierRequeue
  <1>10. ASSUME TransferLock(t) PROVE dq_state' \in WordRange
    <2>1. dc[t] \in Blocks
      BY <1>10 DEF TransferLock, Inv, Listing, TransferAt, Transfers
    <2>. QED
      BY <1>1, <1>2, <1>10, <2>1, WordTypes DEF TransferLock
  <1>11. ASSUME Open(t) \/ DrainDrop(t) PROVE dq_state' \in WordRange
    BY <1>1, <1>2, <1>11, WordBits DEF Open, DrainDrop
  <1>12. ASSUME GiveReserve(t) \/ DrainReserve(t) PROVE dq_state' \in WordRange
    <2>1. Take(dq_state, 1) \in WordRange
      BY <1>1, <1>2, WordTypes
    <2>. QED
      BY <1>1, <1>12, <2>1 DEF GiveReserve, DrainReserve, TakeMore
  <1>13. ASSUME Close(t) PROVE dq_state' \in WordRange
    <2>1. Closed(dq_state, own[t], dc[t], t) \in WordRange
      BY <1>1, <1>2, WordTypesMore
    <2>2. [dq_state EXCEPT !.d = FALSE] \in WordRange
      BY <1>1, <1>2, WordBits
    <2>. QED
      BY <1>13, <2>1, <2>2 DEF Close
  <1>14. ASSUME DrainTryLock(t) PROVE dq_state' \in WordRange
    <2>1. (dq_state.pb \/ dq_state.used = 0) \in BOOLEAN
      OBVIOUS
    <2>2. [FullLock(dq_state, t) EXCEPT !.ib = dq_state.pb \/ dq_state.used = 0] \in WordRange
      BY <1>1, <1>2, <2>1, WordTypes, WordBits
    <2>3. [dq_state EXCEPT !.e = FALSE] \in WordRange
      BY <1>1, <1>2, WordBits
    <2>. QED
      BY <1>14, <2>2, <2>3 DEF DrainTryLock
  <1>15. ASSUME DrainUpgrade(t) PROVE dq_state' \in WordRange
    BY <1>1, <1>2, <1>15, WordTypesMore DEF DrainUpgrade
  <1>16. ASSUME DrainNarrow(t) PROVE dq_state' \in WordRange
    <2>1. Head(dq_items) \in Blocks
      BY <1>2, <1>16, ListFacts DEF DrainNarrow, HeadLinked
    <2>. QED
      BY <1>1, <1>2, <1>16, <2>1, WordTypesMore DEF DrainNarrow
  <1>17. ASSUME DrainUnlock(t) PROVE dq_state' \in WordRange
    <2>1. Release(dq_state, own[t]) \in WordRange
      BY <1>1, <1>2, WordTypes
    <2>2. \A x, y, z \in BOOLEAN : [Release(dq_state, own[t]) EXCEPT !.e = x, !.d = y, !.q = z] \in WordRange
      BY <2>1 DEF WordRange
    <2>3. (pc[t] = "drain_stop") \in BOOLEAN /\ (Release(dq_state, own[t]).q /\ pc[t] = "drain_stop") \in BOOLEAN
      BY <2>1 DEF WordRange
    <2>4. [dq_state EXCEPT !.d = FALSE] \in WordRange
      BY <1>1, <1>2, WordBits
    <2>. QED
      BY <1>17, <2>2, <2>3, <2>4 DEF DrainUnlock
  <1>18. ASSUME UNCHANGED dq_state PROVE dq_state' \in WordRange
    BY <1>1, <1>18
  <1>19. CASE (t \in Blocks /\ Call(t)) \/ NestedCall(t)
    BY <1>18, <1>19 DEF Call, NestedCall, Submit
  <1>20. CASE \/ AsyncProbe(t) \/ SyncProbe(t) \/ Prepare(t) \/ PushTail(t) \/ NeedOverride(t) \/ PushLink(t)
              \/ PushHead(t) \/ WakeupProbe(t)
    BY <1>18, <1>20 DEF AsyncProbe, SyncProbe, Prepare, PushTail, NeedOverride, PushLink, PushHead, WakeupProbe
  <1>21. CASE \/ Wait(t) \/ Return(t) \/ UnlockProbe(t) \/ BarrierComplete(t) \/ PopWaiter(t) \/ Give(t) \/ Reload(t)
    BY <1>18, <1>21 DEF Wait, Return, UnlockProbe, BarrierComplete, PopWaiter, HandOver, Give, Reload
  <1>22. CASE \/ Redirected(t) \/ PopLane(t) \/ Drain(t) \/ DrainWaiter(t) \/ DrainBarrier(t) \/ DrainGive(t)
              \/ DrainProbe(t)
    BY <1>18, <1>22 DEF Redirected, PopLane, Drain, DrainWaiter, HandOver, DrainBarrier, DrainGive, DrainProbe
  <1>. QED
    BY <1>4, <1>5, <1>6, <1>7, <1>8, <1>9, <1>10, <1>11, <1>12, <1>13, <1>14, <1>15, <1>16, <1>17,
       <1>19, <1>20, <1>21, <1>22 DEF Acts, Step

\* Where the threads are.
Control == /\ pc \in [Threads -> Labels] /\ stack \in [Threads -> Seq(Frames)]
           /\ then \in [Threads -> {"return", "wait"}] /\ returned \subseteq Blocks

\* The labels and the frames keep their ranges ...
LEMMA ControlStep ==
  ASSUME Inv, NEW t \in Threads, Acts(t)
  PROVE  Control'
PROOF
  <1>. USE DEF list, target, locals, calls
  <1>1. Types /\ FrameAt(t) /\ LiveAt(t)
    BY DEF Inv, Threading, ThreadAt
  <1>2. ASSUME (\E label \in Labels : Goto(t, label)) \/ UNCHANGED pc, UNCHANGED <<stack, then, returned>>
        PROVE  Control'
    <2>1. ASSUME NEW label \in Labels, Goto(t, label) PROVE pc' \in [Threads -> Labels]
      BY <1>1, <2>1 DEF Types, Goto
    <2>2. pc' \in [Threads -> Labels]
      BY <1>1, <1>2, <2>1 DEF Types
    <2>. QED
      BY <1>1, <1>2, <2>2 DEF Types, Control
  <1>3. ASSUME Leave(t) \/ Complete(t) PROVE Control'
    BY <1>1, <1>3, LeaveTypes DEF Types, Control
  <1>4. ASSUME NEW b \in Blocks, NEW frames \in Seq(Frames),
               NEW after \in {"uncount", "unlock_probe", "complete", "drain_probe", "drain_more"},
               Run(t, b, frames, after), UNCHANGED <<then, returned>>
        PROVE  Control'
    BY <1>1, <1>4, RunTypes DEF Types, Control
  <1>5. ASSUME NEW b \in Blocks, NEW k \in AllKinds, Submit(t, b, k) PROVE Control'
    <2>1. Entry(k) \in Labels
      BY DEF Entry, AllKinds, Labels
    <2>2. [block |-> b, after |-> "none"] \in Frames
      BY DEF Frames
    <2>3. <<[block |-> b, after |-> "none"]>> \o stack[t] \in Seq(Frames)
      BY <1>1, <2>2, OnTop, StackFacts
    <2>. QED
      BY <1>1, <1>5, <2>1, <2>3 DEF Submit, Goto, Types, Control
  <1>6. CASE (t \in Blocks /\ Call(t)) \/ NestedCall(t)
    BY <1>5, <1>6, Constants DEF Call, NestedCall, Distinct, AllKinds
  <1>7. CASE AsyncTry(t)
    <2>1. CASE CanAcquireAsync(dq_state)
      BY <1>3, <1>7, <2>1 DEF AsyncTry
    <2>2. CASE ~CanAcquireAsync(dq_state)
      BY <1>2, <1>7, <2>2 DEF AsyncTry, Labels
    <2>. QED
      BY <2>1, <2>2
  <1>8. CASE AsyncProbe(t) \/ SyncProbe(t) \/ Prepare(t) \/ NeedOverride(t)
    BY <1>2, <1>8 DEF AsyncProbe, SyncProbe, Prepare, NeedOverride, Labels
  <1>9. CASE SyncTry(t) \/ BarrierTry(t) \/ Wait(t)
    <2>1. Current(t) \in Blocks /\ Tail(stack[t]) \in Seq(Frames)
      BY <1>1, <1>9, HasBlock, StackFacts DEF SyncTry, BarrierTry, Wait, At, DrainPcs
    <2>2. ASSUME NEW after \in {"uncount", "unlock_probe", "complete"}, Enter(t, after), UNCHANGED <<then, returned>>
          PROVE  Control'
      BY <1>4, <2>1, <2>2 DEF Enter
    <2>3. CASE SyncTry(t)
      BY <1>2, <2>2, <2>3 DEF SyncTry, Labels
    <2>4. CASE BarrierTry(t)
      BY <1>2, <2>2, <2>4 DEF BarrierTry, Labels
    <2>5. CASE Wait(t)
      BY <2>2, <2>5 DEF Wait
    <2>. QED
      BY <1>9, <2>3, <2>4, <2>5
  <1>10. CASE PushTail(t)
    BY <1>2, <1>10 DEF PushTail, Labels
  <1>11. CASE PushLink(t)
    BY <1>2, <1>3, <1>11 DEF PushLink, Labels
  <1>12. CASE PushHead(t) \/ WakeupProbe(t) \/ MergeQos(t)
    BY <1>2, <1>12 DEF PushHead, WakeupProbe, MergeQos, Labels
  <1>13. CASE Wakeup(t) \/ OverrideLast(t)
    BY <1>3, <1>13 DEF Wakeup, OverrideLast
  <1>14. CASE PushWaiter(t)
    BY <1>1, <1>14 DEF PushWaiter, Goto, Types, Labels, Control
  <1>15. CASE Return(t)
    <2>1. stack[t] # <<>> /\ Head(stack[t]) \in Frames /\ Tail(stack[t]) \in Seq(Frames)
      BY <1>1, <1>15, HasBlock, StackFacts DEF Return, At, DrainPcs
    <2>2. Head(stack[t]).after \in Labels
      BY <1>1, <1>15, <2>1, LiveFacts DEF Return, At, LiveAt, Labels, Exclusive
    <2>. QED
      BY <1>1, <1>15, <2>1, <2>2 DEF Return, Goto, Types, Control
  <1>16. CASE NonBarrierComplete(t) \/ Close(t)
    BY <1>2, <1>3, <1>16 DEF NonBarrierComplete, Close, CompleteNonBarrier, Labels
  <1>17. CASE UnlockProbe(t) \/ BarrierComplete(t)
    BY <1>2, <1>17 DEF UnlockProbe, BarrierComplete, Labels
  <1>18. CASE Unlock(t) \/ BarrierRelease(t) \/ BarrierRequeue(t) \/ TransferLock(t)
    BY <1>2, <1>3, <1>18 DEF Unlock, BarrierRelease, BarrierRequeue, TransferLock, Labels
  <1>19. CASE PopWaiter(t) \/ DrainWaiter(t)
    BY <1>2, <1>19 DEF PopWaiter, DrainWaiter, HandOver, Labels
  <1>20. CASE Open(t) \/ GiveReserve(t) \/ Give(t) \/ Reload(t) \/ DrainReserve(t) \/ DrainGive(t)
    BY <1>2, <1>20 DEF Open, GiveReserve, TakeMore, Give, Reload, DrainReserve, DrainGive, Labels
  <1>21. CASE Redirected(t)
    BY <1>1, <1>4, <1>21, EmptySeq DEF Redirected, Types
  <1>22. CASE PopLane(t) \/ DrainTryLock(t) \/ Drain(t) \/ DrainUpgrade(t) \/ DrainDrop(t)
    BY <1>2, <1>22 DEF PopLane, DrainTryLock, Drain, DrainUpgrade, DrainDrop, Labels
  <1>23. CASE DrainBarrier(t)
    <2>1. Head(dq_items) \in Blocks
      BY <1>1, <1>23, ListFacts DEF DrainBarrier, Draining, HeadLinked
    <2>. QED
      BY <1>4, <1>23, <2>1, EmptySeq DEF DrainBarrier
  <1>24. CASE DrainProbe(t) \/ DrainNarrow(t) \/ DrainUnlock(t)
    BY <1>2, <1>24 DEF DrainProbe, DrainNarrow, DrainUnlock, Labels
  <1>. QED
    BY <1>6, <1>7, <1>8, <1>9, <1>10, <1>11, <1>12, <1>13, <1>14, <1>15, <1>16, <1>17, <1>18, <1>19, <1>20,
       <1>21, <1>22, <1>23, <1>24 DEF Acts, Step

\* What is known of the blocks.
Known == /\ root \subseteq Blocks /\ events \subseteq Blocks
         /\ kind \in [Blocks -> Kinds \union {"none"}]
         /\ caller \in [Blocks -> Threads \union {NoThread}]
         /\ status \in [Blocks -> {"new", "called", "ready", "running", "done"}]
         /\ prior \in [Blocks -> SUBSET Blocks]

\* ... and so does what is known of the blocks ...
LEMMA BlockStep ==
  ASSUME Inv, NEW t \in Threads, Acts(t)
  PROVE  Known'
PROOF
  <1>. USE DEF list, target, locals, calls
  <1>1. Types /\ FrameAt(t)
    BY DEF Inv, Threading, ThreadAt
  <1>2. ASSUME UNCHANGED <<root, events, kind, caller, status, prior>> PROVE Known'
    BY <1>1, <1>2 DEF Types, Known
  <1>3. ASSUME NEW b \in Blocks, Dispatch(b), UNCHANGED <<kind, caller, prior>> PROVE Known'
    BY <1>1, <1>3 DEF Types, Dispatch, Known
  <1>4. ASSUME NEW b \in Blocks, status' = [status EXCEPT ![b] = "running"],
               UNCHANGED <<kind, caller, prior>>, root' \subseteq root, events' \subseteq events
        PROVE  Known'
    BY <1>1, <1>4 DEF Types, Known
  <1>5. ASSUME NEW b \in Blocks, NEW k \in Kinds, Submit(t, b, k) PROVE Known'
    BY <1>1, <1>5 DEF Submit, Types, Known
  <1>6. pc[t] \notin {"idle"} \union DrainPcs => Current(t) \in Blocks
    BY <1>1, HasBlock
  <1>7. CASE (t \in Blocks /\ Call(t)) \/ NestedCall(t)
    BY <1>5, <1>7 DEF Call, NestedCall, Distinct
  <1>8. CASE AsyncTry(t)
    BY <1>2, <1>3, <1>6, <1>8 DEF AsyncTry, At, DrainPcs
  <1>9. CASE SyncTry(t) \/ BarrierTry(t) \/ Wait(t)
    BY <1>2, <1>4, <1>6, <1>9 DEF SyncTry, BarrierTry, Wait, Enter, Run, At, DrainPcs
  <1>10. CASE AsyncProbe(t) \/ SyncProbe(t) \/ Prepare(t) \/ PushTail(t) \/ NeedOverride(t)
              \/ PushLink(t) \/ PushHead(t) \/ WakeupProbe(t)
    BY <1>2, <1>10 DEF AsyncProbe, SyncProbe, Prepare, PushTail, NeedOverride, PushLink, PushHead, WakeupProbe
  <1>11. CASE Wakeup(t) \/ OverrideLast(t) \/ MergeQos(t) \/ PushWaiter(t)
    BY <1>2, <1>11 DEF Wakeup, OverrideLast, MergeQos, PushWaiter
  <1>12. CASE Return(t)
    BY <1>1, <1>6, <1>12 DEF Return, At, DrainPcs, Types, Known
  <1>13. CASE NonBarrierComplete(t) \/ UnlockProbe(t) \/ Unlock(t) \/ BarrierComplete(t) \/ BarrierRelease(t)
              \/ BarrierRequeue(t) \/ PopWaiter(t) \/ DrainWaiter(t)
    BY <1>2, <1>13 DEF NonBarrierComplete, UnlockProbe, Unlock, BarrierComplete, BarrierRelease, BarrierRequeue,
       PopWaiter, DrainWaiter, HandOver
  <1>14. CASE TransferLock(t)
    <2>1. dc[t] \in Blocks
      BY <1>14 DEF TransferLock, Inv, Listing, TransferAt, Transfers
    <2>. QED
      BY <1>1, <1>14, <2>1 DEF TransferLock, Types, Known
  <1>15. CASE Open(t) \/ GiveReserve(t) \/ Close(t) \/ Reload(t) \/ DrainReserve(t)
    BY <1>2, <1>15 DEF Open, GiveReserve, Close, Reload, DrainReserve
  <1>16. CASE Give(t) \/ DrainGive(t) \/ DrainBarrier(t)
    <2>1. Head(dq_items) \in Blocks
      BY <1>1, <1>16, ListFacts DEF Give, DrainGive, DrainBarrier, CanPop, HeadLinked
    <2>. QED
      BY <1>3, <1>4, <1>16, <2>1 DEF Give, DrainGive, DrainBarrier, Run
  <1>17. CASE Redirected(t)
    BY <1>1, <1>4, <1>17 DEF Redirected, Run, Types
  <1>18. CASE PopLane(t) \/ DrainTryLock(t) \/ Drain(t) \/ DrainUpgrade(t) \/ DrainDrop(t)
    BY <1>2, <1>18 DEF PopLane, DrainTryLock, Drain, DrainUpgrade, DrainDrop
  <1>19. CASE DrainProbe(t) \/ DrainNarrow(t) \/ DrainUnlock(t)
    BY <1>2, <1>19 DEF DrainProbe, DrainNarrow, DrainUnlock
  <1>. QED
    BY <1>7, <1>8, <1>9, <1>10, <1>11, <1>12, <1>13, <1>14, <1>15, <1>16, <1>17, <1>18, <1>19 DEF Acts, Step

\* The list, and what the drainers keep.
Kept == /\ dq_items \in Seq(Blocks) /\ linked \subseteq Blocks /\ pushes \in Nat
        /\ own \in [Threads -> [ib : BOOLEAN, w : Int]] /\ dc \in [Threads -> Blocks \union {0}]
        /\ crash \in BOOLEAN

\* ... and the list, the root queue and what the threads own.
LEMMA KeptStep ==
  ASSUME Inv, NEW t \in Threads, Acts(t)
  PROVE  Kept'
PROOF
  <1>. USE DEF list, target, locals, calls
  <1>1. Types /\ FrameAt(t) /\ Kept
    BY DEF Inv, Threading, ThreadAt, Types, Kept
  <1>2. dq_width \in Int /\ own[t].w \in Int /\ own[t].ib \in BOOLEAN /\ dq_state.used \in Int /\ dq_state.ib' \in BOOLEAN
    BY <1>1, Constants, WordStep DEF Types, WordRange
  <1>3. ASSUME NEW ib \in BOOLEAN, NEW w \in Int, Own(t, ib, w) PROVE own' \in [Threads -> [ib : BOOLEAN, w : Int]]
    BY <1>1, <1>3 DEF Own, Kept
  <1>30. \A ib \in BOOLEAN, w \in Int : Own(t, ib, w) => own' \in [Threads -> [ib : BOOLEAN, w : Int]]
    BY <1>3
  <1>31. Own(t, FALSE, 0) \/ Own(t, FALSE, 1) \/ Own(t, FALSE, dq_width) \/ own' = own
           => own' \in [Threads -> [ib : BOOLEAN, w : Int]]
    <2>1. FALSE \in BOOLEAN /\ 0 \in Int /\ 1 \in Int
      OBVIOUS
    <2>2. Own(t, FALSE, 0) => own' \in [Threads -> [ib : BOOLEAN, w : Int]]
      BY <1>3, <2>1
    <2>3. Own(t, FALSE, 1) => own' \in [Threads -> [ib : BOOLEAN, w : Int]]
      BY <1>3, <2>1
    <2>4. Own(t, FALSE, dq_width) => own' \in [Threads -> [ib : BOOLEAN, w : Int]]
      BY <1>2, <1>3, <2>1
    <2>. QED
      BY <1>1, <2>2, <2>3, <2>4 DEF Kept
  <1>4. ASSUME Enqueue(dq_state, dq_state') PROVE pushes' \in Nat
    BY <1>1, <1>4 DEF Enqueue, Kept
  <1>5. ASSUME NEW b \in Blocks \union {0}, dc' = [dc EXCEPT ![t] = b] PROVE dc' \in [Threads -> Blocks \union {0}]
    BY <1>1, <1>5 DEF Kept
  <1>6. HeadLinked => Head(dq_items) \in Blocks /\ Next2 \in Blocks \union {0}
    BY <1>1, ListFacts DEF HeadLinked
  <1>7. ASSUME Pop, CanPop PROVE dq_items' \in Seq(Blocks) /\ linked' \subseteq Blocks
    BY <1>1, <1>7, ListFacts DEF Kept, Pop, CanPop, HeadLinked
  <1>8. pc[t] \notin {"idle"} \union DrainPcs => Current(t) \in Blocks
    BY <1>1, HasBlock
  <1>9. ASSUME UNCHANGED <<dq_items, linked, pushes, own, dc, crash>> PROVE Kept'
    BY <1>1, <1>9 DEF Kept
  <1>10. CASE (t \in Blocks /\ Call(t)) \/ NestedCall(t)
    BY <1>9, <1>10 DEF Call, NestedCall, Submit
  <1>11. CASE \/ AsyncProbe(t) \/ AsyncTry(t) \/ SyncProbe(t) \/ SyncTry(t) \/ BarrierTry(t)
              \/ NeedOverride(t) \/ WakeupProbe(t) \/ OverrideLast(t) \/ MergeQos(t) \/ PushWaiter(t)
    BY <1>9, <1>11 DEF AsyncProbe, AsyncTry, SyncProbe, SyncTry, BarrierTry, NeedOverride, WakeupProbe,
       OverrideLast, MergeQos, PushWaiter
  <1>12. CASE Prepare(t)
    BY <1>1, <1>12 DEF Prepare, Kept
  <1>13. CASE PushTail(t)
    <2>1. Append(dq_items, Current(t)) \in Seq(Blocks)
      BY <1>1, <1>8, <1>13, AppendProperties DEF PushTail, At, DrainPcs, Kept
    <2>. QED
      BY <1>1, <1>13, <2>1 DEF PushTail, Kept
  <1>14. CASE PushLink(t) \/ PushHead(t)
    BY <1>1, <1>8, <1>14 DEF PushLink, PushHead, At, DrainPcs, Kept
  <1>15. CASE Wakeup(t) \/ NonBarrierComplete(t) \/ BarrierRequeue(t)
    BY <1>1, <1>4, <1>15 DEF Wakeup, NonBarrierComplete, CompleteNonBarrier, BarrierRequeue, Kept
  <1>16. CASE Wait(t) \/ Return(t) \/ UnlockProbe(t) \/ Unlock(t) \/ BarrierComplete(t) \/ BarrierRelease(t)
    BY <1>9, <1>16 DEF Wait, Return, UnlockProbe, Unlock, BarrierComplete, BarrierRelease
  <1>17. CASE PopWaiter(t) \/ DrainWaiter(t)
    BY <1>1, <1>5, <1>6, <1>7, <1>17 DEF PopWaiter, DrainWaiter, HandOver, CanPop, Kept
  <1>18. CASE TransferLock(t)
    BY <1>1, <1>31, <1>5, <1>18 DEF TransferLock, Kept
  <1>19. CASE Open(t)
    <2>1. Head(dq_items) \in Blocks
      BY <1>1, <1>19, ListFacts DEF Open, At, Inv, Locking, OwnerAt
    <2>. QED
      BY <1>1, <1>2, <1>3, <1>5, <1>19, <2>1 DEF Open, Kept
  <1>20. CASE GiveReserve(t) \/ DrainReserve(t)
    BY <1>1, <1>31, <1>20 DEF GiveReserve, DrainReserve, TakeMore, Kept
  <1>21. CASE Give(t) \/ DrainGive(t)
    <2>1. own[t].w - 1 \in Int
      BY <1>2
    <2>2. own' \in [Threads -> [ib : BOOLEAN, w : Int]]
      BY <1>3, <1>21, <2>1 DEF Give, DrainGive
    <2>3. dq_items' \in Seq(Blocks) /\ linked' \subseteq Blocks
      BY <1>7, <1>21 DEF Give, DrainGive
    <2>4. dc' \in [Threads -> Blocks \union {0}]
      BY <1>1, <1>5, <1>6, <1>21 DEF Give, DrainGive, CanPop, Kept
    <2>. QED
      BY <1>1, <1>21, <2>2, <2>3, <2>4 DEF Give, DrainGive, Kept
  <1>22. CASE Close(t)
    BY <1>1, <1>31, <1>4, <1>5, <1>22 DEF Close, CompleteNonBarrier, Kept
  <1>23. CASE Reload(t)
    BY <1>1, <1>5, <1>6, <1>23 DEF Reload, Kept
  <1>24. CASE Redirected(t) \/ DrainProbe(t)
    BY <1>9, <1>24 DEF Redirected, DrainProbe
  <1>25. CASE PopLane(t)
    BY <1>1, <1>25 DEF PopLane, Kept
  <1>26. CASE DrainTryLock(t)
    <2>1. dq_width - dq_state.used \in Int /\ (dq_state.pb \/ dq_state.used = 0) \in BOOLEAN
      BY <1>2
    <2>2. own' \in [Threads -> [ib : BOOLEAN, w : Int]]
      BY <1>1, <1>3, <1>26, <2>1 DEF DrainTryLock, Kept
    <2>. QED
      BY <1>1, <1>26, <2>2 DEF DrainTryLock, Kept
  <1>27. CASE Drain(t) \/ DrainUpgrade(t) \/ DrainDrop(t)
    <2>1. own' \in [Threads -> [ib : BOOLEAN, w : Int]]
      <3>1. CASE Drain(t)
        <4>1. (IF own[t].ib THEN dq_width ELSE own[t].w) \in Int
          BY <1>2
        <4>. QED
          BY <1>2, <1>30, <1>31, <3>1, <4>1 DEF Drain
      <3>2. CASE DrainUpgrade(t)
        <4>1. (IF dq_state'.ib THEN dq_width ELSE 0) \in Int /\ dq_state'.ib \in BOOLEAN
          BY <1>2, WordStep DEF WordRange
        <4>. QED
          BY <1>30, <3>2, <4>1 DEF DrainUpgrade
      <3>3. CASE DrainDrop(t)
        BY <1>31, <3>3 DEF DrainDrop
      <3>. QED
        BY <1>27, <3>1, <3>2, <3>3
    <2>. QED
      BY <1>1, <1>27, <2>1 DEF Drain, DrainUpgrade, DrainDrop, Kept
  <1>28. CASE DrainBarrier(t)
    BY <1>1, <1>7, <1>28 DEF DrainBarrier, Kept
  <1>29. CASE DrainNarrow(t) \/ DrainUnlock(t)
    <2>1. own' \in [Threads -> [ib : BOOLEAN, w : Int]]
      BY <1>31, <1>29 DEF DrainNarrow, DrainUnlock
    <2>2. pushes' \in Nat
      <3>1. pushes \in Nat /\ pushes + 1 \in Nat
        BY <1>1 DEF Kept
      <3>2. pushes' = pushes \/ pushes' = pushes + 1
        BY <1>29 DEF DrainNarrow, DrainUnlock
      <3>. QED
        BY <3>1, <3>2
    <2>. QED
      BY <1>1, <1>29, <2>1, <2>2 DEF DrainNarrow, DrainUnlock, Kept
  <1>. QED
    BY <1>10, <1>11, <1>12, <1>13, <1>14, <1>15, <1>16, <1>17, <1>18, <1>19, <1>20, <1>21, <1>22, <1>23, <1>24,
       <1>25, <1>26, <1>27, <1>28, <1>29 DEF Acts, Step

\* Every variable stays in its range.
LEMMA TypesStep ==
  ASSUME Inv, NEW t \in Threads, Acts(t), dq_width' = dq_width
  PROVE  Types'
PROOF
  <1>1. dq_width' \in Widths
    BY DEF Inv, Types
  <1>. QED
    BY <1>1, WordStep, ControlStep, BlockStep, KeptStep DEF Types, WordRange, Control, Known, Kept
-----------------------------------------------------------------------------
(***************************************************************************)
(* What a step does to the blocks: it calls, readies, starts or ends one.  *)
(***************************************************************************)
Calm == UNCHANGED <<status, kind, caller>>

Called(t, b) ==
  /\ status[b] = "new" /\ status' = [status EXCEPT ![b] = "called"]
  /\ \E k \in Kinds : kind' = [kind EXCEPT ![b] = k]
  /\ caller' = [caller EXCEPT ![b] = t]
  /\ stack'[t] # <<>> /\ Current(t)' = b

Readied(b) == status[b] = "called" /\ status' = [status EXCEPT ![b] = "ready"] /\ UNCHANGED <<kind, caller>>

Ran(b) ==
  status[b] \in {"called", "ready"} /\ status' = [status EXCEPT ![b] = "running"] /\ UNCHANGED <<kind, caller>>

Ended(t) ==
  /\ pc[t] = "body" /\ stack[t] # <<>> /\ Current(t) \in Blocks
  /\ status' = [status EXCEPT ![Current(t)] = "done"] /\ kind' = [kind EXCEPT ![Current(t)] = "none"]
  /\ UNCHANGED caller

\* No other thread is on its way to the list with block b, or waits for it.
NotPushed(t, b) == \A u \in Threads \ {t} : stack[u] # <<>> /\ Current(u) = b => pc[u] \notin Early \union Linking
NotWaited(t, b) == \A u \in Threads \ {t} : stack[u] # <<>> /\ Current(u) = b => ~Waiter(b)

Marks(t) ==
  \/ Calm
  \/ \E b \in Blocks : \/ Called(t, b)
                       \/ Readied(b) /\ NotPushed(t, b)
                       \/ Ran(b) /\ NotPushed(t, b) /\ NotWaited(t, b)
  \/ Ended(t)

\* What is said of a block that has been called changes when it runs or ends only.
LEMMA MarkFacts ==
  ASSUME Types, NEW t \in Threads, Marks(t), NEW b \in Blocks, status[b] # "new"
  PROVE  /\ status'[b] # "new" /\ caller'[b] = caller[b]
         /\ status[b] = "done" => status'[b] = "done"
         /\ ~(Ended(t) /\ b = Current(t)) => kind'[b] = kind[b] /\ (Waiter(b)' <=> Waiter(b))
         /\ ~(Ended(t) /\ b = Current(t)) /\ status[b] = "running" => status'[b] = "running"
PROOF
  <1>. DEFINE Goal == /\ status'[b] # "new" /\ caller'[b] = caller[b]
                      /\ status[b] = "done" => status'[b] = "done"
                      /\ ~(Ended(t) /\ b = Current(t)) => kind'[b] = kind[b]
                      /\ ~(Ended(t) /\ b = Current(t)) /\ status[b] = "running" => status'[b] = "running"
  <1>1. ASSUME Calm PROVE Goal
    BY <1>1 DEF Calm
  <1>2. ASSUME NEW c \in Blocks, Called(t, c) PROVE Goal
    BY <1>2 DEF Called, Types
  <1>3. ASSUME NEW c \in Blocks, Readied(c) PROVE Goal
    BY <1>3 DEF Readied, Types
  <1>4. ASSUME NEW c \in Blocks, Ran(c) PROVE Goal
    BY <1>4 DEF Ran, Types
  <1>5. ASSUME Ended(t), b = Current(t) PROVE Goal
    <2>1. status'[b] = "done" /\ caller'[b] = caller[b]
      BY <1>5 DEF Ended, Types
    <2>. QED
      BY <1>5, <2>1
  <1>6. ASSUME Ended(t), b # Current(t) PROVE Goal
    BY <1>6 DEF Ended, Types
  <1>7. Goal
    BY <1>1, <1>2, <1>3, <1>4, <1>5, <1>6 DEF Marks, Calm
  <1>8. kind'[b] = kind[b] => (Waiter(b)' <=> Waiter(b))
    BY DEF Waiter
  <1>. QED
    BY <1>7, <1>8

\* Only the thread that submits a block has it before it runs.
LEMMA CurrentOwner ==
  ASSUME Inv, NEW u \in Threads, stack[u] # <<>>, status[Current(u)] \in {"called", "ready"}
  PROVE  Submits(u) /\ caller[Current(u)] = u
PROOF
  <1>1. Types /\ FrameAt(u) /\ LiveAt(u) /\ CallAt(u) /\ FinishedAt(u)
    BY DEF Inv, Threading, ThreadAt
  <1>2. pc[u] # "body"
    BY <1>1, LiveFacts DEF LiveAt
  <1>3. Submits(u)
    <2>1. pc[u] \in Labels /\ pc[u] \notin {"idle"} \union DrainPcs
      BY <1>1 DEF FrameAt, Types
    <2>2. pc[u] \in Calling \/ pc[u] \in {"uncount"} \union Completing \union Giving
      BY <1>2, <2>1 DEF Labels, DrainPcs, Calling, Early, Linking, Waking, Waits, Completing, Giving
    <2>. QED
      BY <1>1, <2>2 DEF FinishedAt, Submits
  <1>. QED
    BY <1>1, <1>3 DEF CallAt

\* The head of the list is linked, and nobody pushes it any more.
LEMMA HeadFacts ==
  ASSUME Inv, NEW t \in Threads, HeadLinked
  PROVE  /\ Head(dq_items) \in Blocks /\ status[Head(dq_items)] = "called" /\ OnList(Head(dq_items))
         /\ NotPushed(t, Head(dq_items))
PROOF
  <1>1. Types /\ dq_items # <<>> /\ Head(dq_items) \in linked
    BY DEF Inv, HeadLinked
  <1>2. Head(dq_items) \in Blocks /\ OnList(Head(dq_items))
    BY <1>1, ListFacts DEF OnList
  <1>3. status[Head(dq_items)] = "called"
    BY <1>2 DEF Inv, Listing, PlaceAt
  <1>4. NotPushed(t, Head(dq_items))
    BY <1>1, <1>2 DEF NotPushed, Inv, Listing, ListAt
  <1>. QED
    BY <1>2, <1>3, <1>4

\* A block that a thread submits is with no other.
LEMMA OwnCall ==
  ASSUME Inv, NEW t \in Threads, stack[t] # <<>>, status[Current(t)] \in {"called", "ready"}
  PROVE  NotPushed(t, Current(t)) /\ NotWaited(t, Current(t))
BY CurrentOwner DEF NotPushed, NotWaited

\* Every step marks the blocks in one of the ways above: a block is called, made ready, run or ended.
LEMMA Marking ==
  ASSUME Inv, NEW t \in Threads, Acts(t)
  PROVE  Marks(t)
PROOF
  <1>. USE DEF list, target, locals, calls
  <1>1. Types /\ FrameAt(t) /\ LiveAt(t) /\ CallAt(t)
    BY DEF Inv, Threading, ThreadAt
  <1>2. pc[t] \notin {"idle"} \union DrainPcs => stack[t] # <<>> /\ Current(t) \in Blocks
    BY <1>1, HasBlock
  <1>3. ASSUME Calm PROVE Marks(t)
    BY <1>3 DEF Marks
  <1>4. ASSUME NEW b \in Blocks, NEW k \in Kinds, Submit(t, b, k) PROVE Marks(t)
    <2>1. [block |-> b, after |-> "none"] \in Frames
      BY DEF Frames
    <2>2. stack'[t] = <<[block |-> b, after |-> "none"]>> \o stack[t]
      BY <1>1, <1>4 DEF Submit, Types
    <2>3. stack'[t] # <<>> /\ Head(stack'[t]) = [block |-> b, after |-> "none"]
      BY <1>1, <2>1, <2>2, OnTop, StackFacts
    <2>5. Current(t)' = b
      BY <2>3 DEF Current
    <2>6. \E x \in Kinds : kind' = [kind EXCEPT ![b] = x]
      BY <1>4 DEF Submit
    <2>4. Called(t, b)
      BY <1>4, <2>3, <2>5, <2>6 DEF Submit, Called
    <2>. QED
      BY <2>4 DEF Marks
  <1>5. ASSUME NEW b \in Blocks, Readied(b), NotPushed(t, b) PROVE Marks(t)
    BY <1>5 DEF Marks
  <1>6. ASSUME NEW b \in Blocks, Ran(b), NotPushed(t, b), NotWaited(t, b) PROVE Marks(t)
    BY <1>6 DEF Marks
  <1>7. CASE (t \in Blocks /\ Call(t)) \/ NestedCall(t)
    BY <1>4, <1>7 DEF Call, NestedCall, Distinct
  <1>8. CASE AsyncTry(t)
    <2>1. pc[t] = "async_try" /\ stack[t] # <<>> /\ Current(t) \in Blocks /\ status[Current(t)] = "called"
      BY <1>1, <1>2, <1>8 DEF AsyncTry, At, DrainPcs, CallAt, Submits, Calling, Early
    <2>2. CASE CanAcquireAsync(dq_state)
      BY <1>5, <1>8, <2>1, <2>2, OwnCall DEF AsyncTry, Dispatch, Readied
    <2>3. CASE ~CanAcquireAsync(dq_state)
      BY <1>3, <1>8, <2>3 DEF AsyncTry, Calm
    <2>. QED
      BY <2>2, <2>3
  <1>9. CASE SyncTry(t) \/ BarrierTry(t) \/ Wait(t)
    <2>1. stack[t] # <<>> /\ Current(t) \in Blocks
      BY <1>2, <1>9 DEF SyncTry, BarrierTry, Wait, At, DrainPcs
    <2>2. status[Current(t)] \in {"called", "ready"}
      <3>1. CASE SyncTry(t) \/ BarrierTry(t)
        BY <1>1, <3>1 DEF SyncTry, BarrierTry, At, CallAt, Submits, Calling, Early
      <3>2. CASE Wait(t)
        BY <2>1, <3>2 DEF Wait, Inv, Listing, PlaceAt
      <3>. QED
        BY <1>9, <3>1, <3>2
    <2>3. NotPushed(t, Current(t)) /\ NotWaited(t, Current(t))
      BY <2>1, <2>2, OwnCall
    <2>4. ASSUME NEW after, Enter(t, after), UNCHANGED <<kind, caller>> PROVE Marks(t)
      BY <1>6, <2>1, <2>2, <2>3, <2>4 DEF Enter, Run, Ran
    <2>5. CASE SyncTry(t)
      BY <1>3, <2>4, <2>5 DEF SyncTry, Calm
    <2>6. CASE BarrierTry(t)
      BY <1>3, <2>4, <2>6 DEF BarrierTry, Calm
    <2>7. CASE Wait(t)
      BY <2>4, <2>7 DEF Wait
    <2>. QED
      BY <1>9, <2>5, <2>6, <2>7
  <1>10. CASE AsyncProbe(t) \/ SyncProbe(t) \/ Prepare(t) \/ PushTail(t) \/ NeedOverride(t)
              \/ PushLink(t) \/ PushHead(t) \/ WakeupProbe(t)
    BY <1>3, <1>10 DEF Calm, AsyncProbe, SyncProbe, Prepare, PushTail, NeedOverride, PushLink, PushHead, WakeupProbe
  <1>11. CASE Wakeup(t) \/ OverrideLast(t) \/ MergeQos(t) \/ PushWaiter(t)
    BY <1>3, <1>11 DEF Calm, Wakeup, OverrideLast, MergeQos, PushWaiter
  <1>12. CASE Return(t)
    BY <1>2, <1>12 DEF Return, At, DrainPcs, Ended, Marks
  <1>13. CASE NonBarrierComplete(t) \/ UnlockProbe(t) \/ Unlock(t) \/ BarrierComplete(t) \/ BarrierRelease(t)
              \/ BarrierRequeue(t) \/ PopWaiter(t) \/ DrainWaiter(t)
    BY <1>3, <1>13 DEF Calm, NonBarrierComplete, UnlockProbe, Unlock, BarrierComplete, BarrierRelease, BarrierRequeue,
       PopWaiter, DrainWaiter, HandOver
  <1>14. CASE TransferLock(t)
    <2>1. /\ dc[t] \in Blocks /\ Waiter(dc[t]) /\ status[dc[t]] = "called"
          /\ pc[caller[dc[t]]] \notin Early \union Linking
      BY <1>14 DEF TransferLock, Inv, Listing, TransferAt, Transfers
    <2>2. NotPushed(t, dc[t])
      BY <2>1, CurrentOwner DEF NotPushed
    <2>. QED
      BY <1>5, <1>14, <2>1, <2>2 DEF TransferLock, Readied
  <1>15. CASE Open(t) \/ GiveReserve(t) \/ Close(t) \/ Reload(t) \/ DrainReserve(t)
    BY <1>3, <1>15 DEF Calm, Open, GiveReserve, Close, Reload, DrainReserve
  <1>16. CASE Give(t) \/ DrainGive(t)
    <2>1. HeadLinked /\ Dispatch(Head(dq_items)) /\ UNCHANGED <<kind, caller>>
      BY <1>16 DEF Give, DrainGive, CanPop
    <2>. QED
      BY <1>5, <2>1, HeadFacts DEF Dispatch, Readied
  <1>17. CASE DrainBarrier(t)
    <2>1. HeadLinked /\ ~Waiter(Head(dq_items))
      BY <1>17 DEF DrainBarrier, Draining
    <2>. QED
      BY <1>6, <1>17, <2>1, HeadFacts DEF DrainBarrier, Run, Ran, NotWaited
  <1>18. CASE Redirected(t)
    <2>1. PICK b \in root : Run(t, b, <<>>, "uncount")
      BY <1>18 DEF Redirected
    <2>2. b \in Blocks /\ status[b] = "ready" /\ ~Waiter(b) /\ ~OnList(b)
      BY <1>1, <2>1 DEF Types, Inv, Listing, PlaceAt
    <2>3. NotPushed(t, b)
      <3>. SUFFICES ASSUME NEW u \in Threads \ {t}, stack[u] # <<>>, Current(u) = b, pc[u] \in Early \union Linking
                    PROVE  FALSE
        BY DEF NotPushed
      <3>. QED
        BY <2>2 DEF Inv, Listing, ListAt, Threading, ThreadAt, CallAt, Submits, Calling
    <2>. QED
      BY <1>6, <1>18, <2>1, <2>2, <2>3 DEF Redirected, Run, Ran, NotWaited
  <1>19. CASE PopLane(t) \/ DrainTryLock(t) \/ Drain(t) \/ DrainUpgrade(t) \/ DrainDrop(t)
    BY <1>3, <1>19 DEF Calm, PopLane, DrainTryLock, Drain, DrainUpgrade, DrainDrop
  <1>20. CASE DrainProbe(t) \/ DrainNarrow(t) \/ DrainUnlock(t)
    BY <1>3, <1>20 DEF Calm, DrainProbe, DrainNarrow, DrainUnlock
  <1>. QED
    BY <1>7, <1>8, <1>9, <1>10, <1>11, <1>12, <1>13, <1>14, <1>15, <1>16, <1>17, <1>18, <1>19, <1>20 DEF Acts, Step
-----------------------------------------------------------------------------
(***************************************************************************)
(* The threads that do not step: what they know of their blocks stays so.  *)
(***************************************************************************)
LEMMA OthersFrames ==
  ASSUME Inv, NEW t \in Threads, Keeps(t), dq_width' = dq_width, NEW u \in Threads \ {t}
  PROVE  /\ SameLive(u) /\ (Submits(u)' <=> Submits(u)) /\ (stack[u] # <<>> => Current(u)' = Current(u))
         /\ stack'[u] = stack[u] /\ pc'[u] = pc[u] /\ then'[u] = then[u]
BY DEF Keeps, SameLive, Live, Count, Submits, Current

\* The block of the innermost frame of another thread is not the one that starts or ends.
LEMMA OthersThread ==
  ASSUME Inv, NEW t \in Threads, Keeps(t), Marks(t), Types', dq_width' = dq_width, NEW u \in Threads \ {t}
  PROVE  ThreadAt(u)'
PROOF
  <1>1. Types /\ ThreadAt(u) /\ FrameAt(u) /\ LiveAt(u) /\ CallAt(u) /\ FinishedAt(u)
    BY DEF Inv, Threading, ThreadAt
  <1>2. /\ SameLive(u) /\ (Submits(u)' <=> Submits(u)) /\ (stack[u] # <<>> => Current(u)' = Current(u))
        /\ stack'[u] = stack[u] /\ pc'[u] = pc[u] /\ then'[u] = then[u]
    BY OthersFrames
  <1>3. \A b \in Blocks : status[b] # "new" => status'[b] # "new"
    BY <1>1, MarkFacts
  <1>4. stack[u] # <<>> => Current(u) \in Blocks
    BY <1>1, StackFacts
  <1>5. FrameAt(u)'
    BY <1>1, <1>2, <1>3, <1>4 DEF FrameAt
  <1>6. ASSUME NEW j \in 1..Count(u)
        PROVE  /\ status'[Live(u)[j].block] = "running" /\ kind'[Live(u)[j].block] = kind[Live(u)[j].block]
    <2>1. Live(u)[j].block \in Blocks /\ status[Live(u)[j].block] = "running"
      BY <1>1, LiveFacts DEF LiveAt
    <2>2. ASSUME Ended(t) PROVE Live(u)[j].block # Current(t)
      <3>1. Count(t) \in Nat /\ Count(t) >= 1 /\ Live(t)[Count(t)].block = Current(t)
        BY <1>1, <2>2, LiveFacts DEF Ended
      <3>. QED
        BY <3>1 DEF Inv, Threading, LiveOnce
    <2>. QED
      BY <1>1, <2>1, <2>2, MarkFacts
  <1>7. LiveAt(u)'
    BY <1>1, <1>2, <1>6 DEF LiveAt, SameLive, Barrier
  <1>8. ASSUME Submits(u) PROVE CallAt(u)'
    <2>1. stack[u] # <<>> /\ Current(u) \in Blocks
      BY <1>1, <1>4, <1>8 DEF FrameAt, Submits, Calling, Early, Linking, Waking, Waits, Completing, Giving, DrainPcs
    <2>2. Current(u)' = Current(u) /\ caller[Current(u)] = u
      BY <1>1, <1>2, <1>8, <2>1 DEF CallAt
    <2>3. status[Current(u)] # "new"
      BY <1>1, <2>1 DEF FrameAt
    <2>4. CASE Calm
      BY <1>1, <1>2, <2>1, <2>2, <2>4 DEF CallAt, Calm, Waiter, Barrier
    <2>5. ASSUME NEW b \in Blocks, Called(t, b) PROVE CallAt(u)'
      <3>1. b # Current(u)
        BY <2>3, <2>5 DEF Called
      <3>2. status'[Current(u)] = status[Current(u)] /\ kind'[Current(u)] = kind[Current(u)]
            /\ caller'[Current(u)] = caller[Current(u)]
        BY <1>1, <2>1, <2>5, <3>1 DEF Called, Types
      <3>. QED
        BY <1>1, <1>2, <2>1, <2>2, <3>2 DEF CallAt, Waiter, Barrier
    <2>6. ASSUME NEW b \in Blocks, Readied(b), NotPushed(t, b) PROVE CallAt(u)'
      BY <1>1, <1>2, <2>1, <2>2, <2>6 DEF CallAt, Readied, NotPushed, Waiter, Barrier, Types
    <2>7. ASSUME NEW b \in Blocks, Ran(b), NotPushed(t, b), NotWaited(t, b) PROVE CallAt(u)'
      BY <1>1, <1>2, <2>1, <2>2, <2>7 DEF CallAt, Ran, NotPushed, NotWaited, Waiter, Barrier, Types
    <2>8. CASE Ended(t)
      <3>1. status[Current(t)] = "running"
        BY <1>1, <2>8, LiveFacts DEF Ended, Inv, Threading, ThreadAt, LiveAt
      <3>2. CASE Current(u) # Current(t)
        BY <1>1, <1>2, <2>1, <2>2, <2>8, <3>2 DEF CallAt, Ended, Waiter, Barrier, Types
      <3>3. CASE Current(u) = Current(t)
        <4>1. ~Waiter(Current(u)) /\ pc[u] \notin Early
          BY <1>1, <1>8, <3>1, <3>3 DEF CallAt
        <4>2. ~Waiter(Current(u))'
          BY <1>1, <2>1, <2>2, <2>8, <3>3 DEF Ended, Types, Waiter
        <4>. QED
          BY <1>1, <1>2, <1>8, <2>1, <2>2, <2>8, <4>1, <4>2 DEF CallAt, Ended, Types, Early, Waits, Calling
      <3>. QED
        BY <3>2, <3>3
    <2>. QED
      BY <2>4, <2>5, <2>6, <2>7, <2>8 DEF Marks
  <1>9. CallAt(u)'
    BY <1>2, <1>8 DEF CallAt
  <1>10. FinishedAt(u)'
    <2>. SUFFICES ASSUME pc[u] \in {"uncount"} \union Completing \union Giving, then[u] # "wait"
                  PROVE  status'[Current(u)] = "done"
      <3>1. pc[u] \in {"uncount"} \union Completing \union Giving => stack[u] # <<>>
        BY <1>1 DEF FrameAt, Completing, Giving, DrainPcs
      <3>. QED
        BY <1>2, <3>1 DEF FinishedAt
    <2>1. stack[u] # <<>> /\ Current(u) \in Blocks /\ status[Current(u)] = "done"
      BY <1>1, <1>4 DEF FrameAt, FinishedAt, Completing, Giving, DrainPcs
    <2>. QED
      BY <1>1, <2>1, MarkFacts
  <1>. QED
    BY <1>5, <1>7, <1>9, <1>10 DEF ThreadAt
-----------------------------------------------------------------------------
(***************************************************************************)
(* The thread that steps.                                                  *)
(***************************************************************************)
\* A thread that tries to take the queue and does not own it runs no barrier.
LEMMA TryFree ==
  ASSUME Inv, NEW t \in Threads, pc[t] \in InTry, dq_state.owner # t \/ ~dq_state.ib
  PROVE  \A j \in 1..Count(t) : Live(t)[j].after \notin Exclusive
PROOF
  <1>. SUFFICES ASSUME NEW j \in 1..Count(t), Live(t)[j].after \in Exclusive PROVE FALSE
    OBVIOUS
  <1>1. LockAt(t) /\ OwnAt(t) /\ IbAt(t)
    BY DEF Inv, Locking
  <1>2. RunsBarrier(t) \/ DrainRuns(t)
    BY DEF RunsBarrier, DrainRuns, Exclusive, DrainAfter
  <1>3. Holds(t) /\ (HasBarrier(t) \/ own[t].ib)
    BY <1>1, <1>2 DEF Holds, HasBarrier, OwnAt, OwnAll
  <1>. QED
    BY <1>1, <1>3 DEF LockAt, IbAt

\* The frames stay as they are.
LEMMA LiveAtKept ==
  ASSUME Inv, NEW t \in Threads, SameLive(t), Marks(t), ~Ended(t), dq_width' = dq_width,
         pc[t] = "body" => pc'[t] \in InTry,
         pc[t] \in InTry => pc'[t] \in InTry \/ dq_state.owner # t \/ ~dq_state.ib
  PROVE  LiveAt(t)'
PROOF
  <1>1. Types /\ LiveAt(t)
    BY DEF Inv, Threading, ThreadAt
  <1>2. ASSUME NEW j \in 1..Count(t)
        PROVE  /\ status'[Live(t)[j].block] = "running" /\ kind'[Live(t)[j].block] = kind[Live(t)[j].block]
               /\ Live(t)[j].after \in Exclusive => (pc'[t] = "body" /\ j = Count(t)) \/ pc'[t] \in InTry
    <2>1. Live(t)[j].block \in Blocks /\ status[Live(t)[j].block] = "running"
      BY <1>1, LiveFacts DEF LiveAt
    <2>2. status'[Live(t)[j].block] = "running" /\ kind'[Live(t)[j].block] = kind[Live(t)[j].block]
      BY <1>1, <2>1, MarkFacts
    <2>3. Live(t)[j].after \in Exclusive => (pc'[t] = "body" /\ j = Count(t)) \/ pc'[t] \in InTry
      BY <1>1, TryFree DEF LiveAt
    <2>. QED
      BY <2>2, <2>3
  <1>. QED
    BY <1>1, <1>2 DEF LiveAt, SameLive, Barrier

\* A thread leaves its call.
LEMMA ThreadLeft ==
  ASSUME Inv, NEW t \in Threads, Leave(t), pc[t] \notin InTry \union {"body"}, then[t] = "return",
         Marks(t), ~Ended(t), dq_width' = dq_width
  PROVE  ThreadAt(t)' /\ SameLive(t) /\ ~Submits(t)' /\ pc'[t] \in {"idle", "body"}
PROOF
  <1>1. Types /\ FrameAt(t) /\ LiveAt(t)
    BY DEF Inv, Threading, ThreadAt
  <1>2. /\ pc'[t] = (IF Len(stack[t]) <= 1 THEN "idle" ELSE "body") /\ then'[t] = then[t]
        /\ stack'[t] = IF stack[t] = <<>> THEN <<>> ELSE Tail(stack[t])
    BY <1>1 DEF Leave, Goto, Types
  <1>3. /\ SameLive(t) /\ (stack'[t] = <<>> <=> pc'[t] = "idle")
        /\ stack'[t] # <<>> => /\ Count(t) \in Nat /\ Count(t) >= 1 /\ Head(stack'[t]) = Live(t)[Count(t)]
                               /\ Current(t)' = Live(t)[Count(t)].block
    <2>1. CASE stack[t] # <<>>
      BY <1>1, <1>2, <2>1, LiveLeft
    <2>2. CASE stack[t] = <<>>
      <3>1. Len(stack[t]) = 0 /\ stack'[t] = stack[t] /\ pc'[t] = "idle"
        BY <1>2, <2>2
      <3>. QED
        BY <2>2, <3>1, LiveMoved
    <2>. QED
      BY <2>1, <2>2
  <1>4. pc'[t] \in {"idle", "body"}
    BY <1>2
  <1>5. LiveAt(t)'
    BY <1>1, <1>3, LiveAtKept
  <1>6. FrameAt(t)'
    <2>1. stack'[t] # <<>> => status'[Current(t)'] # "new"
      <3>. SUFFICES ASSUME stack'[t] # <<>> PROVE status'[Live(t)[Count(t)].block] # "new"
        BY <1>3
      <3>1. Live(t)[Count(t)].block \in Blocks /\ status[Live(t)[Count(t)].block] = "running"
        BY <1>1, <1>3, LiveFacts DEF LiveAt
      <3>. QED
        BY <1>1, <3>1, MarkFacts
    <2>. QED
      BY <1>1, <1>2, <1>3, <1>4, <2>1 DEF FrameAt, DrainPcs
  <1>7. ~Submits(t)'
    BY <1>2, <1>4 DEF Submits, Calling, Early, Linking, Waking, Waits
  <1>8. CallAt(t)' /\ FinishedAt(t)'
    BY <1>4, <1>7 DEF CallAt, FinishedAt, Completing, Giving
  <1>. QED
    BY <1>3, <1>4, <1>5, <1>6, <1>7, <1>8 DEF ThreadAt

\* A thread ends a completion.
LEMMA ThreadCompleted ==
  ASSUME Inv, NEW t \in Threads, Complete(t), pc[t] \in {"uncount", "drain_transfer"} \union Completing \union Giving,
         Marks(t), Calm \/ \E b \in Blocks : Readied(b), dq_width' = dq_width
  PROVE  /\ ThreadAt(t)' /\ SameLive(t) /\ pc'[t] \in {"idle", "body", "wait"}
         /\ Submits(t)' <=> Submits(t)
         /\ Submits(t) => pc'[t] = "wait" /\ stack'[t] = stack[t]
PROOF
  <1>1. Types /\ FrameAt(t) /\ LiveAt(t) /\ CallAt(t)
    BY DEF Inv, Threading, ThreadAt
  <1>2. pc[t] \notin InTry \union {"body"} /\ pc[t] \notin Calling
    BY DEF InTry, Completing, Giving, Calling, Early, Linking, Waking, Waits
  <1>3. ~Ended(t)
    BY <1>2 DEF Ended
  <1>4. CASE then[t] # "wait"
    <2>1. Leave(t) /\ then[t] = "return" /\ ~Submits(t)
      BY <1>1, <1>2, <1>4 DEF Complete, Types, Submits
    <2>. QED
      BY <1>2, <1>3, <2>1, ThreadLeft
  <1>5. CASE then[t] = "wait"
    <2>1. pc'[t] = "wait" /\ then'[t] = "return" /\ stack'[t] = stack[t] /\ stack[t] # <<>> /\ Submits(t)
      BY <1>1, <1>5 DEF Complete, Goto, Types, FrameAt, Submits, Completing, Giving, DrainPcs
    <2>2. SameLive(t)
      BY <1>2, <2>1, LiveMoved
    <2>3. LiveAt(t)'
      BY <1>2, <1>3, <2>2, LiveAtKept
    <2>4. Current(t)' = Current(t) /\ Current(t) \in Blocks
      BY <1>1, <2>1, StackFacts DEF Current
    <2>5. /\ caller[Current(t)] = t /\ Waiter(Current(t)) /\ status[Current(t)] \in {"called", "ready"}
      BY <1>1, <1>5, <2>1 DEF CallAt
    <2>6. caller'[Current(t)] = t /\ kind'[Current(t)] = kind[Current(t)]
      BY <1>1, <1>3, <2>4, <2>5, MarkFacts
    <2>7. status'[Current(t)] \in {"called", "ready"}
      BY <1>1, <2>4, <2>5 DEF Calm, Readied, Types
    <2>8. Submits(t)'
      BY <2>1 DEF Submits, Calling, Waits
    <2>9. Waiter(Current(t))'
      BY <2>4, <2>5, <2>6 DEF Waiter
    <2>10. FrameAt(t)'
      BY <1>1, <1>2, <2>1, <2>4, <2>7 DEF FrameAt, DrainPcs
    <2>11. CallAt(t)'
      BY <2>1, <2>4, <2>6, <2>7, <2>9 DEF CallAt, Early, Waking, Waits, Waiter
    <2>12. FinishedAt(t)'
      BY <2>1 DEF FinishedAt, Completing, Giving
    <2>. QED
      BY <2>1, <2>2, <2>3, <2>8, <2>10, <2>11, <2>12 DEF ThreadAt
  <1>. QED
    BY <1>4, <1>5

\* A thread starts a block.
LEMMA ThreadBegan ==
  ASSUME Inv, NEW t \in Threads, NEW b \in Blocks, Marks(t), ~Ended(t), dq_width' = dq_width,
         NEW after \in {"uncount", "unlock_probe", "complete", "drain_probe", "drain_more"},
         Begins(t, b, after), then[t] = "return", then'[t] = then[t],
         after \in (IF Barrier(b) THEN Exclusive ELSE {"uncount"}), after = "unlock_probe" => dq_width = 1,
         after \in DrainAfter => t \in Workers /\ stack[t] = <<>>,
         status[b] # "new",
         pc[t] \in InTry => dq_state.owner # t \/ ~dq_state.ib
  PROVE  ThreadAt(t)' /\ Begun(t, b, after) /\ ~Submits(t)'
PROOF
  <1>1. Types /\ FrameAt(t) /\ LiveAt(t)
    BY DEF Inv, Threading, ThreadAt
  <1>2. Begun(t, b, after)
    <2>1. [block |-> b, after |-> after] \in Frames
      BY DEF Frames
    <2>. QED
      BY <1>1, <2>1, LiveBegun
  <1>3. pc'[t] = "body" /\ pc[t] # "body" /\ stack'[t] # <<>> /\ Current(t)' = b /\ status'[b] = "running"
    BY <1>1, <1>2 DEF Begins, Begun, Types
  <1>4. ~Submits(t)'
    BY <1>3 DEF Submits, Calling, Early, Linking, Waking, Waits
  <1>5. FrameAt(t)' /\ CallAt(t)' /\ FinishedAt(t)'
    BY <1>3, <1>4 DEF FrameAt, CallAt, FinishedAt, DrainPcs, Completing, Giving
  <1>6. Count(t) \in Nat
    BY <1>1, LiveFacts
  <1>7. kind'[b] = kind[b]
    BY <1>1, MarkFacts
  <1>8. ASSUME NEW j \in 1..Count(t)
        PROVE  /\ status'[Live(t)[j].block] = "running" /\ kind'[Live(t)[j].block] = kind[Live(t)[j].block]
               /\ Live(t)[j].after \notin Exclusive
    <2>1. Live(t)[j].block \in Blocks /\ status[Live(t)[j].block] = "running"
      BY <1>1, LiveFacts DEF LiveAt
    <2>2. status'[Live(t)[j].block] = "running" /\ kind'[Live(t)[j].block] = kind[Live(t)[j].block]
      BY <1>1, <2>1, MarkFacts
    <2>3. Live(t)[j].after \notin Exclusive
      BY <1>1, <1>3, TryFree DEF LiveAt
    <2>. QED
      BY <2>2, <2>3
  <1>9. ASSUME NEW j \in 1..(Count(t) + 1)
        PROVE  /\ status'[Live(t)'[j].block] = "running"
               /\ Live(t)'[j].after \in (IF Barrier(Live(t)[j].block)' THEN Exclusive ELSE {"uncount"})
               /\ Live(t)'[j].after = "unlock_probe" => dq_width = 1
               /\ Live(t)'[j].after \in DrainAfter => t \in Workers /\ j = 1
               /\ Live(t)'[j].after \in Exclusive => j = Count(t) + 1
    <2>1. CASE j = Count(t) + 1
      <3>1. Live(t)'[j] = [block |-> b, after |-> after]
        BY <1>2, <2>1 DEF Begun
      <3>2. Live(t)'[j].block = b /\ Live(t)'[j].after = after
        BY <3>1
      <3>3. stack[t] = <<>> => Count(t) = 0
        BY <1>1, LiveFacts
      <3>4. Barrier(b)' <=> Barrier(b)
        BY <1>7 DEF Barrier
      <3>. QED
        BY <1>3, <2>1, <3>2, <3>3, <3>4 DEF Barrier
    <2>2. CASE j # Count(t) + 1
      <3>1. j \in 1..Count(t)
        BY <1>6, <2>2
      <3>2. Live(t)'[j] = Live(t)[j]
        BY <1>2, <3>1 DEF Begun
      <3>. QED
        BY <1>1, <1>8, <3>1, <3>2 DEF LiveAt, Barrier
    <2>. QED
      BY <2>1, <2>2
  <1>10. LiveAt(t)'
    BY <1>2, <1>3, <1>9 DEF LiveAt, Begun
  <1>. QED
    BY <1>2, <1>4, <1>5, <1>10 DEF ThreadAt

\* What a label may follow.
Moves(t, label) ==
  /\ label \in {"idle"} \union DrainPcs <=> pc[t] \in {"idle"} \union DrainPcs
  /\ label \in DrainPcs => t \in Workers
  /\ then[t] = "wait" => label \in (Completing \ {"unlock_probe", "unlock"}) \union Giving
  /\ label \in {"unlock_probe", "unlock"} => dq_width = 1
  /\ label \notin {"body", "uncount", "barrier_try"}
  /\ label \in Calling => pc[t] \in Calling
  /\ label \in Early => pc[t] \in Early
  /\ label \in {"async_probe", "async_try"} => pc[t] \in {"async_probe", "async_try"}
  /\ label \in {"sync_probe", "sync_try"} => pc[t] \in {"sync_probe", "sync_try"}
  /\ label \in {"prepare"} \union Waits => Waiter(Current(t))
  /\ label \in Waking \union {"need_override", "link_override"} => ~Waiter(Current(t))
  /\ label \in Completing \union Giving => pc[t] \in {"uncount"} \union Completing \union Giving

\* A thread goes on within its call, its completion or its drain.
LEMMA ThreadMoved ==
  ASSUME Inv, NEW t \in Threads, NEW label, Moves(t, label), Goto(t, label),
         stack'[t] = stack[t], then'[t] = then[t], dq_width' = dq_width,
         Calm \/ (label \notin Early /\ \E b \in Blocks : Readied(b)),
         Marks(t), pc[t] # "body",
         pc[t] \in InTry => label \in InTry \/ dq_state.owner # t \/ ~dq_state.ib
  PROVE  ThreadAt(t)' /\ SameLive(t) /\ (stack[t] # <<>> => Current(t)' = Current(t))
PROOF
  <1>1. Types /\ FrameAt(t) /\ LiveAt(t) /\ CallAt(t) /\ FinishedAt(t)
    BY DEF Inv, Threading, ThreadAt
  <1>2. pc'[t] = label /\ label # "body" /\ ~Ended(t)
    BY <1>1 DEF Goto, Types, Moves, Ended
  <1>3. SameLive(t) /\ (stack[t] # <<>> => Current(t)' = Current(t) /\ Current(t) \in Blocks)
    BY <1>1, <1>2, LiveMoved, StackFacts DEF Current
  <1>4. LiveAt(t)'
    BY <1>2, <1>3, LiveAtKept
  <1>5. ASSUME stack[t] # <<>>
        PROVE  /\ status'[Current(t)] # "new" /\ caller'[Current(t)] = caller[Current(t)]
               /\ kind'[Current(t)] = kind[Current(t)]
               /\ status[Current(t)] = "done" => status'[Current(t)] = "done"
               /\ status[Current(t)] \in {"called", "ready"} => status'[Current(t)] \in {"called", "ready"}
               /\ label \in Early => status'[Current(t)] = status[Current(t)]
    <2>1. /\ status'[Current(t)] # "new" /\ caller'[Current(t)] = caller[Current(t)]
          /\ kind'[Current(t)] = kind[Current(t)]
          /\ status[Current(t)] = "done" => status'[Current(t)] = "done"
      BY <1>1, <1>2, <1>3, <1>5, MarkFacts DEF FrameAt
    <2>2. status[Current(t)] \in {"called", "ready"} => status'[Current(t)] \in {"called", "ready"}
      BY <1>1, <1>3, <1>5 DEF Calm, Readied, Types
    <2>3. label \in Early => status'[Current(t)] = status[Current(t)]
      BY DEF Calm
    <2>. QED
      BY <2>1, <2>2, <2>3
  <1>6. FrameAt(t)'
    BY <1>1, <1>2, <1>3, <1>5 DEF FrameAt, Moves
  <1>7. Submits(t)' => Submits(t) /\ stack[t] # <<>>
    BY <1>1, <1>2 DEF Submits, Moves, FrameAt, Calling, Early, Linking, Waking, Waits, Completing, Giving, DrainPcs
  <1>8. CallAt(t)'
    <2>. SUFFICES ASSUME Submits(t)' PROVE CallAt(t)'
      BY DEF CallAt
    <2>1. Submits(t) /\ stack[t] # <<>> /\ Current(t)' = Current(t)
      BY <1>3, <1>7
    <2>2. label \in Early => pc[t] \in Early
      BY DEF Moves
    <2>3. then[t] = "wait" => Waiter(Current(t))
      BY <1>1, <2>1 DEF CallAt
    <2>. QED
      BY <1>1, <1>2, <1>5, <2>1, <2>2, <2>3 DEF CallAt, Moves, Waiter, Barrier
  <1>9. FinishedAt(t)'
    <2>. SUFFICES ASSUME label \in Completing \union Giving, then[t] # "wait" PROVE status'[Current(t)] = "done"
      <3>1. label \in Completing \union Giving => stack[t] # <<>>
        BY <1>1 DEF Moves, FrameAt, Completing, Giving, DrainPcs
      <3>. QED
        BY <1>2, <1>3, <3>1 DEF FinishedAt, Moves
    <2>1. pc[t] \in {"uncount"} \union Completing \union Giving
      BY DEF Moves
    <2>2. stack[t] # <<>> /\ status[Current(t)] = "done"
      BY <1>1, <2>1 DEF FrameAt, FinishedAt, Completing, Giving, DrainPcs
    <2>. QED
      BY <1>5, <2>2
  <1>. QED
    BY <1>3, <1>4, <1>6, <1>8, <1>9 DEF ThreadAt

\* A thread calls.
LEMMA ThreadSubmitted ==
  ASSUME Inv, NEW t \in Threads, NEW b \in Blocks, NEW k \in Kinds, Submit(t, b, k), Marks(t),
         pc[t] = "idle" \/ (pc[t] = "body" /\ k = "sync"), dq_width' = dq_width
  PROVE  ThreadAt(t)' /\ SameLive(t) /\ Called(t, b) /\ stack'[t] # <<>> /\ Current(t)' = b /\ Submits(t)'
PROOF
  <1>1. Types /\ FrameAt(t) /\ LiveAt(t)
    BY DEF Inv, Threading, ThreadAt
  <1>2. [block |-> b, after |-> "none"] \in Frames
    BY DEF Frames
  <1>3. /\ stack'[t] = <<[block |-> b, after |-> "none"]>> \o stack[t] /\ pc'[t] = Entry(k) /\ then'[t] = then[t]
        /\ kind'[b] = k /\ caller'[b] = t /\ status'[b] = "called" /\ status[b] = "new"
        /\ kind' = [kind EXCEPT ![b] = k]
    BY <1>1 DEF Submit, Types, Goto, locals
  <1>4. dq_width \in Nat /\ dq_width > 0
    BY <1>1, Constants DEF Types
  <1>5. /\ Entry(k) \in Early
        /\ Entry(k) \in {"async_probe", "async_try"} => k = "async" /\ dq_width > 1
        /\ Entry(k) \in {"sync_probe", "sync_try"} => k = "sync" /\ dq_width > 1
        /\ Entry(k) \in {"barrier_try", "prepare"} => k \in {"sync", "barrier_sync"} /\ (dq_width = 1 \/ k = "barrier_sync")
        /\ k = "sync" => Entry(k) \in InTry
    BY <1>4, Constants DEF Entry, AllKinds, Early, InTry
  <1>6. SameLive(t) /\ stack'[t] # <<>> /\ Head(stack'[t]) = [block |-> b, after |-> "none"]
    <2>1. stack[t] = <<>> \/ pc[t] = "body"
      BY <1>1 DEF FrameAt
    <2>2. pc'[t] # "body"
      BY <1>3, <1>5 DEF Early
    <2>. QED
      BY <1>1, <1>2, <1>3, <2>1, <2>2, LiveSubmitted
  <1>7. Current(t)' = b
    BY <1>6 DEF Current
  <1>8. ~Ended(t)
    <2>1. status' = [status EXCEPT ![b] = "called"]
      BY DEF Submit
    <2>. QED
      BY SMTT(30), <1>1, <1>3, <2>1 DEF Ended, Types
  <1>9. LiveAt(t)'
    BY <1>3, <1>5, <1>6, <1>8, LiveAtKept DEF InTry
  <1>10. then[t] = "return"
    BY <1>1 DEF FrameAt, Types, Completing, Giving
  <1>11. FrameAt(t)'
    BY <1>3, <1>5, <1>6, <1>7, <1>10 DEF FrameAt, Early, DrainPcs, DrainAfter
  <1>12. Submits(t)'
    BY <1>3, <1>5 DEF Submits, Calling
  <1>13. CallAt(t)'
    BY <1>3, <1>5, <1>7, <1>10 DEF CallAt, Waiter, Barrier, Early, Waits, Waking
  <1>14. FinishedAt(t)'
    BY <1>3, <1>5 DEF FinishedAt, Early, Completing, Giving
  <1>15. Called(t, b)
    BY <1>3, <1>6, <1>7 DEF Called, Submit
  <1>. QED
    BY <1>6, <1>7, <1>9, <1>11, <1>12, <1>13, <1>14, <1>15 DEF ThreadAt

\* The block of a thread ends.
LEMMA ThreadEnded ==
  ASSUME Inv, NEW t \in Threads, Return(t), Marks(t), dq_width' = dq_width
  PROVE  /\ ThreadAt(t)' /\ Ended(t) /\ Count(t) >= 1 /\ Count(t)' = Count(t) - 1
         /\ \A j \in 1..(Count(t) - 1) : Live(t)'[j] = Live(t)[j]
         /\ pc'[t] = Live(t)[Count(t)].after /\ Live(t)[Count(t)].block = Current(t)
         /\ stack'[t] # <<>> => Current(t)' = Current(t)
PROOF
  <1>1. Types /\ FrameAt(t) /\ LiveAt(t)
    BY DEF Inv, Threading, ThreadAt
  <1>2. pc[t] = "body" /\ stack[t] # <<>> /\ Current(t) \in Blocks
    BY <1>1, HasBlock DEF Return, At, DrainPcs
  <1>3. /\ Count(t) \in Nat /\ Count(t) >= 1 /\ Live(t)[Count(t)] = Head(stack[t]) /\ Live(t)[Count(t)].block = Current(t)
        /\ Count(t) = Len(stack[t])
    BY <1>1, <1>2, LiveFacts
  <1>. DEFINE after == Head(stack[t]).after
  <1>4. /\ pc'[t] = after /\ then'[t] = then[t] /\ status' = [status EXCEPT ![Current(t)] = "done"]
        /\ kind' = [kind EXCEPT ![Current(t)] = "none"] /\ caller' = caller
        /\ stack'[t] = IF after \in DrainAfter THEN Tail(stack[t]) ELSE stack[t]
    BY <1>1 DEF Return, Goto, Types, locals, DrainAfter
  <1>5. /\ after \in Exclusive \union {"uncount"} /\ (after = "uncount" => ~Barrier(Current(t)))
        /\ after = "unlock_probe" => dq_width = 1
        /\ after \in DrainAfter => t \in Workers /\ Len(stack[t]) = 1
    <2>1. Count(t) \in 1..Count(t)
      BY <1>3
    <2>2. /\ Live(t)[Count(t)].after \in (IF Barrier(Live(t)[Count(t)].block) THEN Exclusive ELSE {"uncount"})
          /\ Live(t)[Count(t)].after = "unlock_probe" => dq_width = 1
          /\ Live(t)[Count(t)].after \in DrainAfter => t \in Workers /\ Count(t) = 1
      BY <1>1, <2>1 DEF LiveAt
    <2>. QED
      BY <1>3, <2>2 DEF Exclusive
  <1>. HIDE DEF after
  <1>6. pc'[t] # "body"
    BY <1>4, <1>5 DEF Exclusive
  <1>7. Count(t)' = Count(t) - 1 /\ \A j \in 1..(Count(t) - 1) : Live(t)'[j] = Live(t)[j]
    BY <1>1, <1>2, <1>4, <1>5, <1>6, LiveEnded
  <1>8. Ended(t)
    BY <1>2, <1>4 DEF Ended
  <1>9. after \in DrainAfter => stack'[t] = <<>>
    BY <1>1, <1>2, <1>4, <1>5, EmptySeq, StackFacts
  <1>10. stack'[t] # <<>> => stack'[t] = stack[t] /\ Current(t)' = Current(t) /\ after \notin DrainAfter
    BY <1>4, <1>9 DEF Current
  <1>11. status'[Current(t)] = "done"
    BY <1>1, <1>2, <1>4 DEF Types
  <1>12. then[t] = "return"
    BY <1>1, <1>2 DEF FrameAt, Types, Completing, Giving
  <1>13. dq_width \in Nat /\ dq_width > 0
    BY <1>1, Constants DEF Types
  <1>14. FrameAt(t)'
    <2>1. stack'[t] = <<>> <=> after \in DrainAfter
      BY <1>2, <1>4, <1>9
    <2>2. /\ after \in DrainAfter <=> after \in {"idle"} \union DrainPcs
          /\ after \notin {"unlock"}
      BY <1>5 DEF DrainAfter, Exclusive, DrainPcs
    <2>3. after = "uncount" => dq_width > 1
      BY <1>5, <1>13 DEF Barrier
    <2>4. after \in DrainPcs => t \in Workers
      BY <1>5, <2>2
    <2>5. stack'[t] # <<>> => Head(stack'[t]).after \notin DrainAfter
      BY <1>10 DEF after
    <2>. QED
      BY <1>4, <1>5, <1>10, <1>11, <1>12, <2>1, <2>2, <2>3, <2>4, <2>5 DEF FrameAt
  <1>15. ~Submits(t)'
    BY <1>4, <1>5, <1>12 DEF Submits, Exclusive, Calling, Early, Linking, Waking, Waits
  <1>16. CallAt(t)'
    BY <1>15 DEF CallAt
  <1>17. FinishedAt(t)'
    <2>1. after \in {"uncount"} \union Completing \union Giving => after \notin DrainAfter
      BY DEF DrainAfter, Completing, Giving
    <2>2. pc'[t] \in {"uncount"} \union Completing \union Giving => stack'[t] # <<>>
      BY <1>2, <1>4, <2>1
    <2>. QED
      BY <1>10, <1>11, <2>2 DEF FinishedAt
  <1>18. LiveAt(t)'
    <2>. SUFFICES ASSUME NEW j \in 1..(Count(t) - 1)
                  PROVE  /\ status'[Live(t)[j].block] = "running"
                         /\ kind'[Live(t)[j].block] = kind[Live(t)[j].block]
                         /\ Live(t)[j].after \notin Exclusive
      BY SMTT(30), <1>1, <1>3, <1>7 DEF LiveAt, Barrier
    <2>1. j \in 1..Count(t) /\ Count(t) \in 1..Count(t) /\ j # Count(t)
      BY <1>3
    <2>2. Live(t)[j].block \in Blocks /\ status[Live(t)[j].block] = "running"
      BY <1>1, <2>1, LiveFacts DEF LiveAt
    <2>3. Live(t)[j].block # Current(t)
      BY <1>3, <2>1 DEF Inv, Threading, LiveOnce
    <2>4. Live(t)[j].after \notin Exclusive
      BY <1>1, <1>2, <2>1 DEF LiveAt, InTry
    <2>. QED
      BY <1>1, <2>2, <2>3, <2>4, <1>4 DEF Types
  <1>. QED
    BY <1>3, <1>4, <1>7, <1>8, <1>10, <1>14, <1>16, <1>17, <1>18 DEF ThreadAt, after

\* What a step does to the frames of its thread.
Turn(t) ==
  /\ ThreadAt(t)'
  /\ \/ /\ SameLive(t)
        /\ Calm \/ \E b \in Blocks : (Called(t, b) /\ Submits(t)') \/ (Readied(b) /\ NotPushed(t, b))
        /\ pc'[t] = "uncount" => pc[t] = "uncount" /\ (stack[t] # <<>> => Current(t)' = Current(t))
     \/ \E b \in Blocks, after \in Exclusive \union {"uncount"} :
          Begun(t, b, after) /\ Ran(b) /\ NotPushed(t, b) /\ NotWaited(t, b) /\ pc[t] # "body" /\ pc'[t] = "body"
     \/ /\ Return(t) /\ Ended(t) /\ Count(t) >= 1 /\ Count(t)' = Count(t) - 1
        /\ \A j \in 1..(Count(t) - 1) : Live(t)'[j] = Live(t)[j]
        /\ pc'[t] = Live(t)[Count(t)].after /\ Live(t)[Count(t)].block = Current(t)
        /\ stack'[t] # <<>> => Current(t)' = Current(t)
  /\ Submits(t) /\ stack[t] # <<>> /\ Waiter(Current(t)) =>
       \/ Submits(t)' /\ stack'[t] # <<>> /\ Current(t)' = Current(t)
       \/ status'[Current(t)] = "running"

\* A thread goes on: its call is still a call.
LEMMA TurnMoved ==
  ASSUME Inv, NEW t \in Threads, NEW label, Moves(t, label), Goto(t, label),
         stack' = stack, then' = then, dq_width' = dq_width,
         Calm \/ (label \notin Early /\ \E b \in Blocks : Readied(b) /\ NotPushed(t, b)),
         Marks(t), pc[t] # "body", pc[t] \in Calling => label \in Calling,
         pc[t] \in InTry => label \in InTry \/ dq_state.owner # t \/ ~dq_state.ib
  PROVE  Turn(t)
PROOF
  <1>1. stack'[t] = stack[t] /\ then'[t] = then[t] /\ pc'[t] = label
    BY DEF Goto, Inv, Types
  <1>2. ThreadAt(t)' /\ SameLive(t) /\ (stack[t] # <<>> => Current(t)' = Current(t))
    BY <1>1, ThreadMoved
  <1>3. label # "uncount"
    BY DEF Moves
  <1>4. Submits(t) => Submits(t)'
    BY <1>1 DEF Submits
  <1>. QED
    BY <1>1, <1>2, <1>3, <1>4 DEF Turn

\* A thread stays where it is.
LEMMA TurnStayed ==
  ASSUME Inv, NEW t \in Threads, dq_width' = dq_width, UNCHANGED <<pc, stack, then>>, Calm
  PROVE  Turn(t)
PROOF
  <1>1. ThreadAt(t)
    BY DEF Inv, Threading
  <1>2. SameLive(t)
    BY DEF SameLive, Count, Live
  <1>3. ThreadAt(t)'
    BY <1>1, <1>2 DEF ThreadAt, FrameAt, LiveAt, CallAt, FinishedAt, Submits, Current, Waiter, Barrier, Calm, SameLive
  <1>. QED
    BY <1>2, <1>3 DEF Turn, Submits, Current

\* A thread leaves: it was no waiter.
LEMMA TurnLeft ==
  ASSUME Inv, NEW t \in Threads, Leave(t), pc[t] \notin InTry \union {"body"}, then[t] = "return",
         Marks(t), dq_width' = dq_width,
         Calm \/ \E b \in Blocks : Readied(b) /\ NotPushed(t, b),
         pc[t] \notin Calling \/ ~Waiter(Current(t))
  PROVE  Turn(t)
PROOF
  <1>1. ~Ended(t)
    BY DEF Ended
  <1>2. ThreadAt(t)' /\ SameLive(t) /\ pc'[t] \in {"idle", "body"}
    BY <1>1, ThreadLeft
  <1>3. ~(Submits(t) /\ Waiter(Current(t)))
    BY DEF Submits
  <1>. QED
    BY <1>2, <1>3 DEF Turn

\* A thread ends a completion.
LEMMA TurnCompleted ==
  ASSUME Inv, NEW t \in Threads, Complete(t), pc[t] \in {"uncount", "drain_transfer"} \union Completing \union Giving,
         Marks(t), Calm \/ \E b \in Blocks : Readied(b) /\ NotPushed(t, b), dq_width' = dq_width
  PROVE  Turn(t)
PROOF
  <1>1. /\ ThreadAt(t)' /\ SameLive(t) /\ pc'[t] \in {"idle", "body", "wait"}
        /\ Submits(t)' <=> Submits(t)
        /\ Submits(t) => pc'[t] = "wait" /\ stack'[t] = stack[t]
    BY ThreadCompleted
  <1>2. Submits(t) => stack'[t] = stack[t] /\ Current(t)' = Current(t)
    BY <1>1 DEF Current
  <1>. QED
    BY <1>1, <1>2 DEF Turn

\* A thread starts a block: its own, or one that no call waits for.
LEMMA TurnBegan ==
  ASSUME Inv, NEW t \in Threads, NEW b \in Blocks, Marks(t), dq_width' = dq_width,
         NEW after \in {"uncount", "unlock_probe", "complete", "drain_probe", "drain_more"},
         Begins(t, b, after), then[t] = "return", then' = then,
         after \in (IF Barrier(b) THEN Exclusive ELSE {"uncount"}), after = "unlock_probe" => dq_width = 1,
         after \in DrainAfter => t \in Workers /\ stack[t] = <<>>,
         Ran(b), NotPushed(t, b), NotWaited(t, b),
         pc[t] \in InTry => dq_state.owner # t \/ ~dq_state.ib
  PROVE  Turn(t)
PROOF
  <1>1. ~Ended(t) /\ status[b] # "new"
    BY DEF Ended, Begins, Ran
  <1>2. ThreadAt(t)' /\ Begun(t, b, after)
    BY <1>1, ThreadBegan
  <1>3. after \in Exclusive \union {"uncount"}
    BY DEF Exclusive
  <1>4. stack[t] # <<>> => status'[Current(t)] = "running"
    BY DEF Begins, Inv, Types
  <1>. QED
    BY <1>2, <1>3, <1>4 DEF Turn, Begins

\* What a waiter, or a barrier, at the place of a call is.
LEMMA EnterTurn ==
  ASSUME Inv, NEW t \in Threads, Marks(t), dq_width' = dq_width,
         pc[t] \in {"sync_try", "barrier_try", "wait"}, status[Current(t)] \in {"called", "ready"},
         NEW after \in {"uncount", "unlock_probe", "complete"}, Enter(t, after), then' = then,
         UNCHANGED <<kind, caller>>,
         after \in (IF Barrier(Current(t)) THEN Exclusive ELSE {"uncount"}), after = "unlock_probe" => dq_width = 1,
         pc[t] \in InTry => ~dq_state.ib
  PROVE  Turn(t)
PROOF
  <1>1. Types /\ FrameAt(t)
    BY DEF Inv, Threading, ThreadAt
  <1>2. stack[t] # <<>> /\ Current(t) \in Blocks
    BY <1>1, HasBlock DEF DrainPcs
  <1>3. then[t] = "return"
    BY <1>1 DEF FrameAt, Types, Completing, Giving
  <1>4. Begins(t, Current(t), after) /\ Ran(Current(t))
    BY <1>1, <1>2 DEF Enter, Run, Begins, Ran, Goto, Types
  <1>5. after \notin DrainAfter
    BY DEF DrainAfter
  <1>. QED
    BY <1>2, <1>3, <1>4, <1>5, OwnCall, TurnBegan

\* A call, the steps of a call on its way to the list, and its end.
LEMMA CallTurn ==
  ASSUME Inv, NEW t \in Threads, Marks(t), dq_width' = dq_width,
         \/ (t \in Blocks /\ Call(t)) \/ NestedCall(t)
         \/ AsyncProbe(t) \/ AsyncTry(t) \/ SyncProbe(t) \/ SyncTry(t) \/ BarrierTry(t) \/ Prepare(t)
         \/ Return(t) \/ Wait(t)
  PROVE  Turn(t)
PROOF
  <1>. USE DEF list, target, locals, calls
  <1>1. Types /\ FrameAt(t) /\ CallAt(t)
    BY DEF Inv, Threading, ThreadAt
  <1>2. pc[t] \in InTry \union {"async_probe", "async_try", "wait", "push"} => Submits(t) /\ then[t] = "return"
    BY <1>1 DEF FrameAt, Types, Submits, InTry, Calling, Early, Waits, Completing, Giving
  <1>3. ASSUME NEW b \in Blocks, NEW k \in Kinds, Submit(t, b, k), pc[t] = "idle" \/ (pc[t] = "body" /\ k = "sync")
        PROVE  Turn(t)
    <2>1. ThreadAt(t)' /\ SameLive(t) /\ Called(t, b) /\ Submits(t)'
      BY <1>3, ThreadSubmitted
    <2>2. ~Submits(t) /\ pc'[t] # "uncount"
      <3>1. Entry(k) # "uncount"
        BY Constants DEF Entry, AllKinds
      <3>. QED
        BY <1>1, <1>3, <3>1 DEF Submit, Goto, Types, Submits, FrameAt, Calling, Early, Linking, Waking, Waits, Completing, Giving
    <2>. QED
      BY <2>1, <2>2 DEF Turn
  <1>4. CASE t \in Blocks /\ Call(t)
    BY <1>3, <1>4 DEF Call, At, Distinct
  <1>5. CASE NestedCall(t)
    BY <1>3, <1>5 DEF NestedCall, At
  <1>6. ASSUME NEW label, Goto(t, label), UNCHANGED <<stack, then, status, kind, caller>>, pc[t] \notin DrainPcs,
               \/ pc[t] = "async_probe" /\ label \in {"async_try", "push"}
               \/ pc[t] = "async_try" /\ label = "push"
               \/ pc[t] = "sync_probe" /\ label \in {"sync_try", "prepare"}
               \/ pc[t] = "sync_try" /\ label = "prepare"
               \/ pc[t] = "barrier_try" /\ label = "prepare"
               \/ pc[t] = "prepare" /\ label = "push" /\ dq_state.owner # t
        PROVE  Turn(t)
    <2>1. pc[t] \in Early /\ label \in Early /\ then[t] = "return" /\ Calm
      BY <1>2, <1>6 DEF Early, Calm, InTry
    <2>2. label = "prepare" => Waiter(Current(t))
      BY <1>1, <1>6 DEF CallAt, Submits, Calling, Early, Waiter
    <2>3. pc[t] \in InTry => label \in InTry \/ dq_state.owner # t
      BY <1>6 DEF InTry
    <2>4. Moves(t, label)
      BY <1>6, <2>1, <2>2 DEF Moves, Calling, Early, Waits, Waking, Completing, Giving, DrainPcs
    <2>. QED
      BY <1>6, <2>1, <2>3, <2>4, TurnMoved DEF Calling, Early
  <1>7. CASE AsyncProbe(t)
    BY <1>6, <1>7 DEF AsyncProbe, At, DrainPcs
  <1>8. CASE AsyncTry(t)
    <2>1. pc[t] = "async_try" /\ status[Current(t)] = "called" /\ kind[Current(t)] = "async" /\ then[t] = "return"
      BY <1>1, <1>2, <1>8 DEF AsyncTry, At, CallAt, Early, Calling
    <2>2. CASE CanAcquireAsync(dq_state)
      <3>1. stack[t] # <<>> /\ Current(t) \in Blocks /\ ~Waiter(Current(t))
        BY <1>1, <2>1, HasBlock DEF DrainPcs, Waiter
      <3>2. Readied(Current(t)) /\ NotPushed(t, Current(t))
        BY <1>8, <2>1, <2>2, <3>1, OwnCall DEF AsyncTry, Dispatch, Readied
      <3>. QED
        BY <1>8, <2>1, <2>2, <3>1, <3>2, TurnLeft DEF AsyncTry, InTry
    <2>3. CASE ~CanAcquireAsync(dq_state)
      BY <1>6, <1>8, <2>1, <2>3 DEF AsyncTry, DrainPcs
    <2>. QED
      BY <2>2, <2>3
  <1>9. CASE SyncProbe(t)
    BY <1>6, <1>9 DEF SyncProbe, At, DrainPcs
  <1>10. CASE SyncTry(t)
    <2>1. pc[t] = "sync_try" /\ status[Current(t)] = "called" /\ kind[Current(t)] = "sync" /\ dq_width > 1
      BY <1>1, <1>2, <1>10 DEF SyncTry, At, CallAt, Early, InTry
    <2>2. CASE CanReserveSync(dq_state)
      <3>1. ~Barrier(Current(t))
        BY <2>1 DEF Barrier
      <3>. QED
        BY <1>10, <2>1, <2>2, <3>1, EnterTurn DEF SyncTry, CanReserveSync, SyncRunnable
    <2>3. CASE ~CanReserveSync(dq_state)
      BY <1>6, <1>10, <2>1, <2>3 DEF SyncTry, DrainPcs
    <2>. QED
      BY <2>2, <2>3
  <1>11. CASE BarrierTry(t)
    <2>1. pc[t] = "barrier_try" /\ status[Current(t)] = "called" /\ Barrier(Current(t))
      BY <1>1, <1>2, <1>11 DEF BarrierTry, At, CallAt, Early, InTry
    <2>2. CASE Free(dq_state)
      <3>1. ~dq_state.ib
        BY <2>2 DEF Free, Idle
      <3>2. dq_width \in Nat /\ dq_width > 0
        BY <1>1, Constants DEF Types
      <3>3. CASE dq_width > 1
        BY <1>11, <2>1, <2>2, <3>1, <3>3, EnterTurn DEF BarrierTry, Exclusive
      <3>4. CASE dq_width = 1
        BY <1>11, <2>1, <2>2, <3>1, <3>4, EnterTurn DEF BarrierTry, Exclusive
      <3>. QED
        BY <3>2, <3>3, <3>4
    <2>3. CASE ~Free(dq_state)
      BY <1>6, <1>11, <2>1, <2>3 DEF BarrierTry, DrainPcs
    <2>. QED
      BY <2>2, <2>3
  <1>12. CASE Prepare(t)
    <2>1. CASE dq_state.owner = t
      BY <1>12, <2>1, TurnStayed DEF Prepare, Calm
    <2>2. CASE dq_state.owner # t
      BY <1>6, <1>12, <2>2 DEF Prepare, At, DrainPcs
    <2>. QED
      BY <2>1, <2>2
  <1>13. CASE Return(t)
    <2>1. ~Submits(t)
      BY <1>1, <1>13 DEF Return, At, FrameAt, Submits, Calling, Early, Linking, Waking, Waits, Completing, Giving
    <2>. QED
      BY <1>13, <2>1, ThreadEnded DEF Turn
  <1>14. CASE Wait(t)
    <2>1. pc[t] = "wait" /\ Current(t) \in Blocks /\ status[Current(t)] = "ready"
      BY <1>1, <1>14, HasBlock DEF Wait, At, DrainPcs, Inv, Listing, PlaceAt
    <2>. QED
      BY <1>14, <2>1, EnterTurn DEF Wait, InTry, Exclusive
  <1>. QED
    BY <1>4, <1>5, <1>7, <1>8, <1>9, <1>10, <1>11, <1>12, <1>13, <1>14

\* The push of a block, and what the first item of the list calls for.
LEMMA PushTurn ==
  ASSUME Inv, NEW t \in Threads, Marks(t), dq_width' = dq_width,
         \/ PushTail(t) \/ NeedOverride(t) \/ PushLink(t) \/ PushHead(t) \/ WakeupProbe(t) \/ Wakeup(t)
         \/ OverrideLast(t) \/ MergeQos(t) \/ PushWaiter(t)
  PROVE  Turn(t)
PROOF
  <1>. USE DEF list, target, locals, calls
  <1>1. Types /\ FrameAt(t) /\ CallAt(t)
    BY DEF Inv, Threading, ThreadAt
  <1>2. pc[t] \in {"push"} \union Linking \union Waking \union Waits
    BY DEF PushTail, NeedOverride, PushLink, PushHead, WakeupProbe, Wakeup, OverrideLast, MergeQos, PushWaiter, At,
       Linking, Waking, Waits
  <1>3. Submits(t) /\ then[t] = "return" /\ pc[t] \notin InTry \union {"body"} /\ pc[t] \in Calling
    BY <1>1, <1>2 DEF FrameAt, Types, Submits, InTry, Calling, Early, Linking, Waking, Waits, Completing, Giving
  <1>4. Calm
    BY DEF PushTail, NeedOverride, PushLink, PushHead, WakeupProbe, Wakeup, OverrideLast, MergeQos, PushWaiter, Calm
  <1>5. stack[t] # <<>> /\ Current(t) \in Blocks
    BY <1>1, <1>2, HasBlock DEF DrainPcs, Linking, Waking, Waits
  <1>6. ASSUME NEW label \in Linking \union Waking \union Waits, Goto(t, label), UNCHANGED <<stack, then>>,
               label \in Waits => Waiter(Current(t)),
               label \in Waking \union {"need_override", "link_override"} => ~Waiter(Current(t))
        PROVE  Turn(t)
    <2>1. label \in Calling /\ label \notin Early /\ label \notin InTry /\ label # "prepare"
      BY DEF Calling, Early, Linking, Waking, Waits, InTry
    <2>2. Moves(t, label)
      <3>1. pc[t] \notin {"idle"} \union DrainPcs /\ label \notin {"idle"} \union DrainPcs
        BY <1>2 DEF DrainPcs, Linking, Waking, Waits
      <3>2. label \notin Completing \union Giving /\ label \notin {"body", "uncount", "barrier_try", "unlock_probe", "unlock"}
        BY DEF Completing, Giving, Linking, Waking, Waits
      <3>3. label \notin {"async_probe", "async_try", "sync_probe", "sync_try"}
        BY <2>1 DEF Early
      <3>. QED
        BY <1>3, <1>6, <2>1, <3>1, <3>2, <3>3 DEF Moves
    <2>. QED
      BY <1>3, <1>4, <1>6, <2>1, <2>2, TurnMoved
  <1>7. CASE PushTail(t)
    <2>1. CASE dq_items = <<>>
      BY <1>6, <1>7, <2>1 DEF PushTail, Linking, Waking, Waits
    <2>2. CASE dq_items # <<>> /\ Waiter(Current(t))
      BY <1>6, <1>7, <2>2 DEF PushTail, Linking, Waking, Waits
    <2>3. CASE dq_items # <<>> /\ ~Waiter(Current(t))
      BY <1>6, <1>7, <2>3 DEF PushTail, Linking, Waking, Waits
    <2>. QED
      BY <2>1, <2>2, <2>3
  <1>8. CASE NeedOverride(t)
    <2>1. ~Waiter(Current(t))
      BY <1>1, <1>3, <1>8 DEF NeedOverride, At, CallAt
    <2>. QED
      BY <1>6, <1>8, <2>1 DEF NeedOverride, Linking, Waking, Waits
  <1>9. CASE PushLink(t)
    <2>1. CASE pc[t] = "link" /\ ~Waiter(Current(t))
      BY <1>3, <1>4, <1>9, <2>1, TurnLeft DEF PushLink
    <2>2. CASE pc[t] = "link" /\ Waiter(Current(t))
      BY <1>6, <1>9, <2>2 DEF PushLink, Linking, Waking, Waits
    <2>3. CASE pc[t] = "link_override"
      <3>1. ~Waiter(Current(t))
        BY <1>1, <1>3, <2>3 DEF CallAt
      <3>. QED
        BY <1>6, <1>9, <2>3, <3>1 DEF PushLink, Linking, Waking, Waits
    <2>. QED
      BY <1>9, <2>1, <2>2, <2>3 DEF PushLink
  <1>10. CASE PushHead(t)
    BY <1>6, <1>10 DEF PushHead, Linking, Waking, Waits
  <1>11. CASE WakeupProbe(t)
    <2>1. ~Waiter(Current(t))
      BY <1>1, <1>3, <1>11 DEF WakeupProbe, CallAt, Waking
    <2>2. PICK label \in {"override_last", "wakeup", "override"} : Goto(t, label) /\ UNCHANGED <<stack, then>>
      BY <1>11 DEF WakeupProbe
    <2>. QED
      BY <1>6, <2>1, <2>2 DEF Linking, Waking, Waits
  <1>12. CASE Wakeup(t) \/ OverrideLast(t)
    <2>1. ~Waiter(Current(t)) /\ Leave(t)
      BY <1>1, <1>3, <1>12 DEF Wakeup, OverrideLast, At, CallAt, Waking
    <2>. QED
      BY <1>3, <1>4, <2>1, TurnLeft
  <1>13. CASE MergeQos(t)
    <2>1. Waiter(Current(t))
      BY <1>1, <1>3, <1>13 DEF MergeQos, At, CallAt, Waits
    <2>. QED
      BY <1>6, <1>13, <2>1 DEF MergeQos, Linking, Waking, Waits
  <1>14. CASE PushWaiter(t)
    <2>1. pc[t] = "push_waiter" /\ Waiter(Current(t))
      BY <1>1, <1>3, <1>14 DEF PushWaiter, At, CallAt, Waits
    <2>2. CASE pc'[t] = "wait"
      <3>1. then' = then /\ Goto(t, "wait")
        BY <1>1, <1>14, <2>2 DEF PushWaiter, Types, Goto
      <3>. QED
        BY <1>6, <1>14, <2>1, <3>1 DEF PushWaiter, Linking, Waking, Waits
    <2>3. CASE pc'[t] # "wait"
      <3>1. pc'[t] = "complete" /\ then'[t] = "wait" /\ stack' = stack
        BY <1>1, <1>14, <2>3 DEF PushWaiter, Types, Goto
      <3>2. SameLive(t)
        BY <2>1, <3>1, LiveMoved
      <3>3. LiveAt(t)'
        BY <1>3, <3>2, LiveAtKept DEF Ended
      <3>4. Current(t)' = Current(t) /\ status' = status /\ kind' = kind /\ caller' = caller
        BY <1>4, <3>1 DEF Current, Calm
      <3>5. FrameAt(t)'
        BY <1>1, <1>5, <2>1, <3>1, <3>4 DEF FrameAt, DrainPcs, Completing, Giving
      <3>6. CallAt(t)'
        BY <1>1, <1>3, <2>1, <3>1, <3>4 DEF CallAt, Waiter, Early, Waking, Waits
      <3>7. FinishedAt(t)'
        BY <3>1 DEF FinishedAt
      <3>8. Submits(t)'
        BY <3>1 DEF Submits
      <3>. QED
        BY <1>4, <1>5, <3>1, <3>2, <3>3, <3>4, <3>5, <3>6, <3>7, <3>8 DEF Turn, ThreadAt
    <2>. QED
      BY <2>2, <2>3
  <1>. QED
    BY <1>7, <1>8, <1>9, <1>10, <1>11, <1>12, <1>13, <1>14

\* Completions, and the width handed out.
LEMMA CompletionTurn ==
  ASSUME Inv, NEW t \in Threads, Marks(t), dq_width' = dq_width,
         \/ NonBarrierComplete(t) \/ UnlockProbe(t) \/ Unlock(t) \/ BarrierComplete(t) \/ BarrierRelease(t)
         \/ BarrierRequeue(t) \/ PopWaiter(t) \/ TransferLock(t)
         \/ Open(t) \/ GiveReserve(t) \/ Give(t) \/ Close(t) \/ Reload(t)
  PROVE  Turn(t)
PROOF
  <1>. USE DEF list, target, locals, calls
  <1>1. Types /\ FrameAt(t)
    BY DEF Inv, Threading, ThreadAt
  <1>2. pc[t] \in {"uncount", "drain_transfer"} \union Completing \union Giving
    BY DEF NonBarrierComplete, UnlockProbe, Unlock, BarrierComplete, BarrierRelease, BarrierRequeue, PopWaiter,
       TransferLock, Open, GiveReserve, Give, Close, Reload, At, Completing, Giving
  <1>3. pc[t] \notin InTry \union {"body"} /\ pc[t] \notin Calling /\ pc[t] # "idle"
    BY <1>2 DEF InTry, Calling, Early, Linking, Waking, Waits, Completing, Giving
  <1>4. Calm \/ \E b \in Blocks : Readied(b) /\ NotPushed(t, b)
    <2>1. status' # status => Marks(t) /\ ~Ended(t) /\ kind' = kind /\ caller' = caller
      BY <1>3 DEF Ended, NonBarrierComplete, UnlockProbe, Unlock, BarrierComplete, BarrierRelease, BarrierRequeue, PopWaiter,
         TransferLock, HandOver, Open, GiveReserve, Give, Close, Reload
    <2>2. UNCHANGED <<kind, caller>>
      BY DEF NonBarrierComplete, UnlockProbe, Unlock, BarrierComplete, BarrierRelease, BarrierRequeue, PopWaiter,
         TransferLock, HandOver, Open, GiveReserve, Give, Close, Reload
    <2>3. status' = status \/ \E b : status' = [status EXCEPT ![b] = "ready"]
      <3>1. CASE TransferLock(t)
        BY <3>1 DEF TransferLock
      <3>2. CASE Give(t)
        BY <3>2 DEF Give, Dispatch
      <3>. QED
        BY <3>1, <3>2 DEF NonBarrierComplete, UnlockProbe, Unlock, BarrierComplete, BarrierRelease, BarrierRequeue,
           PopWaiter, HandOver, Open, GiveReserve, Close, Reload
    <2>4. ASSUME NEW b \in Blocks, Called(t, b) \/ Ran(b) PROVE status' = status
      <3>1. status'[b] \in {"called", "running"} /\ status'[b] # status[b]
        BY <1>1, <2>4 DEF Called, Ran, Types
      <3>. QED
        BY <1>1, <2>3, <3>1 DEF Types
    <2>. QED
      BY <2>1, <2>2, <2>4 DEF Marks, Calm
  <1>5. ASSUME NEW label \in (Completing \ {"unlock_probe"}) \union Giving, Goto(t, label), UNCHANGED <<stack, then>>,
               label = "unlock" => pc[t] = "unlock_probe", pc[t] # "drain_transfer"
        PROVE  Turn(t)
    <2>1. label \notin Calling /\ label \notin Early /\ label \notin Waits /\ label \notin Waking /\ label \notin Linking
          /\ label \notin {"idle", "body", "uncount", "barrier_try", "prepare", "unlock_probe"} \union DrainPcs
          /\ label \notin {"async_probe", "async_try", "sync_probe", "sync_try"}
          /\ label \notin {"need_override", "link_override"}
      BY DEF Calling, Early, Linking, Waking, Waits, Completing, Giving, DrainPcs
    <2>2. pc[t] \notin {"idle"} \union DrainPcs
      BY <1>2, <1>5 DEF DrainPcs, Completing, Giving
    <2>3. label = "unlock" => dq_width = 1 /\ then[t] # "wait"
      BY <1>1, <1>5 DEF FrameAt, Giving
    <2>4. pc[t] \in {"uncount"} \union Completing \union Giving
      BY <1>2, <1>5
    <2>5. Moves(t, label)
      BY <2>1, <2>2, <2>3, <2>4 DEF Moves
    <2>. QED
      BY <1>3, <1>4, <1>5, <2>1, <2>5, TurnMoved
  <1>6. ASSUME Complete(t) PROVE Turn(t)
    BY <1>2, <1>4, <1>6, TurnCompleted
  <1>7. CASE NonBarrierComplete(t)
    BY <1>5, <1>6, <1>7 DEF NonBarrierComplete, CompleteNonBarrier, At, Completing
  <1>8. CASE UnlockProbe(t)
    BY <1>5, <1>8 DEF UnlockProbe, At, Completing
  <1>9. CASE Unlock(t)
    BY <1>5, <1>6, <1>9 DEF Unlock, At, Completing
  <1>10. CASE BarrierComplete(t)
    <2>1. PICK label \in {"release", "open", "pop_waiter", "requeue"} : Goto(t, label)
      BY <1>10 DEF BarrierComplete
    <2>. QED
      BY <1>5, <1>10, <2>1 DEF BarrierComplete, At, Completing
  <1>11. CASE BarrierRelease(t)
    BY <1>5, <1>6, <1>11 DEF BarrierRelease, At, Completing
  <1>12. CASE BarrierRequeue(t)
    BY <1>6, <1>12 DEF BarrierRequeue
  <1>13. CASE PopWaiter(t)
    BY <1>5, <1>13 DEF PopWaiter, HandOver, At, Completing
  <1>14. CASE TransferLock(t)
    BY <1>6, <1>14 DEF TransferLock
  <1>15. CASE Open(t)
    BY <1>5, <1>15 DEF Open, At, Giving
  <1>16. CASE GiveReserve(t)
    <2>1. CASE pc' = pc
      BY <1>4, <1>16, <2>1, TurnStayed DEF GiveReserve, Calm
    <2>2. CASE pc' # pc
      BY <1>5, <1>16, <2>2 DEF GiveReserve, TakeMore, At, Giving
    <2>. QED
      BY <2>1, <2>2
  <1>17. CASE Give(t)
    BY <1>5, <1>17 DEF Give, At, Giving
  <1>18. CASE Close(t)
    BY <1>5, <1>6, <1>18 DEF Close, CompleteNonBarrier, At, Giving, Completing
  <1>19. CASE Reload(t)
    BY <1>5, <1>19 DEF Reload, At, Giving
  <1>. QED
    BY <1>7, <1>8, <1>9, <1>10, <1>11, <1>12, <1>13, <1>14, <1>15, <1>16, <1>17, <1>18, <1>19

\* The workers.
LEMMA DrainTurn ==
  ASSUME Inv, NEW t \in Threads, Marks(t), dq_width' = dq_width,
         \/ Redirected(t) \/ PopLane(t) \/ DrainTryLock(t) \/ Drain(t) \/ DrainUpgrade(t) \/ DrainWaiter(t)
         \/ DrainBarrier(t) \/ DrainDrop(t) \/ DrainReserve(t) \/ DrainGive(t) \/ DrainProbe(t)
         \/ DrainNarrow(t) \/ DrainUnlock(t)
  PROVE  Turn(t)
PROOF
  <1>. USE DEF list, target, locals, calls
  <1>1. Types /\ FrameAt(t)
    BY DEF Inv, Threading, ThreadAt
  <1>2. pc[t] \in {"idle"} \union (DrainPcs \ {"drain_transfer"}) /\ (pc[t] = "idle" => t \in Workers)
    BY DEF Redirected, PopLane, DrainTryLock, Drain, DrainUpgrade, DrainWaiter, DrainBarrier, DrainDrop,
       DrainReserve, DrainGive, DrainProbe, DrainNarrow, DrainUnlock, At, Draining, DrainPcs
  <1>3. /\ stack[t] = <<>> /\ t \in Workers /\ then[t] = "return" /\ pc[t] \notin InTry \union {"body"}
        /\ pc[t] \notin Calling
    BY <1>1, <1>2 DEF FrameAt, Types, InTry, DrainPcs, Completing, Giving, Calling, Early, Linking, Waking, Waits
  <1>4. ASSUME NEW label \in {"idle"} \union DrainPcs, Goto(t, label), UNCHANGED <<stack, then>>,
               Calm \/ \E b \in Blocks : Readied(b) /\ NotPushed(t, b)
        PROVE  Turn(t)
    <2>1. label \notin Calling /\ label \notin Early /\ label \notin Waits /\ label \notin Waking /\ label \notin Linking
          /\ label \notin Completing \union Giving /\ label \notin {"body", "uncount", "barrier_try", "prepare"}
          /\ label \notin {"async_probe", "async_try", "sync_probe", "sync_try", "unlock_probe", "unlock"}
          /\ label \notin {"need_override", "link_override"}
      BY DEF Calling, Early, Linking, Waking, Waits, Completing, Giving, DrainPcs
    <2>2. Moves(t, label)
      BY <1>2, <1>3, <2>1 DEF Moves
    <2>. QED
      BY <1>3, <1>4, <2>1, <2>2, TurnMoved
  <1>5. ASSUME NEW b \in Blocks, NEW after \in {"uncount", "drain_probe", "drain_more"}, Run(t, b, <<>>, after),
               UNCHANGED <<then, kind, caller>>, status[b] \in {"called", "ready"}, ~Waiter(b), NotPushed(t, b),
               after \in (IF Barrier(b) THEN Exclusive ELSE {"uncount"})
        PROVE  Turn(t)
    <2>1. Begins(t, b, after) /\ Ran(b)
      BY <1>1, <1>3, <1>5 DEF Run, Begins, Ran, Goto, Types
    <2>2. NotWaited(t, b)
      BY <1>5 DEF NotWaited
    <2>. QED
      BY <1>3, <1>5, <2>1, <2>2, TurnBegan
  <1>6. CASE Redirected(t)
    <2>1. PICK b \in root : Run(t, b, <<>>, "uncount")
      BY <1>6 DEF Redirected
    <2>2. b \in Blocks /\ status[b] = "ready" /\ ~Waiter(b) /\ ~OnList(b) /\ ~Barrier(b)
      BY <1>1, <2>1 DEF Types, Inv, Listing, PlaceAt
    <2>3. NotPushed(t, b)
      <3>. SUFFICES ASSUME NEW u \in Threads \ {t}, stack[u] # <<>>, Current(u) = b, pc[u] \in Early \union Linking
                    PROVE  FALSE
        BY DEF NotPushed
      <3>. QED
        BY <2>2 DEF Inv, Listing, ListAt, Threading, ThreadAt, CallAt, Submits, Calling
    <2>. QED
      BY <1>5, <1>6, <2>1, <2>2, <2>3 DEF Redirected
  <1>7. CASE PopLane(t)
    BY <1>4, <1>7 DEF PopLane, DrainPcs, Calm
  <1>8. CASE DrainTryLock(t)
    BY <1>4, <1>8 DEF DrainTryLock, DrainPcs, Calm
  <1>9. CASE Drain(t)
    BY <1>4, <1>9 DEF Drain, DrainPcs, Calm
  <1>10. ASSUME UNCHANGED <<pc, stack, then, status, kind, caller>> PROVE Turn(t)
    BY <1>10, TurnStayed DEF Calm
  <1>11. CASE DrainUpgrade(t)
    BY <1>4, <1>10, <1>11 DEF DrainUpgrade, DrainPcs, Calm
  <1>12. CASE DrainWaiter(t)
    BY <1>4, <1>12 DEF DrainWaiter, HandOver, DrainPcs, Calm
  <1>13. CASE DrainBarrier(t)
    <2>1. HeadLinked /\ Barrier(Head(dq_items)) /\ ~Waiter(Head(dq_items))
      BY <1>13 DEF DrainBarrier, Draining
    <2>2. PICK after \in {"drain_probe", "drain_more"} : Run(t, Head(dq_items), <<>>, after)
      BY <1>13 DEF DrainBarrier
    <2>. QED
      BY <1>5, <1>13, <2>1, <2>2, HeadFacts DEF DrainBarrier, Exclusive
  <1>14. CASE DrainDrop(t)
    BY <1>10, <1>14 DEF DrainDrop
  <1>15. CASE DrainReserve(t)
    BY <1>4, <1>10, <1>15 DEF DrainReserve, TakeMore, DrainPcs, Calm
  <1>16. CASE DrainGive(t)
    <2>1. HeadLinked /\ Dispatch(Head(dq_items)) /\ UNCHANGED <<kind, caller>>
      BY <1>16 DEF DrainGive, CanPop
    <2>2. Readied(Head(dq_items)) /\ NotPushed(t, Head(dq_items)) /\ Head(dq_items) \in Blocks
      BY <2>1, HeadFacts DEF Dispatch, Readied
    <2>. QED
      BY <1>4, <1>16, <2>2 DEF DrainGive, DrainPcs
  <1>17. CASE DrainProbe(t)
    BY <1>4, <1>17 DEF DrainProbe, DrainPcs, Calm
  <1>18. CASE DrainNarrow(t)
    BY <1>4, <1>18 DEF DrainNarrow, DrainPcs, Calm
  <1>19. CASE DrainUnlock(t)
    BY <1>4, <1>19 DEF DrainUnlock, DrainPcs, Calm
  <1>. QED
    BY <1>6, <1>7, <1>8, <1>9, <1>11, <1>12, <1>13, <1>14, <1>15, <1>16, <1>17, <1>18, <1>19

\* Every step of a thread is one of these.
LEMMA TurnStep ==
  ASSUME Inv, NEW t \in Threads, Acts(t), dq_width' = dq_width
  PROVE  Turn(t)
BY Marking, CallTurn, PushTurn, CompletionTurn, DrainTurn DEF Acts, Step

\* What a thread knows of its frames, and what the frames of all say of the blocks.
LEMMA ThreadingStep ==
  ASSUME Inv, NEW t \in Threads, Acts(t), dq_width' = dq_width
  PROVE  Threading'
PROOF
  <1>1. Types /\ Types' /\ Keeps(t) /\ Marks(t) /\ Turn(t) /\ Threading
    BY TypesStep, OthersKeep, Marking, TurnStep DEF Inv
  <1>2. \A u \in Threads : ThreadAt(u)'
    BY <1>1, OthersThread DEF Turn
  <1>3. \A u \in Threads \ {t} :
          /\ SameLive(u) /\ (Submits(u)' <=> Submits(u)) /\ (stack[u] # <<>> => Current(u)' = Current(u))
          /\ stack'[u] = stack[u] /\ pc'[u] = pc[u]
    BY <1>1, OthersFrames
  <1>4. \A u \in Threads : Count(u) \in Nat /\ \A j \in 1..Count(u) : Live(u)[j].block \in Blocks
    BY <1>1, LiveFacts
  <1>5. LiveOnce'
    <2>1. CASE SameLive(t)
      BY <1>1, <1>3, <2>1 DEF Threading, LiveOnce, SameLive
    <2>2. ASSUME NEW b \in Blocks, NEW after, Begun(t, b, after), Ran(b) PROVE LiveOnce'
      <3>. SUFFICES ASSUME NEW u \in Threads, NEW v \in Threads, NEW i \in 1..Count(u)', NEW j \in 1..Count(v)',
                           Live(u)'[i].block = Live(v)'[j].block
                    PROVE  u = v /\ i = j
        BY DEF LiveOnce
      <3>1. \A u1 \in Threads : \A k \in 1..Count(u1) : Live(u1)[k].block # b
        BY <1>1, <2>2 DEF Threading, ThreadAt, LiveAt, Ran
      <3>2. \A u1 \in Threads : \A k \in 1..Count(u1)' :
              \/ u1 = t /\ k = Count(t) + 1 /\ Live(u1)'[k].block = b
              \/ k \in 1..Count(u1) /\ Live(u1)'[k] = Live(u1)[k]
        <4>. SUFFICES ASSUME NEW u1 \in Threads, NEW k \in 1..Count(u1)'
                      PROVE  \/ u1 = t /\ k = Count(t) + 1 /\ Live(u1)'[k].block = b
                             \/ k \in 1..Count(u1) /\ Live(u1)'[k] = Live(u1)[k]
          OBVIOUS
        <4>1. CASE u1 # t
          BY <1>3, <4>1 DEF SameLive
        <4>2. CASE u1 = t
          <5>1. k \in 1..(Count(t) + 1) /\ Count(t) \in Nat
            BY <1>4, <2>2, <4>2 DEF Begun
          <5>2. CASE k = Count(t) + 1
            BY <2>2, <4>2, <5>2 DEF Begun
          <5>3. CASE k # Count(t) + 1
            <6>1. k \in 1..Count(t)
              BY <5>1, <5>3
            <6>. QED
              BY <2>2, <4>2, <6>1 DEF Begun
          <5>. QED
            BY <5>2, <5>3
        <4>. QED
          BY <4>1, <4>2
      <3>. QED
        BY <1>1, <3>1, <3>2 DEF Threading, LiveOnce
    <2>3. ASSUME Count(t)' = Count(t) - 1, \A j \in 1..(Count(t) - 1) : Live(t)'[j] = Live(t)[j]
          PROVE  LiveOnce'
      <3>1. \A u1 \in Threads : \A k \in 1..Count(u1)' : k \in 1..Count(u1) /\ Live(u1)'[k] = Live(u1)[k]
        BY <1>3, <1>4, <2>3 DEF SameLive
      <3>. QED
        BY <1>1, <3>1 DEF Threading, LiveOnce
    <2>. QED
      BY <1>1, <2>1, <2>2, <2>3 DEF Turn
  <1>6. LiveSome'
    <2>. SUFFICES ASSUME NEW b \in Blocks, status'[b] = "running"
                  PROVE  \E u \in Threads : \E j \in 1..Count(u)' : Live(u)'[j].block = b
      BY DEF LiveSome
    <2>1. ASSUME status[b] = "running", SameLive(t) PROVE \E u \in Threads : \E j \in 1..Count(u)' : Live(u)'[j].block = b
      <3>1. PICK u \in Threads : \E j \in 1..Count(u) : Live(u)[j].block = b
        BY <1>1, <2>1 DEF Threading, LiveSome
      <3>. QED
        BY <1>3, <2>1, <3>1 DEF SameLive
    <2>2. CASE SameLive(t) /\ (Calm \/ \E c \in Blocks : Called(t, c) \/ Readied(c))
      <3>1. status[b] = "running"
        BY <1>1, <2>2 DEF Calm, Called, Readied, Types
      <3>. QED
        BY <2>1, <2>2, <3>1
    <2>3. ASSUME NEW c \in Blocks, NEW after, Begun(t, c, after), Ran(c)
          PROVE  \E u \in Threads : \E j \in 1..Count(u)' : Live(u)'[j].block = b
      <3>1. CASE b = c
        <4>1. Count(t) + 1 \in 1..Count(t)' /\ Live(t)'[Count(t) + 1].block = b
          BY <1>4, <2>3, <3>1 DEF Begun
        <4>. QED
          BY <4>1
      <3>2. CASE b # c
        <4>1. status[b] = "running"
          BY <1>1, <2>3, <3>2 DEF Ran, Types
        <4>2. PICK u \in Threads : \E j \in 1..Count(u) : Live(u)[j].block = b
          BY <1>1, <4>1 DEF Threading, LiveSome
        <4>3. CASE u = t
          <5>1. PICK j \in 1..Count(t) : Live(t)[j].block = b
            BY <4>2, <4>3
          <5>2. j \in 1..Count(t)' /\ Live(t)'[j] = Live(t)[j]
            BY <1>4, <2>3, <5>1 DEF Begun
          <5>. QED
            BY <5>1, <5>2
        <4>4. CASE u # t
          BY <1>3, <4>2, <4>4 DEF SameLive
        <4>. QED
          BY <4>3, <4>4
      <3>. QED
        BY <3>1, <3>2
    <2>4. ASSUME Ended(t), Count(t) >= 1, Count(t)' = Count(t) - 1, Live(t)[Count(t)].block = Current(t),
                 \A j \in 1..(Count(t) - 1) : Live(t)'[j] = Live(t)[j]
          PROVE  \E u \in Threads : \E j \in 1..Count(u)' : Live(u)'[j].block = b
      <3>1. status[b] = "running" /\ b # Current(t)
        BY <1>1, <2>4 DEF Ended, Types
      <3>2. PICK u \in Threads : \E j \in 1..Count(u) : Live(u)[j].block = b
        BY <1>1, <3>1 DEF Threading, LiveSome
      <3>3. CASE u = t
        <4>0. PICK j \in 1..Count(t) : Live(t)[j].block = b
          BY <3>2, <3>3
        <4>1. j # Count(t)
          BY <2>4, <3>1, <4>0
        <4>2. j \in 1..(Count(t) - 1)
          BY <1>4, <4>0, <4>1
        <4>. QED
          BY <2>4, <4>0, <4>2
      <3>4. CASE u # t
        BY <1>3, <3>2, <3>4 DEF SameLive
      <3>. QED
        BY <3>3, <3>4
    <2>. QED
      BY <1>1, <2>2, <2>3, <2>4 DEF Turn
  <1>7. UncountOnce'
    <2>. SUFFICES ASSUME NEW u \in Threads, NEW v \in Threads, pc'[u] = "uncount", pc'[v] = "uncount",
                         Current(u)' = Current(v)', u # v
                  PROVE  FALSE
      BY DEF UncountOnce
    <2>1. \A w \in Threads \ {t} : pc'[w] = "uncount" => pc[w] = "uncount" /\ Current(w)' = Current(w)
                                                         /\ status[Current(w)] = "done"
      BY <1>1, <1>3 DEF Threading, ThreadAt, FrameAt, FinishedAt, DrainPcs, Completing, Giving
    <2>2. pc'[t] = "uncount" => \/ pc[t] = "uncount" /\ Current(t)' = Current(t)
                                \/ Current(t)' = Current(t) /\ status[Current(t)] = "running"
      <3>1. CASE SameLive(t) /\ (pc'[t] = "uncount" => pc[t] = "uncount" /\ (stack[t] # <<>> => Current(t)' = Current(t)))
        BY <1>1, <3>1 DEF Threading, ThreadAt, FrameAt, DrainPcs
      <3>2. ASSUME Ended(t), stack'[t] # <<>> => Current(t)' = Current(t)
            PROVE  pc'[t] = "uncount" => Current(t)' = Current(t) /\ status[Current(t)] = "running"
        <4>0. Count(t) \in 1..Count(t) /\ Live(t)[Count(t)].block = Current(t)
          BY <1>1, <3>2, LiveFacts DEF Ended
        <4>1. status[Current(t)] = "running"
          BY <1>1, <4>0 DEF Threading, ThreadAt, LiveAt
        <4>2. pc'[t] = "uncount" => stack'[t] # <<>>
          BY <1>2 DEF ThreadAt, FrameAt, DrainPcs
        <4>. QED
          BY <3>2, <4>1, <4>2
      <3>. QED
        BY <1>1, <3>1, <3>2 DEF Turn
    <2>. QED
      BY <1>1, <2>1, <2>2 DEF Threading, UncountOnce
  <1>8. \A b \in Blocks : KindAt(b)'
    <2>. SUFFICES ASSUME NEW b \in Blocks PROVE KindAt(b)'
      OBVIOUS
    <2>1. KindAt(b)
      BY <1>1 DEF Threading
    <2>2. "none" \notin Kinds
      BY Constants DEF AllKinds
    <2>3. CASE Calm
      BY <2>1, <2>3 DEF KindAt, Calm
    <2>4. ASSUME NEW c \in Blocks, Called(t, c) PROVE KindAt(b)'
      BY <1>1, <2>1, <2>2, <2>4 DEF KindAt, Called, Types
    <2>5. ASSUME NEW c \in Blocks, Readied(c) PROVE KindAt(b)'
      BY <1>1, <2>1, <2>5 DEF KindAt, Readied, Types
    <2>6. ASSUME NEW c \in Blocks, Ran(c) PROVE KindAt(b)'
      BY <1>1, <2>1, <2>6 DEF KindAt, Ran, Types
    <2>7. CASE Ended(t)
      BY <1>1, <2>1, <2>7 DEF KindAt, Ended, Types
    <2>. QED
      BY <1>1, <2>3, <2>4, <2>5, <2>6, <2>7 DEF Marks
  <1>9. \A b \in Blocks : WaiterAt(b)'
    <2>. SUFFICES ASSUME NEW b \in Blocks, Waiter(b)', status'[b] \in {"called", "ready"}
                  PROVE  /\ caller'[b] \in Threads /\ stack'[caller'[b]] # <<>>
                         /\ (Current(caller[b]) = b)' /\ Submits(caller[b])'
      BY DEF WaiterAt
    <2>1. CASE \E c \in Blocks : Called(t, c) /\ Submits(t)' /\ c = b
      BY <1>1, <2>1 DEF Called, Types, Current
    <2>2. CASE ~(Called(t, b) /\ Submits(t)')
      <3>1. Waiter(b) /\ status[b] \in {"called", "ready"} /\ caller'[b] = caller[b]
        <4>1. CASE Calm
          BY <4>1 DEF Calm, Waiter
        <4>2. ASSUME NEW c \in Blocks, Called(t, c), Submits(t)'
              PROVE  Waiter(b) /\ status[b] \in {"called", "ready"} /\ caller'[b] = caller[b]
          <5>1. b # c
            BY <2>2, <4>2
          <5>. QED
            BY <1>1, <4>2, <5>1 DEF Called, Types, Waiter
        <4>3. ASSUME NEW c \in Blocks, Readied(c)
              PROVE  Waiter(b) /\ status[b] \in {"called", "ready"} /\ caller'[b] = caller[b]
          BY <1>1, <4>3 DEF Readied, Types, Waiter
        <4>4. ASSUME NEW c \in Blocks, Ran(c)
              PROVE  Waiter(b) /\ status[b] \in {"called", "ready"} /\ caller'[b] = caller[b]
          BY <1>1, <4>4 DEF Ran, Types, Waiter
        <4>5. CASE Ended(t)
          BY <1>1, <4>5 DEF Ended, Types, Waiter
        <4>. QED
          BY <1>1, <4>1, <4>2, <4>3, <4>4, <4>5 DEF Turn
      <3>2. /\ caller[b] \in Threads /\ stack[caller[b]] # <<>>
            /\ Current(caller[b]) = b /\ Submits(caller[b])
        BY <1>1, <3>1 DEF Threading, WaiterAt
      <3>3. ASSUME NEW v \in Threads, v = caller[b]
            PROVE  stack'[v] # <<>> /\ Current(v)' = b /\ Submits(v)'
        <4>1. stack[v] # <<>> /\ Current(v) = b /\ Submits(v)
          BY <3>2, <3>3
        <4>2. CASE v # t
          BY <1>3, <4>1, <4>2
        <4>3. CASE v = t
          BY <1>1, <3>1, <4>1, <4>3 DEF Turn
        <4>. QED
          BY <4>2, <4>3
      <3>4. caller'[b] \in Threads /\ stack'[caller'[b]] # <<>> /\ (Current(caller[b]) = b)'
        BY <3>1, <3>2, <3>3 DEF Current
      <3>5. Submits(caller[b])'
        BY <3>1, <3>2, <3>3 DEF Submits
      <3>. QED
        BY <3>4, <3>5
    <2>. QED
      BY <2>1, <2>2
  <1>. QED
    BY <1>2, <1>5, <1>6, <1>7, <1>8, <1>9 DEF Threading
-----------------------------------------------------------------------------
(***************************************************************************)
(* The list.                                                               *)
(***************************************************************************)
Poppers == {"pop_waiter", "give", "drain_first", "drain_more"}
Away(t) == pc'[t] \notin Early \union Linking \union Transfers
Stays == UNCHANGED <<dq_items, linked, root, events>>

\* What a step does to the list, and where the blocks go that it takes from there.
Idles(t) == /\ Calm /\ Stays /\ pc'[t] \notin Transfers
            /\ pc'[t] \in Early \union Linking => /\ stack[t] # <<>> /\ Current(t)' = Current(t)
                                                  /\ pc'[t] \in Early => pc[t] \in Early
                                                  /\ pc'[t] \in Linking => pc[t] \in Linking
Pushes(t) == /\ Calm /\ UNCHANGED <<linked, root, events>> /\ pc[t] = "push" /\ pc'[t] \notin Early \union Transfers
             /\ dq_items' = Append(dq_items, Current(t)) /\ stack[t] # <<>> /\ Current(t)' = Current(t)
Links(t) == /\ Calm /\ UNCHANGED <<dq_items, root, events>> /\ pc[t] \in Linking /\ Away(t)
            /\ linked' = linked \union {Current(t)} /\ stack[t] # <<>>
Hands(t) == /\ Calm /\ UNCHANGED <<root, events>> /\ pc[t] \in Poppers /\ pc'[t] \in Transfers
            /\ CanPop /\ Pop /\ dc'[t] = Head(dq_items) /\ Barrier(Head(dq_items)) /\ Waiter(Head(dq_items))
Comes(t) == \E b \in Blocks : Called(t, b) /\ Stays /\ pc'[t] \in Early /\ ~Submits(t)

Readies(t, b) ==
  /\ Readied(b) /\ NotPushed(t, b) /\ Away(t)
  /\ \/ pc[t] = "async_try" /\ stack[t] # <<>> /\ b = Current(t) /\ UNCHANGED list
     \/ pc[t] \in Transfers /\ b = dc[t] /\ UNCHANGED list /\ pc'[t] \in {"wait", "idle", "body"}
     \/ pc[t] \in {"give", "drain_first", "drain_more"} /\ b = Head(dq_items) /\ ~Barrier(b) /\ CanPop /\ Pop
  /\ \/ Waiter(b) /\ events' = events \union {b} /\ root' = root
     \/ ~Waiter(b) /\ ~Barrier(b) /\ root' = root \union {b} /\ events' = events
Runs(t, b) ==
  /\ Ran(b) /\ NotPushed(t, b) /\ NotWaited(t, b) /\ Away(t)
  /\ \/ pc[t] \in {"sync_try", "barrier_try"} /\ stack[t] # <<>> /\ b = Current(t) /\ Stays
     \/ b \in root /\ root' = root \ {b} /\ UNCHANGED <<list, events>>
     \/ /\ pc[t] = "wait" /\ stack[t] # <<>> /\ b = Current(t) /\ b \in events
        /\ events' = events \ {b} /\ UNCHANGED <<list, root>>
     \/ pc[t] \in {"drain_first", "drain_more"} /\ b = Head(dq_items) /\ CanPop /\ Pop /\ UNCHANGED <<root, events>>
Places(t) == \/ Idles(t) \/ Pushes(t) \/ Links(t) \/ Hands(t) \/ Comes(t)
             \/ \E b \in Blocks : Readies(t, b) \/ Runs(t, b)
             \/ Ended(t) /\ Stays /\ Away(t)

\* Steps that leave the list and the blocks.
LEMMA PlacesIdle ==
  ASSUME Inv, NEW t \in Threads, Calm, Stays, NEW label, Goto(t, label),
         \/ label \notin Early \union Linking \union Transfers
         \/ /\ stack' = stack /\ pc[t] \notin {"idle"} \union DrainPcs /\ label \notin Transfers
            /\ (label \in Early => pc[t] \in Early) /\ (label \in Linking => pc[t] \in Linking)
  PROVE  Places(t)
PROOF
  <1>1. Types /\ FrameAt(t) /\ pc'[t] = label
    BY DEF Inv, Threading, ThreadAt, Types, Goto
  <1>. QED
    BY <1>1, HasBlock DEF Places, Idles, Current

\* How the steps move the blocks: the calls ...
LEMMA PlacesCall ==
  ASSUME Inv, NEW t \in Threads, Marks(t),
         \/ (t \in Blocks /\ Call(t)) \/ NestedCall(t)
         \/ AsyncProbe(t) \/ AsyncTry(t) \/ SyncProbe(t) \/ SyncTry(t) \/ BarrierTry(t) \/ Prepare(t)
         \/ Return(t) \/ Wait(t)
  PROVE  Places(t)
PROOF
  <1>. USE DEF list, target, locals, calls
  <1>1. Types /\ FrameAt(t) /\ CallAt(t) /\ LiveAt(t)
    BY DEF Inv, Threading, ThreadAt
  <1>2. ASSUME NEW b \in Blocks, NEW k \in Kinds, Submit(t, b, k), pc[t] = "idle" \/ pc[t] = "body"
        PROVE  Places(t)
    <2>1. Entry(k) \in Early
      BY Constants DEF Entry, AllKinds, Early
    <2>2. pc'[t] \in Early
      BY <1>1, <1>2, <2>1 DEF Submit, Goto, Types
    <2>3. ~Submits(t)
      BY <1>1, <1>2 DEF Submits, FrameAt, Calling, Early, Linking, Waking, Waits, Completing, Giving
    <2>4. status'[b] = "called" /\ status[b] = "new" /\ Stays
      BY <1>1, <1>2 DEF Submit, Types, Stays
    <2>5. \E c \in Blocks : Called(t, c)
      <3>1. ~Calm
        BY <2>4 DEF Calm
      <3>2. \A c \in Blocks : ~Readied(c) /\ ~Ran(c)
        BY <1>1, <2>4 DEF Readied, Ran, Types
      <3>3. ~Ended(t)
        BY <1>1, <2>4 DEF Ended, Types
      <3>. QED
        BY <3>1, <3>2, <3>3 DEF Marks
    <2>. QED
      BY <2>2, <2>3, <2>4, <2>5 DEF Places, Comes
  <1>3. CASE (t \in Blocks /\ Call(t)) \/ NestedCall(t)
    BY <1>2, <1>3 DEF Call, NestedCall, At, Distinct
  <1>4. CASE AsyncProbe(t) \/ SyncProbe(t)
    BY <1>4, PlacesIdle DEF AsyncProbe, SyncProbe, At, Calm, Stays, Early, Linking, Transfers, DrainPcs
  <1>5. CASE AsyncTry(t)
    <2>1. pc[t] = "async_try" /\ status[Current(t)] = "called" /\ kind[Current(t)] = "async" /\ dq_width > 1
      BY <1>1, <1>5 DEF AsyncTry, At, CallAt, Early, Calling, Submits
    <2>2. stack[t] # <<>> /\ Current(t) \in Blocks /\ ~Waiter(Current(t))
      BY <1>1, <2>1, HasBlock DEF DrainPcs, Waiter
    <2>3. CASE CanAcquireAsync(dq_state)
      <3>1. Readied(Current(t)) /\ NotPushed(t, Current(t))
        BY <1>5, <2>1, <2>2, <2>3, OwnCall DEF AsyncTry, Dispatch, Readied
      <3>2. ~Barrier(Current(t))
        BY <2>1 DEF Barrier
      <3>3. Away(t)
        BY <1>1, <1>5, <2>3 DEF AsyncTry, Leave, Goto, Types, Away, Early, Linking, Transfers
      <3>4. UNCHANGED list /\ root' = root \union {Current(t)} /\ events' = events
        BY <1>5, <2>2, <2>3 DEF AsyncTry, Dispatch
      <3>5. Readies(t, Current(t))
        BY <2>1, <2>2, <3>1, <3>2, <3>3, <3>4 DEF Readies
      <3>. QED
        BY <2>2, <3>5 DEF Places
    <2>4. CASE ~CanAcquireAsync(dq_state)
      BY <1>5, <2>1, <2>4, PlacesIdle DEF AsyncTry, Calm, Stays, Early, Linking, Transfers, DrainPcs
    <2>. QED
      BY <2>3, <2>4
  <1>6. ASSUME NEW after, Enter(t, after), pc[t] \in {"sync_try", "barrier_try", "wait"},
               status[Current(t)] \in {"called", "ready"}, UNCHANGED <<list, root, kind, caller>>,
               IF pc[t] = "wait" THEN Current(t) \in events /\ events' = events \ {Current(t)} ELSE events' = events
        PROVE  Places(t)
    <2>1. stack[t] # <<>> /\ Current(t) \in Blocks
      BY <1>1, <1>6, HasBlock DEF DrainPcs
    <2>2. Ran(Current(t)) /\ pc'[t] = "body"
      BY <1>1, <1>6, <2>1 DEF Enter, Run, Goto, Ran, Types
    <2>3. Away(t)
      BY <2>2 DEF Away, Early, Linking, Transfers
    <2>4. Runs(t, Current(t))
      BY <1>6, <2>1, <2>2, <2>3, OwnCall DEF Runs, Stays
    <2>. QED
      BY <2>1, <2>4 DEF Places
  <1>7. CASE SyncTry(t)
    <2>1. pc[t] = "sync_try" /\ status[Current(t)] = "called"
      BY <1>1, <1>7 DEF SyncTry, At, CallAt, Early, Calling, Submits
    <2>2. CASE CanReserveSync(dq_state)
      BY <1>6, <1>7, <2>1, <2>2 DEF SyncTry
    <2>3. CASE ~CanReserveSync(dq_state)
      BY <1>7, <2>1, <2>3, PlacesIdle DEF SyncTry, Calm, Stays, Early, Linking, Transfers, DrainPcs
    <2>. QED
      BY <2>2, <2>3
  <1>8. CASE BarrierTry(t)
    <2>1. pc[t] = "barrier_try" /\ status[Current(t)] = "called"
      BY <1>1, <1>8 DEF BarrierTry, At, CallAt, Early, Calling, Submits
    <2>2. CASE Free(dq_state)
      BY <1>6, <1>8, <2>1, <2>2 DEF BarrierTry
    <2>3. CASE ~Free(dq_state)
      BY <1>8, <2>1, <2>3, PlacesIdle DEF BarrierTry, Calm, Stays, Early, Linking, Transfers, DrainPcs
    <2>. QED
      BY <2>2, <2>3
  <1>9. CASE Prepare(t)
    <2>1. CASE dq_state.owner = t
      <3>1. Current(t)' = Current(t) /\ stack[t] # <<>>
        BY <1>1, <1>9, <2>1, HasBlock DEF Prepare, At, DrainPcs, Current
      <3>. QED
        BY <1>9, <2>1, <3>1 DEF Prepare, At, Places, Idles, Calm, Stays, Transfers
    <2>2. CASE dq_state.owner # t
      BY <1>9, <2>2, PlacesIdle DEF Prepare, At, Calm, Stays, Early, Linking, Transfers, DrainPcs
    <2>. QED
      BY <2>1, <2>2
  <1>10. CASE Return(t)
    <2>1. stack[t] # <<>> /\ Current(t) \in Blocks /\ pc[t] = "body"
      BY <1>1, <1>10, HasBlock DEF Return, At, DrainPcs
    <2>2. Ended(t) /\ Stays
      BY <1>10, <2>1 DEF Return, Ended, Stays
    <2>3. Count(t) \in 1..Count(t) /\ Live(t)[Count(t)] = Head(stack[t])
      BY <1>1, <2>1, LiveFacts
    <2>4. Head(stack[t]).after \in Exclusive \union {"uncount"}
      BY <1>1, <2>3 DEF LiveAt
    <2>5. pc'[t] = Head(stack[t]).after
      BY <1>1, <1>10 DEF Return, Goto, Types
    <2>6. Away(t)
      BY <2>4, <2>5 DEF Away, Exclusive, Early, Linking, Transfers
    <2>. QED
      BY <2>2, <2>6 DEF Places
  <1>11. CASE Wait(t)
    <2>1. pc[t] = "wait" /\ Current(t) \in Blocks /\ status[Current(t)] = "ready" /\ Current(t) \in events
      BY <1>1, <1>11, HasBlock DEF Wait, At, DrainPcs, Inv, Listing, PlaceAt
    <2>. QED
      BY <1>6, <1>11, <2>1 DEF Wait
  <1>. QED
    BY <1>3, <1>4, <1>5, <1>7, <1>8, <1>9, <1>10, <1>11

\* ... the push, up to the wait ...
LEMMA PlacesPush ==
  ASSUME Inv, NEW t \in Threads,
         \/ PushTail(t) \/ NeedOverride(t) \/ PushLink(t) \/ PushHead(t) \/ WakeupProbe(t) \/ Wakeup(t)
         \/ OverrideLast(t) \/ MergeQos(t) \/ PushWaiter(t)
  PROVE  Places(t)
PROOF
  <1>. USE DEF list, target, locals, calls
  <1>1. Types /\ FrameAt(t)
    BY DEF Inv, Threading, ThreadAt
  <1>2. pc[t] \in {"push"} \union Linking \union Waking \union Waits
    BY DEF PushTail, NeedOverride, PushLink, PushHead, WakeupProbe, Wakeup, OverrideLast, MergeQos, PushWaiter, At,
       Linking, Waking, Waits
  <1>3. Calm /\ UNCHANGED <<root, events>>
    BY DEF PushTail, NeedOverride, PushLink, PushHead, WakeupProbe, Wakeup, OverrideLast, MergeQos, PushWaiter, Calm
  <1>4. stack[t] # <<>> /\ pc[t] \notin {"idle"} \union DrainPcs
    BY <1>1, <1>2, HasBlock DEF DrainPcs, Linking, Waking, Waits
  <1>5. CASE PushTail(t)
    <2>1. pc'[t] \in Linking
      BY <1>1, <1>5 DEF PushTail, Goto, Types, Linking
    <2>2. pc'[t] \notin Early \union Transfers
      BY <2>1 DEF Linking, Early, Transfers
    <2>. QED
      BY <1>3, <1>4, <1>5, <2>2 DEF PushTail, At, Places, Pushes, Current
  <1>6. CASE NeedOverride(t)
    BY <1>3, <1>4, <1>6, PlacesIdle DEF NeedOverride, At, Stays, Early, Linking, Transfers
  <1>7. CASE PushLink(t) \/ PushHead(t)
    <2>1. Away(t)
      <3>1. CASE PushLink(t)
        <4>1. \E label \in {"idle", "body", "merge_qos", "override_probe"} : Goto(t, label)
          BY <3>1 DEF PushLink, Leave
        <4>2. \A label : Goto(t, label) => pc'[t] = label
          BY <1>1 DEF Goto, Types
        <4>. QED
          BY <4>1, <4>2 DEF Away, Early, Linking, Transfers
      <3>2. CASE PushHead(t)
        BY <1>1, <3>2 DEF PushHead, Goto, Types, Away, Early, Linking, Transfers
      <3>. QED
        BY <1>7, <3>1, <3>2
    <2>2. pc[t] \in Linking
      BY <1>7 DEF PushLink, PushHead, At, Linking
    <2>. QED
      BY <1>3, <1>4, <1>7, <2>1, <2>2 DEF PushLink, PushHead, Places, Links
  <1>8. CASE WakeupProbe(t) \/ Wakeup(t) \/ OverrideLast(t) \/ MergeQos(t) \/ PushWaiter(t)
    <2>1. PICK label \in {"override_last", "wakeup", "override", "idle", "body", "wait", "complete"} : Goto(t, label)
      BY <1>8 DEF WakeupProbe, Wakeup, OverrideLast, MergeQos, PushWaiter, Leave
    <2>2. Stays
      BY <1>3, <1>8 DEF WakeupProbe, Wakeup, OverrideLast, MergeQos, PushWaiter, Stays
    <2>3. label \notin Early \union Linking \union Transfers
      BY DEF Early, Linking, Transfers
    <2>. QED
      BY <1>3, <2>1, <2>2, <2>3, PlacesIdle
  <1>. QED
    BY <1>5, <1>6, <1>7, <1>8

\* A block that is not a barrier leaves the list at its head.
LEMMA PlacesDispatch ==
  ASSUME Inv, NEW t \in Threads, pc[t] \in {"give", "drain_first", "drain_more"}, Away(t),
         CanPop, Pop, Dispatch(Head(dq_items)), ~Barrier(Head(dq_items)), UNCHANGED <<kind, caller>>
  PROVE  Places(t)
PROOF
  <1>1. HeadLinked
    BY DEF CanPop
  <1>2. Readied(Head(dq_items)) /\ NotPushed(t, Head(dq_items)) /\ Head(dq_items) \in Blocks
    BY <1>1, HeadFacts DEF Dispatch, Readied
  <1>3. Readies(t, Head(dq_items))
    BY <1>2 DEF Readies, Dispatch
  <1>. QED
    BY <1>2, <1>3 DEF Places

\* ... the end of a block and the completion ...
LEMMA PlacesComplete ==
  ASSUME Inv, NEW t \in Threads,
         \/ NonBarrierComplete(t) \/ UnlockProbe(t) \/ Unlock(t) \/ BarrierComplete(t) \/ BarrierRelease(t)
         \/ BarrierRequeue(t) \/ PopWaiter(t) \/ TransferLock(t)
         \/ Open(t) \/ GiveReserve(t) \/ Give(t) \/ Close(t) \/ Reload(t)
  PROVE  Places(t)
PROOF
  <1>. USE DEF list, target, locals, calls
  <1>1. Types /\ FrameAt(t) /\ OwnerAt(t)
    BY DEF Inv, Threading, ThreadAt, Locking
  <1>2. ASSUME Calm, Stays,
               pc' = pc \/ \E label \in {"idle", "body", "wait"} \union (Completing \ {"transfer"}) \union Giving : Goto(t, label),
               pc[t] \in Giving \union Completing \union {"uncount"}, pc[t] # "transfer"
        PROVE  Places(t)
    <2>1. CASE pc' = pc
      BY <1>2, <2>1 DEF Places, Idles, Early, Linking, Transfers, Completing, Giving
    <2>2. ASSUME NEW label \in {"idle", "body", "wait"} \union (Completing \ {"transfer"}) \union Giving, Goto(t, label)
          PROVE  Places(t)
      <3>1. label \notin Early \union Linking \union Transfers
        BY DEF Early, Linking, Transfers, Completing, Giving
      <3>. QED
        BY <1>2, <2>2, <3>1, PlacesIdle
    <2>. QED
      BY <1>2, <2>1, <2>2
  <1>3. Complete(t) => \E label \in {"idle", "body", "wait"} : Goto(t, label)
    BY DEF Complete, Leave
  <1>4. CASE NonBarrierComplete(t) \/ UnlockProbe(t) \/ Unlock(t)
    BY <1>2, <1>3, <1>4 DEF NonBarrierComplete, CompleteNonBarrier, UnlockProbe, Unlock, At, Calm, Stays, Completing
  <1>5. CASE BarrierComplete(t)
    <2>1. PICK label \in {"release", "open", "pop_waiter", "requeue"} : Goto(t, label)
      BY <1>5 DEF BarrierComplete
    <2>. QED
      BY <1>2, <1>5, <2>1 DEF BarrierComplete, At, Calm, Stays, Completing
  <1>6. CASE BarrierRelease(t) \/ BarrierRequeue(t)
    BY <1>2, <1>3, <1>6 DEF BarrierRelease, BarrierRequeue, At, Calm, Stays, Completing
  <1>7. CASE PopWaiter(t)
    <2>1. Barrier(Head(dq_items)) /\ Waiter(Head(dq_items)) /\ pc[t] \in Poppers
      BY <1>1, <1>7 DEF PopWaiter, At, OwnerAt, Poppers
    <2>2. pc'[t] = "transfer" /\ dc'[t] = Head(dq_items)
      BY <1>1, <1>7 DEF PopWaiter, HandOver, Goto, Types
    <2>. QED
      BY <1>7, <2>1, <2>2 DEF PopWaiter, HandOver, Places, Hands, Calm, Transfers
  <1>8. CASE TransferLock(t)
    <2>1. dc[t] \in Blocks /\ Waiter(dc[t]) /\ status[dc[t]] = "called" /\ pc[caller[dc[t]]] \notin Early \union Linking
      BY <1>8 DEF TransferLock, Inv, Listing, TransferAt, Transfers
    <2>2. NotPushed(t, dc[t])
      BY <2>1, CurrentOwner DEF NotPushed
    <2>3. Away(t) /\ pc'[t] \in {"wait", "idle", "body"}
      <3>1. PICK label \in {"idle", "body", "wait"} : Goto(t, label)
        BY <1>3, <1>8 DEF TransferLock
      <3>. QED
        BY <1>1, <3>1 DEF Goto, Types, Away, Early, Linking, Transfers
    <2>4. Readies(t, dc[t])
      BY <1>8, <2>1, <2>2, <2>3 DEF TransferLock, Readies, Readied, Transfers
    <2>. QED
      BY <2>1, <2>4 DEF Places
  <1>9. CASE Open(t) \/ GiveReserve(t) \/ Close(t)
    BY <1>2, <1>3, <1>9 DEF Open, GiveReserve, TakeMore, Close, CompleteNonBarrier, At, Calm, Stays, Completing, Giving
  <1>10. CASE Reload(t)
    BY <1>2, <1>10 DEF Reload, At, Calm, Stays, Giving
  <1>11. CASE Give(t)
    <2>1. ~Barrier(Head(dq_items)) /\ pc[t] = "give"
      BY <1>1, <1>11 DEF Give, At, OwnerAt
    <2>2. Away(t)
      BY <1>1, <1>11 DEF Give, Goto, Types, Away, Early, Linking, Transfers
    <2>. QED
      BY <1>11, <2>1, <2>2, PlacesDispatch DEF Give
  <1>. QED
    BY <1>4, <1>5, <1>6, <1>7, <1>8, <1>9, <1>10, <1>11

\* ... and the workers.
LEMMA PlacesDrain ==
  ASSUME Inv, NEW t \in Threads,
         \/ Redirected(t) \/ PopLane(t) \/ DrainTryLock(t) \/ Drain(t) \/ DrainUpgrade(t) \/ DrainWaiter(t)
         \/ DrainBarrier(t) \/ DrainDrop(t) \/ DrainReserve(t) \/ DrainGive(t) \/ DrainProbe(t)
         \/ DrainNarrow(t) \/ DrainUnlock(t)
  PROVE  Places(t)
PROOF
  <1>. USE DEF list, target, locals, calls
  <1>1. Types
    BY DEF Inv
  <1>2. pc[t] \in {"idle"} \union (DrainPcs \ {"drain_transfer"})
    BY DEF Redirected, PopLane, DrainTryLock, Drain, DrainUpgrade, DrainWaiter, DrainBarrier, DrainDrop,
       DrainReserve, DrainGive, DrainProbe, DrainNarrow, DrainUnlock, At, Draining, DrainPcs
  <1>3. ASSUME Calm, Stays, pc' = pc \/ \E label \in {"idle"} \union (DrainPcs \ {"drain_transfer"}) : Goto(t, label)
        PROVE  Places(t)
    <2>1. CASE pc' = pc
      BY <1>2, <1>3, <2>1 DEF Places, Idles, Early, Linking, Transfers, DrainPcs
    <2>2. ASSUME NEW label \in {"idle"} \union (DrainPcs \ {"drain_transfer"}), Goto(t, label)
          PROVE  Places(t)
      <3>1. label \notin Early \union Linking \union Transfers
        BY DEF Early, Linking, Transfers, DrainPcs
      <3>. QED
        BY <1>3, <2>2, <3>1, PlacesIdle
    <2>. QED
      BY <1>3, <2>1, <2>2
  <1>4. CASE Redirected(t)
    <2>1. PICK b \in root : Run(t, b, <<>>, "uncount") /\ root' = root \ {b}
      BY <1>4 DEF Redirected
    <2>2. b \in Blocks /\ status[b] = "ready" /\ ~Waiter(b) /\ ~OnList(b) /\ ~Barrier(b)
      BY <1>1, <2>1 DEF Types, Inv, Listing, PlaceAt
    <2>3. NotPushed(t, b)
      <3>. SUFFICES ASSUME NEW u \in Threads \ {t}, stack[u] # <<>>, Current(u) = b, pc[u] \in Early \union Linking
                    PROVE  FALSE
        BY DEF NotPushed
      <3>. QED
        BY <2>2 DEF Inv, Listing, ListAt, Threading, ThreadAt, CallAt, Submits, Calling
    <2>4. NotWaited(t, b)
      BY <2>2 DEF NotWaited
    <2>5. Away(t)
      BY <1>1, <2>1 DEF Run, Goto, Types, Away, Early, Linking, Transfers
    <2>6. Runs(t, b)
      BY <1>4, <2>1, <2>2, <2>3, <2>4, <2>5 DEF Redirected, Run, Runs, Ran
    <2>. QED
      BY <2>2, <2>6 DEF Places
  <1>5. CASE PopLane(t) \/ DrainTryLock(t) \/ Drain(t) \/ DrainUpgrade(t) \/ DrainDrop(t)
    BY <1>3, <1>5 DEF PopLane, DrainTryLock, Drain, DrainUpgrade, DrainDrop, Calm, Stays, DrainPcs
  <1>6. CASE DrainReserve(t) \/ DrainProbe(t) \/ DrainNarrow(t) \/ DrainUnlock(t)
    BY <1>3, <1>6 DEF DrainReserve, TakeMore, DrainProbe, DrainNarrow, DrainUnlock, Calm, Stays, DrainPcs
  <1>7. CASE DrainWaiter(t)
    <2>1. pc[t] \in Poppers /\ pc'[t] = "drain_transfer" /\ dc'[t] = Head(dq_items)
      BY <1>1, <1>7 DEF DrainWaiter, Draining, HandOver, Goto, Types, Poppers
    <2>. QED
      BY <1>7, <2>1 DEF DrainWaiter, HandOver, Places, Hands, Calm, Transfers
  <1>8. CASE DrainBarrier(t)
    <2>1. HeadLinked /\ ~Waiter(Head(dq_items)) /\ pc[t] \in {"drain_first", "drain_more"}
      BY <1>8 DEF DrainBarrier, Draining
    <2>2. Away(t)
      BY <1>1, <1>8 DEF DrainBarrier, Run, Goto, Types, Away, Early, Linking, Transfers
    <2>3. NotWaited(t, Head(dq_items)) /\ NotPushed(t, Head(dq_items)) /\ Head(dq_items) \in Blocks
      BY <2>1, HeadFacts DEF NotWaited
    <2>4. Ran(Head(dq_items))
      BY <1>8, <2>1, HeadFacts DEF DrainBarrier, Run, Ran
    <2>5. Runs(t, Head(dq_items))
      BY <1>8, <2>1, <2>2, <2>3, <2>4 DEF DrainBarrier, Runs
    <2>. QED
      BY <2>3, <2>5 DEF Places
  <1>9. CASE DrainGive(t)
    <2>1. ~Barrier(Head(dq_items)) /\ pc[t] \in {"drain_first", "drain_more"}
      BY <1>9 DEF DrainGive, Draining
    <2>2. Away(t)
      BY <1>1, <1>9 DEF DrainGive, Goto, Types, Away, Early, Linking, Transfers
    <2>. QED
      BY <1>9, <2>1, <2>2, PlacesDispatch DEF DrainGive
  <1>. QED
    BY <1>4, <1>5, <1>6, <1>7, <1>8, <1>9

\* Every step moves blocks in one of the ways above.
LEMMA Placing ==
  ASSUME Inv, NEW t \in Threads, Acts(t)
  PROVE  Places(t)
BY Marking, PlacesCall, PlacesPush, PlacesComplete, PlacesDrain DEF Acts, Step

\* The list without its head.
LEMMA ListPopped ==
  ASSUME Types, ListOnce, dq_items # <<>>, dq_items' = Tail(dq_items)
  PROVE  /\ ListOnce'
         /\ \A b : /\ b = Head(dq_items) => OnList(b) /\ ~OnList(b)'
                   /\ b # Head(dq_items) => (OnList(b)' <=> OnList(b))
PROOF
  <1>. DEFINE n == Len(dq_items)
              h == Head(dq_items)
  <1>1. /\ n \in Nat /\ n >= 1 /\ h = dq_items[1] /\ Len(dq_items') = n - 1
        /\ \A i \in 1..(n - 1) : dq_items'[i] = dq_items[i + 1]
    BY ListFacts
  <1>2. \A i, j \in 1..n : dq_items[i] = dq_items[j] => i = j
    BY DEF ListOnce
  <1>3. \A b : /\ OnList(b)' <=> \E i \in 1..(n - 1) : dq_items'[i] = b
               /\ OnList(b) <=> \E i \in 1..n : dq_items[i] = b
    BY <1>1 DEF OnList
  <1>4. ListOnce' <=> \A i, j \in 1..(n - 1) : dq_items'[i] = dq_items'[j] => i = j
    BY <1>1 DEF ListOnce
  <1>. HIDE DEF n, h
  <1>5. ListOnce'
    <2>. SUFFICES ASSUME NEW i \in 1..(n - 1), NEW j \in 1..(n - 1), dq_items'[i] = dq_items'[j] PROVE i = j
      BY <1>4
    <2>1. i + 1 \in 1..n /\ j + 1 \in 1..n /\ dq_items[i + 1] = dq_items[j + 1]
      BY <1>1
    <2>2. i + 1 = j + 1
      BY <1>2, <2>1
    <2>. QED
      BY <1>1, <2>2
  <1>6. ASSUME NEW i \in 1..(n - 1) PROVE i + 1 \in 1..n /\ i + 1 # 1 /\ 1 \in 1..n /\ dq_items'[i] = dq_items[i + 1]
    BY <1>1
  <1>7. ASSUME NEW i \in 1..n, i # 1 PROVE i - 1 \in 1..(n - 1) /\ dq_items'[i - 1] = dq_items[i]
    <2>1. i - 1 \in 1..(n - 1) /\ (i - 1) + 1 = i
      BY <1>1, <1>7
    <2>. QED
      BY <1>1, <2>1
  <1>8. ASSUME NEW b, b = h PROVE OnList(b) /\ ~OnList(b)'
    <2>1. 1 \in 1..n
      BY <1>1
    <2>. QED
      BY <1>1, <1>2, <1>3, <1>6, <1>8, <2>1
  <1>9. ASSUME NEW b, b # h PROVE OnList(b)' <=> OnList(b)
    <2>1. ASSUME OnList(b)' PROVE OnList(b)
      BY <1>3, <1>6, <2>1
    <2>2. ASSUME OnList(b) PROVE OnList(b)'
      <3>1. PICK i \in 1..n : dq_items[i] = b
        BY <1>3, <2>2
      <3>2. i # 1
        BY <1>1, <1>9, <3>1
      <3>. QED
        BY <1>3, <1>7, <3>1, <3>2
    <2>. QED
      BY <2>1, <2>2
  <1>. QED
    BY <1>5, <1>8, <1>9 DEF h

\* The list with one more block.
LEMMA ListPushed ==
  ASSUME Types, ListOnce, NEW b \in Blocks, ~OnList(b), dq_items' = Append(dq_items, b)
  PROVE  /\ ListOnce' /\ OnList(b)' /\ \A c : c # b => (OnList(c)' <=> OnList(c))
         /\ dq_items' # <<>> /\ dq_items # <<>> => Head(dq_items') = Head(dq_items)
PROOF
  <1>. DEFINE n == Len(dq_items)
  <1>1. /\ n \in Nat /\ Len(dq_items') = n + 1 /\ dq_items'[n + 1] = b
        /\ \A i \in 1..n : dq_items'[i] = dq_items[i]
        /\ dq_items' # <<>>
    BY AppendProperties DEF Types
  <1>2. \A i, j \in 1..n : dq_items[i] = dq_items[j] => i = j
    BY DEF ListOnce
  <1>3. \A c : /\ OnList(c)' <=> \E i \in 1..(n + 1) : dq_items'[i] = c
               /\ OnList(c) <=> \E i \in 1..n : dq_items[i] = c
    BY <1>1 DEF OnList
  <1>4. ListOnce' <=> \A i, j \in 1..(n + 1) : dq_items'[i] = dq_items'[j] => i = j
    BY <1>1 DEF ListOnce
  <1>10. dq_items # <<>> => n >= 1 /\ Head(dq_items) = dq_items[1] /\ Head(dq_items') = dq_items'[1]
    BY <1>1, ListFacts
  <1>. HIDE DEF n
  <1>5. \A i \in 1..(n + 1) : i \in 1..n \/ i = n + 1
    BY <1>1
  <1>6. \A i \in 1..n : i \in 1..(n + 1)
    BY <1>1
  <1>7. n + 1 \in 1..(n + 1)
    BY <1>1
  <1>8. ListOnce'
    <2>. SUFFICES ASSUME NEW i \in 1..(n + 1), NEW j \in 1..(n + 1), dq_items'[i] = dq_items'[j] PROVE i = j
      BY <1>4
    <2>. QED
      BY <1>1, <1>2, <1>3, <1>5
  <1>9. OnList(b)' /\ \A c : c # b => (OnList(c)' <=> OnList(c))
    BY <1>1, <1>3, <1>5, <1>6, <1>7
  <1>11. dq_items # <<>> => Head(dq_items') = Head(dq_items)
    <2>1. dq_items # <<>> => 1 \in 1..n
      BY <1>1, <1>10
    <2>. QED
      BY <1>1, <1>10, <2>1
  <1>. QED
    BY <1>1, <1>8, <1>9, <1>11

\* What a step does to the list.
Popped == CanPop /\ Pop
Joined(t) == pc[t] = "push" /\ stack[t] # <<>> /\ dq_items' = Append(dq_items, Current(t))

\* The list changes at its head by the thread that pops, and at its tail by the one that pushes.
LEMMA ListMoved ==
  ASSUME Inv, NEW t \in Threads, Places(t)
  PROVE  /\ ListOnce' /\ (Popped => pc[t] \in Poppers) /\ ~(Popped /\ Pushes(t))
         /\ \/ dq_items' = dq_items
            \/ Pushes(t) /\ Joined(t) /\ Current(t) \in Blocks /\ ~OnList(Current(t))
               /\ status[Current(t)] = "called" /\ caller[Current(t)] = t
            \/ Popped /\ pc[t] \in Poppers
         /\ \A b : OnList(b)' <=> (OnList(b) /\ ~(Popped /\ b = Head(dq_items))) \/ (Pushes(t) /\ b = Current(t))
PROOF
  <1>1. Types /\ ListOnce /\ ListAt(t) /\ CallAt(t)
    BY DEF Inv, Listing, Threading, ThreadAt
  <1>2. CASE Pushes(t)
    <2>1. /\ Current(t) \in Blocks /\ ~OnList(Current(t)) /\ dq_items' = Append(dq_items, Current(t))
          /\ caller[Current(t)] = t /\ status[Current(t)] = "called"
      BY <1>1, <1>2, StackFacts DEF Pushes, ListAt, Early, CallAt, Submits, Calling
    <2>2. ListOnce' /\ (\A c : c # Current(t) => (OnList(c)' <=> OnList(c)))
      BY <1>1, <2>1, ListPushed
    <2>3. \A c : c = Current(t) => OnList(c)'
      BY <1>1, <2>1, ListPushed
    <2>4. ~Popped
      <3>1. Len(dq_items') = Len(dq_items) + 1 /\ Len(dq_items) \in Nat
        BY <1>1, <2>1, AppendProperties DEF Types
      <3>2. Popped => Len(dq_items') = Len(dq_items) - 1
        BY <1>1, ListFacts DEF Popped, CanPop, HeadLinked, Pop
      <3>. QED
        BY <3>1, <3>2
    <2>. QED
      BY <1>2, <2>1, <2>2, <2>3, <2>4 DEF Joined, Pushes
  <1>3. CASE Popped /\ pc[t] \in Poppers
    <2>1. dq_items # <<>> /\ dq_items' = Tail(dq_items) /\ ~Pushes(t)
      BY <1>3 DEF Popped, CanPop, HeadLinked, Pop, Pushes, Poppers
    <2>. QED
      BY <1>1, <1>3, <2>1, ListPopped
  <1>4. CASE dq_items' = dq_items
    <2>1. ~Popped /\ ~Pushes(t)
      <3>1. Popped => Len(dq_items') = Len(dq_items) - 1 /\ Len(dq_items) \in Nat
        BY <1>1, ListFacts DEF Popped, CanPop, HeadLinked, Pop
      <3>2. Pushes(t) => Len(dq_items') = Len(dq_items) + 1 /\ Len(dq_items) \in Nat
        <4>1. Pushes(t) => Current(t) \in Blocks /\ dq_items' = Append(dq_items, Current(t))
          BY <1>1, StackFacts DEF Pushes
        <4>. QED
          BY <1>1, <4>1, AppendProperties DEF Types
      <3>. QED
        BY <1>4, <3>1, <3>2
    <2>. QED
      BY <1>1, <1>4, <2>1 DEF ListOnce, OnList
  <1>. QED
    BY <1>2, <1>3, <1>4 DEF Places, Idles, Links, Hands, Comes, Readies, Runs, Stays, Popped, list, Poppers

\* A block that is called stays where it is until it is taken from there.
LEMMA PlaceStep ==
  ASSUME Inv, NEW t \in Threads, Marks(t), Places(t), Types', dq_width' = dq_width, NEW b \in Blocks
  PROVE  PlaceAt(b)'
PROOF
  <1>1. /\ Types /\ ListAt(t) /\ TransferAt(t) /\ PlaceAt(b) /\ CallAt(t) /\ FrameAt(t) /\ KindAt(b)
        /\ status[b] \in {"new", "called", "ready", "running", "done"}
    BY DEF Inv, Listing, Threading, ThreadAt, Types
  <1>2. /\ OnList(b)' <=> (OnList(b) /\ ~(Popped /\ b = Head(dq_items))) \/ (Pushes(t) /\ b = Current(t))
        /\ Pushes(t) => Current(t) \in Blocks /\ status[Current(t)] = "called"
        /\ dq_items' = dq_items \/ Pushes(t) \/ Popped
        /\ Pushes(t) => Joined(t) /\ ~Popped
        /\ Popped => dq_items # <<>>
    <2>1. Popped /\ Pushes(t) => FALSE
      <3>1. Pushes(t) => Current(t) \in Blocks /\ dq_items' = Append(dq_items, Current(t))
        BY <1>1, StackFacts DEF Pushes
      <3>2. Pushes(t) => Len(dq_items') = Len(dq_items) + 1 /\ Len(dq_items) \in Nat
        BY SMTT(30), <1>1, <3>1, AppendProperties DEF Types
      <3>3. Popped => Len(dq_items') = Len(dq_items) - 1
        BY <1>1, ListFacts DEF Popped, CanPop, HeadLinked, Pop
      <3>. QED
        BY <3>2, <3>3
    <2>2. Pushes(t) => Current(t) \in Blocks /\ status[Current(t)] = "called" /\ Joined(t)
      BY <1>1, StackFacts DEF Pushes, Joined, CallAt, Submits, Calling, Early
    <2>3. Popped => dq_items # <<>>
      BY DEF Popped, CanPop, HeadLinked
    <2>4. OnList(b)' <=> (OnList(b) /\ ~(Popped /\ b = Head(dq_items))) \/ (Pushes(t) /\ b = Current(t))
      BY ListMoved
    <2>5. dq_items' = dq_items \/ Pushes(t) \/ Popped
      BY ListMoved
    <2>. QED
      BY <2>1, <2>2, <2>3, <2>4, <2>5
  <1>3. ASSUME status'[b] = status[b], kind'[b] = kind[b] PROVE /\ (Waiter(b)' <=> Waiter(b)) /\ (Barrier(b)' <=> Barrier(b))
    BY <1>3 DEF Waiter, Barrier
  <1>4. ASSUME Calm PROVE status'[b] = status[b] /\ kind'[b] = kind[b]
    BY <1>4 DEF Calm
  <1>5. CASE Idles(t)
    BY <1>1, <1>2, <1>3, <1>4, <1>5 DEF Idles, Stays, PlaceAt, OnList
  <1>6. CASE Pushes(t)
    BY <1>1, <1>2, <1>3, <1>4, <1>6 DEF Pushes, PlaceAt
  <1>7. CASE Links(t)
    <2>1. OnList(Current(t)) /\ dq_items' = dq_items
      BY <1>1, <1>7 DEF Links, ListAt
    <2>2. OnList(b)' <=> OnList(b)
      BY <2>1 DEF OnList
    <2>. QED
      BY <1>1, <1>3, <1>4, <1>7, <2>1, <2>2 DEF Links, PlaceAt
  <1>8. CASE Hands(t)
    <2>1. Popped /\ linked' = linked \ {Head(dq_items)} /\ root' = root /\ events' = events /\ Calm
      BY <1>8 DEF Hands, Popped, Pop
    <2>. QED
      BY <1>1, <1>2, <1>3, <1>4, <2>1 DEF PlaceAt
  <1>9. CASE Comes(t)
    <2>1. PICK c \in Blocks : Called(t, c) /\ Stays
      BY <1>9 DEF Comes
    <2>2. OnList(b)' <=> OnList(b)
      BY <2>1 DEF Stays, OnList
    <2>3. CASE b = c
      BY <1>1, <2>1, <2>2, <2>3 DEF Called, PlaceAt, Types, Stays
    <2>4. CASE b # c
      <3>1. status'[b] = status[b] /\ kind'[b] = kind[b]
        BY <1>1, <2>1, <2>4 DEF Called, Types
      <3>. QED
        BY <1>1, <1>3, <2>1, <2>2, <3>1 DEF PlaceAt, Stays
    <2>. QED
      BY <2>3, <2>4
  <1>10. ASSUME NEW c \in Blocks, Readies(t, c) PROVE PlaceAt(b)'
    <2>0. ~Pushes(t) /\ kind' = kind
      BY <1>10 DEF Readies, Readied, Pushes, Transfers
    <2>1. ~Pushes(t) /\ kind' = kind /\ linked' = (IF Popped THEN linked \ {Head(dq_items)} ELSE linked)
      BY <1>10, <2>0 DEF Readies, list, Popped, Pop
    <2>2. CASE b = c
      <3>1. status[b] = "called" /\ status'[b] = "ready"
        BY <1>1, <1>10, <2>2 DEF Readies, Readied, Types
      <3>2. ~OnList(b)'
        BY <1>1, <1>2, <1>10, <2>1, <2>2 DEF Readies, ListAt, Early, TransferAt, Popped
      <3>3. b \notin linked'
        BY <1>1, <1>2, <1>10, <2>1, <2>2, <3>2 DEF PlaceAt
      <3>4. b \notin root /\ b \notin events
        BY <1>1, <3>1 DEF PlaceAt
      <3>5. (Waiter(b)' <=> Waiter(b)) /\ (Barrier(b)' <=> Barrier(b))
        BY <2>1 DEF Waiter, Barrier
      <3>. QED
        BY <1>10, <2>2, <3>1, <3>2, <3>3, <3>4, <3>5 DEF Readies, PlaceAt
    <2>3. CASE b # c
      <3>1. status'[b] = status[b] /\ kind'[b] = kind[b]
        BY <1>1, <1>10, <2>3 DEF Readies, Readied, Types
      <3>2. (b \in root' <=> b \in root) /\ (b \in events' <=> b \in events)
        BY <1>10, <2>3 DEF Readies
      <3>. QED
        BY <1>1, <1>2, <1>3, <2>1, <3>1, <3>2 DEF PlaceAt
    <2>. QED
      BY <2>2, <2>3
  <1>11. ASSUME NEW c \in Blocks, Runs(t, c) PROVE PlaceAt(b)'
    <2>1. linked' = (IF Popped THEN linked \ {Head(dq_items)} ELSE linked) /\ kind' = kind
      BY <1>11 DEF Runs, Ran, Stays, list, Popped, Pop
    <2>2. ~Pushes(t)
      <3>1. ~Calm
        BY <1>1, <1>11 DEF Runs, Ran, Calm, Types
      <3>. QED
        BY <3>1 DEF Pushes
    <2>3. CASE b = c
      <3>1. status'[b] = "running"
        BY <1>1, <1>11, <2>3 DEF Runs, Ran, Types
      <3>2. ~OnList(b)' /\ b \notin root' /\ b \notin events'
        <4>1. CASE pc[t] \in {"sync_try", "barrier_try"} /\ stack[t] # <<>> /\ b = Current(t) /\ Stays
          <5>1. ~OnList(b) /\ status[b] = "called"
            BY <1>1, <4>1 DEF ListAt, Early, CallAt, Submits, Calling
          <5>. QED
            BY <1>1, <1>2, <2>2, <4>1, <5>1 DEF PlaceAt, Stays
        <4>2. CASE b \in root /\ root' = root \ {b} /\ UNCHANGED <<list, events>>
          BY <1>1, <1>2, <2>2, <4>2 DEF PlaceAt
        <4>3. CASE b \in events /\ events' = events \ {b} /\ UNCHANGED <<list, root>>
          BY <1>1, <1>2, <2>2, <4>3 DEF PlaceAt
        <4>4. CASE b = Head(dq_items) /\ Popped /\ UNCHANGED <<root, events>>
          <5>1. OnList(b)
            BY <1>1, <4>4, HeadFacts DEF Popped, CanPop
          <5>. QED
            BY <1>1, <1>2, <2>2, <4>4, <5>1 DEF PlaceAt
        <4>. QED
          BY <1>11, <2>3, <4>1, <4>2, <4>3, <4>4 DEF Runs, Popped
      <3>3. b \notin linked'
        BY <1>1, <1>2, <2>1, <2>2, <3>2 DEF PlaceAt
      <3>. QED
        BY <3>1, <3>2, <3>3 DEF PlaceAt
    <2>4. CASE b # c
      <3>1. status'[b] = status[b] /\ kind'[b] = kind[b]
        BY <1>1, <1>11, <2>4 DEF Runs, Ran, Types
      <3>2. (b \in root' <=> b \in root) /\ (b \in events' <=> b \in events)
        BY <1>11, <2>4 DEF Runs, Stays
      <3>. QED
        BY <1>1, <1>2, <1>3, <2>1, <2>2, <3>1, <3>2 DEF PlaceAt
    <2>. QED
      BY <2>3, <2>4
  <1>12. CASE Ended(t) /\ Stays
    <2>1. OnList(b)' <=> OnList(b)
      BY <1>12 DEF Stays, OnList
    <2>2. CASE b = Current(t)
      <3>1. Count(t) \in 1..Count(t) /\ Live(t)[Count(t)].block = Current(t)
        BY <1>1, <1>12, LiveFacts DEF Ended
      <3>2. status[b] = "running" /\ status'[b] = "done"
        BY <1>1, <1>12, <2>2, <3>1 DEF Ended, Inv, Threading, ThreadAt, LiveAt, Types
      <3>. QED
        BY <1>1, <1>12, <2>1, <3>2 DEF PlaceAt, Stays
    <2>3. CASE b # Current(t)
      <3>1. status'[b] = status[b] /\ kind'[b] = kind[b]
        BY <1>1, <1>12, <2>3 DEF Ended, Types
      <3>. QED
        BY <1>1, <1>3, <1>12, <2>1, <3>1 DEF PlaceAt, Stays
    <2>. QED
      BY <2>2, <2>3
  <1>. QED
    BY <1>5, <1>6, <1>7, <1>8, <1>9, <1>10, <1>11, <1>12 DEF Places

\* Who takes blocks from the list, or hands the lock over, has it.
LEMMA OwnerOf ==
  ASSUME Inv, NEW t \in Threads, pc[t] \in Completing \union Giving \union DrainLocked
  PROVE  Holds(t) /\ dq_state.owner = t
BY DEF Inv, Locking, LockAt, Holds, HasBarrier

\* Two threads that hold the lock are one.
LEMMA OwnerOnly ==
  ASSUME Inv, NEW t \in Threads, NEW u \in Threads, pc[t] \in Poppers \union Transfers, Holds(u)
  PROVE  u = t
PROOF
  <1>1. pc[t] \in Completing \union Giving \union DrainLocked
    BY DEF Poppers, Transfers, Completing, Giving, DrainLocked, DrainPcs
  <1>. QED
    BY <1>1, OwnerOf DEF Inv, Locking, LockAt

\* What the other threads know of their place in the list stays true ...
LEMMA ListAtOther ==
  ASSUME Inv, NEW t \in Threads, Keeps(t), Marks(t), Places(t), dq_width' = dq_width, NEW u \in Threads \ {t}
  PROVE  ListAt(u)'
PROOF
  <1>1. Types /\ ListAt(u) /\ CallAt(u) /\ CallAt(t) /\ FrameAt(u)
    BY DEF Inv, Listing, Threading, ThreadAt
  <1>2. pc'[u] = pc[u] /\ (stack[u] # <<>> => Current(u)' = Current(u))
    BY OthersFrames
  <1>3. CASE pc[u] \in Early \union Linking
    <2>1. stack[u] # <<>> /\ caller[Current(u)] = u /\ Current(u) \in Blocks
      BY <1>1, <1>3, HasBlock DEF CallAt, Submits, Calling, Early, Linking, DrainPcs
    <2>2. pc[t] \in Early \union Linking /\ stack[t] # <<>> => Current(t) # Current(u)
      BY <1>1, <2>1 DEF CallAt, Submits, Calling
    <2>3. Pushes(t) => Current(t) # Current(u)
      BY <2>2 DEF Pushes, Early
    <2>4. OnList(Current(u)) /\ Current(u) \notin linked => \A b : b = Current(u) => OnList(b)'
      BY ListMoved DEF Popped, CanPop, HeadLinked
    <2>5. ~OnList(Current(u)) => \A b : b = Current(u) => ~OnList(b)'
      BY <2>3, ListMoved
    <2>6. ASSUME Current(u) \notin linked PROVE Current(u) \notin linked'
      BY <2>2, <2>6 DEF Places, Idles, Pushes, Links, Hands, Comes, Readies, Runs, Stays, list, Pop
    <2>7. OnList(Current(u))' <=> \E i \in 1..Len(dq_items') : dq_items'[i] = Current(u)
      BY <1>2, <2>1 DEF OnList
    <2>8. \A b : OnList(b)' <=> \E i \in 1..Len(dq_items') : dq_items'[i] = b
      BY DEF OnList
    <2>. QED
      BY <1>1, <1>2, <2>1, <2>4, <2>5, <2>6, <2>7, <2>8 DEF ListAt, Early, Linking
  <1>4. CASE pc[u] \notin Early \union Linking
    BY <1>2, <1>4 DEF ListAt
  <1>. QED
    BY <1>3, <1>4

\* ... and what the acting thread knows.
LEMMA ListAtSelf ==
  ASSUME Inv, NEW t \in Threads, Marks(t), Places(t), dq_width' = dq_width, Types'
  PROVE  ListAt(t)'
PROOF
  <1>1. Types /\ ListAt(t)
    BY DEF Inv, Listing
  <1>2. \A b : OnList(b)' <=> \E i \in 1..Len(dq_items') : dq_items'[i] = b
    BY DEF OnList
  <1>3. ASSUME NEW c, stack'[t] # <<>>, c = Current(t)',
               pc'[t] \in Early => ~OnList(c)', pc'[t] \in Linking => OnList(c)' /\ c \notin linked'
        PROVE  ListAt(t)'
    <2>1. OnList(Current(t))' <=> \E i \in 1..Len(dq_items') : dq_items'[i] = c
      BY <1>3 DEF OnList
    <2>. QED
      BY <1>2, <1>3, <2>1 DEF ListAt
  <1>4. CASE pc'[t] \notin Early \union Linking
    BY <1>4 DEF ListAt
  <1>5. CASE Idles(t)
    <2>1. CASE pc'[t] \in Early \union Linking
      BY <1>1, <1>5, <2>1 DEF Idles, ListAt, Stays, OnList
    <2>. QED
      BY <1>4, <2>1
  <1>6. CASE Pushes(t)
    <2>1. Current(t) \in Blocks /\ ~OnList(Current(t))
      BY <1>1, <1>6, StackFacts DEF Pushes, ListAt, Early
    <2>2. Current(t) \notin linked
      BY <2>1 DEF Inv, Listing, PlaceAt
    <2>3. \A b : b = Current(t) => OnList(b)'
      BY <1>6, ListMoved
    <2>4. OnList(Current(t))'
      BY <1>2, <1>6, <2>3 DEF OnList, Pushes
    <2>. QED
      BY <1>6, <2>2, <2>4 DEF Pushes, ListAt
  <1>7. CASE Comes(t)
    <2>1. PICK b \in Blocks : Called(t, b) /\ Stays /\ pc'[t] \in Early
      BY <1>7 DEF Comes
    <2>2. ~OnList(b)
      BY <2>1 DEF Called, Inv, Listing, PlaceAt
    <2>3. ~OnList(Current(t))'
      BY <2>1, <2>2 DEF Called, Stays, OnList
    <2>4. pc'[t] \notin Linking
      BY <2>1 DEF Early, Linking
    <2>. QED
      BY <2>3, <2>4 DEF ListAt
  <1>8. CASE Hands(t)
    BY <1>4, <1>8 DEF Hands, Transfers, Early, Linking
  <1>. QED
    BY <1>4, <1>5, <1>6, <1>7, <1>8 DEF Places, Links, Readies, Runs, Away

\* A waiter to whom the lock is handed over stays where it is.
LEMMA TransferStep ==
  ASSUME Inv, NEW t \in Threads, Keeps(t), Marks(t), Places(t), dq_width' = dq_width, NEW u \in Threads, u # t
  PROVE  TransferAt(u)'
PROOF
  <1>1. Types /\ CallAt(t) /\ FrameAt(t)
    BY DEF Inv, Listing, Threading, ThreadAt
  <1>2. pc'[u] = pc[u] /\ dc'[u] = dc[u]
    BY DEF Keeps
  <1>. SUFFICES ASSUME pc[u] \in Transfers
                PROVE  /\ dc[u] \in Blocks /\ Waiter(dc[u])' /\ Barrier(dc[u])' /\ status'[dc[u]] = "called"
                       /\ ~OnList(dc[u])' /\ pc'[caller'[dc[u]]] \notin Early \union Linking
    BY <1>2 DEF TransferAt, Waiter, Barrier, OnList
  <1>. DEFINE d == dc[u]
  <1>3. /\ dc[u] \in Blocks /\ Waiter(dc[u]) /\ Barrier(dc[u]) /\ status[dc[u]] = "called"
        /\ ~OnList(dc[u]) /\ pc[caller[dc[u]]] \notin Early \union Linking
    BY DEF Inv, Listing, TransferAt
  <1>4. pc[t] \notin Poppers \union Transfers
    <2>1. Holds(u)
      BY OwnerOf DEF Transfers, Completing, DrainLocked, DrainPcs
    <2>. QED
      BY <2>1, OwnerOnly
  <1>5. /\ caller[dc[u]] \in Threads /\ stack[caller[dc[u]]] # <<>>
        /\ Current(caller[dc[u]]) = dc[u] /\ Submits(caller[dc[u]])
    BY <1>3 DEF Inv, Threading, WaiterAt
  <1>6. ~Ended(t) \/ dc[u] # Current(t)
    <2>1. ASSUME Ended(t) PROVE status[Current(t)] = "running"
      <3>1. Count(t) \in 1..Count(t) /\ Live(t)[Count(t)].block = Current(t)
        BY <1>1, <2>1, LiveFacts DEF Ended
      <3>. QED
        BY <3>1 DEF Inv, Threading, ThreadAt, LiveAt
    <2>. QED
      BY <1>3, <2>1
  <1>7. kind'[dc[u]] = kind[dc[u]] /\ caller'[dc[u]] = caller[dc[u]]
    BY <1>1, <1>3, <1>6, MarkFacts
  <1>8. status'[dc[u]] = "called"
    <2>1. CASE Calm
      BY <1>3, <2>1 DEF Calm
    <2>2. ASSUME NEW c \in Blocks, Called(t, c) PROVE status'[dc[u]] = "called"
      BY <1>1, <1>3, <2>2 DEF Called, Types
    <2>3. ASSUME NEW c \in Blocks, Readies(t, c) PROVE status'[dc[u]] = "called"
      <3>1. pc[t] = "async_try" /\ stack[t] # <<>> /\ c = Current(t)
        BY <1>4, <2>3 DEF Readies, Poppers
      <3>2. kind[Current(t)] = "async"
        BY <1>1, <3>1 DEF CallAt, Submits, Calling, Early
      <3>3. c # dc[u]
        BY <1>3, <3>1, <3>2 DEF Waiter
      <3>. QED
        BY <1>1, <1>3, <2>3, <3>3 DEF Readies, Readied, Types
    <2>4. ASSUME NEW c \in Blocks, Runs(t, c) PROVE status'[dc[u]] = "called"
      <3>1. ASSUME c = dc[u] PROVE FALSE
        <4>1. CASE pc[t] \in {"sync_try", "barrier_try"} /\ stack[t] # <<>> /\ c = Current(t)
          <5>1. caller[c] = t
            BY <1>1, <4>1 DEF CallAt, Submits, Calling, Early
          <5>. QED
            BY <1>3, <3>1, <4>1, <5>1 DEF Early
        <4>2. CASE c \in root \union events
          BY <1>3, <3>1, <4>2 DEF Inv, Listing, PlaceAt
        <4>. QED
          BY <1>4, <2>4, <4>1, <4>2 DEF Runs, Poppers
      <3>. QED
        BY <1>1, <1>3, <2>4, <3>1 DEF Runs, Ran, Types
    <2>5. CASE Ended(t)
      BY <1>1, <1>3, <1>6, <2>5 DEF Ended, Types
    <2>. QED
      BY <2>1, <2>2, <2>3, <2>4, <2>5 DEF Places, Idles, Pushes, Links, Hands, Comes
  <1>9. \A b : b = dc[u] => ~OnList(b)'
    <2>1. ASSUME Pushes(t) PROVE Current(t) # dc[u]
      <3>1. Current(t) \in Blocks /\ caller[Current(t)] = t /\ pc[t] \in Early
        BY <1>1, <2>1, StackFacts DEF Pushes, CallAt, Submits, Calling, Early
      <3>. QED
        BY <1>3, <3>1
    <2>. QED
      BY <1>3, <2>1, ListMoved
  <1>10. ~OnList(dc[u])'
    <2>1. \A b : OnList(b)' <=> \E i \in 1..Len(dq_items') : dq_items'[i] = b
      BY DEF OnList
    <2>. QED
      BY <1>2, <1>9, <2>1 DEF OnList
  <1>11. \A c \in Threads : c = caller[dc[u]] => pc'[c] \notin Early \union Linking
    <2>. SUFFICES ASSUME NEW c \in Threads, c = caller[dc[u]], pc'[c] \in Early \union Linking PROVE FALSE
      OBVIOUS
    <2>1. c = t
      BY <1>3 DEF Keeps
    <2>2. Submits(t) /\ pc[t] \notin Early \union Linking
      BY <1>3, <1>5, <2>1
    <2>. QED
      BY <2>1, <2>2 DEF Places, Idles, Pushes, Links, Hands, Comes, Readies, Runs, Away, Transfers, Early, Linking
  <1>12. Waiter(dc[u])' /\ Barrier(dc[u])'
    BY <1>2, <1>3, <1>7 DEF Waiter, Barrier
  <1>. QED
    BY <1>3, <1>5, <1>7, <1>8, <1>10, <1>11, <1>12

\* A step keeps the list.
LEMMA ListingStep ==
  ASSUME Inv, NEW t \in Threads, Acts(t), dq_width' = dq_width
  PROVE  Listing'
PROOF
  <1>1. Types /\ Types' /\ Keeps(t) /\ Marks(t) /\ Places(t)
    BY TypesStep, OthersKeep, Marking, Placing DEF Inv
  <1>2. ListOnce' /\ (\A b \in Blocks : PlaceAt(b)') /\ \A u \in Threads : ListAt(u)'
    BY <1>1, ListMoved, PlaceStep, ListAtOther, ListAtSelf
  <1>3. TransferAt(t)'
    <2>. SUFFICES ASSUME pc'[t] \in Transfers PROVE TransferAt(t)'
      BY DEF TransferAt
    <2>1. Hands(t)
      BY <1>1 DEF Places, Idles, Pushes, Links, Hands, Comes, Readies, Runs, Away, Transfers, Early
    <2>2. HeadLinked /\ dc'[t] = Head(dq_items) /\ Barrier(Head(dq_items)) /\ Waiter(Head(dq_items)) /\ Calm
      BY <2>1 DEF Hands, CanPop
    <2>3. /\ Head(dq_items) \in Blocks /\ status[Head(dq_items)] = "called"
          /\ NotPushed(t, Head(dq_items))
      BY <2>2, HeadFacts
    <2>4. ASSUME NEW h \in Blocks, h = Head(dq_items)
          PROVE  /\ Waiter(h)' /\ Barrier(h)' /\ status'[h] = "called" /\ ~OnList(h)'
                 /\ pc'[caller'[h]] \notin Early \union Linking
      <3>1. Waiter(h)' /\ Barrier(h)' /\ status'[h] = "called" /\ caller'[h] = caller[h]
        BY <2>2, <2>3, <2>4, <1>1 DEF Waiter, Barrier, Calm
      <3>2. ~OnList(h)'
        BY <2>1, <2>4, <1>1, ListMoved DEF Hands, Popped, Pushes, Poppers
      <3>3. /\ caller[h] \in Threads /\ stack[caller[h]] # <<>>
            /\ Current(caller[h]) = h /\ Submits(caller[h])
        BY <2>2, <2>3, <2>4 DEF Inv, Threading, WaiterAt
      <3>4. pc'[caller[h]] \notin Early \union Linking
        <4>1. CASE caller[h] = t
          BY <4>1 DEF Transfers, Early, Linking
        <4>2. CASE caller[h] # t
          BY <1>1, <2>3, <2>4, <3>3, <4>2 DEF NotPushed, Keeps
        <4>. QED
          BY <4>1, <4>2
      <3>. QED
        BY <3>1, <3>2, <3>4
    <2>5. dc'[t] \in Blocks
      BY <2>2, <2>3
    <2>. QED
      BY <2>2, <2>4, <2>5 DEF TransferAt, Waiter, Barrier, OnList
  <1>. QED
    BY <1>1, <1>2, <1>3, TransferStep DEF Listing
-----------------------------------------------------------------------------
(***************************************************************************)
(* Who holds the lock, and for what.                                       *)
(***************************************************************************)
Plain == {"body"} \union InTry \union Waits

\* Only a thread that runs a block, or submits one from it, or waits may hold the lock by what
\* its frames say; any other holds it by its label.
LEMMA Roles ==
  ASSUME Inv, NEW t \in Threads, pc[t] \notin Plain
  PROVE  /\ ~RunsBarrier(t) /\ ~DrainRuns(t) /\ ~Handed(t)
         /\ HasBarrier(t) <=> pc[t] \in Completing
         /\ Holds(t) <=> pc[t] \in Completing \union Giving \union DrainLocked
PROOF
  <1>1. LiveAt(t) /\ HandedAt(t)
    BY DEF Inv, Threading, ThreadAt, Locking
  <1>2. ~RunsBarrier(t) /\ ~DrainRuns(t)
    BY <1>1 DEF LiveAt, Plain, RunsBarrier, DrainRuns, Exclusive, DrainAfter
  <1>3. ~Handed(t)
    BY <1>1 DEF HandedAt, Plain
  <1>. QED
    BY <1>2, <1>3 DEF HasBarrier, Holds

\* The same after a step.
LEMMA RolesAfter ==
  ASSUME NEW t \in Threads, LiveAt(t)', HandedAt(t)', pc'[t] \notin Plain
  PROVE  /\ ~RunsBarrier(t)' /\ ~DrainRuns(t)' /\ ~Handed(t)'
         /\ HasBarrier(t)' <=> pc'[t] \in Completing
         /\ Holds(t)' <=> pc'[t] \in Completing \union Giving \union DrainLocked
PROOF
  <1>1. ~RunsBarrier(t)' /\ ~DrainRuns(t)'
    BY DEF LiveAt, Plain, RunsBarrier, DrainRuns, Exclusive, DrainAfter
  <1>2. ~Handed(t)'
    BY DEF HandedAt, Plain
  <1>. QED
    BY <1>1, <1>2 DEF HasBarrier, Holds

\* What a thread does after a completion is decided when it takes the lock, and once.
LEMMA ThenStep ==
  ASSUME Inv, NEW t \in Threads, Acts(t), then'[t] = "wait"
  PROVE  \/ then[t] = "wait" /\ pc[t] \in (Completing \ {"unlock_probe", "unlock"}) \union Giving
         \/ PushWaiter(t) /\ ~Locked(dq_state)
PROOF
  <1>. USE DEF list, target, locals, calls
  <1>1. Types /\ FrameAt(t)
    BY DEF Inv, Threading, ThreadAt
  <1>2. CASE then' = then
    BY <1>1, <1>2 DEF FrameAt
  <1>3. CASE PushWaiter(t)
    BY <1>1, <1>3 DEF PushWaiter, FrameAt, Types
  <1>4. CASE Complete(t)
    BY <1>1, <1>4 DEF Complete, Leave, FrameAt, Types
  <1>5. (t \in Blocks /\ Call(t)) \/ NestedCall(t) \/ AsyncProbe(t) \/ AsyncTry(t) \/ SyncProbe(t) \/ SyncTry(t)
          \/ BarrierTry(t) \/ Prepare(t) \/ Return(t) \/ Wait(t) => then' = then
    BY DEF Call, NestedCall, Submit, AsyncProbe, AsyncTry, SyncProbe, SyncTry, BarrierTry, Prepare, Return, Wait, Leave
  <1>6. PushTail(t) \/ NeedOverride(t) \/ PushLink(t) \/ PushHead(t) \/ WakeupProbe(t) \/ Wakeup(t)
          \/ OverrideLast(t) \/ MergeQos(t) => then' = then
    BY DEF PushTail, NeedOverride, PushLink, PushHead, WakeupProbe, Wakeup, OverrideLast, MergeQos, Leave
  <1>7. NonBarrierComplete(t) \/ UnlockProbe(t) \/ Unlock(t) \/ BarrierComplete(t) \/ BarrierRelease(t)
          \/ BarrierRequeue(t) \/ PopWaiter(t) \/ TransferLock(t) \/ Open(t) \/ GiveReserve(t) \/ Give(t)
          \/ Close(t) \/ Reload(t) => then' = then \/ Complete(t)
    BY DEF NonBarrierComplete, CompleteNonBarrier, UnlockProbe, Unlock, BarrierComplete, BarrierRelease,
           BarrierRequeue, PopWaiter, HandOver, TransferLock, Open, GiveReserve, Give, Close, Reload
  <1>8. Redirected(t) \/ PopLane(t) \/ DrainTryLock(t) \/ Drain(t) \/ DrainUpgrade(t) \/ DrainWaiter(t)
          \/ DrainBarrier(t) \/ DrainDrop(t) \/ DrainReserve(t) \/ DrainGive(t) \/ DrainProbe(t)
          \/ DrainNarrow(t) \/ DrainUnlock(t) => then' = then
    BY DEF Redirected, PopLane, DrainTryLock, Drain, DrainUpgrade, DrainWaiter, HandOver, DrainBarrier, DrainDrop,
           DrainReserve, DrainGive, DrainProbe, DrainNarrow, DrainUnlock
  <1>. QED
    BY <1>2, <1>3, <1>4, <1>5, <1>6, <1>7, <1>8 DEF Acts, Step

\* A block of a call that is ready keeps its thread waiting.
LEMMA ReadyWaits ==
  ASSUME Types', Threading', Listing', NEW u \in Threads, Handed(u)', pc'[u] \notin Waits
  PROVE  then'[u] = "wait" /\ pc'[u] \in Completing \union Giving
PROOF
  <1>1. FrameAt(u)' /\ LiveAt(u)' /\ CallAt(u)' /\ FinishedAt(u)' /\ ListAt(u)'
    BY DEF Threading, ThreadAt, Listing
  <1>2. stack'[u] # <<>> /\ Current(u)' \in Blocks /\ Current(u)' \in events'
    <2>1. stack'[u] \in Seq(Frames) /\ stack'[u] # <<>>
      BY DEF Types, Handed
    <2>2. Head(stack'[u]) \in Frames
      BY <2>1
    <2>. QED
      BY <2>1, <2>2 DEF Handed, Current, Frames
  <1>3. ASSUME NEW b \in Blocks, b = Current(u)' PROVE status'[b] = "ready" /\ Waiter(b)' /\ ~OnList(b)'
    BY <1>2, <1>3 DEF Listing, PlaceAt
  <1>4. status'[Current(u)'] = "ready"
    BY <1>2, <1>3
  <1>5. pc'[u] # "body"
    <2>. SUFFICES ASSUME pc'[u] = "body" PROVE FALSE
      OBVIOUS
    <2>1. stack'[u] \in Seq(Frames) /\ stack'[u] # <<>> /\ Len(stack'[u]) \in Nat /\ Len(stack'[u]) >= 1
      BY <1>2 DEF Types
    <2>2. Count(u)' = Len(stack'[u]) /\ 1 \in 1..Count(u)' /\ Count(u)' \in 1..Count(u)'
      BY <2>1 DEF Count
    <2>3. Live(u)'[Count(u)'] = stack'[u][1]
      BY <2>1, <2>2 DEF Live
    <2>4. status'[Live(u)'[Count(u)'].block] = "running"
      BY <1>1, <2>2 DEF LiveAt
    <2>. QED
      BY <1>4, <2>1, <2>3, <2>4 DEF Current
  <1>6. pc'[u] \in Labels /\ pc'[u] \notin {"idle"} \union DrainPcs
    BY <1>1, <1>2 DEF FrameAt, Types
  <1>7. Submits(u)'
    <2>1. pc'[u] \in Calling \/ pc'[u] \in {"uncount"} \union Completing \union Giving
      BY <1>5, <1>6 DEF Labels, DrainPcs, Calling, Early, Linking, Waking, Waits, Completing, Giving
    <2>. QED
      BY <1>1, <1>4, <2>1 DEF FinishedAt, Submits
  <1>8. pc'[u] \notin Early
    BY <1>1, <1>4, <1>7 DEF CallAt
  <1>9. pc'[u] \notin Linking
    BY <1>1, <1>2, <1>3 DEF ListAt, OnList
  <1>10. pc'[u] \notin Waking
    BY <1>1, <1>2, <1>3, <1>7 DEF CallAt, Waiter
  <1>. QED
    BY <1>1, <1>7, <1>8, <1>9, <1>10 DEF Submits, Calling, FrameAt

\* Only a thread that waits can have been handed the lock.
LEMMA HandedStep ==
  ASSUME Inv, NEW t \in Threads, Acts(t), dq_width' = dq_width
  PROVE  \A u \in Threads : HandedAt(u)'
PROOF
  <1>1. /\ Types /\ Keeps(t) /\ Marks(t) /\ Places(t) /\ Turn(t)
        /\ Types' /\ Threading' /\ Listing' /\ FrameAt(t) /\ CallAt(t)
    BY TypesStep, OthersKeep, Marking, Placing, TurnStep, ThreadingStep, ListingStep DEF Inv, Threading, ThreadAt
  <1>. SUFFICES ASSUME NEW u \in Threads, Handed(u)', pc'[u] \notin Waits PROVE FALSE
    BY DEF HandedAt
  <1>2. then'[u] = "wait" /\ pc'[u] \in Completing \union Giving
    BY <1>1, ReadyWaits
  <1>3. ASSUME then[u] = "wait", pc[u] \in Completing \union Giving, Current(u)' = Current(u)
        PROVE  FALSE
    <2>1. /\ Submits(u) /\ Waiter(Current(u)) /\ Current(u) \in Blocks
          /\ status[Current(u)] \in {"called", "ready"} /\ caller[Current(u)] = u
      <3>1. FrameAt(u) /\ CallAt(u) /\ Submits(u)
        BY <1>3 DEF Inv, Threading, ThreadAt, Submits
      <3>2. Current(u) \in Blocks
        BY <1>1, <1>3, <3>1, HasBlock DEF Completing, Giving, DrainPcs
      <3>. QED
        BY <1>3, <3>1, <3>2 DEF CallAt
    <2>2. dq_state.owner = u /\ ~Handed(u) /\ stack[u] # <<>>
      <3>1. HandedAt(u) /\ FrameAt(u)
        BY DEF Inv, Locking, Threading, ThreadAt
      <3>. QED
        BY <1>3, <3>1, OwnerOf DEF HandedAt, Completing, Giving, Waits, FrameAt, DrainPcs
    <2>3. ~(Ended(t) /\ Current(u) = Current(t))
      <3>1. ASSUME Ended(t) PROVE status[Current(t)] = "running"
        <4>1. Count(t) \in 1..Count(t) /\ Live(t)[Count(t)].block = Current(t)
          BY <1>1, <3>1, LiveFacts DEF Ended
        <4>. QED
          BY <4>1 DEF Inv, Threading, ThreadAt, LiveAt
      <3>. QED
        BY <2>1, <3>1
    <2>4. kind'[Current(u)] = kind[Current(u)]
      BY <1>1, <2>1, <2>3, MarkFacts
    <2>5. Barrier(Current(u))
      BY <1>1, <1>3, <2>4 DEF Handed, Barrier
    <2>6. Current(u) \notin events /\ Current(u) \in events'
      BY <1>3, <2>2, <2>5 DEF Handed
    <2>7. PICK c \in Blocks : Readies(t, c) /\ c = Current(u)
      BY <1>1, <2>6 DEF Places, Idles, Pushes, Links, Hands, Comes, Readies, Runs, Stays
    <2>8. CASE pc[t] = "async_try" /\ c = Current(t)
      BY <1>1, <2>1, <2>7, <2>8 DEF CallAt, Waiter, Submits, Calling, Early
    <2>9. CASE pc[t] \in Transfers /\ pc'[t] \in {"wait", "idle", "body"}
      <3>1. u = t
        BY <1>3, <2>9, OwnerOf, OwnerOnly
      <3>. QED
        BY <1>2, <2>9, <3>1 DEF Completing, Giving
    <2>. QED
      BY <2>5, <2>7, <2>8, <2>9 DEF Readies
  <1>4. CASE u # t
    <2>1. then[u] = "wait" /\ pc[u] \in Completing \union Giving /\ stack'[u] = stack[u]
      BY <1>1, <1>2, <1>4 DEF Keeps
    <2>. QED
      BY <1>3, <2>1 DEF Current
  <1>5. CASE u = t
    <2>1. CASE then[t] = "wait" /\ pc[t] \in Completing \union Giving
      <3>1. Submits(t) /\ stack[t] # <<>> /\ Waiter(Current(t)) /\ status[Current(t)] \in {"called", "ready"}
        BY <1>1, <2>1 DEF Submits, CallAt, FrameAt, Completing, Giving, DrainPcs
      <3>2. Current(t) \in Blocks
        BY <1>1, <3>1, StackFacts
      <3>3. status'[Current(t)] # "running"
        <4>1. pc'[t] # "body" /\ pc[t] # "body"
          BY <1>2, <1>5, <2>1 DEF Completing, Giving
        <4>2. Calm \/ \E b \in Blocks : Called(t, b) \/ Readied(b)
          BY <1>1, <4>1 DEF Turn, Ended
        <4>3. ASSUME NEW c \in Blocks, c = Current(t), Calm PROVE status'[c] # "running"
          BY <3>1, <4>3 DEF Calm
        <4>4. ASSUME NEW c \in Blocks, c = Current(t), NEW b \in Blocks, Called(t, b) PROVE status'[c] # "running"
          BY <1>1, <3>1, <4>4 DEF Called, Types
        <4>5. ASSUME NEW c \in Blocks, c = Current(t), NEW b \in Blocks, Readied(b) PROVE status'[c] # "running"
          BY <1>1, <3>1, <4>5 DEF Readied, Types
        <4>. QED
          BY <3>2, <4>2, <4>3, <4>4, <4>5
      <3>4. Current(t)' = Current(t)
        BY <1>1, <3>1, <3>3 DEF Turn
      <3>. QED
        BY <1>3, <1>5, <2>1, <3>4
    <2>2. CASE PushWaiter(t) /\ ~Locked(dq_state)
      <3>1. Handed(t)
        BY <1>1, <1>5, <2>2 DEF PushWaiter, Handed, Current, Barrier, calls
      <3>2. dq_state.owner = t
        BY <3>1 DEF Holds, HasBarrier, Inv, Locking, LockAt
      <3>. QED
        BY <2>2, <3>2, Constants DEF Locked
    <2>. QED
      BY <1>2, <1>5, <2>1, <2>2, ThenStep
  <1>. QED
    BY <1>4, <1>5
-----------------------------------------------------------------------------
(***************************************************************************)
(* The blocks in flight.                                                   *)
(***************************************************************************)
Flying(b) ==
  /\ status[b] # "new" /\ ~Barrier(b)
  /\ status[b] \in {"ready", "running"} \/ \E t \in Threads : pc[t] = "uncount" /\ Current(t) = b

\* A block that starts and is no barrier
Starts(b) == ~Barrier(b) /\ status[b] = "called" /\ (Readied(b) \/ Ran(b))

\* The blocks in flight, by what is known of a block.
LEMMA FlightFacts ==
  ASSUME Types
  PROVE  /\ InFlight = {b \in Blocks : Flying(b)} /\ Asyncs = {b \in Blocks : Flying(b) /\ kind[b] = "async"}
         /\ IsFiniteSet(InFlight) /\ IsFiniteSet(Asyncs)
         /\ Users \in Nat /\ AsyncUsers \in Nat /\ AsyncUsers <= Users
         /\ Users = 0 <=> InFlight = {}
PROOF
  <1>1. InFlight = {b \in Blocks : Flying(b)} /\ Asyncs = {b \in Blocks : Flying(b) /\ kind[b] = "async"}
    BY DEF InFlight, Asyncs, Flying, Submitted
  <1>2. IsFiniteSet(InFlight) /\ Asyncs \subseteq InFlight
    BY <1>1, Constants, FS_Subset
  <1>. QED
    BY <1>1, <1>2, FS_Subset, FS_CardinalityType, FS_EmptySet DEF Users, AsyncUsers

\* The same after a step.
LEMMA FlightAfter ==
  ASSUME Types'
  PROVE  /\ Users' \in Nat /\ AsyncUsers' \in Nat /\ AsyncUsers' <= Users' /\ (Users' = 0 <=> InFlight' = {})
PROOF
  <1>1. InFlight' \subseteq Blocks /\ Asyncs' \subseteq InFlight'
    BY DEF InFlight, Asyncs, Submitted
  <1>2. IsFiniteSet(InFlight')
    BY <1>1, Constants, FS_Subset
  <1>. QED
    BY <1>1, <1>2, FS_Subset, FS_CardinalityType, FS_EmptySet DEF Users, AsyncUsers

\* The thread that counts a block out is the only one, and the block is done.
LEMMA UncountFacts ==
  ASSUME Inv, NEW t \in Threads, pc[t] = "uncount"
  PROVE  /\ Current(t) \in Blocks /\ status[Current(t)] = "done" /\ Flying(Current(t)) /\ stack[t] # <<>>
         /\ then[t] = "return"
PROOF
  <1>1. Types /\ FrameAt(t) /\ FinishedAt(t)
    BY DEF Inv, Threading, ThreadAt
  <1>2. stack[t] # <<>> /\ Current(t) \in Blocks
    BY <1>1, HasBlock DEF DrainPcs
  <1>3. then[t] = "return"
    BY <1>1 DEF FrameAt, Types, Completing, Giving
  <1>4. status[Current(t)] = "done"
    BY <1>1, <1>3 DEF FinishedAt
  <1>5. ~Barrier(Current(t))
    <2>1. kind[Current(t)] = "none"
      BY <1>2, <1>4 DEF Inv, Threading, KindAt
    <2>. QED
      BY <1>1, <2>1 DEF Barrier, FrameAt
  <1>. QED
    BY <1>2, <1>3, <1>4, <1>5 DEF Flying

\* Only a completion is counted out.
LEMMA AtUncount ==
  ASSUME NEW t \in Threads, Acts(t), pc[t] = "uncount"
  PROVE  NonBarrierComplete(t)
PROOF
  <1>1. ~(t \in Blocks /\ Call(t)) /\ ~NestedCall(t) /\ ~AsyncProbe(t) /\ ~AsyncTry(t) /\ ~SyncProbe(t) /\ ~SyncTry(t)
          /\ ~BarrierTry(t) /\ ~Prepare(t) /\ ~Return(t) /\ ~Wait(t)
    BY DEF At, Call, NestedCall, AsyncProbe, AsyncTry, SyncProbe, SyncTry, BarrierTry, Prepare, Return, Wait
  <1>2. ~PushTail(t) /\ ~NeedOverride(t) /\ ~PushLink(t) /\ ~PushHead(t) /\ ~WakeupProbe(t) /\ ~Wakeup(t)
          /\ ~OverrideLast(t) /\ ~MergeQos(t) /\ ~PushWaiter(t)
    BY DEF At, PushTail, NeedOverride, PushLink, PushHead, WakeupProbe, Wakeup, OverrideLast, MergeQos, PushWaiter
  <1>3. ~UnlockProbe(t) /\ ~Unlock(t) /\ ~BarrierComplete(t) /\ ~BarrierRelease(t)
          /\ ~BarrierRequeue(t) /\ ~PopWaiter(t) /\ ~TransferLock(t) /\ ~Open(t) /\ ~GiveReserve(t) /\ ~Give(t)
          /\ ~Close(t) /\ ~Reload(t)
    BY DEF At, UnlockProbe, Unlock, BarrierComplete, BarrierRelease,
           BarrierRequeue, PopWaiter, TransferLock, Open, GiveReserve, Give, Close, Reload
  <1>4. ~Redirected(t) /\ ~PopLane(t) /\ ~DrainTryLock(t) /\ ~Drain(t) /\ ~DrainUpgrade(t) /\ ~DrainWaiter(t)
          /\ ~DrainBarrier(t) /\ ~DrainDrop(t) /\ ~DrainReserve(t) /\ ~DrainGive(t) /\ ~DrainProbe(t)
          /\ ~DrainNarrow(t) /\ ~DrainUnlock(t)
    BY DEF At, Draining, Redirected, PopLane, DrainTryLock, Drain, DrainUpgrade, DrainWaiter, DrainBarrier, DrainDrop,
           DrainReserve, DrainGive, DrainProbe, DrainNarrow, DrainUnlock
  <1>. QED
    BY <1>1, <1>2, <1>3, <1>4 DEF Acts, Step

\* A thread comes to count a block out when it ends only.
LEMMA UncountMoved ==
  ASSUME Inv, NEW t \in Threads, Keeps(t), Turn(t), Types', pc[t] # "uncount", NEW b \in Blocks
  PROVE  (\E u \in Threads : pc'[u] = "uncount" /\ Current(u)' = b) <=>
           \/ \E u \in Threads : pc[u] = "uncount" /\ Current(u) = b
           \/ Ended(t) /\ pc'[t] = "uncount" /\ b = Current(t)
PROOF
  <1>1. \A u \in Threads \ {t} : pc'[u] = pc[u] /\ Current(u)' = Current(u)
    BY DEF Keeps, Current
  <1>2. pc'[t] = "uncount" => Ended(t) /\ Current(t)' = Current(t)
    <2>. SUFFICES ASSUME pc'[t] = "uncount" PROVE Ended(t) /\ Current(t)' = Current(t)
      OBVIOUS
    <2>1. Ended(t) /\ (stack'[t] # <<>> => Current(t)' = Current(t))
      BY DEF Turn
    <2>2. stack'[t] # <<>>
      BY DEF Turn, ThreadAt, FrameAt, DrainPcs
    <2>. QED
      BY <2>1, <2>2
  <1>. QED
    BY <1>1, <1>2

\* A thread that ends its block does nothing else.
LEMMA EndedRuns ==
  ASSUME Inv, NEW t \in Threads, Ended(t)
  PROVE  /\ status[Current(t)] = "running" /\ status'[Current(t)] = "done" /\ kind'[Current(t)] = "none"
         /\ Count(t) \in 1..Count(t) /\ Live(t)[Count(t)].block = Current(t) /\ Current(t) \in Blocks
         /\ ~Calm /\ \A c \in Blocks : ~Called(t, c) /\ ~Readied(c) /\ ~Ran(c)
PROOF
  <1>1. Types /\ LiveAt(t) /\ Current(t) \in Blocks
    BY DEF Inv, Threading, ThreadAt, Ended
  <1>2. Count(t) \in 1..Count(t) /\ Live(t)[Count(t)].block = Current(t)
    BY <1>1, LiveFacts DEF Ended
  <1>3. status[Current(t)] = "running" /\ status'[Current(t)] = "done" /\ kind'[Current(t)] = "none"
    BY <1>1, <1>2 DEF LiveAt, Ended, Types
  <1>4. ~Calm
    BY <1>3 DEF Calm
  <1>5. ASSUME NEW c \in Blocks, NEW s \in {"called", "ready", "running"}, status' = [status EXCEPT ![c] = s]
        PROVE  FALSE
    <2>1. status'[Current(t)] \in {status[Current(t)], s}
      BY <1>1, <1>5 DEF Types
    <2>. QED
      BY <1>3, <2>1
  <1>. QED
    BY <1>1, <1>2, <1>3, <1>4, <1>5 DEF Called, Readied, Ran

\* A block comes into flight when it starts, and nothing but its completion takes it out.
LEMMA FlightAt ==
  ASSUME Inv, NEW t \in Threads, Acts(t), dq_width' = dq_width, pc[t] # "uncount", NEW b \in Blocks
  PROVE  /\ Flying(b)' <=> Flying(b) \/ Starts(b)
         /\ Starts(b) => ~Flying(b) /\ kind'[b] = kind[b]
         /\ Flying(b)' /\ kind'[b] = "async" => kind[b] = "async"
PROOF
  <1>1. Types /\ Keeps(t) /\ Marks(t) /\ Turn(t) /\ Types' /\ LiveAt(t)
    BY TypesStep, OthersKeep, Marking, TurnStep DEF Inv, Threading, ThreadAt
  <1>. DEFINE Out == \E u \in Threads : pc[u] = "uncount" /\ Current(u) = b
  <1>2. Out => status[b] = "done"
    BY UncountFacts
  <1>3. /\ Flying(b) <=> status[b] # "new" /\ ~Barrier(b) /\ (status[b] \in {"ready", "running"} \/ Out)
        /\ Flying(b)' <=> /\ status'[b] # "new" /\ ~Barrier(b)'
                          /\ \/ status'[b] \in {"ready", "running"} \/ Out
                             \/ Ended(t) /\ pc'[t] = "uncount" /\ b = Current(t)
    BY <1>1, UncountMoved DEF Flying
  <1>. HIDE DEF Out
  <1>4. kind'[b] = kind[b] => (Barrier(b)' <=> Barrier(b))
    BY DEF Barrier
  <1>5. ASSUME ~Ended(t), status'[b] = status[b], kind'[b] = kind[b] PROVE (Flying(b)' <=> Flying(b)) /\ ~Starts(b)
    BY <1>1, <1>3, <1>4, <1>5 DEF Starts, Readied, Ran, Types
  <1>6. ASSUME Calm PROVE (Flying(b)' <=> Flying(b)) /\ ~Starts(b) /\ kind'[b] = kind[b]
    BY <1>5, <1>6, EndedRuns DEF Calm
  <1>7. ASSUME NEW c \in Blocks, Called(t, c)
        PROVE  (Flying(b)' <=> Flying(b)) /\ ~Starts(b) /\ (Flying(b)' => kind'[b] = kind[b])
    <2>1. CASE b = c
      <3>1. status[b] = "new" /\ status'[b] = "called"
        BY <1>1, <1>7, <2>1 DEF Called, Types
      <3>2. ~Ended(t)
        BY <1>7, EndedRuns
      <3>. QED
        BY <1>2, <1>3, <3>1, <3>2 DEF Starts
    <2>2. CASE b # c
      <3>1. status'[b] = status[b] /\ kind'[b] = kind[b]
        BY <1>1, <1>7, <2>2 DEF Called, Types
      <3>2. ~Ended(t)
        BY <1>7, EndedRuns
      <3>. QED
        BY <1>5, <3>1, <3>2
    <2>. QED
      BY <2>1, <2>2
  <1>8. ASSUME NEW c \in Blocks, Readied(c) \/ Ran(c)
        PROVE  /\ Flying(b)' <=> Flying(b) \/ Starts(b)
               /\ Starts(b) => ~Flying(b)
               /\ kind'[b] = kind[b]
    <2>1. kind'[b] = kind[b] /\ (Barrier(b)' <=> Barrier(b))
      BY <1>4, <1>8 DEF Readied, Ran
    <2>2. ~Ended(t)
      BY <1>8, EndedRuns
    <2>3. CASE b = c
      <3>1. CASE Readied(c)
        <4>1. status[b] = "called" /\ status'[b] = "ready"
          BY <1>1, <2>3, <3>1 DEF Readied, Types
        <4>. QED
          BY <1>2, <1>3, <2>1, <2>2, <2>3, <3>1, <4>1 DEF Starts
      <3>2. CASE Ran(c)
        <4>1. status[b] \in {"called", "ready"} /\ status'[b] = "running"
          BY <1>1, <2>3, <3>2 DEF Ran, Types
        <4>. QED
          BY <1>2, <1>3, <2>1, <2>2, <2>3, <3>2, <4>1 DEF Starts
      <3>. QED
        BY <1>8, <3>1, <3>2
    <2>4. CASE b # c
      <3>1. status'[b] = status[b]
        BY <1>1, <1>8, <2>4 DEF Readied, Ran, Types
      <3>. QED
        BY <1>5, <2>1, <2>2, <3>1
    <2>. QED
      BY <2>3, <2>4
  <1>9. ASSUME Ended(t)
        PROVE  (Flying(b)' <=> Flying(b)) /\ ~Starts(b) /\ (kind'[b] = "async" => kind[b] = "async")
    <2>1. CASE b # Current(t)
      <3>1. status'[b] = status[b] /\ kind'[b] = kind[b]
        BY <1>1, <1>9, <2>1 DEF Ended, Types
      <3>. QED
        BY SMTT(30), <1>1, <1>3, <1>4, <2>1, <3>1 DEF Starts, Readied, Ran, Types
    <2>2. CASE b = Current(t)
      <3>1. status'[b] = "done" /\ kind'[b] = "none"
        BY <1>9, <2>2, EndedRuns
      <3>2. Count(t) \in 1..Count(t) /\ Live(t)[Count(t)].block = b
        BY <1>9, <2>2, EndedRuns
      <3>3. status[b] = "running" /\ Live(t)[Count(t)].after \in (IF Barrier(b) THEN Exclusive ELSE {"uncount"})
        BY <1>1, <3>2 DEF LiveAt
      <3>4. pc'[t] = Live(t)[Count(t)].after
        BY <1>1, <1>9, EndedRuns DEF Turn, Ended
      <3>5. Barrier(b)' <=> dq_width = 1
        BY <3>1 DEF Barrier
      <3>6. Barrier(b) => pc'[t] # "uncount"
        BY <3>3, <3>4 DEF Exclusive
      <3>7. ~Barrier(b) => pc'[t] = "uncount" /\ dq_width # 1
        BY <3>3, <3>4 DEF Barrier
      <3>8. ~Starts(b)
        BY <3>3 DEF Starts
      <3>. QED
        BY <1>2, <1>3, <1>9, <2>2, <3>1, <3>3, <3>5, <3>6, <3>7, <3>8
    <2>. QED
      BY <2>1, <2>2
  <1>. QED
    BY <1>1, <1>6, <1>7, <1>8, <1>9 DEF Marks

\* Most steps leave the blocks in flight as they are,
LEMMA FlightSame ==
  ASSUME Inv, NEW t \in Threads, Acts(t), dq_width' = dq_width, pc[t] # "uncount", \A b \in Blocks : ~Starts(b)
  PROVE  InFlight' = InFlight /\ Users' = Users /\ AsyncUsers' <= AsyncUsers
PROOF
  <1>1. Types /\ Types'
    BY TypesStep DEF Inv
  <1>2. \A b \in Blocks : (Flying(b)' <=> Flying(b)) /\ (Flying(b)' /\ kind'[b] = "async" => kind[b] = "async")
    BY FlightAt
  <1>3. InFlight' = {b \in Blocks : Flying(b)'} /\ Asyncs' = {b \in Blocks : Flying(b)' /\ kind'[b] = "async"}
    BY DEF InFlight, Asyncs, Flying, Submitted
  <1>4. InFlight' = InFlight /\ Asyncs' \subseteq Asyncs
    BY <1>1, <1>2, <1>3, FlightFacts
  <1>. QED
    BY <1>1, <1>4, FlightFacts, FS_Subset DEF Users, AsyncUsers

\* ... some start a block,
LEMMA FlightMore ==
  ASSUME Inv, NEW t \in Threads, Acts(t), dq_width' = dq_width, pc[t] # "uncount", NEW b \in Blocks, Starts(b)
  PROVE  /\ Users' = Users + 1 /\ AsyncUsers' <= AsyncUsers + 1
         /\ kind[b] # "async" => AsyncUsers' <= AsyncUsers
PROOF
  <1>1. Types /\ Types'
    BY TypesStep DEF Inv
  <1>2. \A c \in Blocks : /\ Flying(c)' <=> Flying(c) \/ Starts(c)
                          /\ Starts(c) => ~Flying(c) /\ kind'[c] = kind[c]
                          /\ Flying(c)' /\ kind'[c] = "async" => kind[c] = "async"
    BY FlightAt
  <1>3. InFlight' = {c \in Blocks : Flying(c)'} /\ Asyncs' = {c \in Blocks : Flying(c)' /\ kind'[c] = "async"}
    BY DEF InFlight, Asyncs, Flying, Submitted
  <1>4. \A c \in Blocks : Starts(c) => c = b
    <2>1. status'[b] # "called"
      BY <1>1 DEF Starts, Readied, Ran, Types
    <2>. QED
      BY <1>1, <2>1 DEF Starts, Readied, Ran, Types
  <1>5. InFlight' = InFlight \union {b} /\ b \notin InFlight
    BY <1>1, <1>2, <1>3, <1>4, FlightFacts
  <1>6. Asyncs' \subseteq Asyncs \union {b} /\ b \notin Asyncs /\ (kind[b] # "async" => Asyncs' \subseteq Asyncs)
    BY <1>1, <1>2, <1>3, <1>4, FlightFacts
  <1>7. IsFiniteSet(Asyncs \union {b}) /\ Cardinality(Asyncs \union {b}) = AsyncUsers + 1
    BY <1>1, <1>6, FlightFacts, FS_AddElement DEF AsyncUsers
  <1>8. Users' = Users + 1
    BY <1>1, <1>5, FlightFacts, FS_AddElement DEF Users
  <1>9. AsyncUsers' <= AsyncUsers + 1
    BY <1>6, <1>7, FS_Subset DEF AsyncUsers
  <1>10. kind[b] # "async" => AsyncUsers' <= AsyncUsers
    BY <1>1, <1>6, FlightFacts, FS_Subset DEF AsyncUsers
  <1>. QED
    BY <1>8, <1>9, <1>10

\* ... and the completion of a block counts it out.
LEMMA FlightLess ==
  ASSUME Inv, NEW t \in Threads, Acts(t), dq_width' = dq_width, pc[t] = "uncount"
  PROVE  /\ InFlight # {} /\ Users >= 1 /\ Users' = Users - 1 /\ AsyncUsers' <= AsyncUsers
         /\ Users' = 0 <=> InFlight' = {}
PROOF
  <1>. USE DEF list, target, locals, calls
  <1>1. Types /\ Types' /\ Keeps(t)
    BY TypesStep, OthersKeep DEF Inv
  <1>2. NonBarrierComplete(t)
    BY AtUncount
  <1>3. /\ Current(t) \in Blocks /\ status[Current(t)] = "done" /\ Flying(Current(t)) /\ stack[t] # <<>>
        /\ then[t] = "return"
    BY UncountFacts
  <1>4. Calm
    BY <1>2 DEF NonBarrierComplete, CompleteNonBarrier, Calm
  <1>5. pc'[t] # "uncount"
    <2>1. PICK label \in {"complete", "idle", "body", "wait"} : Goto(t, label)
      BY <1>2 DEF NonBarrierComplete, CompleteNonBarrier, Complete, Leave
    <2>. QED
      BY <1>1, <2>1 DEF Goto, Types
  <1>6. \A b \in Blocks : (\E u \in Threads : pc'[u] = "uncount" /\ Current(u)' = b) <=>
                            (\E u \in Threads : pc[u] = "uncount" /\ Current(u) = b) /\ b # Current(t)
    <2>. TAKE b \in Blocks
    <2>1. \A u \in Threads \ {t} : pc'[u] = pc[u] /\ Current(u)' = Current(u)
      BY <1>1 DEF Keeps, Current
    <2>2. \A u \in Threads : pc[u] = "uncount" /\ Current(u) = Current(t) => u = t
      BY DEF Inv, Threading, UncountOnce
    <2>. QED
      BY <1>5, <2>1, <2>2
  <1>7. \A b \in Blocks : (Flying(b)' <=> Flying(b) /\ b # Current(t)) /\ kind'[b] = kind[b]
    <2>. TAKE b \in Blocks
    <2>1. status'[b] = status[b] /\ kind'[b] = kind[b] /\ (Barrier(b)' <=> Barrier(b))
      BY <1>4 DEF Calm, Barrier
    <2>. QED
      BY <1>3, <1>6, <2>1 DEF Flying
  <1>8. InFlight' = {b \in Blocks : Flying(b)'} /\ Asyncs' = {b \in Blocks : Flying(b)' /\ kind'[b] = "async"}
    BY DEF InFlight, Asyncs, Flying, Submitted
  <1>9. InFlight' = InFlight \ {Current(t)} /\ Current(t) \in InFlight /\ Asyncs' \subseteq Asyncs
    BY <1>1, <1>3, <1>7, <1>8, FlightFacts
  <1>10. Users' = Users - 1
    BY <1>1, <1>9, FlightFacts, FS_RemoveElement DEF Users
  <1>11. AsyncUsers' <= AsyncUsers
    BY <1>1, <1>9, FlightFacts, FS_Subset DEF AsyncUsers
  <1>12. Users # 0 /\ Users \in Nat
    BY <1>1, <1>9, FlightFacts DEF Users
  <1>13. Users' = 0 <=> InFlight' = {}
    <2>1. IsFiniteSet(InFlight')
      BY <1>1, <1>9, FlightFacts, FS_Subset
    <2>. QED
      BY <2>1, FS_EmptySet DEF Users
  <1>. QED
    BY <1>9, <1>10, <1>11, <1>12, <1>13
-----------------------------------------------------------------------------
(***************************************************************************)
(* What a step leaves to the others, and what it must leave.               *)
(***************************************************************************)
Local(t) == LockAt(t) /\ OwnAt(t) /\ IbAt(t) /\ PendingAt(t) /\ OwnerAt(t) /\ RoomAt(t)

\* The lock of another stays as it is, unless t hands over its own, and room is not overdrawn.
Yields(t) ==
  /\ \A u \in Threads \ {t} : dq_state.owner = u =>
       dq_state'.owner = u /\ dq_state'.ib = dq_state.ib /\ dq_state'.pb = dq_state.pb
  /\ dq_state'.owner \in {dq_state.owner, t, NoThread} \/ TransferLock(t)
  /\ AsyncUsers' <= AsyncUsers \/ dq_state'.used <= dq_width \/ dq_state.owner \in {t, NoThread}

Mine(t) == Local(t)' /\ Alone' /\ Pending' /\ Balanced' /\ AsyncUsers' <= dq_width /\ Yields(t)

\* The numbers.
LEMMA Numbers ==
  ASSUME Types
  PROVE  /\ dq_width \in Nat /\ dq_width >= 1 /\ dq_state.used \in Int
         /\ dq_state \in WordRange /\ dq_state.ib \in BOOLEAN /\ dq_state.pb \in BOOLEAN
         /\ dq_state.d \in BOOLEAN /\ dq_state.e \in BOOLEAN /\ dq_state.q \in BOOLEAN
         /\ Users \in Nat /\ AsyncUsers \in Nat /\ AsyncUsers <= Users /\ (Users = 0 <=> InFlight = {})
         /\ dq_state.owner \in Threads \union {NoThread} /\ NoThread \notin Threads
BY SMTT(30), Constants, FlightFacts DEF Types, WordRange

\* The word of a lane that nobody holds, that is in a barrier, and that somebody holds.
LEMMA Word ==
  ASSUME Inv
  PROVE  /\ dq_state.used >= Users
         /\ ~Locked(dq_state) => ~dq_state.ib /\ dq_state.used = Users + (IF dq_state.pb THEN dq_width - 1 ELSE 0)
         /\ dq_state.ib => dq_state.used = dq_width /\ Users = 0 /\ ~dq_state.pb /\ InFlight = {}
         /\ \A t \in Threads : dq_state.owner = t /\ ~dq_state.ib =>
              dq_state.used = Users + own[t].w + (IF dq_state.pb THEN dq_width - 1 ELSE 0)
PROOF
  <1>1. Types /\ Balanced /\ Alone /\ \A t \in Threads : own[t].w \in Nat
    BY DEF Inv, Counting, Locking, OwnAt
  <1>2. /\ dq_width \in Nat /\ dq_width >= 1 /\ Users \in Nat /\ (Users = 0 <=> InFlight = {})
        /\ dq_state.owner \in Threads \union {NoThread} /\ NoThread \notin Threads
    BY <1>1, Numbers
  <1>3. ~Locked(dq_state) => ~dq_state.ib /\ dq_state.used = Users + (IF dq_state.pb THEN dq_width - 1 ELSE 0)
    BY <1>1, <1>2 DEF Alone, Balanced, Held
  <1>4. dq_state.ib => dq_state.used = dq_width /\ Users = 0 /\ ~dq_state.pb /\ InFlight = {}
    BY <1>1, <1>2 DEF Alone, Balanced, Held
  <1>5. \A t \in Threads : dq_state.owner = t /\ ~dq_state.ib =>
          dq_state.used = Users + own[t].w + (IF dq_state.pb THEN dq_width - 1 ELSE 0)
    BY <1>1, <1>2 DEF Balanced, Held, Locked
  <1>6. dq_state.used >= Users
    <2>1. CASE dq_state.ib
      BY <1>2, <1>4, <2>1
    <2>2. CASE ~dq_state.ib /\ ~Locked(dq_state)
      BY <1>2, <1>3, <2>2
    <2>3. CASE ~dq_state.ib /\ Locked(dq_state)
      <3>1. PICK t \in Threads : dq_state.owner = t
        BY <1>2, <2>3 DEF Locked
      <3>2. own[t].w \in Nat
        BY <1>1
      <3>. QED
        BY <1>2, <1>5, <2>3, <3>1, <3>2
    <2>. QED
      BY <2>1, <2>2, <2>3
  <1>. QED
    BY <1>3, <1>4, <1>5, <1>6

\* ... for a barrier ...
LEMMA WordOfBarrier ==
  ASSUME Inv, NEW t \in Threads, HasBarrier(t)
  PROVE  /\ dq_state.owner = t /\ dq_state.ib /\ ~dq_state.pb /\ dq_state.used = dq_width
         /\ Users = 0 /\ InFlight = {} /\ own[t] = OwnNone
PROOF
  <1>1. LockAt(t) /\ IbAt(t) /\ OwnAt(t) /\ Holds(t)
    BY DEF Inv, Locking, Holds
  <1>. QED
    BY <1>1, Word DEF LockAt, IbAt, OwnAt

\* ... and for a thread that drains or hands out width.
LEMMA WordOfDrainer ==
  ASSUME Inv, NEW t \in Threads, pc[t] \in Giving \union DrainLocked
  PROVE  /\ Holds(t) /\ ~HasBarrier(t) /\ ~DrainRuns(t) /\ dq_state.owner = t
         /\ own[t].w \in Nat /\ own[t].w <= dq_width /\ own[t].ib \in BOOLEAN
         /\ own[t] = [ib |-> own[t].ib, w |-> own[t].w]
         /\ dq_state.ib <=> own[t].ib
         /\ pc[t] # "drain" /\ own[t].ib => own[t] = OwnAll
         /\ dq_state.pb => pc[t] \in {"drain", "drain_first", "drain_stop"} /\ own[t] = OwnNone
PROOF
  <1>1. pc[t] \notin Plain /\ pc[t] \notin Completing
    BY DEF Plain, InTry, Waits, Completing, Giving, DrainLocked, DrainPcs
  <1>2. Holds(t) /\ ~HasBarrier(t) /\ ~DrainRuns(t)
    BY <1>1, Roles
  <1>3. LockAt(t) /\ IbAt(t) /\ OwnAt(t) /\ PendingAt(t) /\ Types
    BY DEF Inv, Locking
  <1>4. own[t].w \in Nat /\ own[t].w <= dq_width /\ own[t].ib \in BOOLEAN /\ own[t] = [ib |-> own[t].ib, w |-> own[t].w]
    BY <1>3, Numbers DEF OwnAt, Types
  <1>. QED
    BY <1>2, <1>3, <1>4 DEF LockAt, IbAt, OwnAt, PendingAt

\* A thread without the lock has nothing to say,
LEMMA LocalFree ==
  ASSUME NEW t \in Threads, Types', ~Holds(t)', dq_state'.owner # t, own'[t] = OwnNone
  PROVE  Local(t)'
PROOF
  <1>1. dq_width' \in Nat
    BY Constants DEF Types
  <1>2. LockAt(t)' /\ OwnAt(t)' /\ IbAt(t)' /\ PendingAt(t)' /\ RoomAt(t)'
    BY <1>1 DEF LockAt, OwnAt, IbAt, PendingAt, RoomAt, OwnNone, Holds, DrainLocked, DrainPcs
  <1>3. pc'[t] \notin Completing \union Giving \union DrainLocked
    BY DEF Holds, HasBarrier
  <1>4. ~ \E j \in 1..Count(t)' : Live(t)'[j].after = "drain_more"
    BY DEF Holds, DrainRuns, DrainAfter
  <1>5. OwnerAt(t)'
    BY <1>3, <1>4 DEF OwnerAt, Completing, Giving, DrainLocked, DrainPcs
  <1>. QED
    BY <1>2, <1>5 DEF Local

\* ... and one with a barrier has everything.
LEMMA LocalBarrier ==
  ASSUME NEW t \in Threads, Types', HasBarrier(t)', ~DrainRuns(t)', dq_state'.owner = t, own'[t] = OwnNone,
         dq_state'.ib, ~dq_state'.pb, pc'[t] \notin Giving \union DrainLocked,
         pc'[t] \in {"open", "pop_waiter", "requeue"} => OwnerAt(t)'
  PROVE  Local(t)'
PROOF
  <1>1. dq_width' \in Nat
    BY Constants DEF Types
  <1>2. LockAt(t)' /\ OwnAt(t)' /\ IbAt(t)' /\ PendingAt(t)' /\ RoomAt(t)'
    BY <1>1 DEF LockAt, OwnAt, IbAt, PendingAt, RoomAt, OwnNone, Holds, DrainLocked, DrainPcs
  <1>3. ~ \E j \in 1..Count(t)' : Live(t)'[j].after = "drain_more"
    BY DEF DrainRuns, DrainAfter
  <1>4. OwnerAt(t)'
    BY <1>3 DEF OwnerAt, Giving, DrainLocked, DrainPcs
  <1>. QED
    BY <1>2, <1>4 DEF Local

\* Nobody else takes the first item.
LEMMA HeadStays ==
  ASSUME Inv, NEW t \in Threads, Places(t), Marks(t), dq_items # <<>>, ~Popped, dq_width' = dq_width
  PROVE  /\ dq_items' # <<>> /\ Head(dq_items') = Head(dq_items) /\ kind'[Head(dq_items)] = kind[Head(dq_items)]
         /\ Waiter(Head(dq_items))' <=> Waiter(Head(dq_items))
         /\ Barrier(Head(dq_items))' <=> Barrier(Head(dq_items))
PROOF
  <1>1. Types /\ Head(dq_items) \in Blocks /\ OnList(Head(dq_items)) /\ ListOnce
    BY ListFacts DEF Inv, OnList, Listing
  <1>2. status[Head(dq_items)] = "called"
    BY <1>1 DEF Inv, Listing, PlaceAt
  <1>3. ~(Ended(t) /\ Head(dq_items) = Current(t))
    BY <1>2, EndedRuns
  <1>4. kind'[Head(dq_items)] = kind[Head(dq_items)]
    BY <1>1, <1>2, <1>3, MarkFacts
  <1>5. dq_items' # <<>> /\ Head(dq_items') = Head(dq_items)
    <2>1. CASE dq_items' = dq_items
      BY <2>1
    <2>2. CASE Joined(t) /\ Current(t) \in Blocks /\ ~OnList(Current(t))
      BY <1>1, <2>2, ListPushed DEF Joined
    <2>. QED
      BY <2>1, <2>2, ListMoved
  <1>. QED
    BY <1>4, <1>5 DEF Waiter, Barrier

\* Only a transfer makes a block ready at the end of a completion.
LEMMA AtTransfer ==
  ASSUME NEW t \in Threads, Acts(t), pc[t] \in Transfers
  PROVE  TransferLock(t)
PROOF
  <1>1. ~(t \in Blocks /\ Call(t)) /\ ~NestedCall(t) /\ ~AsyncProbe(t) /\ ~AsyncTry(t) /\ ~SyncProbe(t) /\ ~SyncTry(t)
          /\ ~BarrierTry(t) /\ ~Prepare(t) /\ ~Return(t) /\ ~Wait(t)
    BY DEF Transfers, At, Call, NestedCall, AsyncProbe, AsyncTry, SyncProbe, SyncTry, BarrierTry, Prepare, Return, Wait
  <1>2. ~PushTail(t) /\ ~NeedOverride(t) /\ ~PushLink(t) /\ ~PushHead(t) /\ ~WakeupProbe(t) /\ ~Wakeup(t)
          /\ ~OverrideLast(t) /\ ~MergeQos(t) /\ ~PushWaiter(t)
    BY DEF Transfers, At, PushTail, NeedOverride, PushLink, PushHead, WakeupProbe, Wakeup, OverrideLast, MergeQos,
           PushWaiter
  <1>3. ~NonBarrierComplete(t) /\ ~UnlockProbe(t) /\ ~Unlock(t) /\ ~BarrierComplete(t) /\ ~BarrierRelease(t)
          /\ ~BarrierRequeue(t) /\ ~PopWaiter(t) /\ ~Open(t) /\ ~GiveReserve(t) /\ ~Give(t)
          /\ ~Close(t) /\ ~Reload(t)
    BY DEF Transfers, At, NonBarrierComplete, UnlockProbe, Unlock, BarrierComplete, BarrierRelease,
           BarrierRequeue, PopWaiter, Open, GiveReserve, Give, Close, Reload
  <1>4. ~Redirected(t) /\ ~PopLane(t) /\ ~DrainTryLock(t) /\ ~Drain(t) /\ ~DrainUpgrade(t) /\ ~DrainWaiter(t)
          /\ ~DrainBarrier(t) /\ ~DrainDrop(t) /\ ~DrainReserve(t) /\ ~DrainGive(t) /\ ~DrainProbe(t)
          /\ ~DrainNarrow(t) /\ ~DrainUnlock(t)
    BY DEF Transfers, At, Draining, Redirected, PopLane, DrainTryLock, Drain, DrainUpgrade, DrainWaiter, DrainBarrier,
           DrainDrop, DrainReserve, DrainGive, DrainProbe, DrainNarrow, DrainUnlock
  <1>. QED
    BY <1>1, <1>2, <1>3, <1>4 DEF Acts, Step

\* Another thread is handed the lock by a transfer only.
LEMMA HandedOther ==
  ASSUME Inv, NEW t \in Threads, Acts(t), dq_width' = dq_width, NEW u \in Threads \ {t}
  PROVE  Handed(u)' <=> Handed(u) \/ (TransferLock(t) /\ u = caller[dc[t]])
PROOF
  <1>1. Types /\ Types' /\ Keeps(t) /\ Marks(t) /\ Places(t) /\ Listing' /\ CallAt(t)
    BY TypesStep, OthersKeep, Marking, Placing, ListingStep DEF Inv, Threading, ThreadAt
  <1>2. stack'[u] = stack[u] /\ Current(u)' = Current(u)
    BY <1>1 DEF Keeps, Current
  <1>3. ASSUME NEW b \in Blocks, b = Current(u), status[b] \in {"called", "ready"}
        PROVE  kind'[b] = kind[b] /\ (Barrier(b)' <=> Barrier(b))
    <2>1. ~(Ended(t) /\ b = Current(t))
      BY <1>3, EndedRuns
    <2>2. kind'[b] = kind[b]
      BY <1>1, <1>3, <2>1, MarkFacts
    <2>. QED
      BY <2>2 DEF Barrier
  <1>4. ASSUME stack[u] # <<>>, Current(u) \in events, Current(u) \notin events'
        PROVE  FALSE
    <2>1. PICK c \in Blocks : Runs(t, c) /\ c = Current(u)
      BY <1>1, <1>4 DEF Places, Idles, Pushes, Links, Hands, Comes, Readies, Runs, Stays
    <2>2. c = Current(t) /\ stack[t] # <<>>
      BY <1>4, <2>1 DEF Runs, Stays
    <2>3. status[c] \in {"called", "ready"}
      BY <2>1 DEF Runs, Ran
    <2>. QED
      BY <1>4, <2>1, <2>2, <2>3, CurrentOwner
  <1>5. ASSUME Handed(u) PROVE Handed(u)'
    <2>1. Current(u) \in Blocks /\ status[Current(u)] = "ready"
      BY <1>1, <1>5 DEF Handed, Inv, Listing, PlaceAt, Types
    <2>. QED
      BY <1>2, <1>3, <1>4, <1>5, <2>1 DEF Handed, Barrier
  <1>6. ASSUME TransferLock(t), u = caller[dc[t]] PROVE Handed(u)'
    <2>1. dc[t] \in Blocks /\ Waiter(dc[t]) /\ Barrier(dc[t]) /\ status[dc[t]] = "called"
      BY <1>6 DEF TransferLock, Inv, Listing, TransferAt, Transfers
    <2>2. stack[u] # <<>> /\ Current(u) = dc[t]
      BY <1>6, <2>1 DEF Inv, Threading, WaiterAt
    <2>3. dc[t] \in events'
      BY <1>6 DEF TransferLock
    <2>. QED
      BY <1>2, <1>3, <2>1, <2>2, <2>3 DEF Handed, Barrier
  <1>7. ASSUME Handed(u)' PROVE Handed(u) \/ (TransferLock(t) /\ u = caller[dc[t]])
    <2>1. stack[u] # <<>> /\ Current(u) \in events' /\ Current(u) \in Blocks
      BY <1>1, <1>2, <1>7 DEF Handed, Types
    <2>2. Barrier(Current(u))'
      BY <1>7 DEF Handed
    <2>3. CASE Current(u) \in events
      <3>1. status[Current(u)] = "ready"
        BY <2>1, <2>3 DEF Inv, Listing, PlaceAt
      <3>. QED
        BY <1>2, <1>3, <2>1, <2>2, <2>3, <3>1 DEF Handed, Barrier
    <2>4. CASE Current(u) \notin events
      <3>1. PICK c \in Blocks : Readies(t, c) /\ c = Current(u)
        BY <1>1, <2>1, <2>4 DEF Places, Idles, Pushes, Links, Hands, Comes, Readies, Runs, Stays
      <3>2. status[c] = "called" /\ caller[c] = u /\ Waiter(c)
        <4>1. status[c] = "called"
          BY <3>1 DEF Readies, Readied
        <4>. QED
          BY <2>1, <2>4, <3>1, <4>1, CurrentOwner DEF Readies
      <3>3. CASE pc[t] = "async_try" /\ c = Current(t)
        BY <1>1, <3>2, <3>3 DEF CallAt, Waiter, Submits, Calling, Early
      <3>4. CASE pc[t] \in Transfers /\ c = dc[t]
        BY <3>2, <3>4, AtTransfer
      <3>5. CASE ~Barrier(c)
        BY <1>2, <1>3, <2>2, <3>1, <3>2, <3>5 DEF Barrier
      <3>. QED
        BY <3>1, <3>3, <3>4, <3>5 DEF Readies
    <2>. QED
      BY <2>3, <2>4
  <1>. QED
    BY <1>5, <1>6, <1>7

\* What holds of another thread goes on to hold.
LEMMA LocalElsewhere ==
  ASSUME Inv, NEW t \in Threads, Acts(t), dq_width' = dq_width, Balanced', Yields(t), NEW u \in Threads \ {t}
  PROVE  Local(u)'
PROOF
  <1>1. /\ Types /\ Types' /\ Keeps(t) /\ Marks(t) /\ Places(t) /\ HandedAt(u)'
        /\ LockAt(u) /\ OwnAt(u) /\ IbAt(u) /\ PendingAt(u) /\ OwnerAt(u) /\ RoomAt(u)
    BY TypesStep, OthersKeep, Marking, Placing, HandedStep DEF Inv, Locking, Counting
  <1>2. /\ SameLive(u) /\ pc'[u] = pc[u] /\ own'[u] = own[u] /\ dc'[u] = dc[u]
        /\ (RunsBarrier(u)' <=> RunsBarrier(u)) /\ (DrainRuns(u)' <=> DrainRuns(u))
    <2>1. SameLive(u) /\ pc'[u] = pc[u] /\ own'[u] = own[u] /\ dc'[u] = dc[u]
      BY <1>1, OthersFrames DEF Keeps
    <2>. QED
      BY <2>1 DEF SameLive, RunsBarrier, DrainRuns
  <1>3. CASE TransferLock(t) /\ u = caller[dc[t]]
    <2>1. dq_state.owner = t /\ dq_state.ib
      <3>1. pc[t] \in Transfers
        BY <1>3 DEF TransferLock, Transfers
      <3>2. Holds(t) /\ dq_state.owner = t
        BY <3>1, OwnerOf DEF Transfers, Completing, DrainLocked, DrainPcs
      <3>3. HasBarrier(t) \/ own[t].ib
        BY <3>1 DEF Inv, Locking, OwnAt, HasBarrier, Transfers, Completing
      <3>. QED
        BY <3>2, <3>3 DEF Inv, Locking, IbAt
    <2>2. dq_state'.owner = u /\ dq_state'.ib /\ ~dq_state'.pb
      BY <1>1, <1>3, <2>1, Word, Numbers DEF TransferLock, Transferred, WordRange
    <2>3. ~Holds(u) /\ own'[u] = OwnNone
      BY <1>1, <1>2, <2>1 DEF LockAt, OwnAt
    <2>4. Handed(u)' /\ pc'[u] \in Waits
      BY <1>1, <1>3, HandedOther DEF HandedAt
    <2>. QED
      BY <1>1, <1>2, <2>2, <2>3, <2>4, LocalBarrier DEF HasBarrier, Holds, Waits, Giving, DrainLocked, DrainPcs
  <1>4. CASE ~(TransferLock(t) /\ u = caller[dc[t]])
    <2>1. Handed(u)' <=> Handed(u)
      BY <1>4, HandedOther
    <2>2. (HasBarrier(u)' <=> HasBarrier(u)) /\ (Holds(u)' <=> Holds(u))
      BY <1>2, <2>1 DEF HasBarrier, Holds
    <2>3. CASE dq_state.owner # u
      <3>1. dq_state'.owner # u
        <4>1. CASE dq_state'.owner \in {dq_state.owner, t, NoThread}
          BY <1>1, <2>3, <4>1, Numbers
        <4>2. CASE TransferLock(t)
          BY <1>1, <1>4, <4>2, Numbers DEF TransferLock, Transferred, WordRange
        <4>. QED
          BY <4>1, <4>2 DEF Yields
      <3>2. ~Holds(u) /\ own[u] = OwnNone
        BY <1>1, <2>3 DEF LockAt, OwnAt
      <3>. QED
        BY <1>1, <1>2, <2>2, <3>1, <3>2, LocalFree
    <2>4. CASE dq_state.owner = u
      <3>1. dq_state'.owner = u /\ dq_state'.ib = dq_state.ib /\ dq_state'.pb = dq_state.pb /\ Holds(u)
        BY <1>1, <2>4 DEF Yields, LockAt
      <3>2. ~Popped
        BY <1>1, <3>1, ListMoved, OwnerOnly
      <3>3. dq_items # <<>> => /\ dq_items' # <<>> /\ Head(dq_items') = Head(dq_items)
                               /\ kind'[Head(dq_items)] = kind[Head(dq_items)]
        BY <1>1, <3>2, HeadStays
      <3>4. LockAt(u)' /\ OwnAt(u)' /\ IbAt(u)' /\ PendingAt(u)'
        <4>1. LockAt(u)' /\ IbAt(u)' /\ PendingAt(u)'
          BY <1>1, <1>2, <2>2, <3>1 DEF LockAt, IbAt, PendingAt, OwnNone
        <4>2. OwnAt(u)'
          BY <1>1, <1>2, <2>2, <3>3 DEF OwnAt, OwnNone, OwnAll
        <4>. QED
          BY <4>1, <4>2
      <3>5. OwnerAt(u)'
        <4>1. \A h : kind'[h] = kind[h] => (Barrier(h)' <=> Barrier(h)) /\ (Waiter(h)' <=> Waiter(h))
          BY DEF Barrier, Waiter
        <4>2. \A j \in 1..Count(u)' : Live(u)'[j].after = "drain_more" => dq_items' # <<>>
          BY <1>1, <1>2, <3>3 DEF OwnerAt, SameLive
        <4>3. dq_items # <<>> => /\ Barrier(Head(dq_items))' <=> Barrier(Head(dq_items))
                                 /\ Waiter(Head(dq_items))' <=> Waiter(Head(dq_items))
          BY <3>3 DEF Barrier, Waiter
        <4>. QED
          BY <1>1, <1>2, <3>3, <4>2, <4>3 DEF OwnerAt
      <3>6. RoomAt(u)'
        <4>. SUFFICES ASSUME own[u].w > 0, ~own[u].ib PROVE RoomAt(u)'
          BY <1>2 DEF RoomAt
        <4>1. CASE AsyncUsers + own[u].w > dq_width
          <5>1. own[u].w = 1 /\ pc[u] \in {"give", "drain_first", "drain_more"}
                  /\ dq_items # <<>> /\ Waiter(Head(dq_items)) /\ ~Barrier(Head(dq_items))
            BY <1>1, <4>1, Numbers DEF RoomAt, OwnAt
          <5>2. dq_items' # <<>> /\ Waiter(Head(dq_items))' /\ ~Barrier(Head(dq_items))'
            BY <3>3, <5>1 DEF Waiter, Barrier
          <5>. QED
            BY <1>2, <5>1, <5>2 DEF RoomAt
        <4>2. CASE AsyncUsers + own[u].w <= dq_width
          <5>1. own[u].w \in Nat /\ AsyncUsers \in Nat /\ AsyncUsers' \in Nat /\ Users' \in Nat /\ AsyncUsers' <= Users'
                  /\ dq_width \in Nat /\ dq_width >= 1
            <6>1. own[u].w \in Nat /\ AsyncUsers \in Nat /\ dq_width \in Nat /\ dq_width >= 1
              BY <1>1, Numbers DEF OwnAt
            <6>2. AsyncUsers' \in Nat /\ Users' \in Nat /\ AsyncUsers' <= Users'
              BY <1>1, FlightAfter
            <6>. QED
              BY <6>1, <6>2
          <5>2. AsyncUsers' + own[u].w <= dq_width
            <6>1. CASE AsyncUsers' <= AsyncUsers
              BY <4>2, <5>1, <6>1
            <6>2. CASE dq_state'.used <= dq_width
              <7>1. ~dq_state'.ib
                <8>1. ~HasBarrier(u)
                  BY <1>1 DEF OwnAt, OwnNone
                <8>. QED
                  BY <1>1, <3>1, <8>1 DEF IbAt
              <7>2. dq_state'.used = Users' + own[u].w + (IF dq_state'.pb THEN dq_width' - 1 ELSE 0)
                BY <1>2, <3>1, <7>1, Constants DEF Balanced, Held, Locked
              <7>. QED
                BY <5>1, <6>2, <7>2
            <6>. QED
              BY <2>4, <6>1, <6>2, Constants DEF Yields
          <5>. QED
            BY <1>2, <5>2 DEF RoomAt
        <4>. QED
          BY <1>1, <4>1, <4>2, Numbers DEF OwnAt
      <3>. QED
        BY <3>4, <3>5, <3>6 DEF Local
    <2>. QED
      BY <2>3, <2>4
  <1>. QED
    BY <1>3, <1>4

\* What a step does to the thread that takes it decides the lock and the width of all.
LEMMA MineStep ==
  ASSUME Inv, NEW t \in Threads, Acts(t), dq_width' = dq_width, Mine(t)
  PROVE  Locking' /\ Counting'
PROOF
  <1>1. \A u \in Threads : Local(u)'
    BY LocalElsewhere DEF Mine
  <1>2. \A u \in Threads : HandedAt(u)'
    BY HandedStep
  <1>3. Alone' /\ Pending' /\ Balanced' /\ AsyncUsers' <= dq_width'
    BY DEF Mine
  <1>. QED
    BY <1>1, <1>2, <1>3 DEF Local, Locking, Counting

\* A step that leaves the lock as it is, and all that the word says but what it counts in and out.
LEMMA MineSame ==
  ASSUME Inv, NEW t \in Threads, Acts(t), dq_width' = dq_width,
         dq_state'.used = dq_state.used + (Users' - Users),
         dq_state'.ib = dq_state.ib, dq_state'.pb = dq_state.pb, dq_state'.owner = dq_state.owner,
         own'[t] = own[t], ~Popped,
         pc[t] \notin Giving \union DrainLocked, pc'[t] \notin Giving \union DrainLocked,
         HasBarrier(t)' <=> HasBarrier(t), DrainRuns(t)' <=> DrainRuns(t), OwnerAt(t)',
         Users' = Users \/ ~dq_state.ib,
         AsyncUsers' <= AsyncUsers \/ dq_state'.used <= dq_width
  PROVE  Mine(t)
PROOF
  <1>1. /\ Types /\ Types' /\ Keeps(t) /\ Marks(t) /\ Places(t)
        /\ LockAt(t) /\ OwnAt(t) /\ IbAt(t) /\ PendingAt(t) /\ RoomAt(t)
        /\ Alone /\ Pending /\ Balanced /\ AsyncUsers <= dq_width
    BY TypesStep, OthersKeep, Marking, Placing DEF Inv, Locking, Counting
  <1>2. /\ dq_width \in Nat /\ dq_width >= 1 /\ dq_state.used \in Int /\ Users \in Nat /\ AsyncUsers \in Nat
        /\ Users' \in Nat /\ AsyncUsers' \in Nat /\ AsyncUsers' <= Users' /\ (Users' = 0 <=> InFlight' = {})
        /\ dq_state.owner \in Threads \union {NoThread} /\ dq_state.used >= Users
    BY <1>1, Numbers, FlightAfter, Word
  <1>3. Holds(t)' <=> Holds(t)
    BY DEF Holds
  <1>4. Local(t)'
    <2>1. Holds(t) => HasBarrier(t) \/ DrainRuns(t)
      BY DEF Holds
    <2>2. own[t] = OwnNone \/ own[t] = OwnAll
      BY <1>1, <2>1 DEF OwnAt
    <2>3. ~(dq_state.pb /\ Holds(t))
      BY <1>1 DEF PendingAt, DrainLocked, DrainPcs
    <2>4. LockAt(t)' /\ IbAt(t)' /\ PendingAt(t)'
      BY <1>1, <1>3, <2>3 DEF LockAt, IbAt, PendingAt
    <2>5. OwnAt(t)'
      BY <1>1, <1>2, <1>3, <2>2 DEF OwnAt, OwnNone, OwnAll, Giving, DrainLocked, DrainPcs
    <2>6. RoomAt(t)'
      BY <2>2 DEF RoomAt, OwnNone, OwnAll
    <2>. QED
      BY <2>4, <2>5, <2>6 DEF Local
  <1>5. Alone'
    BY <1>1, <1>2, FlightFacts DEF Alone, Locked
  <1>6. Pending'
    <2>. SUFFICES ASSUME dq_state.pb PROVE Pending'
      BY DEF Pending
    <2>1. dq_items # <<>> /\ Barrier(Head(dq_items))
      BY <1>1 DEF Pending
    <2>. QED
      BY <1>1, <2>1, HeadStays DEF Pending, Barrier
  <1>7. Balanced'
    <2>1. dq_state.owner # NoThread => own'[dq_state.owner] = own[dq_state.owner]
      BY <1>1, <1>2 DEF Keeps
    <2>2. Held' = Held
      BY <2>1 DEF Held, Locked
    <2>3. Held \in Int
      BY <1>1, <1>2 DEF Held, Locked, Types
    <2>. QED
      BY <1>1, <1>2, <2>2, <2>3 DEF Balanced
  <1>8. AsyncUsers' <= dq_width
    <2>1. dq_state'.used >= Users'
      BY <1>2
    <2>2. dq_state'.used \in Int
      BY <1>2
    <2>. QED
      BY <1>1, <1>2, <2>1, <2>2
  <1>9. Yields(t)
    BY DEF Yields
  <1>. QED
    BY <1>4, <1>5, <1>6, <1>7, <1>8, <1>9 DEF Mine

\* A step that gives the lock back
LEMMA MineFree ==
  ASSUME Inv, NEW t \in Threads, Acts(t), dq_width' = dq_width,
         dq_state.owner = t, dq_state'.owner = NoThread, ~dq_state'.ib, own'[t] = OwnNone, ~Holds(t)',
         dq_state'.used = Users' + (IF dq_state'.pb THEN dq_width - 1 ELSE 0), AsyncUsers' <= dq_width, Pending'
  PROVE  Mine(t)
PROOF
  <1>1. Types /\ Types' /\ NoThread # t
    BY TypesStep, Constants DEF Inv
  <1>2. Users' \in Nat /\ dq_width \in Nat
    BY <1>1, FlightAfter, Numbers
  <1>3. Local(t)'
    BY <1>1, LocalFree
  <1>4. Alone'
    BY DEF Alone
  <1>5. Balanced'
    BY <1>2 DEF Balanced, Held, Locked
  <1>6. Yields(t)
    BY DEF Yields
  <1>. QED
    BY <1>3, <1>4, <1>5, <1>6 DEF Mine

\* ... that takes or keeps it for a barrier
LEMMA MineBarrier ==
  ASSUME Inv, NEW t \in Threads, Acts(t), dq_width' = dq_width,
         dq_state.owner \in {t, NoThread}, dq_state'.owner = t, dq_state'.ib, ~dq_state'.pb,
         dq_state'.used = dq_width, Users' = 0, own'[t] = OwnNone, HasBarrier(t)', ~DrainRuns(t)',
         pc'[t] \notin Giving \union DrainLocked, pc'[t] \in {"open", "pop_waiter", "requeue"} => OwnerAt(t)'
  PROVE  Mine(t)
PROOF
  <1>1. Types /\ Types' /\ NoThread # t
    BY TypesStep, Constants DEF Inv
  <1>2. /\ dq_width \in Nat /\ dq_width >= 1 /\ Users' \in Nat /\ AsyncUsers' \in Nat /\ AsyncUsers' <= Users'
        /\ InFlight' = {}
    BY <1>1, FlightAfter, Numbers
  <1>3. Local(t)'
    BY <1>1, LocalBarrier
  <1>4. Alone' /\ Pending'
    BY <1>1, <1>2 DEF Alone, Pending, Locked
  <1>5. Balanced'
    BY <1>2 DEF Balanced, Held
  <1>6. Yields(t)
    BY <1>1, Constants DEF Yields
  <1>. QED
    BY <1>2, <1>3, <1>4, <1>5, <1>6 DEF Mine

\* ... or that drains.
LEMMA MineDrain ==
  ASSUME Inv, NEW t \in Threads, Acts(t), dq_width' = dq_width,
         dq_state.owner \in {t, NoThread}, dq_state'.owner = t, Holds(t)', ~HasBarrier(t)',
         dq_state'.ib <=> own'[t].ib, OwnAt(t)', PendingAt(t)', OwnerAt(t)', RoomAt(t)', Pending',
         AsyncUsers' <= dq_width, dq_state'.ib => Users' = 0 /\ ~dq_state'.pb,
         dq_state'.used = Users' + (IF own'[t].ib THEN dq_width ELSE own'[t].w)
                                 + (IF dq_state'.pb THEN dq_width - 1 ELSE 0)
  PROVE  Mine(t)
PROOF
  <1>1. Types /\ Types' /\ NoThread # t
    BY TypesStep, Constants DEF Inv
  <1>2. Users' \in Nat /\ dq_width \in Nat /\ (Users' = 0 <=> InFlight' = {})
    BY <1>1, FlightAfter, Numbers
  <1>3. Local(t)'
    BY DEF Local, LockAt, IbAt
  <1>4. Alone'
    BY <1>1, <1>2 DEF Alone, Locked
  <1>5. Balanced'
    BY <1>1, <1>2 DEF Balanced, Held, Locked
  <1>6. Yields(t)
    BY <1>1, Constants DEF Yields
  <1>. QED
    BY <1>3, <1>4, <1>5, <1>6 DEF Mine
-----------------------------------------------------------------------------
(***************************************************************************)
(* The steps, one by one.                                                  *)
(***************************************************************************)
SameWord == dq_state'.used = dq_state.used /\ dq_state'.ib = dq_state.ib
            /\ dq_state'.pb = dq_state.pb /\ dq_state'.owner = dq_state.owner

\* What all steps have.
LEMMA After ==
  ASSUME Inv, NEW t \in Threads, Acts(t), dq_width' = dq_width
  PROVE  /\ Types /\ FrameAt(t) /\ LiveAt(t) /\ CallAt(t) /\ HandedAt(t) /\ OwnerAt(t)
         /\ Types' /\ FrameAt(t)' /\ LiveAt(t)' /\ HandedAt(t)'
         /\ Keeps(t) /\ Marks(t) /\ Places(t) /\ Turn(t)
PROOF
  <1>1. Types' /\ Threading' /\ HandedAt(t)'
    BY TypesStep, ThreadingStep, HandedStep
  <1>2. FrameAt(t)' /\ LiveAt(t)'
    BY <1>1 DEF Threading, ThreadAt
  <1>3. Keeps(t) /\ Marks(t) /\ Places(t) /\ Turn(t)
    BY OthersKeep, Marking, Placing, TurnStep DEF Inv
  <1>4. Types /\ FrameAt(t) /\ LiveAt(t) /\ CallAt(t) /\ HandedAt(t) /\ OwnerAt(t)
    BY DEF Inv, Threading, ThreadAt, Locking
  <1>. QED
    BY <1>1, <1>2, <1>3, <1>4

\* The steps that start no block but barriers.
LEMMA NoStarts ==
  ASSUME Inv, NEW t \in Threads,
         \/ Calm \/ Ended(t) \/ \E b \in Blocks : Called(t, b)
         \/ \E b \in Blocks : Ran(b) /\ (status[b] = "ready" \/ Barrier(b))
         \/ \E b \in Blocks : Readied(b) /\ Barrier(b)
  PROVE  \A c \in Blocks : ~Starts(c)
PROOF
  <1>1. Types
    BY DEF Inv
  <1>. SUFFICES ASSUME NEW c \in Blocks, Starts(c) PROVE FALSE
    OBVIOUS
  <1>2. status[c] = "called" /\ status'[c] \in {"ready", "running"} /\ ~Barrier(c)
    BY <1>1 DEF Starts, Readied, Ran, Types
  <1>3. CASE Calm
    BY <1>2, <1>3 DEF Calm
  <1>4. CASE Ended(t)
    BY <1>4, EndedRuns DEF Starts
  <1>5. ASSUME NEW b \in Blocks, Called(t, b) PROVE FALSE
    BY <1>1, <1>2, <1>5 DEF Called, Types
  <1>6. ASSUME NEW b \in Blocks, Ran(b), status[b] = "ready" \/ Barrier(b) PROVE FALSE
    BY <1>1, <1>2, <1>6 DEF Ran, Types
  <1>7. ASSUME NEW b \in Blocks, Readied(b), Barrier(b) PROVE FALSE
    BY <1>1, <1>2, <1>7 DEF Readied, Types
  <1>. QED
    BY <1>3, <1>4, <1>5, <1>6, <1>7

\* A thread that does not come to drain or to complete knows of the list what it knew.
LEMMA OwnerAtPlain ==
  ASSUME Inv, NEW t \in Threads, Acts(t), dq_width' = dq_width, SameLive(t), ~Popped,
         pc'[t] \notin Completing \union Giving \union DrainLocked
  PROVE  OwnerAt(t)'
PROOF
  <1>1. Places(t) /\ Marks(t) /\ OwnerAt(t)
    BY After
  <1>2. dq_items # <<>> => dq_items' # <<>>
    BY <1>1, HeadStays
  <1>3. \A j \in 1..Count(t)' : Live(t)'[j].after = "drain_more" => dq_items' # <<>>
    BY <1>1, <1>2 DEF OwnerAt, SameLive
  <1>. QED
    BY <1>3 DEF OwnerAt, Completing, Giving, DrainLocked, DrainPcs

\* A step that neither starts nor ends a block, and takes and gives no width.
LEMMA MineStays ==
  ASSUME Inv, NEW t \in Threads, Acts(t), dq_width' = dq_width, SameWord, own'[t] = own[t], SameLive(t),
         Calm \/ \E b \in Blocks : Called(t, b),
         Handed(t)' <=> Handed(t), pc[t] # "uncount",
         pc[t] \notin Completing \union Giving \union DrainLocked,
         pc'[t] \notin Completing \union Giving \union DrainLocked
  PROVE  Mine(t)
PROOF
  <1>1. Types /\ Types' /\ Places(t)
    BY After
  <1>2. ~Popped
    BY <1>1, ListMoved DEF Poppers, Completing, Giving, DrainLocked, DrainPcs
  <1>3. OwnerAt(t)'
    BY <1>2, OwnerAtPlain
  <1>4. (HasBarrier(t)' <=> HasBarrier(t)) /\ (DrainRuns(t)' <=> DrainRuns(t))
    BY DEF HasBarrier, RunsBarrier, DrainRuns, SameLive
  <1>5. InFlight' = InFlight /\ Users' = Users /\ AsyncUsers' <= AsyncUsers
    BY NoStarts, FlightSame
  <1>6. dq_state'.used = dq_state.used + (Users' - Users)
    BY <1>1, <1>5, Numbers DEF SameWord
  <1>. QED
    BY <1>2, <1>3, <1>4, <1>5, <1>6, MineSame DEF SameWord

\* The same for a step from one label to another.
LEMMA MineMoves ==
  ASSUME Inv, NEW t \in Threads, Acts(t), dq_width' = dq_width, SameWord, own'[t] = own[t],
         stack'[t] = stack[t], Calm, events' = events,
         pc[t] \notin {"body", "uncount"}, pc'[t] # "body",
         pc[t] \notin Completing \union Giving \union DrainLocked,
         pc'[t] \notin Completing \union Giving \union DrainLocked
  PROVE  Mine(t)
PROOF
  <1>1. SameLive(t)
    BY LiveMoved
  <1>2. Handed(t)' <=> Handed(t)
    BY DEF Handed, Current, Barrier, Calm
  <1>. QED
    BY <1>1, <1>2, MineStays

\* A thread that starts a block has one frame more.
LEMMA RunRoles ==
  ASSUME Inv, NEW t \in Threads, Acts(t), dq_width' = dq_width, NEW b \in Blocks, NEW frames \in Seq(Frames),
         NEW after \in {"uncount", "unlock_probe", "complete", "drain_probe", "drain_more"},
         Run(t, b, frames, after), status[b] \in {"called", "ready"}
  PROVE  /\ pc'[t] = "body" /\ ~Handed(t)'
         /\ RunsBarrier(t)' <=> RunsBarrier(t) \/ after \in {"unlock_probe", "complete"}
         /\ DrainRuns(t)' <=> DrainRuns(t) \/ after \in DrainAfter
         /\ (after = "drain_more" => dq_items' # <<>>) /\ (dq_items # <<>> /\ DrainRuns(t) => dq_items' # <<>>)
              => OwnerAt(t)'
PROOF
  <1>1. Types /\ Types' /\ Turn(t) /\ HandedAt(t)' /\ OwnerAt(t)
    BY After
  <1>2. pc'[t] = "body" /\ ~Handed(t)'
    BY <1>1 DEF Run, Goto, Types, HandedAt, Waits
  <1>3. status'[b] = "running"
    BY <1>1 DEF Run, Types
  <1>4. stack'[t] # <<>> /\ Head(stack'[t]) = [block |-> b, after |-> after]
    <2>1. [block |-> b, after |-> after] \in Frames
      BY DEF Frames
    <2>2. stack'[t] = <<[block |-> b, after |-> after]>> \o frames
      <3>1. t \in DOMAIN stack
        BY <1>1 DEF Types
      <3>2. stack' = [stack EXCEPT ![t] = <<[block |-> b, after |-> after]>> \o frames]
        BY DEF Run
      <3>. QED
        BY <3>1, <3>2
    <2>. QED
      BY <2>1, <2>2, OnTop
  <1>5. Begun(t, b, after)
    <2>1. ~Calm /\ \A c \in Blocks : ~Called(t, c) /\ ~Readied(c)
      <3>1. status[b] # "running" /\ status' = [status EXCEPT ![b] = "running"] /\ b \in DOMAIN status
        <4>1. b \in DOMAIN status
          BY <1>1 DEF Types
        <4>2. status' = [status EXCEPT ![b] = "running"]
          BY DEF Run
        <4>. QED
          BY <4>1, <4>2
      <3>2. ~Calm
        BY <1>3, <3>1 DEF Calm
      <3>3. \A c \in Blocks : status'[c] = status[c] \/ status'[c] = "running"
        BY <1>1, <3>1 DEF Types
      <3>4. ASSUME NEW c \in Blocks PROVE ~Called(t, c)
        <4>1. Called(t, c) => status[c] = "new" /\ status' = [status EXCEPT ![c] = "called"]
          BY Zenon DEF Called
        <4>2. status' = [status EXCEPT ![c] = "called"] => status'[c] = "called"
          BY <1>1 DEF Types
        <4>. QED
          BY <3>3, <4>1, <4>2
      <3>5. ASSUME NEW c \in Blocks PROVE ~Readied(c)
        <4>1. Readied(c) => status[c] = "called" /\ status' = [status EXCEPT ![c] = "ready"]
          BY Zenon DEF Readied
        <4>2. status' = [status EXCEPT ![c] = "ready"] => status'[c] = "ready"
          BY <1>1 DEF Types
        <4>. QED
          BY <3>3, <4>1, <4>2
      <3>. QED
        BY <3>2, <3>4, <3>5
    <2>2. ~Ended(t)
      <3>1. Ran(b) => ~Ended(t)
        BY EndedRuns
      <3>2. ASSUME Ended(t) PROVE b = Current(t)
        BY SMTT(30), <1>1, <1>3, <3>2 DEF Ended, Types
      <3>. QED
        BY <3>2, EndedRuns
    <2>3. PICK c \in Blocks, a \in Exclusive \union {"uncount"} : Begun(t, c, a)
      BY <1>1, <2>1, <2>2 DEF Turn
    <2>4. a = after /\ c = b
      BY <1>4, <2>3 DEF Begun, Current
    <2>. QED
      BY <2>3, <2>4
  <1>6. Count(t) \in Nat /\ Count(t)' = Count(t) + 1 /\ Live(t)'[Count(t) + 1].after = after
          /\ \A j \in 1..Count(t) : Live(t)'[j] = Live(t)[j]
    BY <1>1, <1>5, LiveFacts DEF Begun
  <1>7. \A j \in 1..Count(t)' : j \in 1..Count(t) \/ j = Count(t) + 1
    BY <1>6
  <1>8. (\A j \in 1..Count(t) : j \in 1..Count(t)') /\ Count(t) + 1 \in 1..Count(t)'
    BY <1>6
  <1>9. \A S : (\E j \in 1..Count(t)' : Live(t)'[j].after \in S) <=>
                 (\E j \in 1..Count(t) : Live(t)[j].after \in S) \/ after \in S
    BY <1>6, <1>7, <1>8
  <1>10. RunsBarrier(t)' <=> RunsBarrier(t) \/ after \in {"unlock_probe", "complete"}
    BY <1>9 DEF RunsBarrier
  <1>11. DrainRuns(t)' <=> DrainRuns(t) \/ after \in DrainAfter
    BY <1>9 DEF DrainRuns
  <1>12. ASSUME after = "drain_more" => dq_items' # <<>>, dq_items # <<>> /\ DrainRuns(t) => dq_items' # <<>>
         PROVE  OwnerAt(t)'
    <2>1. \A j \in 1..Count(t)' : Live(t)'[j].after = "drain_more" => dq_items' # <<>>
      BY <1>1, <1>6, <1>7, <1>12 DEF OwnerAt, DrainRuns, DrainAfter
    <2>. QED
      BY <1>2, <2>1 DEF OwnerAt
  <1>. QED
    BY <1>2, <1>10, <1>11, <1>12

\* A thread that neither runs a block nor submits one from it has no frame with the lock.
LEMMA NoFrames ==
  ASSUME Inv, NEW t \in Threads, pc[t] \notin {"body"} \union InTry \/ (pc[t] \in InTry /\ ~dq_state.ib)
  PROVE  ~RunsBarrier(t) /\ ~DrainRuns(t)
PROOF
  <1>1. LiveAt(t)
    BY DEF Inv, Threading, ThreadAt
  <1>2. \A j \in 1..Count(t) : Live(t)[j].after \notin Exclusive
    BY <1>1, TryFree DEF LiveAt
  <1>. QED
    BY <1>2 DEF RunsBarrier, DrainRuns, Exclusive, DrainAfter

\* A thread that leaves its call has nothing.
LEMMA LeaveRoles ==
  ASSUME Inv, NEW t \in Threads, Acts(t), dq_width' = dq_width, Leave(t), pc[t] \notin InTry \union {"body"},
         then[t] = "return"
  PROVE  SameLive(t) /\ pc'[t] \in {"idle", "body"} /\ ~Holds(t)' /\ ~HasBarrier(t)' /\ ~DrainRuns(t)'
PROOF
  <1>1. Marks(t) /\ HandedAt(t)'
    BY After
  <1>2. SameLive(t) /\ pc'[t] \in {"idle", "body"}
    BY <1>1, ThreadLeft DEF Ended
  <1>3. ~RunsBarrier(t) /\ ~DrainRuns(t)
    BY NoFrames
  <1>4. ~RunsBarrier(t)' /\ ~DrainRuns(t)'
    BY <1>2, <1>3 DEF RunsBarrier, DrainRuns, SameLive
  <1>5. ~Handed(t)'
    BY <1>1, <1>2 DEF HandedAt, Waits
  <1>. QED
    BY <1>2, <1>4, <1>5 DEF Holds, HasBarrier, Completing, Giving, DrainLocked, DrainPcs

\* ... and one that ends a completion has what it is handed.
LEMMA CompleteRoles ==
  ASSUME Inv, NEW t \in Threads, Acts(t), dq_width' = dq_width, Complete(t),
         pc[t] \in {"uncount", "drain_transfer"} \union Completing \union Giving,
         Calm \/ \E b \in Blocks : Readied(b)
  PROVE  /\ SameLive(t) /\ pc'[t] \in {"idle", "body", "wait"} /\ ~RunsBarrier(t)' /\ ~DrainRuns(t)'
         /\ Holds(t)' <=> Handed(t)'
         /\ HasBarrier(t)' <=> Handed(t)'
         /\ Calm /\ events' = events => ~Holds(t)' /\ ~HasBarrier(t)'
PROOF
  <1>1. Types /\ Marks(t) /\ HandedAt(t)' /\ HandedAt(t)
    BY After
  <1>2. SameLive(t) /\ pc'[t] \in {"idle", "body", "wait"}
    BY <1>1, ThreadCompleted
  <1>3. pc[t] \notin Plain
    BY DEF Plain, InTry, Waits, Completing, Giving
  <1>4. ~RunsBarrier(t) /\ ~DrainRuns(t) /\ ~Handed(t)
    BY <1>3, Roles
  <1>5. ~RunsBarrier(t)' /\ ~DrainRuns(t)'
    BY <1>2, <1>4 DEF RunsBarrier, DrainRuns, SameLive
  <1>6. (Holds(t)' <=> Handed(t)') /\ (HasBarrier(t)' <=> Handed(t)')
    BY <1>2, <1>5 DEF Holds, HasBarrier, Completing, Giving, DrainLocked, DrainPcs
  <1>7. ASSUME Calm, events' = events PROVE ~Handed(t)'
    <2>1. CASE then[t] = "wait"
      <3>1. stack' = stack
        BY <2>1 DEF Complete
      <3>. QED
        BY <1>4, <1>7, <3>1 DEF Handed, Current, Barrier, Calm
    <2>2. CASE then[t] # "wait"
      <3>1. pc'[t] \notin Waits
        BY <1>1, <2>2 DEF Complete, Leave, Goto, Types, Waits
      <3>. QED
        BY <1>1, <3>1 DEF HandedAt
    <2>. QED
      BY <2>1, <2>2
  <1>. QED
    BY <1>2, <1>5, <1>6, <1>7

\* The calls, up to the push.
LEMMA MineCall ==
  ASSUME Inv, NEW t \in Threads, Acts(t), dq_width' = dq_width,
         \/ (t \in Blocks /\ Call(t)) \/ NestedCall(t)
         \/ AsyncProbe(t) \/ AsyncTry(t) \/ SyncProbe(t) \/ SyncTry(t) \/ BarrierTry(t) \/ Prepare(t)
  PROVE  Mine(t)
PROOF
  <1>. USE DEF list, target, locals, calls
  <1>1. /\ Types /\ FrameAt(t) /\ LiveAt(t) /\ CallAt(t) /\ HandedAt(t) /\ OwnerAt(t)
        /\ Types' /\ FrameAt(t)' /\ LiveAt(t)' /\ HandedAt(t)' /\ Keeps(t) /\ Marks(t) /\ Places(t) /\ Turn(t)
    BY After
  <1>2. pc[t] \in InTry \union {"async_probe", "async_try"} => Submits(t) /\ then[t] = "return"
    BY <1>1 DEF FrameAt, Types, Submits, InTry, Calling, Early, Completing, Giving
  <1>3. ASSUME NEW b \in Blocks, NEW k \in Kinds, Submit(t, b, k), pc[t] = "idle" \/ (pc[t] = "body" /\ k = "sync")
        PROVE  Mine(t)
    <2>1. SameLive(t) /\ Called(t, b)
      BY <1>1, <1>3, ThreadSubmitted
    <2>2. pc'[t] \in {"push", "async_probe", "barrier_try", "sync_probe"}
      <3>1. Entry(k) \in {"push", "async_probe", "barrier_try", "sync_probe"}
        BY Constants DEF Entry, AllKinds
      <3>. QED
        BY <1>1, <1>3, <3>1 DEF Submit, Goto, Types
    <2>3. ~Handed(t) /\ ~Handed(t)'
      BY <1>1, <1>3, <2>2 DEF HandedAt, Waits
    <2>4. SameWord /\ own'[t] = own[t]
      BY <1>3 DEF Submit, SameWord
    <2>. QED
      BY <1>3, <2>1, <2>2, <2>3, <2>4, MineStays DEF Completing, Giving, DrainLocked, DrainPcs
  <1>4. CASE t \in Blocks /\ Call(t)
    BY <1>3, <1>4 DEF Call, At, Distinct
  <1>5. CASE NestedCall(t)
    BY <1>3, <1>5 DEF NestedCall, At
  <1>6. ASSUME NEW label \in Early, pc[t] \in Early, pc' = pc \/ Goto(t, label),
               UNCHANGED <<stack, status, kind, caller, events, own, dq_state>>
        PROVE  Mine(t)
    <2>1. pc'[t] \in Early
      BY <1>1, <1>6 DEF Goto, Types
    <2>. QED
      BY <1>6, <2>1, MineMoves DEF SameWord, Calm, Early, Completing, Giving, DrainLocked, DrainPcs
  <1>7. CASE AsyncProbe(t) \/ SyncProbe(t) \/ Prepare(t)
    BY <1>6, <1>7 DEF AsyncProbe, SyncProbe, Prepare, At, Early
  <1>8. CASE AsyncTry(t) /\ ~CanAcquireAsync(dq_state)
    BY <1>6, <1>8 DEF AsyncTry, At, Early
  <1>9. CASE SyncTry(t) /\ ~CanReserveSync(dq_state)
    BY <1>6, <1>9 DEF SyncTry, At, Early
  <1>10. CASE BarrierTry(t) /\ ~Free(dq_state)
    BY <1>6, <1>10 DEF BarrierTry, At, Early
  <1>11. pc[t] \in Early => /\ stack[t] # <<>> /\ Current(t) \in Blocks /\ status[Current(t)] = "called"
                            /\ Tail(stack[t]) \in Seq(Frames) /\ ~Handed(t)
    BY <1>1, HasBlock, StackFacts DEF CallAt, Submits, Calling, Early, DrainPcs, HandedAt, Waits
  <1>12. CASE AsyncTry(t) /\ CanAcquireAsync(dq_state)
    <2>1. pc[t] = "async_try" /\ kind[Current(t)] = "async" /\ then[t] = "return" /\ dq_width > 1
      BY <1>1, <1>2, <1>12 DEF AsyncTry, At, CallAt, Early
    <2>2. Readied(Current(t)) /\ ~Barrier(Current(t))
      BY <1>11, <1>12, <2>1 DEF AsyncTry, Dispatch, Readied, Early, Barrier
    <2>3. Starts(Current(t))
      BY <2>2 DEF Starts, Readied
    <2>4. Users' = Users + 1
      BY <1>11, <2>1, <2>3, FlightMore DEF Early
    <2>5. /\ dq_state'.used = dq_state.used + 1 /\ dq_state'.ib = dq_state.ib /\ dq_state'.pb = dq_state.pb
          /\ dq_state'.owner = dq_state.owner /\ ~dq_state.ib /\ dq_state.used < dq_width
      BY <1>1, <1>12, Numbers DEF AsyncTry, CanAcquireAsync, Runnable, Take, WordRange
    <2>6. SameLive(t) /\ pc'[t] \in {"idle", "body"} /\ ~HasBarrier(t)' /\ ~DrainRuns(t)'
      BY <1>12, <2>1, LeaveRoles DEF AsyncTry, InTry
    <2>7. ~HasBarrier(t) /\ ~DrainRuns(t)
      BY <2>1, Roles DEF Plain, InTry, Waits, Completing
    <2>8. ~Popped
      BY <1>1, <2>1, ListMoved DEF Poppers
    <2>9. OwnerAt(t)'
      BY <2>6, <2>8, OwnerAtPlain DEF Completing, Giving, DrainLocked, DrainPcs
    <2>10. dq_state'.used = dq_state.used + (Users' - Users) /\ dq_state'.used <= dq_width
      BY <1>1, <2>4, <2>5, Numbers
    <2>11. own'[t] = own[t]
      BY <1>12 DEF AsyncTry
    <2>. QED
      BY <2>1, <2>5, <2>6, <2>7, <2>8, <2>9, <2>10, <2>11, MineSame DEF Giving, DrainLocked, DrainPcs
  <1>13. CASE SyncTry(t) /\ CanReserveSync(dq_state)
    <2>1. pc[t] = "sync_try" /\ kind[Current(t)] = "sync" /\ dq_width > 1
      BY <1>1, <1>2, <1>13 DEF SyncTry, At, CallAt, InTry
    <2>2. Run(t, Current(t), Tail(stack[t]), "uncount") /\ ~Barrier(Current(t))
      BY <1>13, <2>1 DEF SyncTry, Enter, Barrier
    <2>3. Ran(Current(t))
      BY <1>11, <1>13, <2>1, <2>2 DEF SyncTry, Run, Ran, Early
    <2>4. Starts(Current(t))
      BY <1>11, <2>1, <2>2, <2>3 DEF Starts, Early
    <2>5. Users' = Users + 1 /\ AsyncUsers' <= AsyncUsers
      BY <1>11, <2>1, <2>4, FlightMore DEF Early
    <2>6. /\ dq_state'.used = dq_state.used + 1 /\ dq_state'.ib = dq_state.ib /\ dq_state'.pb = dq_state.pb
          /\ dq_state'.owner = dq_state.owner /\ ~dq_state.ib
      BY <1>1, <1>13, Numbers DEF SyncTry, CanReserveSync, SyncRunnable, Take, WordRange
    <2>7. ~RunsBarrier(t) /\ ~DrainRuns(t)
      BY <2>1, <2>6, NoFrames DEF InTry
    <2>8. ~Popped
      BY <1>1, <2>1, ListMoved DEF Poppers
    <2>9. /\ pc'[t] = "body" /\ ~Handed(t)' /\ ~RunsBarrier(t)' /\ ~DrainRuns(t)' /\ OwnerAt(t)'
      BY <1>11, <2>1, <2>2, <2>7, RunRoles DEF Early, DrainAfter
    <2>10. ~HasBarrier(t) /\ ~HasBarrier(t)'
      BY <1>11, <2>1, <2>7, <2>9 DEF HasBarrier, Completing, Early
    <2>11. dq_state'.used = dq_state.used + (Users' - Users)
      BY <1>1, <2>5, <2>6, Numbers
    <2>12. own'[t] = own[t]
      BY <1>13 DEF SyncTry
    <2>. QED
      BY <2>1, <2>5, <2>6, <2>7, <2>8, <2>9, <2>10, <2>11, <2>12, MineSame DEF Giving, DrainLocked, DrainPcs
  <1>14. CASE BarrierTry(t) /\ Free(dq_state)
    <2>1. pc[t] = "barrier_try" /\ Barrier(Current(t))
      BY <1>1, <1>2, <1>14 DEF BarrierTry, At, CallAt, InTry
    <2>2. PICK after \in {"complete", "unlock_probe"} : Run(t, Current(t), Tail(stack[t]), after)
      BY <1>14 DEF BarrierTry, Enter
    <2>3. Ran(Current(t))
      BY <1>11, <1>14, <2>1, <2>2 DEF BarrierTry, Run, Ran, Early
    <2>4. Users' = Users
      BY <1>11, <2>1, <2>3, NoStarts, FlightSame DEF Early
    <2>5. dq_state.used = 0 /\ ~dq_state.ib /\ dq_state.owner = NoThread
      BY <1>14 DEF Free, Idle
    <2>6. Users' = 0
      BY <1>1, <2>4, <2>5, Numbers, Word
    <2>7. dq_state'.owner = t /\ dq_state'.ib /\ ~dq_state'.pb /\ dq_state'.used = dq_width
      BY <1>1, <1>14, Numbers DEF BarrierTry, FullLock, WordRange
    <2>8. ~RunsBarrier(t) /\ ~DrainRuns(t)
      BY <2>1, <2>5, NoFrames DEF InTry
    <2>9. pc'[t] = "body" /\ RunsBarrier(t)' /\ ~DrainRuns(t)'
      BY <1>11, <2>1, <2>2, <2>8, RunRoles DEF Early, DrainAfter
    <2>10. own'[t] = OwnNone
      <3>1. ~Holds(t) /\ OwnAt(t)
        BY <1>11, <2>1, <2>8 DEF Holds, HasBarrier, Completing, Giving, DrainLocked, DrainPcs, Early, Inv, Locking
      <3>. QED
        BY <1>14, <3>1 DEF BarrierTry, OwnAt
    <2>. QED
      BY <2>5, <2>6, <2>7, <2>9, <2>10, MineBarrier DEF HasBarrier, Giving, DrainLocked, DrainPcs
  <1>. QED
    BY <1>4, <1>5, <1>7, <1>8, <1>9, <1>10, <1>12, <1>13, <1>14

\* The push.
LEMMA MinePush ==
  ASSUME Inv, NEW t \in Threads, Acts(t), dq_width' = dq_width,
         \/ PushTail(t) \/ NeedOverride(t) \/ PushLink(t) \/ PushHead(t) \/ WakeupProbe(t) \/ Wakeup(t)
         \/ OverrideLast(t) \/ MergeQos(t) \/ PushWaiter(t)
  PROVE  Mine(t)
PROOF
  <1>. USE DEF list, target, locals, calls
  <1>1. Types /\ FrameAt(t) /\ HandedAt(t) /\ Types' /\ HandedAt(t)' /\ Keeps(t)
    BY After
  <1>2. ASSUME NEW label \in Linking \union Waking \union Waits, pc[t] \in {"push"} \union Linking \union Waking \union Waits,
               Goto(t, label), UNCHANGED <<stack, status, kind, caller, events, own>>, SameWord
        PROVE  Mine(t)
    <2>1. pc'[t] = label
      BY <1>1, <1>2 DEF Goto, Types
    <2>. QED
      BY <1>2, <2>1, MineMoves DEF Calm, Linking, Waking, Waits, Completing, Giving, DrainLocked, DrainPcs
  <1>3. ASSUME Leave(t), pc[t] \in Linking \union Waking, UNCHANGED <<status, kind, caller, events, own>>, SameWord
        PROVE  Mine(t)
    <2>1. then[t] = "return"
      BY <1>1, <1>3 DEF FrameAt, Types, Linking, Waking, Completing, Giving
    <2>2. SameLive(t) /\ pc'[t] \in {"idle", "body"} /\ ~Handed(t)'
      BY <1>3, <2>1, LeaveRoles DEF Linking, Waking, InTry, HasBarrier
    <2>3. ~Handed(t)
      BY <1>1, <1>3 DEF HandedAt, Linking, Waking, Waits
    <2>. QED
      BY <1>3, <2>2, <2>3, MineStays DEF Calm, Linking, Waking, Completing, Giving, DrainLocked, DrainPcs
  <1>4. CASE PushTail(t)
    <2>1. PICK label \in {"link_first", "link", "need_override"} : Goto(t, label)
      BY <1>4 DEF PushTail
    <2>. QED
      BY <1>2, <1>4, <2>1 DEF PushTail, At, SameWord, Linking
  <1>5. CASE NeedOverride(t)
    BY <1>2, <1>5 DEF NeedOverride, At, SameWord, Linking
  <1>6. CASE PushLink(t)
    <2>1. pc[t] \in Linking /\ UNCHANGED <<status, kind, caller, events, own>> /\ SameWord
      BY <1>6 DEF PushLink, SameWord, Linking
    <2>2. CASE pc[t] = "link" /\ ~Waiter(Current(t))
      BY <1>3, <1>6, <2>1, <2>2 DEF PushLink
    <2>3. CASE ~(pc[t] = "link" /\ ~Waiter(Current(t)))
      <3>1. PICK label \in {"merge_qos", "override_probe"} : Goto(t, label)
        BY <1>6, <2>3 DEF PushLink
      <3>. QED
        BY <1>2, <1>6, <2>1, <2>3, <3>1 DEF PushLink, Waking, Waits
    <2>. QED
      BY <2>2, <2>3
  <1>7. CASE PushHead(t)
    BY <1>2, <1>7 DEF PushHead, At, SameWord, Linking, Waking, Waits
  <1>8. CASE WakeupProbe(t)
    <2>1. PICK label \in {"override_last", "wakeup", "override"} : Goto(t, label)
      BY <1>8 DEF WakeupProbe
    <2>. QED
      BY <1>2, <1>8, <2>1 DEF WakeupProbe, SameWord, Waking
  <1>9. CASE Wakeup(t)
    <2>1. SameWord
      BY <1>1, <1>9, Numbers DEF Wakeup, Woken, SameWord, WordRange
    <2>. QED
      BY <1>3, <1>9, <2>1 DEF Wakeup, Waking
  <1>10. CASE OverrideLast(t)
    <2>1. SameWord
      BY <1>1, <1>10, Numbers DEF OverrideLast, SameWord, WordRange
    <2>. QED
      BY <1>3, <1>10, <2>1 DEF OverrideLast, At, Waking
  <1>11. CASE MergeQos(t)
    <2>1. SameWord
      BY <1>1, <1>11, Numbers DEF MergeQos, SameWord, WordRange
    <2>. QED
      BY <1>2, <1>11, <2>1 DEF MergeQos, At, Waits
  <1>12. CASE PushWaiter(t)
    <2>. DEFINE free == ~Locked(dq_state) /\ Runnable(dq_state) /\ (dq_state.pb \/ dq_state.used = 0)
    <2>1. CASE ~free
      <3>1. SameWord /\ Goto(t, "wait")
        BY <1>1, <1>12, <2>1, Numbers DEF PushWaiter, SameWord, WordRange
      <3>. QED
        BY <1>2, <1>12, <3>1 DEF PushWaiter, At, Waits
    <2>2. CASE free
      <3>1. pc[t] = "push_waiter" /\ pc'[t] = "complete" /\ dq_state' = [FullLock(dq_state, t) EXCEPT !.q = TRUE]
        <4>1. pc[t] = "push_waiter" /\ Goto(t, "complete")
          BY <1>12, <2>2 DEF PushWaiter, At
        <4>2. dq_state' = [FullLock(dq_state, t) EXCEPT !.q = TRUE]
          BY <1>12, <2>2 DEF PushWaiter
        <4>3. pc'[t] = "complete"
          BY <1>1, <4>1 DEF Goto, Types
        <4>. QED
          BY <4>1, <4>2, <4>3
      <3>2. dq_state'.owner = t /\ dq_state'.ib /\ ~dq_state'.pb /\ dq_state'.used = dq_width /\ dq_state.owner = NoThread
        BY <1>1, <2>2, <3>1, Numbers DEF FullLock, WordRange, Locked
      <3>3. Calm
        BY <1>12 DEF PushWaiter, Calm
      <3>4. Users' = Users
        BY <3>1, <3>3, NoStarts, FlightSame
      <3>5. Users = 0
        BY <1>1, <2>2, Numbers, Word DEF Runnable
      <3>6. HasBarrier(t)' /\ ~DrainRuns(t)'
        BY <3>1, After, RolesAfter DEF Plain, InTry, Waits, Completing
      <3>7. own'[t] = OwnNone
        <4>1. ~Holds(t) /\ OwnAt(t)
          BY <3>2, Constants DEF Inv, Locking, LockAt
        <4>. QED
          BY <1>12, <4>1 DEF PushWaiter, OwnAt
      <3>. QED
        BY <3>1, <3>2, <3>4, <3>5, <3>6, <3>7, MineBarrier DEF Giving, DrainLocked, DrainPcs
    <2>. QED
      BY <2>1, <2>2
  <1>. QED
    BY <1>4, <1>5, <1>6, <1>7, <1>8, <1>9, <1>10, <1>11, <1>12

\* A waiter that was woken.
LEMMA MineWait ==
  ASSUME Inv, NEW t \in Threads, Acts(t), dq_width' = dq_width, Wait(t)
  PROVE  Mine(t)
PROOF
  <1>. USE DEF list, target, locals, calls
  <1>1. Types /\ Types' /\ FrameAt(t) /\ Places(t)
    BY After
  <1>2. pc[t] = "wait" /\ Current(t) \in events /\ stack[t] # <<>> /\ Current(t) \in Blocks /\ Tail(stack[t]) \in Seq(Frames)
    BY <1>1, HasBlock, StackFacts DEF Wait, At, DrainPcs
  <1>3. status[Current(t)] = "ready"
    BY <1>2 DEF Inv, Listing, PlaceAt
  <1>4. PICK after \in {"uncount", "complete"} : /\ Run(t, Current(t), Tail(stack[t]), after)
                                                 /\ after = "complete" <=> Barrier(Current(t))
    BY DEF Wait, Enter
  <1>5. Ran(Current(t)) /\ SameWord /\ own'[t] = own[t]
    BY <1>3, <1>4 DEF Wait, Run, Ran, SameWord
  <1>6. Users' = Users /\ AsyncUsers' <= AsyncUsers
    BY <1>2, <1>3, <1>5, NoStarts, FlightSame
  <1>7. ~RunsBarrier(t) /\ ~DrainRuns(t)
    BY <1>2, NoFrames DEF InTry
  <1>8. /\ pc'[t] = "body" /\ ~Handed(t)' /\ (RunsBarrier(t)' <=> after = "complete") /\ ~DrainRuns(t)' /\ OwnerAt(t)'
    BY <1>2, <1>3, <1>4, <1>7, RunRoles DEF DrainAfter
  <1>9. HasBarrier(t)' <=> HasBarrier(t)
    BY <1>2, <1>4, <1>7, <1>8 DEF HasBarrier, Handed, Completing
  <1>10. ~Popped
    BY <1>1, <1>2, ListMoved DEF Poppers
  <1>11. dq_state'.used = dq_state.used + (Users' - Users)
    BY <1>1, <1>5, <1>6, Numbers DEF SameWord
  <1>. QED
    BY <1>2, <1>5, <1>6, <1>7, <1>8, <1>9, <1>10, <1>11, MineSame DEF SameWord, Giving, DrainLocked, DrainPcs

\* The end of a block.
LEMMA MineReturn ==
  ASSUME Inv, NEW t \in Threads, Acts(t), dq_width' = dq_width, Return(t)
  PROVE  Mine(t)
PROOF
  <1>. USE DEF list, target, locals, calls
  <1>1. /\ Types /\ LiveAt(t) /\ HandedAt(t) /\ OwnerAt(t) /\ Types' /\ LiveAt(t)' /\ HandedAt(t)' /\ Marks(t)
        /\ Places(t) /\ OwnAt(t) /\ LockAt(t) /\ IbAt(t)
    BY After DEF Inv, Locking
  <1>2. pc[t] = "body" /\ Ended(t) /\ pc'[t] = Live(t)[Count(t)].after /\ Count(t) \in 1..Count(t)
    <2>1. pc[t] = "body" /\ Ended(t) /\ pc'[t] = Live(t)[Count(t)].after
      BY <1>1, ThreadEnded DEF Ended
    <2>. QED
      BY <2>1, EndedRuns
  <1>3. ~Handed(t)
    BY <1>1, <1>2 DEF HandedAt, Waits
  <1>4. SameWord /\ own'[t] = own[t] /\ dq_items' = dq_items
    BY DEF Return, SameWord
  <1>5. Users' = Users /\ AsyncUsers' <= AsyncUsers
    BY <1>2, NoStarts, FlightSame
  <1>6. ~Popped
    BY <1>1, <1>2, ListMoved DEF Poppers
  <1>7. pc'[t] \in {"uncount"} \union Exclusive
    BY <1>1, <1>2 DEF LiveAt, Exclusive
  <1>8. /\ ~RunsBarrier(t)' /\ ~DrainRuns(t)' /\ ~Handed(t)'
        /\ HasBarrier(t)' <=> pc'[t] \in Completing
        /\ Holds(t)' <=> pc'[t] \in Completing \union Giving \union DrainLocked
    BY <1>1, <1>7, RolesAfter DEF Plain, Exclusive, InTry, Waits
  <1>9. \A j \in 1..Count(t) : Live(t)[j].after \in Exclusive => j = Count(t)
    BY <1>1, <1>2 DEF LiveAt, InTry
  <1>10. RunsBarrier(t) <=> pc'[t] \in {"unlock_probe", "complete"}
    BY <1>2, <1>9 DEF RunsBarrier, Exclusive
  <1>11. DrainRuns(t) <=> pc'[t] \in DrainAfter
    BY <1>2, <1>9 DEF DrainRuns, Exclusive, DrainAfter
  <1>12. dq_state'.used = dq_state.used + (Users' - Users)
    BY <1>1, <1>4, <1>5, Numbers DEF SameWord
  <1>13. CASE pc'[t] \in {"uncount", "unlock_probe", "complete"}
    <2>1. (HasBarrier(t)' <=> HasBarrier(t)) /\ ~DrainRuns(t)
      BY <1>2, <1>3, <1>8, <1>10, <1>11, <1>13 DEF HasBarrier, Completing, DrainAfter
    <2>2. OwnerAt(t)'
      BY <1>8, <1>13 DEF OwnerAt, DrainRuns, DrainAfter
    <2>. QED
      BY <1>2, <1>4, <1>5, <1>6, <1>8, <1>12, <1>13, <2>1, <2>2, MineSame
         DEF SameWord, Giving, DrainLocked, DrainPcs
  <1>14. CASE pc'[t] \in DrainAfter
    <2>1. Holds(t) /\ own[t] = OwnAll /\ dq_state.owner = t /\ dq_state.ib
      BY <1>1, <1>11, <1>14 DEF Holds, OwnAt, LockAt, IbAt, OwnAll
    <2>2. dq_state'.used = dq_width /\ ~dq_state'.pb /\ Users' = 0 /\ dq_state'.ib /\ dq_state'.owner = t
      BY <1>4, <1>5, <2>1, Word DEF SameWord
    <2>3. Holds(t)' /\ ~HasBarrier(t)'
      BY <1>8, <1>14 DEF DrainAfter, DrainLocked, DrainPcs, Completing
    <2>4. own'[t] = OwnAll /\ own'[t].ib /\ own'[t].w = dq_width /\ dq_width \in Nat /\ AsyncUsers' \in Nat /\ AsyncUsers' <= Users'
      BY <1>1, <1>4, <2>1, Numbers, FlightAfter DEF OwnAll
    <2>5. OwnAt(t)'
      BY <1>8, <1>14, <2>3, <2>4 DEF OwnAt, OwnAll, DrainAfter, Giving
    <2>6. PendingAt(t)' /\ Pending' /\ RoomAt(t)'
      BY <2>2, <2>4 DEF PendingAt, Pending, RoomAt
    <2>7. OwnerAt(t)'
      <3>1. pc'[t] = "drain_more" => dq_items # <<>>
        BY <1>1, <1>2 DEF OwnerAt
      <3>2. \A j \in 1..Count(t)' : Live(t)'[j].after # "drain_more"
        BY <1>8 DEF DrainRuns, DrainAfter
      <3>. QED
        BY <1>4, <1>14, <3>1, <3>2 DEF OwnerAt, DrainAfter
    <2>8. AsyncUsers' <= dq_width
      BY <2>2, <2>4
    <2>. QED
      BY <2>1, <2>2, <2>3, <2>4, <2>5, <2>6, <2>7, <2>8, MineDrain
  <1>. QED
    BY <1>7, <1>13, <1>14 DEF Exclusive, DrainAfter

\* The completion of a block that is no barrier: the width is given back, or the lock is taken.
LEMMA MineUncount ==
  ASSUME Inv, NEW t \in Threads, Acts(t), dq_width' = dq_width, NonBarrierComplete(t)
  PROVE  Mine(t)
PROOF
  <1>. USE DEF list, target, locals, calls
  <1>1. /\ Types /\ LiveAt(t) /\ OwnAt(t) /\ LockAt(t) /\ Types' /\ LiveAt(t)' /\ HandedAt(t)' /\ Places(t)
    BY After DEF Inv, Locking
  <1>2. pc[t] = "uncount" /\ then[t] = "return" /\ dq_state' = Uncounted(dq_state, t) /\ own'[t] = own[t]
    BY UncountFacts DEF NonBarrierComplete, At
  <1>3. ~Holds(t) /\ ~HasBarrier(t) /\ ~DrainRuns(t) /\ own[t] = OwnNone /\ dq_state.owner # t
    BY <1>1, <1>2, Roles DEF OwnAt, LockAt, Plain, InTry, Waits, Completing, Giving, DrainLocked, DrainPcs
  <1>4. Users >= 1 /\ Users' = Users - 1 /\ AsyncUsers' <= AsyncUsers
    BY <1>2, FlightLess
  <1>5. /\ dq_width \in Nat /\ dq_width >= 1 /\ dq_state.used \in Int /\ dq_state \in WordRange /\ ~dq_state.ib
        /\ Users \in Nat /\ Users' \in Nat /\ dq_state.owner \in Threads \union {NoThread} /\ NoThread \notin Threads
    BY <1>1, <1>4, Numbers, Word
  <1>. DEFINE new == Take(dq_state, -1)
  <1>6. /\ new \in WordRange /\ new.used = dq_state.used - 1 /\ new.ib = dq_state.ib /\ new.pb = dq_state.pb
        /\ new.owner = dq_state.owner
    BY <1>5 DEF Take, WordRange
  <1>7. CASE ~Locked(dq_state) /\ Runnable(new) /\ WholeWidthFree(new)
    <2>1. dq_state' = FullLock(new, t)
      BY <1>2, <1>7 DEF Uncounted, TryFullLock
    <2>2. dq_state'.owner = t /\ dq_state'.ib /\ ~dq_state'.pb /\ dq_state'.used = dq_width
      BY <1>5, <1>6, <2>1 DEF FullLock, WordRange
    <2>3. pc'[t] = "complete"
      BY <1>1, <1>5, <2>2 DEF NonBarrierComplete, CompleteNonBarrier, Goto, Types
    <2>4. Users' = 0
      <3>1. dq_state.used = Users + (IF dq_state.pb THEN dq_width - 1 ELSE 0)
        BY <1>7, Word
      <3>. QED
        BY <1>4, <1>5, <1>6, <1>7, <3>1 DEF WholeWidthFree
    <2>5. HasBarrier(t)' /\ ~DrainRuns(t)'
      BY <1>1, <2>3, RolesAfter DEF Plain, InTry, Waits, Completing
    <2>6. dq_state.owner \in {t, NoThread} /\ own'[t] = OwnNone
      BY <1>2, <1>3, <1>7 DEF Locked
    <2>. QED
      BY <2>2, <2>3, <2>4, <2>5, <2>6, MineBarrier DEF Giving, DrainLocked, DrainPcs
  <1>8. CASE ~(~Locked(dq_state) /\ Runnable(new) /\ WholeWidthFree(new))
    <2>1. \/ dq_state' = [new EXCEPT !.d = TRUE]
          \/ dq_state' = [new EXCEPT !.e = @ \/ dq_state.d]
          \/ dq_state' = new
      BY <1>2, <1>8 DEF Uncounted, TryFullLock
    <2>2. /\ dq_state'.used = dq_state.used - 1 /\ dq_state'.ib = dq_state.ib /\ dq_state'.pb = dq_state.pb
          /\ dq_state'.owner = dq_state.owner
      BY <1>6, <2>1 DEF WordRange
    <2>3. Leave(t)
      BY <1>2, <1>5, <2>2 DEF NonBarrierComplete, CompleteNonBarrier, Complete
    <2>4. SameLive(t) /\ pc'[t] \in {"idle", "body"} /\ ~HasBarrier(t)' /\ ~DrainRuns(t)'
      BY <1>2, <2>3, LeaveRoles DEF InTry
    <2>5. ~Popped
      BY <1>1, <1>2, ListMoved DEF Poppers
    <2>6. OwnerAt(t)'
      BY <2>4, <2>5, OwnerAtPlain DEF Completing, Giving, DrainLocked, DrainPcs
    <2>7. dq_state'.used = dq_state.used + (Users' - Users)
      BY <1>4, <1>5, <2>2
    <2>. QED
      BY <1>2, <1>3, <1>4, <1>5, <2>2, <2>4, <2>5, <2>6, <2>7, MineSame DEF Giving, DrainLocked, DrainPcs
  <1>. QED
    BY <1>7, <1>8

\* A thread that completes a barrier has it all, and what it hands back is all.
LEMMA Releasing ==
  ASSUME Inv, NEW t \in Threads, pc[t] \in Completing
  PROVE  /\ HasBarrier(t) /\ ~RunsBarrier(t) /\ ~DrainRuns(t) /\ ~Handed(t)
         /\ dq_state.owner = t /\ dq_state.ib /\ ~dq_state.pb /\ dq_state.used = dq_width
         /\ Users = 0 /\ InFlight = {} /\ own[t] = OwnNone
         /\ dq_state \in WordRange /\ dq_width \in Nat /\ dq_width >= 1 /\ NoThread # t
         /\ Release(dq_state, Everything) \in WordRange
         /\ Release(dq_state, Everything) = [dq_state EXCEPT !.used = 0, !.ib = FALSE, !.owner = NoThread]
PROOF
  <1>1. pc[t] \notin Plain
    BY DEF Plain, InTry, Waits, Completing
  <1>2. HasBarrier(t) /\ ~RunsBarrier(t) /\ ~DrainRuns(t) /\ ~Handed(t)
    BY <1>1, Roles
  <1>3. /\ dq_state.owner = t /\ dq_state.ib /\ ~dq_state.pb /\ dq_state.used = dq_width
        /\ Users = 0 /\ InFlight = {} /\ own[t] = OwnNone
    BY <1>2, WordOfBarrier
  <1>4. dq_state \in WordRange /\ dq_width \in Nat /\ dq_width >= 1 /\ NoThread # t
    BY Numbers, Constants DEF Inv
  <1>5. Release(dq_state, Everything) = [dq_state EXCEPT !.used = 0, !.ib = FALSE, !.owner = NoThread]
    <2>1. dq_state.used - dq_width = 0 /\ (dq_state.ib /\ ~TRUE) = FALSE
      BY <1>3, <1>4
    <2>. QED
      BY <1>4, <2>1 DEF Release, Everything, WordRange
  <1>6. Release(dq_state, Everything) \in WordRange
    <2>1. Types /\ Everything \in [ib : BOOLEAN, w : Int]
      BY <1>4 DEF Inv, Everything
    <2>. QED
      BY <1>4, <2>1, WordTypes
  <1>. QED
    BY <1>2, <1>3, <1>4, <1>5, <1>6

\* The completion of a barrier, up to the transfer of the lock.
LEMMA MineComplete ==
  ASSUME Inv, NEW t \in Threads, Acts(t), dq_width' = dq_width,
         \/ UnlockProbe(t) \/ Unlock(t) \/ BarrierComplete(t) \/ BarrierRelease(t)
         \/ BarrierRequeue(t) \/ PopWaiter(t) \/ Open(t)
  PROVE  Mine(t)
PROOF
  <1>. USE DEF list, target, locals, calls
  <1>1. /\ Types /\ FrameAt(t) /\ LiveAt(t) /\ OwnerAt(t) /\ Types' /\ LiveAt(t)' /\ HandedAt(t)' /\ Places(t)
    BY After
  <1>2. pc[t] \in Completing /\ pc[t] # "uncount"
    BY DEF UnlockProbe, Unlock, BarrierComplete, BarrierRelease, BarrierRequeue, PopWaiter, Open, At, Completing
  <1>3. /\ dq_state.owner = t /\ dq_state.ib /\ ~dq_state.pb /\ dq_state.used = dq_width
        /\ Users = 0 /\ own[t] = OwnNone
        /\ dq_state \in WordRange /\ dq_width \in Nat /\ dq_width >= 1 /\ NoThread # t
        /\ Release(dq_state, Everything) \in WordRange
        /\ Release(dq_state, Everything) = [dq_state EXCEPT !.used = 0, !.ib = FALSE, !.owner = NoThread]
    BY <1>2, Releasing
  <1>4. Calm /\ events' = events
    BY DEF UnlockProbe, Unlock, BarrierComplete, BarrierRelease, BarrierRequeue, PopWaiter, HandOver, Open, Calm
  <1>5. Users' = 0 /\ AsyncUsers' <= dq_width /\ AsyncUsers' = 0
    <2>1. Users' = Users
      BY <1>2, <1>4, NoStarts, FlightSame
    <2>. QED
      BY <1>1, <1>3, <2>1, FlightAfter
  <1>6. ASSUME NEW label \in Completing, Goto(t, label), own' = own, SameWord,
               label \in {"open", "pop_waiter", "requeue"} =>
                 /\ dq_items' = dq_items /\ dq_items # <<>>
                 /\ label = "open" => ~Barrier(Head(dq_items))
                 /\ label = "pop_waiter" => Barrier(Head(dq_items)) /\ Waiter(Head(dq_items))
        PROVE  Mine(t)
    <2>1. pc'[t] = label
      BY <1>1, <1>6 DEF Goto, Types
    <2>2. HasBarrier(t)' /\ ~DrainRuns(t)'
      BY <1>1, <2>1, RolesAfter DEF Plain, InTry, Waits, Completing
    <2>3. pc'[t] \in {"open", "pop_waiter", "requeue"} => OwnerAt(t)'
      BY <1>4, <1>6, <2>1, <2>2 DEF OwnerAt, Barrier, Waiter, Calm, DrainRuns, DrainAfter
    <2>. QED
      BY <1>3, <1>5, <1>6, <2>1, <2>2, <2>3, MineBarrier DEF SameWord, Completing, Giving, DrainLocked, DrainPcs
  <1>7. ASSUME Complete(t), own' = own, dq_state'.owner = NoThread, ~dq_state'.ib, ~dq_state'.pb, dq_state'.used = 0
        PROVE  Mine(t)
    <2>1. ~Holds(t)'
      BY <1>2, <1>4, <1>7, CompleteRoles
    <2>. QED
      BY <1>3, <1>5, <1>7, <2>1, MineFree DEF Pending
  <1>8. CASE UnlockProbe(t)
    <2>1. PICK label \in {"complete", "unlock"} : Goto(t, label)
      BY <1>8 DEF UnlockProbe
    <2>. QED
      BY <1>6, <1>8, <2>1 DEF UnlockProbe, SameWord, Completing
  <1>9. CASE Unlock(t)
    <2>1. CASE dq_state.e \/ dq_state.d \/ dq_state.q
      BY <1>6, <1>9, <2>1 DEF Unlock, SameWord, Completing
    <2>2. CASE ~(dq_state.e \/ dq_state.d \/ dq_state.q)
      <3>1. Everything = [ib |-> TRUE, w |-> 1]
        BY <1>1, <1>9 DEF Unlock, At, FrameAt, Everything
      <3>2. dq_state' = Release(dq_state, Everything) /\ Complete(t) /\ own' = own
        BY <1>9, <2>2, <3>1 DEF Unlock
      <3>3. dq_state'.owner = NoThread /\ ~dq_state'.ib /\ ~dq_state'.pb /\ dq_state'.used = 0
        BY <1>3, <3>2 DEF WordRange
      <3>. QED
        BY <1>7, <3>2, <3>3
    <2>. QED
      BY <2>1, <2>2
  <1>10. CASE BarrierComplete(t)
    <2>1. PICK label \in {"release", "open", "pop_waiter", "requeue"} :
            /\ Goto(t, label)
            /\ label # "release" => dq_items # <<>>
            /\ label = "open" => ~Barrier(Head(dq_items))
            /\ label = "pop_waiter" => Barrier(Head(dq_items)) /\ Waiter(Head(dq_items))
      <3>1. CASE dq_items = <<>>
        BY <1>10, <3>1 DEF BarrierComplete
      <3>2. CASE dq_items # <<>> /\ ~Barrier(Head(dq_items))
        BY <1>10, <3>2 DEF BarrierComplete
      <3>3. CASE dq_items # <<>> /\ Barrier(Head(dq_items)) /\ Waiter(Head(dq_items))
        BY <1>10, <3>3 DEF BarrierComplete
      <3>4. CASE dq_items # <<>> /\ Barrier(Head(dq_items)) /\ ~Waiter(Head(dq_items))
        BY <1>10, <3>4 DEF BarrierComplete
      <3>. QED
        BY <3>1, <3>2, <3>3, <3>4
    <2>. QED
      BY <1>6, <1>10, <2>1 DEF BarrierComplete, SameWord, Completing
  <1>11. CASE BarrierRelease(t)
    <2>1. CASE dq_state.d
      <3>1. SameWord /\ Goto(t, "complete") /\ own' = own
        BY <1>3, <1>11, <2>1 DEF BarrierRelease, SameWord, WordRange
      <3>. QED
        BY <1>6, <3>1 DEF Completing
    <2>2. CASE ~dq_state.d
      <3>1. dq_state' = [Release(dq_state, Everything) EXCEPT !.q = FALSE] /\ Complete(t) /\ own' = own
        BY <1>11, <2>2 DEF BarrierRelease
      <3>2. dq_state'.owner = NoThread /\ ~dq_state'.ib /\ ~dq_state'.pb /\ dq_state'.used = 0
        BY <1>3, <3>1 DEF WordRange
      <3>. QED
        BY <1>7, <3>1, <3>2
    <2>. QED
      BY <2>1, <2>2
  <1>12. CASE BarrierRequeue(t)
    <2>1. dq_state' = [Release(dq_state, Everything) EXCEPT !.e = TRUE] /\ Complete(t) /\ own' = own
      BY <1>12 DEF BarrierRequeue
    <2>2. dq_state'.owner = NoThread /\ ~dq_state'.ib /\ ~dq_state'.pb /\ dq_state'.used = 0
      BY <1>3, <2>1 DEF WordRange
    <2>. QED
      BY <1>7, <2>1, <2>2
  <1>13. CASE PopWaiter(t)
    BY <1>6, <1>13 DEF PopWaiter, HandOver, SameWord, Completing
  <1>14. CASE Open(t)
    <2>1. pc'[t] = "give" /\ own'[t] = [ib |-> FALSE, w |-> dq_width] /\ dc'[t] = Head(dq_items) /\ dq_items' = dq_items
      BY <1>1, <1>14 DEF Open, Goto, Own, Types
    <2>2. /\ dq_state'.owner = t /\ ~dq_state'.ib /\ ~dq_state'.pb /\ dq_state'.used = dq_width
      BY <1>3, <1>14 DEF Open, WordRange
    <2>3. Holds(t)' /\ ~HasBarrier(t)' /\ ~DrainRuns(t)'
      BY <1>1, <2>1, RolesAfter DEF Plain, InTry, Waits, Completing, Giving
    <2>4. own'[t].w = dq_width /\ ~own'[t].ib
      BY <2>1
    <2>5. OwnAt(t)'
      BY <1>3, <2>1, <2>3, <2>4 DEF OwnAt
    <2>6. PendingAt(t)' /\ Pending' /\ RoomAt(t)'
      BY <1>3, <1>5, <2>2, <2>4 DEF PendingAt, Pending, RoomAt
    <2>7. OwnerAt(t)'
      <3>1. dq_items # <<>> /\ ~Barrier(Head(dq_items))
        BY <1>1, <1>14 DEF Open, At, OwnerAt
      <3>2. ~Barrier(Head(dq_items))'
        BY <1>4, <2>1, <3>1 DEF Barrier, Calm
      <3>. QED
        BY <2>1, <2>3, <3>1, <3>2 DEF OwnerAt, DrainRuns, DrainAfter
    <2>8. dq_state'.used = Users' + own'[t].w
      BY <1>3, <1>5, <2>2, <2>4
    <2>. QED
      BY <1>3, <1>5, <2>2, <2>3, <2>4, <2>5, <2>6, <2>7, <2>8, MineDrain
  <1>. QED
    BY <1>8, <1>9, <1>10, <1>11, <1>12, <1>13, <1>14

\* The lock goes to the waiter, which may be the thread that completes the barrier.
LEMMA MineTransfer ==
  ASSUME Inv, NEW t \in Threads, Acts(t), dq_width' = dq_width, TransferLock(t)
  PROVE  Mine(t)
PROOF
  <1>. USE DEF list, target, locals, calls
  <1>1. /\ Types /\ FrameAt(t) /\ CallAt(t) /\ FinishedAt(t) /\ TransferAt(t) /\ Types' /\ HandedAt(t)'
        /\ OwnAt(t) /\ pc[t] \in Transfers
    BY After DEF Inv, Threading, ThreadAt, Listing, Locking, TransferLock, Transfers
  <1>. DEFINE b == dc[t]
              u == caller[dc[t]]
  <1>2. b \in Blocks /\ Waiter(b) /\ Barrier(b) /\ status[b] = "called"
    BY <1>1 DEF TransferAt
  <1>3. u \in Threads /\ stack[u] # <<>> /\ Current(u) = b /\ u # NoThread
    BY <1>2, Constants DEF Inv, Threading, WaiterAt
  <1>4. /\ dq_state.owner = t /\ dq_state.ib /\ ~dq_state.pb /\ dq_state.used = dq_width /\ Users = 0 /\ ~Handed(t)
    <2>1. CASE pc[t] = "transfer"
      BY <2>1, Releasing DEF Completing
    <2>2. CASE pc[t] = "drain_transfer"
      <3>1. pc[t] \in Giving \union DrainLocked /\ pc[t] \notin Plain
        BY <2>2 DEF Giving, DrainLocked, DrainPcs, Plain, InTry, Waits
      <3>2. own[t].ib
        BY <1>1, <2>2 DEF OwnAt
      <3>. QED
        BY <3>1, <3>2, WordOfDrainer, Word, Roles
    <2>. QED
      BY <1>1, <2>1, <2>2 DEF Transfers
  <1>5. dq_state \in WordRange /\ dq_width \in Nat /\ dq_width >= 1 /\ NoThread # t
    BY <1>1, Numbers, Constants
  <1>6. dq_state'.owner = u /\ dq_state'.ib /\ ~dq_state'.pb /\ dq_state'.used = dq_width
    BY <1>4, <1>5 DEF TransferLock, Transferred, WordRange
  <1>7. own'[t] = OwnNone /\ events' = events \union {b} /\ Complete(t)
    BY <1>1 DEF TransferLock, Own, OwnNone, Types
  <1>8. Readied(b)
    BY <1>2 DEF TransferLock, Readied
  <1>9. Users' = 0 /\ AsyncUsers' = 0 /\ InFlight' = {}
    <2>1. Users' = Users
      BY <1>1, <1>2, <1>8, NoStarts, FlightSame DEF Transfers
    <2>. QED
      BY <1>1, <1>4, <2>1, FlightAfter
  <1>10. /\ pc'[t] \in {"idle", "body", "wait"} /\ ~DrainRuns(t)'
         /\ (Holds(t)' <=> Handed(t)') /\ (HasBarrier(t)' <=> Handed(t)')
    BY <1>1, <1>2, <1>7, <1>8, CompleteRoles DEF Transfers, Completing
  <1>11. \A c : Barrier(c)' <=> Barrier(c)
    BY <1>8 DEF Readied, Barrier
  <1>12. then[t] = "wait" => stack' = stack
    BY <1>7 DEF Complete
  <1>13. CASE u = t
    <2>1. pc[t] = "transfer"
      BY <1>1, <1>3, <1>13 DEF FrameAt, Transfers, DrainPcs
    <2>2. then[t] = "wait"
      BY <1>1, <1>2, <1>3, <1>13, <2>1 DEF FinishedAt, Completing
    <2>3. Handed(t)'
      BY <1>2, <1>3, <1>7, <1>11, <1>12, <1>13, <2>2 DEF Handed, Current
    <2>. QED
      BY <1>4, <1>6, <1>7, <1>9, <1>10, <1>13, <2>3, MineBarrier DEF Giving, DrainLocked, DrainPcs
  <1>14. CASE u # t
    <2>1. ~Handed(t)'
      <3>1. CASE then[t] = "wait"
        <4>1. caller[Current(t)] = t
          BY <1>1, <3>1 DEF CallAt, Submits
        <4>. QED
          BY <1>4, <1>7, <1>11, <1>12, <1>14, <3>1, <4>1 DEF Handed, Current
      <3>2. CASE then[t] # "wait"
        <4>1. pc'[t] \notin Waits
          BY SMTT(30), <1>1, <1>7, <3>2 DEF Complete, Leave, Goto, Types, Waits
        <4>. QED
          BY <1>1, <4>1 DEF HandedAt
      <3>. QED
        BY <3>1, <3>2
    <2>2. Local(t)'
      BY <1>1, <1>6, <1>7, <1>10, <1>14, <2>1, LocalFree
    <2>3. Alone' /\ Pending'
      BY <1>3, <1>6, <1>9 DEF Alone, Pending, Locked
    <2>4. Balanced'
      BY <1>5, <1>6, <1>9 DEF Balanced, Held
    <2>5. Yields(t)
      BY <1>4 DEF Yields
    <2>. QED
      BY <1>5, <1>9, <2>2, <2>3, <2>4, <2>5 DEF Mine
  <1>. QED
    BY <1>13, <1>14

\* What a thread that drains or hands out width has of the word.
LEMMA Drainer ==
  ASSUME Inv, NEW t \in Threads, Acts(t), dq_width' = dq_width, pc[t] \in Giving \union DrainLocked
  PROVE  /\ dq_state \in WordRange /\ dq_width \in Nat /\ dq_width >= 1 /\ NoThread # t
         /\ Users \in Nat /\ AsyncUsers \in Nat /\ AsyncUsers <= Users /\ AsyncUsers <= dq_width
         /\ dq_state.owner = t /\ own[t].w \in Nat /\ own[t].w <= dq_width /\ own[t].ib \in BOOLEAN
         /\ own[t] = [ib |-> own[t].ib, w |-> own[t].w]
         /\ dq_state.ib <=> own[t].ib
         /\ dq_state.ib => dq_state.used = dq_width /\ Users = 0 /\ ~dq_state.pb
         /\ ~dq_state.ib => dq_state.used = Users + own[t].w + (IF dq_state.pb THEN dq_width - 1 ELSE 0)
         /\ own[t].ib => own[t] = OwnAll \/ (pc[t] = "drain" /\ dq_items # <<>>)
         /\ dq_state.pb => /\ pc[t] \in {"drain", "drain_first", "drain_stop"} /\ own[t] = OwnNone
                           /\ dq_items # <<>> /\ Barrier(Head(dq_items))
         /\ RoomAt(t) /\ OwnerAt(t) /\ OwnAt(t) /\ Types /\ FrameAt(t) /\ Types'
         /\ pc'[t] \notin Plain => /\ Holds(t)' <=> pc'[t] \in Completing \union Giving \union DrainLocked
                                   /\ HasBarrier(t)' <=> pc'[t] \in Completing
                                   /\ ~DrainRuns(t)'
PROOF
  <1>1. /\ Types /\ FrameAt(t) /\ Types' /\ LiveAt(t)' /\ HandedAt(t)' /\ RoomAt(t) /\ OwnerAt(t) /\ OwnAt(t)
        /\ AsyncUsers <= dq_width /\ Pending
    BY After DEF Inv, Locking, Counting
  <1>2. /\ dq_state.owner = t /\ own[t].w \in Nat /\ own[t].w <= dq_width /\ own[t].ib \in BOOLEAN
        /\ own[t] = [ib |-> own[t].ib, w |-> own[t].w]
        /\ dq_state.ib <=> own[t].ib
        /\ dq_state.pb => pc[t] \in {"drain", "drain_first", "drain_stop"} /\ own[t] = OwnNone
    BY WordOfDrainer
  <1>3. /\ dq_state \in WordRange /\ dq_width \in Nat /\ dq_width >= 1 /\ NoThread # t
        /\ Users \in Nat /\ AsyncUsers \in Nat /\ AsyncUsers <= Users
    BY <1>1, Numbers, Constants
  <1>4. /\ dq_state.ib => dq_state.used = dq_width /\ Users = 0 /\ ~dq_state.pb
        /\ ~dq_state.ib => dq_state.used = Users + own[t].w + (IF dq_state.pb THEN dq_width - 1 ELSE 0)
    BY <1>2, Word
  <1>5. /\ own[t].ib => own[t] = OwnAll \/ (pc[t] = "drain" /\ dq_items # <<>>)
        /\ dq_state.pb => dq_items # <<>> /\ Barrier(Head(dq_items))
    BY <1>1 DEF OwnAt, Pending
  <1>6. pc'[t] \notin Plain => /\ Holds(t)' <=> pc'[t] \in Completing \union Giving \union DrainLocked
                               /\ HasBarrier(t)' <=> pc'[t] \in Completing
                               /\ ~DrainRuns(t)'
    BY <1>1, RolesAfter
  <1>. QED
    BY <1>1, <1>2, <1>3, <1>4, <1>5, <1>6

\* A drainer goes on; what it owns may be counted anew.
LEMMA DrainsOn ==
  ASSUME Inv, NEW t \in Threads, Acts(t), dq_width' = dq_width,
         pc[t] \in Giving \union DrainLocked, pc'[t] \in Giving \union DrainLocked,
         Calm, SameWord, own'[t].ib <=> own[t].ib, own[t].ib \/ own'[t].w = own[t].w,
         OwnAt(t)', PendingAt(t)', OwnerAt(t)', RoomAt(t)', Pending'
  PROVE  Mine(t) /\ AsyncUsers' <= AsyncUsers
PROOF
  <1>1. pc[t] # "uncount" /\ pc'[t] \notin Plain /\ pc'[t] \notin Completing
    BY DEF Plain, InTry, Waits, Completing, Giving, DrainLocked, DrainPcs
  <1>2. Users' = Users /\ AsyncUsers' <= AsyncUsers
    BY <1>1, NoStarts, FlightSame
  <1>3. Holds(t)' /\ ~HasBarrier(t)'
    BY <1>1, Drainer
  <1>4. AsyncUsers' \in Nat
    BY FlightAfter, TypesStep DEF Inv
  <1>5. /\ dq_state.owner = t /\ dq_state'.owner = t
        /\ dq_state'.ib <=> own'[t].ib
        /\ dq_state'.ib => Users' = 0 /\ ~dq_state'.pb
    BY <1>2, Drainer DEF SameWord
  <1>6. AsyncUsers' <= dq_width
    <2>1. AsyncUsers \in Nat /\ AsyncUsers <= dq_width /\ dq_width \in Nat
      BY Drainer
    <2>. QED
      BY <1>2, <1>4, <2>1
  <1>7. dq_state'.used = Users' + (IF own'[t].ib THEN dq_width ELSE own'[t].w)
                                + (IF dq_state'.pb THEN dq_width - 1 ELSE 0)
    <2>1. CASE own[t].ib
      <3>1. dq_state.used = dq_width /\ Users = 0 /\ ~dq_state.pb /\ dq_width \in Nat
        BY <2>1, Drainer
      <3>. QED
        BY <1>2, <2>1, <3>1 DEF SameWord
    <2>2. CASE ~own[t].ib
      <3>1. dq_state.used = Users + own[t].w + (IF dq_state.pb THEN dq_width - 1 ELSE 0)
        BY <2>2, Drainer
      <3>. QED
        BY <1>2, <2>2, <3>1 DEF SameWord
    <2>. QED
      BY <2>1, <2>2
  <1>. QED
    BY <1>2, <1>3, <1>5, <1>6, <1>7, MineDrain

\* A drainer that has no width left takes one more for the first item, which is no barrier:
\* waiters may exceed the width, asynchronous blocks may not.
LEMMA TakesOne ==
  ASSUME Inv, NEW t \in Threads, Acts(t), dq_width' = dq_width, pc[t] \in {"give", "drain_first", "drain_more"},
         pc' = pc, Calm, dc' = dc, dq_items' = dq_items, dq_items # <<>>, ~Barrier(Head(dq_items)),
         ~own[t].ib, own[t].w = 0, Waiter(Head(dq_items)) \/ CanAcquireAsync(dq_state),
         dq_state' = Take(dq_state, 1), Own(t, FALSE, 1)
  PROVE  Mine(t)
PROOF
  <1>1. pc[t] \in Giving \union DrainLocked /\ pc[t] \notin Plain /\ pc[t] \notin Completing /\ pc[t] # "uncount"
    BY DEF Plain, InTry, Waits, Completing, Giving, DrainLocked, DrainPcs
  <1>2. /\ dq_state \in WordRange /\ dq_width \in Nat /\ dq_width >= 1
        /\ Users \in Nat /\ AsyncUsers \in Nat /\ AsyncUsers <= Users /\ AsyncUsers <= dq_width
        /\ dq_state.owner = t /\ ~dq_state.ib /\ ~dq_state.pb /\ dq_state.used = Users
        /\ OwnerAt(t) /\ Types /\ Types'
        /\ Holds(t)' /\ ~HasBarrier(t)' /\ ~DrainRuns(t)'
    <2>1. ~dq_state.ib /\ ~dq_state.pb /\ Users \in Nat /\ own[t].w = 0
      BY <1>1, Drainer
    <2>2. dq_state.used = Users + own[t].w + (IF dq_state.pb THEN dq_width - 1 ELSE 0)
      BY <1>1, <2>1, Drainer
    <2>3. dq_state.used = Users
      BY <2>1, <2>2
    <2>4. Holds(t)' /\ ~HasBarrier(t)' /\ ~DrainRuns(t)'
      BY <1>1, Drainer
    <2>. QED
      BY <1>1, <2>1, <2>3, <2>4, Drainer
  <1>3. own'[t] = [ib |-> FALSE, w |-> 1]
    BY <1>2 DEF Own, Types
  <1>4. dq_state'.used = Users + 1 /\ ~dq_state'.ib /\ ~dq_state'.pb /\ dq_state'.owner = t
    BY <1>2 DEF Take, WordRange
  <1>5. Users' = Users /\ AsyncUsers' <= AsyncUsers /\ AsyncUsers' \in Nat
    BY <1>1, <1>2, NoStarts, FlightSame, FlightAfter
  <1>6. \A b : (Barrier(b)' <=> Barrier(b)) /\ (Waiter(b)' <=> Waiter(b))
    BY DEF Calm, Barrier, Waiter
  <1>7. ~own'[t].ib /\ own'[t].w = 1
    BY <1>3
  <1>8. OwnAt(t)'
    BY <1>2, <1>7 DEF OwnAt
  <1>9. PendingAt(t)' /\ Pending'
    BY <1>4 DEF PendingAt, Pending
  <1>10. OwnerAt(t)'
    <2>1. \A j \in 1..Count(t)' : Live(t)'[j].after # "drain_more"
      BY <1>2 DEF DrainRuns, DrainAfter
    <2>. QED
      BY <1>2, <1>6, <2>1 DEF OwnerAt
  <1>11. RoomAt(t)'
    <2>1. CASE Waiter(Head(dq_items))
      BY <1>6, <1>7, <2>1 DEF RoomAt
    <2>2. CASE CanAcquireAsync(dq_state)
      <3>1. dq_state.used < dq_width
        BY <2>2 DEF CanAcquireAsync, Runnable
      <3>2. \A a, b, c, d \in Nat : a <= b /\ b <= c /\ c < d => a + 1 <= d
        OBVIOUS
      <3>3. AsyncUsers' \in Nat /\ AsyncUsers' <= AsyncUsers /\ AsyncUsers \in Nat /\ AsyncUsers <= Users /\ Users \in Nat
            /\ Users < dq_width /\ dq_width \in Nat
        BY <1>2, <1>5, <3>1
      <3>4. AsyncUsers' + 1 <= dq_width
        BY <3>2, <3>3
      <3>. QED
        BY <1>7, <3>4 DEF RoomAt
    <2>. QED
      BY <2>1, <2>2
  <1>12. AsyncUsers' <= dq_width
    BY <1>2, <1>5
  <1>13. dq_state'.used = Users' + own'[t].w
    BY <1>4, <1>5, <1>7
  <1>. QED
    BY <1>2, <1>4, <1>7, <1>8, <1>9, <1>10, <1>11, <1>12, <1>13, MineDrain

\* A drainer gives a width to the first item.
LEMMA GivesOne ==
  ASSUME Inv, NEW t \in Threads, Acts(t), dq_width' = dq_width, pc[t] \in {"give", "drain_first", "drain_more"},
         pc'[t] \in (Giving \union DrainLocked) \ {"drain_stop", "drain_transfer"},
         dq_items # <<>>, ~Barrier(Head(dq_items)), Readied(Head(dq_items)),
         ~own[t].ib, own[t].w > 0, dq_state' = dq_state, Own(t, FALSE, own[t].w - 1), OwnerAt(t)'
  PROVE  Mine(t)
PROOF
  <1>1. /\ pc[t] \in Giving \union DrainLocked /\ pc[t] # "uncount" /\ pc'[t] \notin Plain /\ pc'[t] \notin Completing
        /\ pc'[t] \in Giving \union DrainLocked
    BY DEF Plain, InTry, Waits, Completing, Giving, DrainLocked, DrainPcs
  <1>2. /\ dq_state \in WordRange /\ dq_width \in Nat /\ dq_width >= 1
        /\ Users \in Nat /\ AsyncUsers \in Nat /\ AsyncUsers <= Users /\ AsyncUsers <= dq_width
        /\ dq_state.owner = t /\ ~dq_state.ib /\ ~dq_state.pb /\ dq_state.used = Users + own[t].w
        /\ own[t].w \in Nat /\ own[t].w <= dq_width /\ RoomAt(t) /\ Types /\ Types'
        /\ Holds(t)' /\ ~HasBarrier(t)' /\ ~DrainRuns(t)'
    <2>1. ~dq_state.ib /\ ~dq_state.pb
      BY <1>1, Drainer
    <2>2. dq_state.used = Users + own[t].w + (IF dq_state.pb THEN dq_width - 1 ELSE 0)
      BY <1>1, <2>1, Drainer
    <2>3. Holds(t)' /\ ~HasBarrier(t)' /\ ~DrainRuns(t)'
      BY <1>1, Drainer
    <2>4. Users \in Nat /\ own[t].w \in Nat
      BY <1>1, Drainer
    <2>5. dq_state.used = Users + own[t].w
      BY <2>1, <2>2, <2>4
    <2>. QED
      BY <1>1, <2>1, <2>3, <2>4, <2>5, Drainer
  <1>3. own'[t] = [ib |-> FALSE, w |-> own[t].w - 1]
    BY <1>2 DEF Own, Types
  <1>4. ~own'[t].ib /\ own'[t].w = own[t].w - 1 /\ own'[t].w \in Nat
    BY <1>2, <1>3
  <1>5. Head(dq_items) \in Blocks /\ Starts(Head(dq_items))
    BY <1>2, ListFacts DEF Starts, Readied
  <1>6. /\ Users' = Users + 1 /\ AsyncUsers' <= AsyncUsers + 1 /\ AsyncUsers' \in Nat
        /\ kind[Head(dq_items)] # "async" => AsyncUsers' <= AsyncUsers
    BY <1>1, <1>2, <1>5, FlightMore, FlightAfter
  <1>7. AsyncUsers' <= dq_width /\ (own'[t].w > 0 => AsyncUsers' + own'[t].w <= dq_width)
    <2>1. CASE AsyncUsers + own[t].w <= dq_width
      BY SMTT(30), <1>2, <1>4, <1>6, <2>1
    <2>2. CASE own[t].w = 1 /\ Waiter(Head(dq_items))
      <3>1. AsyncUsers' <= AsyncUsers
        BY <1>6, <2>2 DEF Waiter
      <3>. QED
        BY <1>2, <1>4, <1>6, <2>2, <3>1
    <2>. QED
      BY <1>2, <2>1, <2>2 DEF RoomAt
  <1>8. OwnAt(t)'
    BY <1>1, <1>2, <1>4 DEF OwnAt
  <1>9. PendingAt(t)' /\ Pending' /\ RoomAt(t)'
    BY <1>2, <1>7 DEF PendingAt, Pending, RoomAt
  <1>10. dq_state'.used = Users' + own'[t].w + 0
    BY <1>2, <1>4, <1>6
  <1>11. dq_state'.owner = t /\ ~dq_state'.ib /\ ~dq_state'.pb
    BY <1>2
  <1>. QED
    BY <1>2, <1>4, <1>7, <1>8, <1>9, <1>10, <1>11, MineDrain

\* A thread that hands out width, until it closes.
LEMMA MineGive ==
  ASSUME Inv, NEW t \in Threads, Acts(t), dq_width' = dq_width,
         GiveReserve(t) \/ Give(t) \/ Reload(t) \/ (Close(t) /\ dc[t] = 0 /\ dq_state.d)
  PROVE  Mine(t)
PROOF
  <1>. USE DEF list, target, locals, calls
  <1>1. pc[t] \in Giving /\ pc[t] \in Giving \union DrainLocked /\ pc[t] # "uncount"
    BY DEF GiveReserve, Give, Reload, Close, At, Giving
  <1>2. Types /\ Types' /\ RoomAt(t) /\ OwnerAt(t) /\ OwnAt(t) /\ ~dq_state.pb /\ AsyncUsers \in Nat /\ dq_width \in Nat
          /\ own[t].w \in Nat /\ ~own[t].ib
    <2>1. ~dq_state.pb
      BY <1>1, Drainer DEF Giving
    <2>. QED
      BY <1>1, <2>1, Drainer DEF OwnAt
  <1>3. pc'[t] \in Giving => Holds(t)' /\ ~HasBarrier(t)' /\ ~DrainRuns(t)'
    BY <1>1, Drainer DEF Plain, InTry, Waits, Completing, Giving
  <1>4. \A b : Calm => (Barrier(b)' <=> Barrier(b)) /\ (Waiter(b)' <=> Waiter(b))
    BY DEF Calm, Barrier, Waiter
  <1>5. ASSUME NEW label \in Giving, Goto(t, label), Calm, SameWord, own' = own, pc[t] # "give" \/ own[t].w = 0,
               label = "give" => dq_items' # <<>> /\ dc'[t] = Head(dq_items') /\ ~Barrier(Head(dq_items))',
               label = "close" /\ dc'[t] # 0 => dq_items' # <<>> /\ dc'[t] = Head(dq_items')
        PROVE  Mine(t)
    <2>1. pc'[t] = label
      BY <1>2, <1>5 DEF Goto, Types
    <2>2. Holds(t)' /\ ~HasBarrier(t)' /\ ~DrainRuns(t)'
      BY <1>3, <1>5, <2>1
    <2>3. OwnAt(t)'
      BY <1>2, <1>5, <2>1, <2>2 DEF OwnAt, Giving
    <2>4. PendingAt(t)' /\ Pending'
      BY <1>2, <1>5 DEF PendingAt, Pending, SameWord
    <2>5. OwnerAt(t)'
      <3>1. label \in {"give", "close", "reload"}
        BY <1>5 DEF Giving
      <3>. QED
        BY <1>5, <2>1, <2>2, <3>1 DEF OwnerAt, DrainRuns, DrainAfter
    <2>6. RoomAt(t)'
      <3>1. AsyncUsers' <= AsyncUsers /\ AsyncUsers' \in Nat
        BY <1>1, <1>2, <1>5, NoStarts, FlightSame, FlightAfter
      <3>2. own[t].w > 0 => AsyncUsers + own[t].w <= dq_width
        BY <1>1, <1>2, <1>5 DEF RoomAt, Giving
      <3>3. own[t].w > 0 => AsyncUsers' + own[t].w <= dq_width
        BY <1>2, <3>1, <3>2
      <3>. QED
        BY <1>5, <3>3 DEF RoomAt
    <2>. QED
      BY <1>1, <1>5, <2>1, <2>3, <2>4, <2>5, <2>6, DrainsOn
  <1>6. CASE GiveReserve(t)
    <2>1. pc[t] = "give" /\ own[t].w = 0 /\ dq_items # <<>> /\ ~Barrier(Head(dq_items)) /\ Calm /\ dq_items' = dq_items
            /\ dc' = dc /\ dc[t] = Head(dq_items)
      BY <1>2, <1>6 DEF GiveReserve, At, OwnerAt, Calm
    <2>2. CASE Waiter(Head(dq_items)) \/ CanAcquireAsync(dq_state)
      <3>1. dq_state' = Take(dq_state, 1) /\ Own(t, FALSE, 1) /\ pc' = pc
        BY <1>6, <2>2 DEF GiveReserve, TakeMore
      <3>. QED
        BY <1>2, <2>1, <2>2, <3>1, TakesOne
    <2>3. CASE ~(Waiter(Head(dq_items)) \/ CanAcquireAsync(dq_state))
      <3>1. Goto(t, "close") /\ SameWord /\ own' = own
        BY <1>6, <2>3 DEF GiveReserve, TakeMore, SameWord
      <3>. QED
        BY <1>5, <2>1, <3>1 DEF Giving
    <2>. QED
      BY <2>2, <2>3
  <1>7. CASE Give(t)
    <2>1. /\ pc[t] = "give" /\ own[t].w > 0 /\ CanPop /\ dq_items # <<>> /\ ~Barrier(Head(dq_items))
          /\ dq_items' = Tail(dq_items) /\ dc'[t] = Next2 /\ dq_state' = dq_state /\ Own(t, FALSE, own[t].w - 1)
      <3>1. /\ pc[t] = "give" /\ own[t].w > 0 /\ CanPop /\ Pop /\ dc' = [dc EXCEPT ![t] = Next2]
            /\ dq_state' = dq_state /\ Own(t, FALSE, own[t].w - 1)
        BY <1>7, Zenon DEF Give, At
      <3>2. dq_items # <<>> /\ ~Barrier(Head(dq_items))
        BY <1>2, <3>1, ListFacts DEF OwnerAt
      <3>3. dq_items' = Tail(dq_items)
        BY <3>1 DEF Pop
      <3>4. dc'[t] = Next2
        BY <1>2, <3>1 DEF Types
      <3>. QED
        BY <3>1, <3>2, <3>3, <3>4
    <2>2. Readied(Head(dq_items))
      BY <1>7, <2>1, HeadFacts DEF Give, Dispatch, Readied, CanPop
    <2>3. PICK label \in {"close", "give"} : /\ Goto(t, label)
                                             /\ label = "give" => Next2 # 0 /\ ~Barrier(Next2)
      BY <1>7 DEF Give
    <2>4. pc'[t] = label
      BY <1>2, <2>3 DEF Goto, Types
    <2>5. Next2 # 0 => dq_items' # <<>> /\ Head(dq_items') = Next2
      BY <1>2, <2>1, ListFacts
    <2>6. OwnerAt(t)'
      <3>1. \A b : Barrier(b)' <=> Barrier(b)
        BY <2>2 DEF Readied, Barrier
      <3>2. ~DrainRuns(t)'
        BY <1>3, <2>4 DEF Giving
      <3>. QED
        BY <2>1, <2>3, <2>4, <2>5, <3>1, <3>2 DEF OwnerAt, DrainRuns, DrainAfter
    <2>. QED
      BY <1>2, <2>1, <2>2, <2>4, <2>6, GivesOne DEF Giving
  <1>8. CASE Reload(t)
    <2>. DEFINE head == IF HeadLinked THEN Head(dq_items) ELSE 0
    <2>1. /\ pc[t] = "reload" /\ dc'[t] = head /\ dq_items' = dq_items /\ Calm /\ SameWord /\ own' = own
      BY <1>2, <1>8 DEF Reload, At, Calm, SameWord, Types
    <2>2. head # 0 => dq_items # <<>> /\ head = Head(dq_items)
      BY DEF HeadLinked
    <2>3. PICK label \in {"close", "give"} : Goto(t, label) /\ (label = "give" => head # 0 /\ ~Barrier(head))
      BY <1>8 DEF Reload
    <2>. HIDE DEF head
    <2>. QED
      BY <1>4, <1>5, <2>1, <2>2, <2>3 DEF Giving
  <1>9. CASE Close(t) /\ dc[t] = 0 /\ dq_state.d
    <2>1. pc[t] = "close" /\ Calm /\ own' = own /\ Goto(t, "reload")
      BY <1>9 DEF Close, At, Calm
    <2>2. SameWord
      <3>1. dq_state \in WordRange
        BY <1>2, Numbers
      <3>. QED
        BY <1>9, <3>1 DEF Close, SameWord, WordRange
    <2>. QED
      BY <1>5, <2>1, <2>2 DEF Giving
  <1>. QED
    BY <1>6, <1>7, <1>8, <1>9

\* The thread gives back what it has left; with the whole width free it takes it all again.
LEMMA MineClose ==
  ASSUME Inv, NEW t \in Threads, Acts(t), dq_width' = dq_width, Close(t), ~(dc[t] = 0 /\ dq_state.d)
  PROVE  Mine(t)
PROOF
  <1>. USE DEF list, target, locals, calls
  <1>1. pc[t] = "close" /\ pc[t] \in Giving /\ pc[t] \in Giving \union DrainLocked /\ pc[t] # "uncount"
    BY DEF Close, At, Giving
  <1>2. /\ Types /\ Types' /\ OwnerAt(t) /\ dq_state \in WordRange /\ dq_width \in Nat /\ dq_width >= 1 /\ NoThread # t
        /\ dq_state.owner = t /\ ~own[t].ib /\ ~dq_state.ib /\ ~dq_state.pb /\ own[t].w \in Nat
        /\ Users \in Nat /\ AsyncUsers \in Nat /\ AsyncUsers <= dq_width /\ dq_state.used = Users + own[t].w
    <2>1. ~own[t].ib
      BY <1>1, Drainer DEF OwnAt
    <2>2. ~dq_state.ib /\ ~dq_state.pb
      BY <1>1, <2>1, Drainer
    <2>3. dq_state.used = Users + own[t].w + (IF dq_state.pb THEN dq_width - 1 ELSE 0)
      BY <1>1, <2>2, Drainer
    <2>4. Users \in Nat /\ own[t].w \in Nat
      BY <1>1, Drainer
    <2>5. dq_state.used = Users + own[t].w
      BY <2>2, <2>3, <2>4
    <2>. QED
      BY <1>1, <2>1, <2>2, <2>4, <2>5, Drainer
  <1>3. /\ dq_state' = Closed(dq_state, own[t], dc[t], t) /\ own'[t] = OwnNone
        /\ CompleteNonBarrier(t, dq_state, dq_state')
        /\ Calm /\ events' = events /\ dq_items' = dq_items
    BY <1>2 DEF Close, Own, OwnNone, Calm, Types
  <1>4. Users' = Users /\ AsyncUsers' <= dq_width
    <2>1. Users' = Users /\ AsyncUsers' <= AsyncUsers /\ AsyncUsers' \in Nat
      BY <1>1, <1>2, <1>3, NoStarts, FlightSame, FlightAfter
    <2>. QED
      BY <1>2, <2>1
  <1>. DEFINE free == Release(dq_state, own[t])
              kept == IF dq_width > 1 /\ Barrier(dc[t]) THEN Reserve(free) ELSE free
              more == [kept EXCEPT !.d = TRUE]
  <1>5. free \in WordRange /\ free.used = Users /\ ~free.ib /\ ~free.pb /\ free.owner = NoThread
    <2>1. dq_state.used - own[t].w = Users
      BY <1>2
    <2>2. free = [dq_state EXCEPT !.used = Users, !.ib = FALSE, !.owner = NoThread]
      BY <1>2, <2>1 DEF Release, WordRange
    <2>. HIDE DEF free
    <2>3. free.used = Users /\ ~free.ib /\ ~free.pb /\ free.owner = NoThread
      BY <1>2, <2>2 DEF WordRange
    <2>4. free \in WordRange
      <3>1. Users \in Int /\ NoThread \in Threads \union {NoThread}
        BY <1>2
      <3>. QED
        BY <1>2, <2>2, <3>1 DEF WordRange
    <2>. QED
      BY <2>3, <2>4
  <1>6. /\ more \in WordRange /\ more.used = Users + (IF more.pb THEN dq_width - 1 ELSE 0)
        /\ ~more.ib /\ more.owner = NoThread /\ (more.pb => Barrier(dc[t]))
    <2>1. CASE dq_width > 1 /\ Barrier(dc[t])
      <3>1. free.used + dq_width - 1 = Users + (dq_width - 1) /\ free.used + dq_width - 1 \in Int
        BY <1>2, <1>5
      <3>2. kept \in WordRange /\ kept.used = Users + (dq_width - 1) /\ kept.pb /\ ~kept.ib /\ kept.owner = NoThread
        BY <1>2, <1>5, <2>1, <3>1 DEF Reserve, WordRange
      <3>. HIDE DEF kept
      <3>. QED
        BY <2>1, <3>2 DEF WordRange
    <2>2. CASE ~(dq_width > 1 /\ Barrier(dc[t]))
      <3>1. kept = free
        BY <2>2
      <3>. HIDE DEF kept, free
      <3>2. more.used = Users /\ ~more.ib /\ ~more.pb /\ more.owner = NoThread
        BY <1>5, <3>1 DEF WordRange
      <3>3. more \in WordRange
        BY <1>5, <3>1 DEF WordRange
      <3>4. Users = Users + 0
        BY <1>2
      <3>. HIDE DEF more
      <3>. QED
        BY <3>2, <3>3, <3>4
    <2>. HIDE DEF more, kept, free
    <2>. QED
      BY <2>1, <2>2
  <1>7. ASSUME Complete(t), dq_state'.owner = NoThread, ~dq_state'.ib,
               dq_state'.used = Users + (IF dq_state'.pb THEN dq_width - 1 ELSE 0), dq_state'.pb => dc[t] # 0 /\ Barrier(dc[t])
        PROVE  Mine(t)
    <2>1. ~Holds(t)'
      BY <1>1, <1>3, <1>7, CompleteRoles
    <2>2. Pending'
      BY <1>1, <1>2, <1>3, <1>7 DEF Pending, OwnerAt, Barrier, Calm
    <2>3. dq_state'.used = Users' + (IF dq_state'.pb THEN dq_width - 1 ELSE 0)
      BY <1>4, <1>7
    <2>. QED
      BY <1>2, <1>3, <1>4, <1>7, <2>1, <2>2, <2>3, MineFree
  <1>. HIDE DEF free, kept, more
  <1>8. CASE dc[t] = 0
    <2>1. dq_state' = [free EXCEPT !.d = FALSE]
      BY <1>3, <1>8 DEF Closed, free
    <2>2. dq_state'.owner = NoThread /\ ~dq_state'.ib /\ ~dq_state'.pb /\ dq_state'.used = Users + 0
      BY <1>2, <1>5, <2>1 DEF WordRange
    <2>3. Complete(t)
      BY <1>3, <2>2 DEF CompleteNonBarrier
    <2>. QED
      BY <1>7, <2>2, <2>3
  <1>9. CASE dc[t] # 0 /\ WholeWidthFree(more)
    <2>1. dq_state' = FullLock(more, t)
      BY <1>3, <1>9 DEF Closed, TryFullLock, more, kept, free
    <2>2. dq_state'.owner = t /\ dq_state'.ib /\ ~dq_state'.pb /\ dq_state'.used = dq_width
      BY <1>2, <1>6, <2>1 DEF FullLock, WordRange
    <2>3. Users' = 0
      BY <1>2, <1>4, <1>6, <1>9 DEF WholeWidthFree
    <2>4. pc'[t] = "complete"
      BY <1>2, <1>3, <2>2 DEF CompleteNonBarrier, Goto, Types
    <2>5. HasBarrier(t)' /\ ~DrainRuns(t)'
      BY <1>1, <2>4, Drainer DEF Plain, InTry, Waits, Completing
    <2>. QED
      BY <1>2, <1>3, <2>2, <2>3, <2>4, <2>5, MineBarrier DEF Giving, DrainLocked, DrainPcs
  <1>10. CASE dc[t] # 0 /\ ~WholeWidthFree(more)
    <2>1. dq_state' = [more EXCEPT !.e = @ \/ dq_state.d]
      BY <1>3, <1>10 DEF Closed, TryFullLock, more, kept, free
    <2>2. dq_state'.owner = NoThread /\ ~dq_state'.ib /\ dq_state'.used = more.used /\ dq_state'.pb = more.pb
      BY <1>6, <2>1 DEF WordRange
    <2>3. Complete(t)
      BY <1>3, <2>2 DEF CompleteNonBarrier
    <2>. QED
      BY <1>6, <1>7, <1>10, <2>2, <2>3
  <1>. QED
    BY <1>8, <1>9, <1>10

\* A worker takes a redirected block, or the lane, from the root queue.
LEMMA MineWorker ==
  ASSUME Inv, NEW t \in Threads, Acts(t), dq_width' = dq_width, Redirected(t) \/ PopLane(t)
  PROVE  Mine(t)
PROOF
  <1>. USE DEF list, target, locals, calls
  <1>1. Types /\ Types' /\ Places(t) /\ pc[t] = "idle"
    BY After DEF Redirected, PopLane, At
  <1>2. CASE Redirected(t)
    <2>1. PICK b \in root : Run(t, b, <<>>, "uncount")
      BY <1>2 DEF Redirected
    <2>2. b \in Blocks /\ status[b] = "ready" /\ <<>> \in Seq(Frames)
      BY <1>1 DEF Types, Inv, Listing, PlaceAt
    <2>3. Ran(b) /\ dq_items' = dq_items /\ SameWord /\ own'[t] = own[t]
      BY <1>2, <2>1, <2>2 DEF Redirected, Run, Ran, SameWord
    <2>4. Users' = Users /\ AsyncUsers' <= AsyncUsers
      BY <1>1, <2>2, <2>3, NoStarts, FlightSame
    <2>5. ~HasBarrier(t) /\ ~RunsBarrier(t) /\ ~DrainRuns(t)
      BY <1>1, Roles DEF Plain, InTry, Waits, Completing
    <2>6. pc'[t] = "body" /\ ~Handed(t)' /\ ~RunsBarrier(t)' /\ ~DrainRuns(t)' /\ OwnerAt(t)'
      BY <2>1, <2>2, <2>5, RunRoles DEF DrainAfter
    <2>7. ~HasBarrier(t)'
      BY <2>6 DEF HasBarrier, Completing
    <2>8. ~Popped
      BY <1>1, ListMoved DEF Poppers
    <2>9. dq_state'.used = dq_state.used + (Users' - Users)
      BY <1>1, <2>3, <2>4, Numbers DEF SameWord
    <2>. QED
      BY <1>1, <2>3, <2>4, <2>5, <2>6, <2>7, <2>8, <2>9, MineSame DEF SameWord, Giving, DrainLocked, DrainPcs
  <1>3. CASE PopLane(t)
    <2>1. pc'[t] = "try_lock" /\ SameWord /\ Calm
      BY <1>1, <1>3 DEF PopLane, Goto, SameWord, Calm, Types
    <2>. QED
      BY <1>1, <1>3, <2>1, MineMoves DEF PopLane, Completing, Giving, DrainLocked, DrainPcs
  <1>. QED
    BY <1>2, <1>3

\* A worker that finds the lane free takes what width there is: all of it if nobody has any, or
\* if all but a pending barrier's is free.
LEMMA MineTryLock ==
  ASSUME Inv, NEW t \in Threads, Acts(t), dq_width' = dq_width, DrainTryLock(t)
  PROVE  Mine(t)
PROOF
  <1>. USE DEF list, target, locals, calls
  <1>1. Types /\ Types' /\ LiveAt(t)' /\ HandedAt(t)' /\ Pending /\ pc[t] = "try_lock" /\ Calm /\ dq_items' = dq_items
    BY After DEF DrainTryLock, At, Calm, Inv, Locking
  <1>2. /\ dq_state \in WordRange /\ dq_width \in Nat /\ dq_width >= 1 /\ dq_state.used \in Int
        /\ Users \in Nat /\ AsyncUsers \in Nat /\ AsyncUsers <= Users /\ dq_state.pb \in BOOLEAN
    BY <1>1, Numbers
  <1>3. Users' = Users /\ AsyncUsers' <= AsyncUsers /\ AsyncUsers' \in Nat
    BY <1>1, NoStarts, FlightSame, FlightAfter
  <1>4. CASE ~(~Locked(dq_state) /\ Runnable(dq_state))
    <2>1. pc'[t] = "idle" /\ SameWord /\ own'[t] = own[t]
      BY <1>1, <1>2, <1>4 DEF DrainTryLock, Goto, SameWord, WordRange, Types
    <2>. QED
      BY <1>1, <2>1, MineMoves DEF DrainTryLock, Completing, Giving, DrainLocked, DrainPcs
  <1>5. CASE ~Locked(dq_state) /\ Runnable(dq_state)
    <2>. DEFINE ib == dq_state.pb \/ dq_state.used = 0
    <2>1. /\ dq_state' = [FullLock(dq_state, t) EXCEPT !.ib = ib]
          /\ own'[t] = [ib |-> ib, w |-> dq_width - dq_state.used] /\ pc'[t] = "drain"
      BY <1>1, <1>5 DEF DrainTryLock, Own, Goto, Types
    <2>2. /\ dq_state'.owner = t /\ ~dq_state'.pb /\ dq_state'.used = dq_width
          /\ dq_state'.ib <=> ib
      BY <1>2, <2>1 DEF FullLock, WordRange
    <2>3. dq_state.used = Users + (IF dq_state.pb THEN dq_width - 1 ELSE 0) /\ dq_state.used < dq_width
      BY <1>5, Word DEF Runnable
    <2>4. ib => Users = 0
      BY <1>2, <2>3
    <2>5. dq_width - dq_state.used \in 0..dq_width
      BY <1>2, <2>3
    <2>6. own'[t].w = dq_width - dq_state.used /\ (own'[t].ib <=> ib)
      <3>1. ib \in BOOLEAN
        OBVIOUS
      <3>. HIDE DEF ib
      <3>2. own'[t].w = dq_width - dq_state.used /\ own'[t].ib = ib
        BY <2>1
      <3>. QED
        BY <3>1, <3>2
    <2>7. Holds(t)' /\ ~HasBarrier(t)' /\ ~DrainRuns(t)'
      BY <1>1, <2>1, RolesAfter DEF Plain, InTry, Waits, Completing, DrainLocked, DrainPcs
    <2>8. OwnAt(t)'
      <3>1. ASSUME ib PROVE own'[t] = OwnAll \/ dq_items # <<>>
        <4>1. CASE dq_state.pb
          BY <1>1, <4>1 DEF Pending
        <4>2. CASE dq_state.used = 0
          <5>1. ib = TRUE /\ dq_width - dq_state.used = dq_width
            BY <1>2, <4>2
          <5>. HIDE DEF ib
          <5>. QED
            BY <2>1, <5>1 DEF OwnAll
        <4>. QED
          BY <3>1, <4>1, <4>2
      <3>. HIDE DEF ib
      <3>. QED
        BY <1>1, <2>1, <2>5, <2>6, <2>7, <3>1 DEF OwnAt, OwnAll, Giving
    <2>9. PendingAt(t)' /\ Pending'
      BY <2>2 DEF PendingAt, Pending
    <2>10. OwnerAt(t)'
      BY <2>1, <2>7 DEF OwnerAt, DrainRuns, DrainAfter
    <2>11. ~ib => AsyncUsers' + own'[t].w <= dq_width
      <3>. SUFFICES ASSUME ~ib PROVE AsyncUsers' + (dq_width - dq_state.used) <= dq_width
        BY <2>6
      <3>1. dq_state.used = Users
        BY <1>2, <2>3
      <3>2. AsyncUsers' \in Nat /\ Users \in Nat /\ dq_width \in Nat /\ AsyncUsers' <= Users
        BY <1>2, <1>3
      <3>3. \A a, u, w \in Nat : a <= u => a + (w - u) <= w
        OBVIOUS
      <3>. QED
        BY <3>1, <3>2, <3>3
    <2>12. RoomAt(t)'
      BY <2>6, <2>11 DEF RoomAt
    <2>13. AsyncUsers' <= dq_width
      BY <1>2, <1>3, <2>3
    <2>14. dq_state'.used = Users' + (IF own'[t].ib THEN dq_width ELSE own'[t].w) + 0
      BY <1>2, <1>3, <2>2, <2>3, <2>4, <2>6
    <2>15. dq_state.owner = NoThread
      BY <1>5 DEF Locked
    <2>. HIDE DEF ib
    <2>. QED
      BY <1>3, <2>2, <2>4, <2>6, <2>7, <2>8, <2>9, <2>10, <2>12, <2>13, <2>14, <2>15, MineDrain
  <1>. QED
    BY <1>4, <1>5

\* What a drainer gives back when it unlocks.
LEMMA DrainerReleases ==
  ASSUME Inv, NEW t \in Threads, Acts(t), dq_width' = dq_width, pc[t] \in Giving \union DrainLocked, pc[t] # "drain"
  PROVE  LET free == Release(dq_state, own[t])
         IN  /\ free \in WordRange /\ free.used = Users + (IF free.pb THEN dq_width - 1 ELSE 0)
             /\ ~free.ib /\ free.pb = dq_state.pb /\ free.owner = NoThread
PROOF
  <1>. DEFINE free == Release(dq_state, own[t])
  <1>1. /\ dq_state \in WordRange /\ dq_width \in Nat /\ Users \in Nat /\ own[t].w \in Nat
        /\ dq_state.ib <=> own[t].ib
        /\ dq_state.ib => dq_state.used = dq_width /\ Users = 0 /\ ~dq_state.pb /\ own[t] = OwnAll
        /\ ~dq_state.ib => dq_state.used = Users + own[t].w + (IF dq_state.pb THEN dq_width - 1 ELSE 0)
    BY Drainer
  <1>2. dq_state.used - own[t].w = Users + (IF dq_state.pb THEN dq_width - 1 ELSE 0)
    <2>1. CASE dq_state.ib
      <3>1. own[t].w = dq_width
        BY <1>1, <2>1 DEF OwnAll
      <3>. QED
        BY <1>1, <2>1, <3>1
    <2>2. CASE ~dq_state.ib
      BY <1>1, <2>2
    <2>. QED
      BY <2>1, <2>2
  <1>3. (dq_state.ib /\ ~own[t].ib) = FALSE
    BY <1>1
  <1>4. free = [dq_state EXCEPT !.used = dq_state.used - own[t].w, !.ib = FALSE, !.owner = NoThread]
    BY <1>3 DEF Release
  <1>. HIDE DEF free
  <1>5. /\ free.used = dq_state.used - own[t].w /\ ~free.ib /\ free.pb = dq_state.pb /\ free.owner = NoThread
    BY <1>1, <1>4 DEF WordRange
  <1>6. free \in WordRange
    <2>1. dq_state.used - own[t].w \in Int
      BY <1>1 DEF WordRange
    <2>. QED
      BY <1>1, <1>4, <2>1 DEF WordRange
  <1>7. free.used = Users + (IF free.pb THEN dq_width - 1 ELSE 0)
    BY <1>2, <1>5
  <1>. QED
    BY <1>5, <1>6, <1>7 DEF free

\* The steps of the drainer that leave the word as it is, but for the dirty bit.
LEMMA MineDrainOn ==
  ASSUME Inv, NEW t \in Threads, Acts(t), dq_width' = dq_width,
         Drain(t) \/ DrainWaiter(t) \/ DrainProbe(t) \/ (DrainUnlock(t) /\ dq_state.d)
  PROVE  Mine(t)
PROOF
  <1>. USE DEF list, target, locals, calls
  <1>1. pc[t] \in DrainLocked /\ pc[t] \in Giving \union DrainLocked /\ pc[t] # "uncount" /\ pc[t] \notin Giving
          /\ pc[t] \in {"drain", "drain_first", "drain_more", "drain_probe", "drain_done", "drain_stop"}
    BY DEF Drain, DrainWaiter, Draining, DrainProbe, DrainUnlock, At, Giving, DrainLocked, DrainPcs
  <1>2. /\ Types /\ Types' /\ OwnAt(t) /\ OwnerAt(t) /\ RoomAt(t) /\ dq_state \in WordRange
        /\ dq_width \in Nat /\ AsyncUsers \in Nat
        /\ own[t].w \in Nat /\ own[t].w <= dq_width /\ own[t].ib \in BOOLEAN /\ own[t] = [ib |-> own[t].ib, w |-> own[t].w]
        /\ own[t].ib => own[t] = OwnAll \/ (pc[t] = "drain" /\ dq_items # <<>>)
        /\ dq_state.pb => /\ pc[t] \in {"drain", "drain_first", "drain_stop"} /\ own[t] = OwnNone
                          /\ dq_items # <<>> /\ Barrier(Head(dq_items))
    BY <1>1, Drainer
  <1>3. pc'[t] \in DrainLocked => Holds(t)' /\ ~HasBarrier(t)' /\ ~DrainRuns(t)'
    BY <1>1, Drainer DEF Plain, InTry, Waits, Completing, Giving, DrainLocked, DrainPcs
  <1>4. Calm
    BY DEF Drain, DrainWaiter, HandOver, DrainProbe, DrainUnlock, Calm
  <1>5. AsyncUsers' <= AsyncUsers /\ AsyncUsers' \in Nat
    BY <1>1, <1>2, <1>4, NoStarts, FlightSame, FlightAfter
  <1>6. ASSUME NEW label \in {"drain", "drain_first", "drain_more", "drain_done", "drain_transfer"}, Goto(t, label), SameWord,
               own'[t].ib <=> own[t].ib, own[t].ib \/ own'[t] = own[t], own'[t] = own[t] \/ own'[t] = OwnAll,
               own[t].ib => own'[t] = OwnAll,
               dq_items' = dq_items \/ (label = "drain_transfer" /\ own[t].ib),
               label = "drain_transfer" \/ pc[t] \notin {"drain_first", "drain_more"},
               label = "drain_transfer" => own[t].ib,
               label \in {"drain_first", "drain_more"} => dq_items # <<>>,
               dq_state.pb => label \in {"drain", "drain_first"}
        PROVE  Mine(t)
    <2>1. pc'[t] = label /\ pc'[t] \in DrainLocked
      BY <1>2, <1>6 DEF Goto, Types, DrainLocked, DrainPcs
    <2>2. Holds(t)' /\ ~HasBarrier(t)' /\ ~DrainRuns(t)'
      BY <1>3, <2>1
    <2>3. own'[t].w \in 0..dq_width
      BY <1>2, <1>6 DEF OwnAll
    <2>4. OwnAt(t)'
      BY <1>2, <1>6, <2>1, <2>2, <2>3 DEF OwnAt, OwnAll, Giving
    <2>5. PendingAt(t)'
      BY <1>2, <1>6, <2>1 DEF PendingAt, SameWord, OwnNone
    <2>6. Pending'
      <3>1. \A b : Barrier(b)' <=> Barrier(b)
        BY <1>4 DEF Calm, Barrier
      <3>2. dq_state.pb => dq_items' = dq_items
        BY <1>2, <1>6 DEF OwnNone
      <3>. QED
        BY <1>2, <1>6, <3>1, <3>2 DEF Pending, SameWord, Barrier, Calm
    <2>7. OwnerAt(t)'
      BY <1>6, <2>1, <2>2 DEF OwnerAt, DrainRuns, DrainAfter
    <2>8. RoomAt(t)'
      <3>. SUFFICES ASSUME own'[t].w > 0, ~own'[t].ib PROVE AsyncUsers' + own'[t].w <= dq_width
        BY DEF RoomAt
      <3>1. own'[t] = own[t] /\ ~own[t].ib /\ label # "drain_transfer"
        BY <1>6
      <3>2. AsyncUsers + own[t].w <= dq_width
        BY <1>1, <1>2, <1>6, <3>1 DEF RoomAt, Giving
      <3>. QED
        BY <1>2, <1>5, <3>1, <3>2
    <2>. QED
      BY <1>1, <1>4, <1>6, <2>1, <2>4, <2>5, <2>6, <2>7, <2>8, DrainsOn
  <1>7. CASE Drain(t)
    <2>1. pc[t] = "drain" /\ SameWord /\ dq_items' = dq_items
      BY <1>7 DEF Drain, At, SameWord
    <2>2. CASE dq_items = <<>>
      <3>1. Goto(t, "drain_done") /\ own' = own
        BY <1>7, <2>2 DEF Drain
      <3>. QED
        BY <1>2, <1>6, <2>1, <2>2, <3>1
    <2>3. CASE dq_items # <<>>
      <3>1. Goto(t, "drain_first") /\ own'[t] = [ib |-> own[t].ib, w |-> IF own[t].ib THEN dq_width ELSE own[t].w]
        BY <1>2, <1>7, <2>3 DEF Drain, Own, Types
      <3>2. own[t].ib => own'[t] = OwnAll
        <4>. SUFFICES ASSUME own[t].ib PROVE own'[t] = OwnAll
          OBVIOUS
        <4>1. own[t].ib = TRUE
          BY <1>2
        <4>. QED
          BY <3>1, <4>1 DEF OwnAll
      <3>3. ~own[t].ib => own'[t] = own[t]
        BY <1>2, <3>1
      <3>4. own'[t].ib <=> own[t].ib
        BY <3>2, <3>3 DEF OwnAll
      <3>. QED
        BY <1>6, <2>1, <2>3, <3>1, <3>2, <3>3, <3>4
    <2>. QED
      BY <2>2, <2>3
  <1>8. CASE DrainWaiter(t)
    <2>1. /\ pc[t] \in {"drain_first", "drain_more"} /\ own[t].ib /\ Goto(t, "drain_transfer") /\ SameWord /\ own' = own
      BY <1>8 DEF DrainWaiter, Draining, HandOver, SameWord
    <2>2. own[t] = OwnAll /\ ~dq_state.pb
      BY <1>2, <2>1 DEF OwnNone
    <2>. QED
      BY <1>6, <2>1, <2>2
  <1>9. CASE DrainProbe(t)
    <2>1. PICK label \in {"drain_done", "drain_more"} : Goto(t, label) /\ (label = "drain_more" => dq_items # <<>>)
      BY <1>9 DEF DrainProbe
    <2>2. pc[t] = "drain_probe" /\ SameWord /\ own' = own /\ dq_items' = dq_items
      BY <1>9 DEF DrainProbe, At, SameWord
    <2>. QED
      BY <1>2, <1>6, <2>1, <2>2
  <1>10. CASE DrainUnlock(t) /\ dq_state.d
    <2>1. pc[t] \in {"drain_done", "drain_stop"} /\ own' = own /\ dq_items' = dq_items /\ Goto(t, "drain")
      BY <1>10 DEF DrainUnlock
    <2>2. SameWord
      BY <1>2, <1>10 DEF DrainUnlock, SameWord, WordRange
    <2>. QED
      BY <1>2, <1>6, <2>1, <2>2
  <1>. QED
    BY <1>7, <1>8, <1>9, <1>10

\* The next item is a barrier: the drainer takes the whole width if nobody else has any, and
\* leaves a pending barrier otherwise.
LEMMA MineUpgrade ==
  ASSUME Inv, NEW t \in Threads, Acts(t), dq_width' = dq_width, DrainUpgrade(t)
  PROVE  Mine(t)
PROOF
  <1>. USE DEF list, target, locals, calls
  <1>1. /\ pc[t] \in {"drain_first", "drain_more"} /\ pc[t] \in Giving \union DrainLocked /\ pc[t] # "uncount"
        /\ dq_items # <<>> /\ Barrier(Head(dq_items)) /\ ~own[t].ib /\ Calm /\ dq_items' = dq_items
    BY DEF DrainUpgrade, Draining, HeadLinked, DrainLocked, DrainPcs, Calm
  <1>2. /\ Types /\ Types' /\ dq_state \in WordRange /\ dq_width \in Nat /\ dq_width >= 1
        /\ Users \in Nat /\ AsyncUsers \in Nat /\ AsyncUsers <= dq_width /\ own[t].w \in Nat
        /\ dq_state.owner = t /\ ~dq_state.ib
        /\ dq_state.used = Users + own[t].w + (IF dq_state.pb THEN dq_width - 1 ELSE 0)
        /\ dq_state.pb => own[t] = OwnNone
    <2>1. ~dq_state.ib
      BY <1>1, Drainer
    <2>2. dq_state.used = Users + own[t].w + (IF dq_state.pb THEN dq_width - 1 ELSE 0)
      BY <1>1, <2>1, Drainer
    <2>. QED
      BY <1>1, <2>1, <2>2, Drainer
  <1>3. Users' = Users /\ AsyncUsers' <= dq_width
    <2>1. Users' = Users /\ AsyncUsers' <= AsyncUsers /\ AsyncUsers' \in Nat
      BY <1>1, <1>2, NoStarts, FlightSame, FlightAfter
    <2>. QED
      BY <1>2, <2>1
  <1>. DEFINE free == Take(dq_state, -own[t].w)
              kept == IF dq_state.pb THEN free ELSE Reserve(free)
  <1>4. /\ free \in WordRange /\ free.used = Users + (IF dq_state.pb THEN dq_width - 1 ELSE 0)
        /\ free.pb = dq_state.pb /\ ~free.ib /\ free.owner = t
    <2>1. dq_state.used + (-own[t].w) = Users + (IF dq_state.pb THEN dq_width - 1 ELSE 0)
      BY <1>2
    <2>2. dq_state.used + (-own[t].w) \in Int
      BY <1>2 DEF WordRange
    <2>. QED
      BY <1>2, <2>1, <2>2 DEF Take, WordRange
  <1>5. kept \in WordRange /\ kept.used = Users + (dq_width - 1) /\ kept.pb /\ ~kept.ib /\ kept.owner = t
    <2>1. CASE dq_state.pb
      <3>1. kept = free /\ free.used = Users + (dq_width - 1)
        BY <1>4, <2>1
      <3>. HIDE DEF free, kept
      <3>. QED
        BY <1>4, <2>1, <3>1
    <2>2. CASE ~dq_state.pb
      <3>1. kept = Reserve(free) /\ free.used = Users
        BY <1>2, <1>4, <2>2
      <3>. HIDE DEF free, kept
      <3>2. free.used + dq_width - 1 = Users + (dq_width - 1) /\ free.used + dq_width - 1 \in Int
        BY <1>2, <3>1
      <3>. QED
        BY <1>2, <1>4, <3>1, <3>2 DEF Reserve, WordRange
    <2>. HIDE DEF free, kept
    <2>. QED
      BY <2>1, <2>2
  <1>6. dq_state' = [IF Runnable(kept) THEN [Take(kept, 1) EXCEPT !.ib = TRUE, !.pb = FALSE] ELSE kept EXCEPT !.d = FALSE]
    BY <1>1 DEF DrainUpgrade, Upgraded
  <1>. HIDE DEF free, kept
  <1>7. Runnable(kept) <=> Users = 0
    BY <1>2, <1>5 DEF Runnable
  <1>8. own'[t] = [ib |-> dq_state'.ib, w |-> IF dq_state'.ib THEN dq_width ELSE 0]
    BY <1>2 DEF DrainUpgrade, Own, Types
  <1>9. \A b : Barrier(b)' <=> Barrier(b)
    BY <1>1 DEF Calm, Barrier
  <1>10. CASE Users = 0
    <2>1. dq_state' = [[Take(kept, 1) EXCEPT !.ib = TRUE, !.pb = FALSE] EXCEPT !.d = FALSE]
      BY <1>6, <1>7, <1>10
    <2>2. kept.used + 1 = dq_width
      BY <1>2, <1>5, <1>10
    <2>3. dq_state'.used = dq_width /\ dq_state'.ib = TRUE /\ ~dq_state'.pb /\ dq_state'.owner = t
      BY <1>5, <2>1, <2>2 DEF Take, WordRange
    <2>4. own'[t] = OwnAll /\ pc' = pc
      BY <1>8, <2>3 DEF OwnAll, DrainUpgrade
    <2>5. own'[t].ib /\ own'[t].w = dq_width
      BY <2>4 DEF OwnAll
    <2>6. Holds(t)' /\ ~HasBarrier(t)' /\ ~DrainRuns(t)'
      BY <1>1, <2>4, Drainer DEF Plain, InTry, Waits, Completing
    <2>7. OwnAt(t)'
      BY <1>1, <1>2, <2>4, <2>5, <2>6 DEF OwnAt, OwnAll, Giving
    <2>8. PendingAt(t)' /\ Pending' /\ RoomAt(t)'
      BY <2>3, <2>5 DEF PendingAt, Pending, RoomAt
    <2>9. OwnerAt(t)'
      BY <1>1, <2>4, <2>6 DEF OwnerAt, DrainRuns, DrainAfter
    <2>10. dq_state'.used = 0 + dq_width + 0
      BY <1>2, <2>3
    <2>. QED
      BY <1>2, <1>3, <1>10, <2>3, <2>5, <2>6, <2>7, <2>8, <2>9, <2>10, MineDrain
  <1>11. CASE Users # 0
    <2>1. dq_state' = [kept EXCEPT !.d = FALSE]
      BY <1>6, <1>7, <1>11
    <2>2. dq_state'.used = Users + (dq_width - 1) /\ dq_state'.ib = FALSE /\ dq_state'.pb /\ dq_state'.owner = t
      BY <1>5, <2>1 DEF WordRange
    <2>3. own'[t] = OwnNone /\ pc'[t] = "drain_stop"
      <3>1. own'[t] = OwnNone
        BY <1>8, <2>2 DEF OwnNone
      <3>2. Goto(t, "drain_stop")
        BY <2>2 DEF DrainUpgrade
      <3>. QED
        BY <1>2, <3>1, <3>2 DEF Goto, Types
    <2>4. ~own'[t].ib /\ own'[t].w = 0
      BY <2>3 DEF OwnNone
    <2>5. Holds(t)' /\ ~HasBarrier(t)' /\ ~DrainRuns(t)'
      BY <1>1, <2>3, Drainer DEF Plain, InTry, Waits, Completing, DrainLocked, DrainPcs
    <2>6. OwnAt(t)'
      BY <1>2, <2>3, <2>4, <2>5 DEF OwnAt
    <2>7. PendingAt(t)' /\ Pending' /\ RoomAt(t)'
      BY <1>1, <1>9, <2>3, <2>4 DEF PendingAt, Pending, RoomAt, OwnNone, Barrier, Calm
    <2>8. OwnerAt(t)'
      BY <1>1, <2>3, <2>5 DEF OwnerAt, DrainRuns, DrainAfter
    <2>9. dq_state'.used = Users' + 0 + (dq_width - 1)
      BY <1>2, <1>3, <2>2
    <2>. QED
      BY <1>2, <1>3, <2>2, <2>4, <2>5, <2>6, <2>7, <2>8, <2>9, MineDrain
  <1>. QED
    BY <1>10, <1>11

\* The drainer runs a barrier, or drops its own before the first item that is none.
LEMMA MineDrainBarrier ==
  ASSUME Inv, NEW t \in Threads, Acts(t), dq_width' = dq_width, DrainBarrier(t) \/ DrainDrop(t)
  PROVE  Mine(t)
PROOF
  <1>. USE DEF list, target, locals, calls
  <1>1. /\ pc[t] \in {"drain_first", "drain_more"} /\ pc[t] \in Giving \union DrainLocked /\ pc[t] # "uncount"
        /\ dq_items # <<>> /\ own[t].ib /\ HeadLinked
    BY DEF DrainBarrier, DrainDrop, Draining, HeadLinked, DrainLocked, DrainPcs
  <1>2. /\ Types /\ Types' /\ dq_state \in WordRange /\ dq_width \in Nat /\ dq_width >= 1
        /\ own[t] = OwnAll /\ dq_state.owner = t /\ dq_state.ib /\ ~dq_state.pb /\ dq_state.used = dq_width /\ Users = 0
    <2>1. dq_state.ib /\ own[t] = OwnAll
      BY <1>1, Drainer
    <2>. QED
      BY <1>1, <2>1, Drainer
  <1>3. CASE DrainBarrier(t)
    <2>1. PICK after \in DrainAfter : Run(t, Head(dq_items), <<>>, after) /\ (after = "drain_more" => Next2 # 0)
      BY <1>3 DEF DrainBarrier, DrainAfter
    <2>2. /\ Head(dq_items) \in Blocks /\ status[Head(dq_items)] = "called" /\ <<>> \in Seq(Frames)
          /\ dq_state' = dq_state /\ own'[t] = own[t] /\ dq_items' = Tail(dq_items)
      BY <1>1, <1>3, HeadFacts DEF DrainBarrier, Pop
    <2>3. Ran(Head(dq_items)) /\ Barrier(Head(dq_items))
      BY <1>3, <2>1, <2>2 DEF DrainBarrier, Run, Ran
    <2>4. Users' = 0 /\ AsyncUsers' <= dq_width
      <3>1. Users' = Users /\ AsyncUsers' \in Nat /\ AsyncUsers' <= Users'
        BY <1>1, <1>2, <2>2, <2>3, NoStarts, FlightSame, FlightAfter
      <3>. QED
        BY <1>2, <3>1
    <2>5. ~RunsBarrier(t) /\ ~DrainRuns(t)
      BY <1>1, NoFrames DEF InTry
    <2>6. after = "drain_more" => dq_items' # <<>>
      BY <1>1, <1>2, <2>1, <2>2, ListFacts
    <2>7. /\ pc'[t] = "body" /\ ~Handed(t)' /\ ~RunsBarrier(t)' /\ DrainRuns(t)' /\ OwnerAt(t)'
      BY <2>1, <2>2, <2>5, <2>6, RunRoles DEF DrainAfter
    <2>8. Holds(t)' /\ ~HasBarrier(t)'
      BY <2>7 DEF Holds, HasBarrier, Completing
    <2>9. own'[t] = OwnAll /\ own'[t].ib /\ own'[t].w = dq_width
      BY <1>2, <2>2 DEF OwnAll
    <2>10. OwnAt(t)'
      BY <1>2, <2>7, <2>8, <2>9 DEF OwnAt, OwnAll, Giving
    <2>11. PendingAt(t)' /\ Pending' /\ RoomAt(t)'
      BY <1>2, <2>2, <2>9 DEF PendingAt, Pending, RoomAt
    <2>12. dq_state'.used = 0 + dq_width + 0 /\ dq_state'.owner = t /\ dq_state'.ib /\ ~dq_state'.pb
      BY <1>2, <2>2
    <2>. QED
      BY <1>2, <2>4, <2>7, <2>8, <2>9, <2>10, <2>11, <2>12, MineDrain
  <1>4. CASE DrainDrop(t)
    <2>1. /\ dq_state' = [dq_state EXCEPT !.ib = FALSE] /\ own'[t] = [ib |-> FALSE, w |-> dq_width]
          /\ pc' = pc /\ dq_items' = dq_items /\ Calm
      BY <1>2, <1>4 DEF DrainDrop, Own, Calm, Types
    <2>2. Users' = 0 /\ AsyncUsers' = 0
      <3>1. Users' = Users /\ AsyncUsers' \in Nat /\ AsyncUsers' <= Users'
        BY <1>1, <1>2, <2>1, NoStarts, FlightSame, FlightAfter
      <3>. QED
        BY <1>2, <3>1
    <2>3. dq_state'.used = 0 + dq_width + 0 /\ dq_state'.owner = t /\ ~dq_state'.ib /\ ~dq_state'.pb
      BY <1>2, <2>1 DEF WordRange
    <2>4. ~own'[t].ib /\ own'[t].w = dq_width
      BY <2>1
    <2>5. Holds(t)' /\ ~HasBarrier(t)' /\ ~DrainRuns(t)'
      BY <1>1, <2>1, Drainer DEF Plain, InTry, Waits, Completing
    <2>6. OwnAt(t)'
      BY <1>1, <1>2, <2>1, <2>4, <2>5 DEF OwnAt
    <2>7. PendingAt(t)' /\ Pending' /\ RoomAt(t)'
      BY <1>2, <2>2, <2>3, <2>4 DEF PendingAt, Pending, RoomAt
    <2>8. OwnerAt(t)'
      BY <1>1, <2>1, <2>5 DEF OwnerAt, DrainRuns, DrainAfter
    <2>. QED
      BY <1>2, <2>2, <2>3, <2>4, <2>5, <2>6, <2>7, <2>8, MineDrain
  <1>. QED
    BY <1>3, <1>4

\* The drainer hands width to items that are no barriers.
LEMMA MineDrainGive ==
  ASSUME Inv, NEW t \in Threads, Acts(t), dq_width' = dq_width, DrainReserve(t) \/ DrainGive(t)
  PROVE  Mine(t)
PROOF
  <1>. USE DEF list, target, locals, calls
  <1>1. /\ pc[t] \in {"drain_first", "drain_more"} /\ pc[t] \in Giving \union DrainLocked /\ pc[t] # "uncount"
        /\ pc[t] \in {"give", "drain_first", "drain_more"}
        /\ dq_items # <<>> /\ ~Barrier(Head(dq_items)) /\ ~own[t].ib /\ HeadLinked
    BY DEF DrainReserve, DrainGive, Draining, HeadLinked, DrainLocked, DrainPcs
  <1>2. /\ Types /\ Types' /\ dq_state \in WordRange /\ ~dq_state.pb /\ own[t] = [ib |-> own[t].ib, w |-> own[t].w]
    <2>1. ~dq_state.pb
      BY <1>1, Drainer
    <2>. QED
      BY <1>1, <2>1, Drainer
  <1>3. CASE DrainReserve(t)
    <2>1. own[t].w = 0 /\ Calm /\ dc' = dc /\ dq_items' = dq_items
      BY <1>3 DEF DrainReserve, Calm
    <2>2. CASE Waiter(Head(dq_items)) \/ CanAcquireAsync(dq_state)
      <3>1. dq_state' = Take(dq_state, 1) /\ Own(t, FALSE, 1) /\ pc' = pc
        BY <1>3, <2>2 DEF DrainReserve, TakeMore
      <3>. QED
        BY <1>1, <2>1, <2>2, <3>1, TakesOne
    <2>3. CASE ~(Waiter(Head(dq_items)) \/ CanAcquireAsync(dq_state))
      <3>1. pc'[t] = "drain_stop" /\ SameWord /\ own' = own
        BY <1>2, <1>3, <2>3 DEF DrainReserve, TakeMore, SameWord, Goto, Types
      <3>2. Holds(t)' /\ ~HasBarrier(t)' /\ ~DrainRuns(t)'
        BY <1>1, <3>1, Drainer DEF Plain, InTry, Waits, Completing, DrainLocked, DrainPcs
      <3>3. own'[t] = OwnNone
        <4>1. own[t].ib \in BOOLEAN
          BY <1>1, Drainer
        <4>2. own[t].ib = FALSE
          BY <1>1, <4>1
        <4>. QED
          BY <1>2, <2>1, <3>1, <4>2 DEF OwnNone
      <3>4. OwnAt(t)'
        <4>1. dq_width' \in Nat
          BY <1>2, Constants DEF Types
        <4>. QED
          BY <3>1, <3>2, <3>3, <4>1 DEF OwnAt, OwnNone, Giving
      <3>5. PendingAt(t)' /\ Pending' /\ RoomAt(t)'
        BY <1>2, <3>1, <3>3 DEF PendingAt, Pending, RoomAt, OwnNone, SameWord
      <3>6. OwnerAt(t)'
        BY <1>1, <2>1, <3>1, <3>2 DEF OwnerAt, DrainRuns, DrainAfter
      <3>. QED
        BY <1>1, <2>1, <3>1, <3>4, <3>5, <3>6, DrainsOn DEF DrainLocked, DrainPcs
    <2>. QED
      BY <2>2, <2>3
  <1>4. CASE DrainGive(t)
    <2>1. /\ own[t].w > 0 /\ CanPop /\ dq_items' = Tail(dq_items) /\ dq_state' = dq_state /\ Own(t, FALSE, own[t].w - 1)
      BY <1>4 DEF DrainGive, Pop
    <2>2. Readied(Head(dq_items))
      BY <1>1, <1>4, HeadFacts DEF DrainGive, Dispatch, Readied
    <2>3. PICK label \in {"drain_probe", "drain_more"} : Goto(t, label) /\ (label = "drain_more" => Next2 # 0)
      BY <1>4 DEF DrainGive
    <2>4. pc'[t] = label /\ pc'[t] \in (Giving \union DrainLocked) \ {"drain_stop", "drain_transfer"}
      BY <1>2, <2>3 DEF Goto, DrainLocked, DrainPcs, Types
    <2>5. ~DrainRuns(t)'
      BY <1>1, <2>3, <2>4, Drainer DEF Plain, InTry, Waits
    <2>6. label = "drain_more" => dq_items' # <<>>
      BY <1>1, <1>2, <2>1, <2>3, ListFacts
    <2>7. OwnerAt(t)'
      BY <2>3, <2>4, <2>5, <2>6 DEF OwnerAt, DrainRuns, DrainAfter
    <2>. QED
      BY <1>1, <2>1, <2>2, <2>4, <2>7, GivesOne
  <1>. QED
    BY <1>3, <1>4

\* The drainer gives the lock back.
LEMMA MineDrainEnd ==
  ASSUME Inv, NEW t \in Threads, Acts(t), dq_width' = dq_width, DrainNarrow(t) \/ (DrainUnlock(t) /\ ~dq_state.d)
  PROVE  Mine(t)
PROOF
  <1>. USE DEF list, target, locals, calls
  <1>1. /\ pc[t] \in {"drain_more", "drain_done", "drain_stop"} /\ pc[t] \in Giving \union DrainLocked /\ pc[t] # "uncount"
    BY DEF DrainNarrow, DrainUnlock, At, DrainLocked, DrainPcs
  <1>2. /\ Types /\ Types' /\ dq_width \in Nat /\ dq_width >= 1 /\ Users \in Nat /\ AsyncUsers \in Nat
        /\ AsyncUsers <= dq_width /\ dq_state.owner = t
        /\ dq_state.pb => /\ pc[t] \in {"drain", "drain_first", "drain_stop"}
                          /\ dq_items # <<>> /\ Barrier(Head(dq_items))
    BY <1>1, Drainer
  <1>3. Calm /\ dq_items' = dq_items /\ pc'[t] = "idle" /\ own'[t] = OwnNone
    BY <1>2 DEF DrainNarrow, DrainUnlock, Calm, Goto, Own, OwnNone, Types
  <1>4. Users' = Users /\ AsyncUsers' <= dq_width
    <2>1. Users' = Users /\ AsyncUsers' <= AsyncUsers /\ AsyncUsers' \in Nat
      BY <1>1, <1>2, <1>3, NoStarts, FlightSame, FlightAfter
    <2>. QED
      BY <1>2, <2>1
  <1>5. ~Holds(t)'
    BY <1>1, <1>3, Drainer DEF Plain, InTry, Waits, Completing, Giving, DrainLocked, DrainPcs
  <1>. DEFINE free == Release(dq_state, own[t])
  <1>6. /\ free \in WordRange /\ free.used = Users + (IF free.pb THEN dq_width - 1 ELSE 0)
        /\ ~free.ib /\ free.pb = dq_state.pb /\ free.owner = NoThread
    BY <1>1, DrainerReleases
  <1>7. ASSUME dq_state'.owner = NoThread, ~dq_state'.ib, dq_state'.used = Users + (IF dq_state'.pb THEN dq_width - 1 ELSE 0),
               dq_state'.pb => dq_items # <<>> /\ Barrier(Head(dq_items))
        PROVE  Mine(t)
    <2>1. Pending'
      BY <1>3, <1>7 DEF Pending, Barrier, Calm
    <2>2. dq_state'.used = Users' + (IF dq_state'.pb THEN dq_width - 1 ELSE 0)
      BY <1>4, <1>7
    <2>. QED
      BY <1>2, <1>3, <1>4, <1>5, <1>7, <2>1, <2>2, MineFree
  <1>. HIDE DEF free
  <1>8. CASE DrainNarrow(t)
    <2>. DEFINE over == [free EXCEPT !.e = FALSE, !.d = TRUE]
                kept == IF dq_width > 1 /\ Barrier(Head(dq_items)) THEN Reserve(over) ELSE over
    <2>1. ~dq_state.pb /\ dq_items # <<>>
      BY <1>2, <1>8 DEF DrainNarrow, At, HeadLinked
    <2>2. over \in WordRange /\ over.used = Users /\ ~over.ib /\ ~over.pb /\ over.owner = NoThread
      <3>1. free.used = Users
        BY <1>2, <1>6, <2>1
      <3>. QED
        BY <1>6, <2>1, <3>1 DEF WordRange
    <2>. HIDE DEF over
    <2>3. /\ kept \in WordRange /\ kept.used = Users + (IF kept.pb THEN dq_width - 1 ELSE 0)
          /\ ~kept.ib /\ kept.owner = NoThread /\ (kept.pb => Barrier(Head(dq_items)))
      <3>1. CASE dq_width > 1 /\ Barrier(Head(dq_items))
        <4>1. kept = Reserve(over)
          BY <3>1
        <4>. HIDE DEF kept
        <4>2. over.used + dq_width - 1 = Users + (dq_width - 1) /\ over.used + dq_width - 1 \in Int
          BY <1>2, <2>2
        <4>. QED
          BY <1>2, <2>2, <3>1, <4>1, <4>2 DEF Reserve, WordRange
      <3>2. CASE ~(dq_width > 1 /\ Barrier(Head(dq_items)))
        <4>1. kept = over
          BY <3>2
        <4>. HIDE DEF kept
        <4>2. Users = Users + 0
          BY <1>2
        <4>. QED
          BY <2>2, <4>1, <4>2
      <3>. HIDE DEF kept
      <3>. QED
        BY <3>1, <3>2
    <2>4. dq_state' = [kept EXCEPT !.e = Runnable(kept)]
      BY <1>8 DEF DrainNarrow, Narrowed, kept, over, free
    <2>. HIDE DEF kept
    <2>5. dq_state'.used = kept.used /\ dq_state'.ib = kept.ib /\ dq_state'.pb = kept.pb /\ dq_state'.owner = kept.owner
      BY <2>3, <2>4 DEF WordRange
    <2>. QED
      BY <1>7, <2>1, <2>3, <2>5
  <1>9. CASE DrainUnlock(t) /\ ~dq_state.d
    <2>1. dq_state' = [free EXCEPT !.e = FALSE, !.d = pc[t] = "drain_stop", !.q = @ /\ pc[t] = "drain_stop"]
      BY <1>9 DEF DrainUnlock, free
    <2>2. dq_state'.used = free.used /\ dq_state'.ib = free.ib /\ dq_state'.pb = free.pb /\ dq_state'.owner = free.owner
      BY <1>6, <2>1 DEF WordRange
    <2>. QED
      BY <1>2, <1>6, <1>7, <2>2
  <1>. QED
    BY <1>8, <1>9

\* Every step.
LEMMA MineAll ==
  ASSUME Inv, NEW t \in Threads, Acts(t), dq_width' = dq_width
  PROVE  Mine(t)
PROOF
  <1>1. Close(t) => (Close(t) /\ dc[t] = 0 /\ dq_state.d) \/ (Close(t) /\ ~(dc[t] = 0 /\ dq_state.d))
    OBVIOUS
  <1>2. DrainUnlock(t) => (DrainUnlock(t) /\ dq_state.d) \/ (DrainUnlock(t) /\ ~dq_state.d)
    OBVIOUS
  <1>. QED
    BY <1>1, <1>2, MineCall, MinePush, MineWait, MineReturn, MineUncount, MineComplete, MineTransfer, MineGive, MineClose,
       MineWorker, MineTryLock, MineDrainOn, MineUpgrade, MineDrainBarrier, MineDrainGive, MineDrainEnd DEF Acts, Step

\* A step keeps the lock and the count of the width.
LEMMA LockingStep ==
  ASSUME Inv, NEW t \in Threads, Acts(t), dq_width' = dq_width
  PROVE  Locking' /\ Counting'
BY MineAll, MineStep

-----------------------------------------------------------------------------
(***************************************************************************)
(* The lane on the root queue.                                             *)
(***************************************************************************)
\* A thread drains by its label, or by the frame of a barrier that it runs.
LEMMA DrainsAt ==
  \A t \in Threads : Types /\ FrameAt(t) /\ LiveAt(t) =>
    /\ Drains(t) <=> pc[t] \in DrainPcs \/ DrainRuns(t)
    /\ pc[t] \notin {"body"} \union InTry => ~DrainRuns(t)
    /\ Drains(t) => t \in Workers
PROOF
  <1>. SUFFICES ASSUME NEW t \in Threads, Types, FrameAt(t), LiveAt(t)
                PROVE  /\ Drains(t) <=> pc[t] \in DrainPcs \/ DrainRuns(t)
                       /\ pc[t] \notin {"body"} \union InTry => ~DrainRuns(t)
                       /\ Drains(t) => t \in Workers
    OBVIOUS
  <1>1. pc[t] \notin {"body"} \union InTry => ~DrainRuns(t)
    BY DEF LiveAt, DrainRuns, Exclusive, DrainAfter
  <1>2. DrainRuns(t) => t \in Workers
    BY DEF LiveAt, DrainRuns
  <1>3. DOMAIN stack[t] = 1..Len(stack[t]) /\ Len(stack[t]) \in Nat /\ Count(t) \in Nat
    BY StackFacts, LiveFacts
  <1>4. ASSUME NEW i \in DOMAIN stack[t], stack[t][i].after \in DrainAfter PROVE DrainRuns(t)
    <2>1. Len(stack[t]) + 1 - i \in 1..Len(stack[t]) /\ Len(stack[t]) + 1 - (Len(stack[t]) + 1 - i) = i
      BY <1>3
    <2>2. CASE stack[t] = <<>> \/ pc[t] = "body"
      <3>1. Len(stack[t]) + 1 - i \in 1..Count(t)
        BY <2>1, <2>2, LiveFacts
      <3>2. Live(t)[Len(stack[t]) + 1 - i] = stack[t][i]
        BY <2>1, <3>1, LiveFacts
      <3>. QED
        BY <1>4, <3>1, <3>2 DEF DrainRuns
    <2>3. CASE stack[t] # <<>> /\ pc[t] # "body"
      <3>1. i # 1
        BY <1>4, <2>3, StackFacts DEF FrameAt
      <3>2. Len(stack[t]) + 1 - i \in 1..Count(t)
        BY <1>3, <2>3, <3>1, LiveFacts
      <3>3. Live(t)[Len(stack[t]) + 1 - i] = stack[t][i]
        BY <2>1, <3>2, LiveFacts
      <3>. QED
        BY <1>4, <3>2, <3>3 DEF DrainRuns
    <2>. QED
      BY <2>2, <2>3
  <1>5. ASSUME NEW j \in 1..Count(t), Live(t)[j].after \in DrainAfter
        PROVE  \E i \in DOMAIN stack[t] : stack[t][i].after \in DrainAfter
    <2>1. Len(stack[t]) + 1 - j \in DOMAIN stack[t]
      BY <1>3, LiveFacts
    <2>2. Live(t)[j] = stack[t][Len(stack[t]) + 1 - j]
      BY LiveFacts
    <2>. QED
      BY <1>5, <2>1, <2>2
  <1>6. Drains(t) <=> pc[t] \in DrainPcs \/ \E i \in DOMAIN stack[t] : stack[t][i].after \in DrainAfter
    BY DEF Drains, DrainAfter
  <1>7. Drains(t) <=> pc[t] \in DrainPcs \/ DrainRuns(t)
    BY <1>4, <1>5, <1>6 DEF DrainRuns
  <1>. QED
    BY <1>1, <1>2, <1>7 DEF FrameAt

\* The same after a step.
LEMMA DrainsAfter ==
  (\A t \in Threads : Types /\ FrameAt(t) /\ LiveAt(t) =>
    /\ Drains(t) <=> pc[t] \in DrainPcs \/ DrainRuns(t)
    /\ pc[t] \notin {"body"} \union InTry => ~DrainRuns(t)
    /\ Drains(t) => t \in Workers)'
BY DrainsAt, PTL

\* The acting thread, before and after its step.
LEMMA DrainsTwice ==
  ASSUME Inv, NEW t \in Threads, Acts(t), dq_width' = dq_width
  PROVE  /\ Drains(t) <=> pc[t] \in DrainPcs \/ DrainRuns(t)
         /\ Drains(t)' <=> pc'[t] \in DrainPcs \/ DrainRuns(t)'
         /\ pc[t] \notin {"body"} \union InTry => ~DrainRuns(t)
         /\ pc'[t] \notin {"body"} \union InTry => ~DrainRuns(t)'
         /\ (Drains(t) => t \in Workers) /\ (Drains(t)' => t \in Workers)
PROOF
  <1>1. Types /\ FrameAt(t) /\ LiveAt(t) /\ Types' /\ FrameAt(t)' /\ LiveAt(t)'
    BY After
  <1>. QED
    BY <1>1, DrainsAt, DrainsAfter

\* What a step does to the count of the lane on the root queue: a wakeup puts it there if the word
\* did not say so, a worker takes it, and gives it up or puts it back.
Counted(t) ==
  \/ (Drains(t)' <=> Drains(t)) /\ (dq_state.e => dq_state'.e) /\ Enqueue(dq_state, dq_state')
  \/ ~Drains(t) /\ Drains(t)' /\ pushes > 0 /\ pushes' = pushes - 1 /\ dq_state'.e = dq_state.e
  \/ Drains(t) /\ ~Drains(t)' /\ pushes' = IF dq_state'.e THEN pushes + 1 ELSE pushes

\* Such a step keeps the count.
LEMMA EnqueuedStep ==
  ASSUME Inv, NEW t \in Threads, Acts(t), dq_width' = dq_width, Counted(t)
  PROVE  EnqueuedOnce'
PROOF
  <1>. DEFINE D == {u \in Workers : Drains(u)}
              E == {u \in Workers : Drains(u)'}
  <1>1. EnqueuedOnce /\ Types /\ Types' /\ Keeps(t)
    BY After DEF Inv
  <1>2. \A u \in Threads \ {t} : Drains(u)' <=> Drains(u)
    BY <1>1 DEF Keeps, Drains
  <1>3. IsFiniteSet(D) /\ Cardinality(D) \in Nat /\ Workers \subseteq Threads
    BY Constants, FS_Subset, FS_CardinalityType
  <1>4. pushes \in Nat /\ pushes' \in Nat /\ dq_state.e \in BOOLEAN /\ dq_state'.e \in BOOLEAN
    BY <1>1 DEF Types
  <1>5. pushes + Cardinality(D) = IF dq_state.e THEN 1 ELSE 0
    BY <1>1 DEF EnqueuedOnce
  <1>6. SUFFICES pushes' + Cardinality(E) = IF dq_state'.e THEN 1 ELSE 0
    BY DEF EnqueuedOnce
  <1>7. (Drains(t) => t \in Workers) /\ (Drains(t)' => t \in Workers)
    BY DrainsTwice
  <1>8. (Drains(t)' <=> Drains(t)) => E = D
    BY <1>2, <1>3
  <1>9. ~Drains(t) /\ Drains(t)' => E = D \union {t} /\ t \notin D
    BY <1>2, <1>3, <1>7
  <1>10. Drains(t) /\ ~Drains(t)' => E = D \ {t} /\ t \in D
    BY <1>2, <1>3, <1>7
  <1>11. ~Drains(t) /\ Drains(t)' => Cardinality(E) = Cardinality(D) + 1
    BY <1>3, <1>9, FS_AddElement
  <1>12. Drains(t) /\ ~Drains(t)' => Cardinality(E) = Cardinality(D) - 1 /\ Cardinality(D) >= 1
    <2>1. SUFFICES ASSUME Drains(t), ~Drains(t)' PROVE Cardinality(E) = Cardinality(D) - 1 /\ Cardinality(D) >= 1
      OBVIOUS
    <2>2. E = D \ {t} /\ t \in D
      BY <1>10, <2>1
    <2>. HIDE DEF D, E
    <2>3. Cardinality(E) = Cardinality(D) - 1 /\ IsFiniteSet(E)
      BY <1>3, <2>2, FS_RemoveElement
    <2>4. Cardinality(E) \in Nat
      BY <2>3, FS_CardinalityType
    <2>. QED
      BY <1>3, <2>3, <2>4
  <1>. HIDE DEF D, E
  <1>13. CASE (Drains(t)' <=> Drains(t)) /\ (dq_state.e => dq_state'.e) /\ Enqueue(dq_state, dq_state')
    BY <1>3, <1>4, <1>5, <1>8, <1>13 DEF Enqueue
  <1>14. CASE ~Drains(t) /\ Drains(t)' /\ pushes > 0 /\ pushes' = pushes - 1 /\ dq_state'.e = dq_state.e
    BY <1>3, <1>4, <1>5, <1>11, <1>14
  <1>15. CASE Drains(t) /\ ~Drains(t)' /\ pushes' = IF dq_state'.e THEN pushes + 1 ELSE pushes
    <2>1. pushes = 0 /\ Cardinality(D) = 1 /\ Cardinality(E) = 0
      BY <1>3, <1>4, <1>5, <1>12, <1>15
    <2>2. pushes' = IF dq_state'.e THEN pushes + 1 ELSE pushes
      BY <1>15
    <2>. QED
      BY <1>4, <2>1, <2>2
  <1>. QED
    BY <1>13, <1>14, <1>15 DEF Counted

\* Threads that do not drain before the step and after it.
LEMMA CountedNot ==
  ASSUME Inv, NEW t \in Threads, Acts(t), dq_width' = dq_width,
         pc[t] \notin {"body"} \union InTry \union DrainPcs, pc'[t] \notin DrainPcs,
         pc'[t] \notin {"body"} \union InTry \/ ~DrainRuns(t)',
         dq_state.e => dq_state'.e, Enqueue(dq_state, dq_state')
  PROVE  Counted(t)
BY DrainsTwice DEF Counted

\* The calls, up to the wait.
LEMMA CountedCall ==
  ASSUME Inv, NEW t \in Threads, Acts(t), dq_width' = dq_width,
         \/ (t \in Blocks /\ Call(t)) \/ NestedCall(t) \/ AsyncProbe(t) \/ AsyncTry(t) \/ SyncProbe(t)
         \/ SyncTry(t) \/ BarrierTry(t) \/ Prepare(t)
  PROVE  Counted(t)
PROOF
  <1>. USE DEF list, target, locals, calls
  <1>1. Types /\ FrameAt(t) /\ LiveAt(t) /\ CallAt(t) /\ Types' /\ FrameAt(t)'
    BY After
  <1>2. pushes' = pushes /\ dq_state'.e = dq_state.e
    <2>1. (t \in Blocks /\ Call(t)) \/ NestedCall(t) => pushes' = pushes /\ dq_state' = dq_state
      BY DEF Call, NestedCall, Submit
    <2>2. AsyncProbe(t) \/ SyncProbe(t) \/ Prepare(t) => pushes' = pushes /\ dq_state' = dq_state
      BY DEF AsyncProbe, SyncProbe, Prepare
    <2>3. AsyncTry(t) \/ SyncTry(t) \/ BarrierTry(t) =>
            pushes' = pushes /\ dq_state' \in {dq_state, Take(dq_state, 1), FullLock(dq_state, t)}
      BY DEF AsyncTry, SyncTry, BarrierTry
    <2>4. Take(dq_state, 1).e = dq_state.e /\ FullLock(dq_state, t).e = dq_state.e
      BY <1>1 DEF Types, Take, FullLock
    <2>. QED
      BY <2>1, <2>2, <2>3, <2>4
  <1>3. (dq_state.e => dq_state'.e) /\ Enqueue(dq_state, dq_state')
    BY <1>2 DEF Enqueue
  <1>4. CASE (t \in Blocks /\ Call(t)) \/ NestedCall(t)
    <2>1. PICK b \in Blocks, k \in Kinds : Submit(t, b, k) /\ pc[t] \in {"idle", "body"}
      BY <1>4, Constants DEF Call, NestedCall, At, Distinct
    <2>2. pc'[t] \in InTry \union {"push", "async_probe"}
      BY <1>1, <2>1, Constants DEF Submit, Goto, Entry, Types, InTry, AllKinds
    <2>3. SameLive(t)
      <3>1. stack'[t] = <<[block |-> b, after |-> "none"]>> \o stack[t] /\ [block |-> b, after |-> "none"] \in Frames
        BY <1>1, <2>1 DEF Submit, Types, Frames
      <3>2. stack[t] = <<>> \/ pc[t] = "body"
        BY <1>1, <2>1 DEF FrameAt
      <3>. QED
        BY <1>1, <2>2, <3>1, <3>2, LiveSubmitted DEF InTry
    <2>4. DrainRuns(t)' <=> DrainRuns(t)
      BY <2>3 DEF DrainRuns, SameLive
    <2>5. pc[t] \notin DrainPcs /\ pc'[t] \notin DrainPcs
      BY <2>1, <2>2 DEF DrainPcs, InTry
    <2>. QED
      BY <1>3, <2>4, <2>5, DrainsTwice DEF Counted
  <1>5. CASE AsyncProbe(t) \/ AsyncTry(t)
    <2>1. pc[t] \notin {"body"} \union InTry \union DrainPcs
      BY <1>5 DEF AsyncProbe, AsyncTry, At, InTry, DrainPcs
    <2>2. pc'[t] \notin DrainPcs /\ (pc'[t] \notin {"body"} \union InTry \/ ~DrainRuns(t)')
      <3>1. CASE pc'[t] \in {"async_try", "push"}
        BY <3>1 DEF InTry, DrainPcs
      <3>2. CASE Leave(t)
        <4>1. then[t] = "return"
          BY <1>1, <1>5 DEF FrameAt, Types, Completing, Giving, AsyncProbe, AsyncTry, At
        <4>2. pc'[t] \in {"idle", "body"} /\ ~DrainRuns(t)'
          BY <2>1, <3>2, <4>1, LeaveRoles
        <4>. QED
          BY <4>2 DEF InTry, DrainPcs
      <3>. QED
        BY <1>1, <1>5, <3>1, <3>2 DEF AsyncProbe, AsyncTry, Goto, Types
    <2>. QED
      BY <1>3, <2>1, <2>2, CountedNot
  <1>6. CASE pc[t] \in InTry /\ pc'[t] \in InTry \union {"push"} /\ stack'[t] = stack[t]
    <2>1. DrainRuns(t)' <=> DrainRuns(t)
      BY <1>6, LiveMoved DEF DrainRuns, SameLive, InTry
    <2>2. pc[t] \notin DrainPcs /\ pc'[t] \notin DrainPcs
      BY <1>6 DEF InTry, DrainPcs
    <2>. QED
      BY <1>3, <2>1, <2>2, DrainsTwice DEF Counted
  <1>7. CASE pc[t] \in InTry /\ \E after \in {"uncount", "complete", "unlock_probe"} : Enter(t, after)
    <2>1. PICK after \in {"uncount", "complete", "unlock_probe"} : Enter(t, after)
      BY <1>7
    <2>2. stack[t] # <<>> /\ Current(t) \in Blocks /\ Tail(stack[t]) \in Seq(Frames)
      BY <1>1, <1>7, HasBlock, StackFacts DEF InTry, DrainPcs
    <2>3. status[Current(t)] = "called"
      BY <1>1, <1>7 DEF CallAt, Submits, Calling, Early, InTry
    <2>4. pc'[t] = "body" /\ (DrainRuns(t)' <=> DrainRuns(t))
      BY <2>1, <2>2, <2>3, RunRoles DEF Enter, DrainAfter
    <2>5. pc[t] \notin DrainPcs /\ pc'[t] \notin DrainPcs
      BY <1>7, <2>4 DEF InTry, DrainPcs
    <2>. QED
      BY <1>3, <2>4, <2>5, DrainsTwice DEF Counted
  <1>8. SyncProbe(t) \/ SyncTry(t) \/ BarrierTry(t) \/ Prepare(t) => pc[t] \in InTry
    BY DEF SyncProbe, SyncTry, BarrierTry, Prepare, At, InTry
  <1>9. SyncProbe(t) \/ Prepare(t) => pc'[t] \in InTry \union {"push"} /\ stack'[t] = stack[t]
    BY <1>1 DEF SyncProbe, Prepare, At, InTry, Goto, Types
  <1>10. SyncTry(t) \/ BarrierTry(t) =>
           \/ pc'[t] \in InTry \union {"push"} /\ stack'[t] = stack[t]
           \/ \E after \in {"uncount", "complete", "unlock_probe"} : Enter(t, after)
    BY <1>1 DEF SyncTry, BarrierTry, At, InTry, Goto, Types
  <1>. QED
    BY <1>4, <1>5, <1>6, <1>7, <1>8, <1>9, <1>10

\* A thread that returns does not drain any more, nor one that comes to its wait.
LEMMA CountedLeft ==
  ASSUME Inv, NEW t \in Threads, Acts(t), dq_width' = dq_width,
         \/ pc[t] \notin {"body"} \union InTry \union DrainPcs \union Completing \union Giving /\ Leave(t)
         \/ /\ pc[t] \in {"uncount"} \union Completing \union Giving /\ Complete(t)
            /\ Calm \/ \E b \in Blocks : Readied(b),
         dq_state.e => dq_state'.e, Enqueue(dq_state, dq_state')
  PROVE  Counted(t)
PROOF
  <1>1. pc[t] \notin {"body"} \union InTry \union DrainPcs
    BY DEF Completing, Giving, InTry, DrainPcs
  <1>2. pc'[t] \in {"idle", "body", "wait"} /\ ~DrainRuns(t)'
    <2>1. CASE pc[t] \notin {"body"} \union InTry \union DrainPcs \union Completing \union Giving /\ Leave(t)
      <3>1. FrameAt(t) /\ Types
        BY After
      <3>2. then[t] = "return"
        BY <2>1, <3>1 DEF FrameAt, Types
      <3>. QED
        BY <2>1, <3>2, LeaveRoles
    <2>2. CASE /\ pc[t] \in {"uncount"} \union Completing \union Giving /\ Complete(t)
               /\ Calm \/ \E b \in Blocks : Readied(b)
      BY <2>2, CompleteRoles
    <2>. QED
      BY <2>1, <2>2
  <1>3. pc'[t] \notin DrainPcs
    BY <1>2 DEF DrainPcs
  <1>. QED
    BY <1>1, <1>2, <1>3, CountedNot

\* The rest of a call.
LEMMA CountedPush ==
  ASSUME Inv, NEW t \in Threads, Acts(t), dq_width' = dq_width,
         \/ PushTail(t) \/ NeedOverride(t) \/ PushLink(t) \/ PushHead(t) \/ WakeupProbe(t) \/ Wakeup(t)
         \/ OverrideLast(t) \/ MergeQos(t) \/ PushWaiter(t) \/ Wait(t)
  PROVE  Counted(t)
PROOF
  <1>. USE DEF list, target, locals, calls
  <1>1. Types /\ FrameAt(t) /\ LiveAt(t) /\ CallAt(t) /\ HandedAt(t) /\ Types' /\ FrameAt(t)'
    BY After
  <1>2. (dq_state.e => dq_state'.e) /\ Enqueue(dq_state, dq_state')
    <2>1. PushTail(t) \/ NeedOverride(t) \/ PushLink(t) \/ PushHead(t) \/ WakeupProbe(t) \/ Wait(t)
            => pushes' = pushes /\ dq_state' = dq_state
      BY DEF PushTail, NeedOverride, PushLink, PushHead, WakeupProbe, Wait
    <2>2. OverrideLast(t) \/ MergeQos(t) => pushes' = pushes /\ dq_state'.e = dq_state.e
      BY <1>1 DEF OverrideLast, MergeQos, Types
    <2>3. PushWaiter(t) => pushes' = pushes /\ dq_state'.e = dq_state.e
      BY <1>1 DEF PushWaiter, FullLock, Types
    <2>4. Wakeup(t) => dq_state'.e /\ Enqueue(dq_state, dq_state')
      BY <1>1 DEF Wakeup, Woken, Types
    <2>. QED
      BY <2>1, <2>2, <2>3, <2>4 DEF Enqueue
  <1>3. pc[t] \in {"push", "wait"} \union Linking \union Waking \union Waits
    BY DEF PushTail, NeedOverride, PushLink, PushHead, WakeupProbe, Wakeup, OverrideLast, MergeQos, PushWaiter,
           Wait, At, Linking, Waking, Waits
  <1>4. pc[t] \notin {"body"} \union InTry \union DrainPcs \union Completing \union Giving
    BY <1>3 DEF Linking, Waking, Waits, InTry, DrainPcs, Completing, Giving
  <1>5. ASSUME Leave(t) PROVE Counted(t)
    BY <1>2, <1>4, <1>5, CountedLeft
  <1>6. ASSUME pc'[t] \notin DrainPcs, pc'[t] \notin {"body"} \union InTry PROVE Counted(t)
    BY <1>2, <1>4, <1>6, CountedNot
  <1>7. ASSUME PushTail(t) \/ NeedOverride(t) \/ PushHead(t) \/ WakeupProbe(t) \/ MergeQos(t) \/ PushWaiter(t)
        PROVE  Counted(t)
    <2>1. pc'[t] \in {"link_first", "link", "need_override", "link_override", "push_waiter", "wakeup_probe",
                      "override_last", "wakeup", "override", "wait", "complete"}
      BY <1>1, <1>7 DEF PushTail, NeedOverride, PushHead, WakeupProbe, MergeQos, PushWaiter, Goto, Types
    <2>. QED
      BY <1>6, <2>1 DEF DrainPcs, InTry
  <1>8. ASSUME PushLink(t) PROVE Counted(t)
    <2>1. Leave(t) \/ pc'[t] \in {"merge_qos", "override_probe"}
      BY <1>1, <1>8 DEF PushLink, Goto, Types
    <2>. QED
      BY <1>5, <1>6, <2>1 DEF DrainPcs, InTry
  <1>9. Wakeup(t) \/ OverrideLast(t) => Leave(t)
    BY DEF Wakeup, OverrideLast
  <1>10. ASSUME Wait(t) PROVE Counted(t)
    <2>1. PICK after \in {"uncount", "complete"} : Enter(t, after)
      BY <1>10 DEF Wait
    <2>2. stack[t] # <<>> /\ Current(t) \in Blocks /\ Tail(stack[t]) \in Seq(Frames)
      BY <1>1, <1>3, <1>4, HasBlock, StackFacts DEF Linking, Waking, Waits
    <2>3. status[Current(t)] = "ready"
      BY <1>10, <2>2 DEF Wait, Inv, Listing, PlaceAt
    <2>4. pc'[t] = "body" /\ (DrainRuns(t)' <=> DrainRuns(t))
      BY <2>1, <2>2, <2>3, RunRoles DEF Enter, DrainAfter
    <2>5. pc'[t] \notin DrainPcs
      BY <2>4 DEF DrainPcs
    <2>. QED
      BY <1>2, <1>4, <2>4, <2>5, DrainsTwice DEF Counted
  <1>. QED
    BY <1>5, <1>7, <1>8, <1>9, <1>10

\* The end of a block: a drainer goes on draining.
LEMMA CountedReturn ==
  ASSUME Inv, NEW t \in Threads, Acts(t), dq_width' = dq_width, Return(t)
  PROVE  Counted(t)
PROOF
  <1>. USE DEF list, target, locals, calls
  <1>1. Types /\ LiveAt(t) /\ Types' /\ LiveAt(t)' /\ HandedAt(t)' /\ Marks(t)
    BY After
  <1>2. pc[t] = "body" /\ Ended(t) /\ pc'[t] = Live(t)[Count(t)].after /\ Count(t) \in 1..Count(t)
    <2>1. pc[t] = "body" /\ Ended(t) /\ pc'[t] = Live(t)[Count(t)].after
      BY <1>1, ThreadEnded DEF Ended
    <2>. QED
      BY <2>1, EndedRuns
  <1>3. pc'[t] \in {"uncount"} \union Exclusive
    BY <1>1, <1>2 DEF LiveAt, Exclusive
  <1>4. \A j \in 1..Count(t) : Live(t)[j].after \in Exclusive => j = Count(t)
    BY <1>1, <1>2 DEF LiveAt, InTry
  <1>5. DrainRuns(t) <=> pc'[t] \in DrainAfter
    BY <1>2, <1>4 DEF DrainRuns, Exclusive, DrainAfter
  <1>6. ~DrainRuns(t)' /\ (pc'[t] \in DrainAfter <=> pc'[t] \in DrainPcs) /\ pc[t] \notin DrainPcs
    BY <1>1, <1>2, <1>3, RolesAfter DEF Plain, Exclusive, InTry, Waits, DrainAfter, DrainPcs
  <1>7. dq_state' = dq_state /\ pushes' = pushes
    BY DEF Return
  <1>. QED
    BY <1>5, <1>6, <1>7, DrainsTwice DEF Counted, Enqueue

\* The operators on the word do not give up the enqueued bit, but where it says so.
LEMMA EnqueuedBit ==
  ASSUME Types, NEW s \in WordRange, NEW t \in Threads
  PROVE  /\ \A n \in Int : Take(s, n).e = s.e
         /\ FullLock(s, t).e = s.e /\ Reserve(s).e = s.e
         /\ \A o \in [ib : BOOLEAN, w : Int] : Release(s, o).e = s.e
         /\ \A dirty \in BOOLEAN : s.e => TryFullLock(s, dirty, t).e
         /\ s.e => Uncounted(s, t).e
PROOF
  <1>1. \A n \in Int : Take(s, n).e = s.e
    BY DEF Take, WordRange
  <1>2. FullLock(s, t).e = s.e
    BY DEF FullLock, WordRange
  <1>3. Reserve(s).e = s.e
    BY DEF Reserve, WordRange
  <1>4. \A o \in [ib : BOOLEAN, w : Int] : Release(s, o).e = s.e
    BY DEF Release, WordRange
  <1>5. \A r \in WordRange : \A dirty \in BOOLEAN : r.e => TryFullLock(r, dirty, t).e
    BY DEF TryFullLock, FullLock, WordRange
  <1>6. s.e => Uncounted(s, t).e
    <2>1. Take(s, -1) \in WordRange /\ Take(s, -1).e = s.e /\ s.d \in BOOLEAN
      BY <1>1, WordTypes DEF WordRange
    <2>. DEFINE new == Take(s, -1)
    <2>2. (s.e => TryFullLock(new, s.d, t).e) /\ [new EXCEPT !.d = TRUE].e = new.e
      BY <1>5, <2>1 DEF WordRange
    <2>. HIDE DEF new
    <2>3. \/ Uncounted(s, t) = [new EXCEPT !.d = TRUE] \/ Uncounted(s, t) = TryFullLock(new, s.d, t)
          \/ Uncounted(s, t) = new
      BY DEF Uncounted, new
    <2>4. new.e = s.e
      BY <2>1 DEF new
    <2>. QED
      BY <2>2, <2>3, <2>4
  <1>. QED
    BY <1>1, <1>2, <1>3, <1>4, <1>5, <1>6

\* The end of a block, the completion of a barrier, and the hand-out of width.
LEMMA CountedComplete ==
  ASSUME Inv, NEW t \in Threads, Acts(t), dq_width' = dq_width,
         \/ NonBarrierComplete(t) \/ UnlockProbe(t) \/ Unlock(t) \/ BarrierComplete(t) \/ BarrierRelease(t)
         \/ BarrierRequeue(t) \/ PopWaiter(t) \/ (TransferLock(t) /\ pc[t] = "transfer")
         \/ Open(t) \/ GiveReserve(t) \/ Give(t) \/ Close(t) \/ Reload(t)
  PROVE  Counted(t)
PROOF
  <1>. USE DEF list, target, locals, calls
  <1>1. Types /\ FrameAt(t) /\ Types' /\ FrameAt(t)' /\ dq_state \in WordRange /\ own[t] \in [ib : BOOLEAN, w : Int]
        /\ dc[t] \in Blocks \union {0} /\ TransferAt(t)
    BY After DEF Types, WordRange, Inv, Listing
  <1>2. pc[t] \in {"uncount"} \union Completing \union Giving
    BY DEF NonBarrierComplete, UnlockProbe, Unlock, BarrierComplete, BarrierRelease, BarrierRequeue, PopWaiter,
           Open, GiveReserve, Give, Close, Reload, At, Completing, Giving
  <1>3. pc[t] \notin {"body"} \union InTry \union DrainPcs
    BY <1>2 DEF Completing, Giving, InTry, DrainPcs
  <1>4. ASSUME pc'[t] \in Completing \union Giving, dq_state'.e = dq_state.e, pushes' = pushes PROVE Counted(t)
    BY <1>3, <1>4, CountedNot DEF Enqueue, Completing, Giving, InTry, DrainPcs
  <1>5. ASSUME Complete(t), Calm \/ \E b \in Blocks : Readied(b), dq_state.e => dq_state'.e, Enqueue(dq_state, dq_state')
        PROVE  Counted(t)
    BY <1>2, <1>5, CountedLeft
  <1>6. ASSUME CompleteNonBarrier(t, dq_state, dq_state'), Calm, dq_state.e => dq_state'.e PROVE Counted(t)
    <2>1. Enqueue(dq_state, dq_state')
      BY <1>6 DEF CompleteNonBarrier
    <2>2. Complete(t) \/ pc'[t] = "complete"
      BY <1>1, <1>6 DEF CompleteNonBarrier, Goto, Types
    <2>3. CASE pc'[t] = "complete"
      BY <1>3, <1>6, <2>1, <2>3, CountedNot DEF InTry, DrainPcs
    <2>. QED
      BY <1>5, <1>6, <2>1, <2>2, <2>3
  <1>7. CASE NonBarrierComplete(t)
    BY <1>1, <1>6, <1>7, EnqueuedBit DEF NonBarrierComplete, Calm
  <1>8. CASE UnlockProbe(t) \/ BarrierComplete(t) \/ PopWaiter(t) \/ Open(t) \/ Reload(t) \/ Give(t) \/ GiveReserve(t)
    <2>1. pc'[t] \in {"complete", "unlock", "release", "open", "pop_waiter", "requeue", "transfer", "give", "close"}
      <3>. DEFINE after == {"complete", "unlock", "release", "open", "pop_waiter", "requeue", "transfer", "give", "close"}
      <3>1. BarrierComplete(t) => \E label \in {"release", "open", "pop_waiter", "requeue"} : Goto(t, label)
        BY DEF BarrierComplete
      <3>2. UnlockProbe(t) \/ PopWaiter(t) \/ Open(t) => \E label \in {"complete", "unlock", "transfer", "give"} : Goto(t, label)
        BY DEF UnlockProbe, PopWaiter, HandOver, Open
      <3>3. Reload(t) \/ Give(t) => \E label \in {"close", "give"} : Goto(t, label)
        BY DEF Reload, Give
      <3>4. GiveReserve(t) => (pc' = pc /\ pc[t] = "give") \/ Goto(t, "close")
        BY DEF GiveReserve, TakeMore, At
      <3>5. \A label : Goto(t, label) => pc'[t] = label
        BY <1>1 DEF Goto, Types
      <3>. QED
        BY <1>8, <3>1, <3>2, <3>3, <3>4, <3>5
    <2>2. dq_state'.e = dq_state.e /\ pushes' = pushes
      <3>1. UnlockProbe(t) \/ BarrierComplete(t) \/ PopWaiter(t) \/ Reload(t) \/ Give(t)
              => dq_state' = dq_state /\ pushes' = pushes
        BY DEF UnlockProbe, BarrierComplete, PopWaiter, HandOver, Reload, Give
      <3>2. Open(t) => dq_state'.e = dq_state.e /\ pushes' = pushes
        BY <1>1 DEF Open, WordRange
      <3>3. GiveReserve(t) => dq_state' \in {dq_state, Take(dq_state, 1)} /\ pushes' = pushes
        BY DEF GiveReserve, TakeMore
      <3>. QED
        BY <1>1, <1>8, <3>1, <3>2, <3>3, EnqueuedBit
    <2>. QED
      BY <1>4, <2>1, <2>2 DEF Completing, Giving
  <1>9. CASE Unlock(t)
    <2>1. CASE dq_state' = dq_state /\ pc'[t] = "complete"
      BY <1>4, <1>9, <2>1 DEF Unlock, Completing
    <2>2. CASE dq_state' = Release(dq_state, [ib |-> TRUE, w |-> 1]) /\ Complete(t)
      <3>1. [ib |-> TRUE, w |-> 1] \in [ib : BOOLEAN, w : Int]
        OBVIOUS
      <3>2. dq_state'.e = dq_state.e
        BY <1>1, <2>2, <3>1, EnqueuedBit
      <3>. QED
        BY <1>5, <1>9, <2>2, <3>2 DEF Unlock, Enqueue, Calm
    <2>. QED
      BY <1>1, <1>9, <2>1, <2>2 DEF Unlock, Goto, Types
  <1>10. CASE BarrierRelease(t) \/ BarrierRequeue(t)
    <2>1. Release(dq_state, Everything) \in WordRange /\ Release(dq_state, Everything).e = dq_state.e
      <3>1. pc[t] \in Completing
        BY <1>10 DEF BarrierRelease, BarrierRequeue, At, Completing
      <3>. QED
        BY <1>1, <3>1, Releasing DEF WordRange
    <2>2. CASE dq_state' = [dq_state EXCEPT !.d = FALSE] /\ pc'[t] = "complete" /\ pushes' = pushes
      BY <1>1, <1>4, <2>2 DEF WordRange, Completing
    <2>3. CASE dq_state' = [Release(dq_state, Everything) EXCEPT !.q = FALSE] /\ Complete(t) /\ pushes' = pushes /\ Calm
      <3>1. dq_state'.e = dq_state.e
        BY <2>1, <2>3 DEF WordRange
      <3>. QED
        BY <1>5, <2>3, <3>1 DEF Enqueue
    <2>4. CASE dq_state' = [Release(dq_state, Everything) EXCEPT !.e = TRUE] /\ Complete(t) /\ Calm
               /\ Enqueue(dq_state, dq_state')
      <3>1. dq_state'.e
        BY <2>1, <2>4 DEF WordRange
      <3>. QED
        BY <1>5, <2>4, <3>1
    <2>. QED
      BY <1>1, <1>10, <2>2, <2>3, <2>4 DEF BarrierRelease, BarrierRequeue, Goto, Types, Calm
  <1>11. CASE TransferLock(t) /\ pc[t] = "transfer"
    <2>1. dc[t] \in Blocks /\ Readied(dc[t])
      BY <1>1, <1>11 DEF TransferAt, Transfers, TransferLock, Readied
    <2>2. dq_state'.e = dq_state.e /\ pushes' = pushes /\ Complete(t)
      BY <1>1, <1>11 DEF TransferLock, Transferred, WordRange
    <2>. QED
      BY <1>5, <2>1, <2>2 DEF Enqueue
  <1>12. CASE Close(t)
    <2>1. CASE dc[t] = 0 /\ dq_state.d
      BY <1>1, <1>4, <1>12, <2>1 DEF Close, Goto, WordRange, Types, Giving
    <2>2. CASE ~(dc[t] = 0 /\ dq_state.d)
      <3>. DEFINE free == Release(dq_state, own[t])
                  kept == IF dq_width > 1 /\ Barrier(dc[t]) THEN Reserve(free) ELSE free
                  dirty == [kept EXCEPT !.d = TRUE]
      <3>1. free \in WordRange /\ free.e = dq_state.e
        BY <1>1, WordTypes, EnqueuedBit
      <3>. HIDE DEF free
      <3>2. kept \in WordRange /\ kept.e = dq_state.e
        BY <1>1, <3>1, WordTypes, EnqueuedBit
      <3>. HIDE DEF kept
      <3>3. dirty \in WordRange /\ dirty.e = dq_state.e /\ dq_state.d \in BOOLEAN
        BY <1>1, <3>2 DEF WordRange
      <3>. HIDE DEF dirty
      <3>4. dq_state' = IF dc[t] = 0 THEN [free EXCEPT !.d = FALSE] ELSE TryFullLock(dirty, dq_state.d, t)
        BY <1>12, <2>2 DEF Close, Closed, free, kept, dirty
      <3>5. [free EXCEPT !.d = FALSE].e = free.e
        BY <3>1 DEF WordRange
      <3>6. dq_state.e => dq_state'.e
        BY <1>1, <3>1, <3>3, <3>4, <3>5, EnqueuedBit
      <3>. QED
        BY <1>6, <1>12, <2>2, <3>6 DEF Close, Calm
    <2>. QED
      BY <2>1, <2>2
  <1>. QED
    BY <1>7, <1>8, <1>9, <1>10, <1>11, <1>12

\* The workers of the root queue.
LEMMA CountedDrain ==
  ASSUME Inv, NEW t \in Threads, Acts(t), dq_width' = dq_width,
         \/ Redirected(t) \/ PopLane(t) \/ DrainTryLock(t) \/ Drain(t) \/ DrainUpgrade(t) \/ DrainWaiter(t)
         \/ DrainBarrier(t) \/ DrainDrop(t) \/ DrainReserve(t) \/ DrainGive(t) \/ DrainProbe(t)
         \/ DrainNarrow(t) \/ DrainUnlock(t) \/ (TransferLock(t) /\ pc[t] = "drain_transfer")
  PROVE  Counted(t)
PROOF
  <1>. USE DEF list, target, locals, calls
  <1>1. /\ Types /\ FrameAt(t) /\ Types' /\ FrameAt(t)' /\ dq_state \in WordRange /\ own[t] \in [ib : BOOLEAN, w : Int]
        /\ TransferAt(t) /\ Places(t) /\ OwnerAt(t)
    BY After DEF Types, WordRange, Inv, Listing
  <1>2. \A label : Goto(t, label) => pc'[t] = label
    BY <1>1 DEF Goto, Types
  <1>3. ASSUME pc[t] \in DrainPcs, pc'[t] \in DrainPcs, dq_state'.e = dq_state.e, pushes' = pushes PROVE Counted(t)
    BY <1>3, DrainsTwice DEF Counted, Enqueue
  <1>4. ASSUME pc[t] \in DrainPcs, pc'[t] \notin DrainPcs, ~DrainRuns(t)', pushes' = IF dq_state'.e THEN pushes + 1 ELSE pushes
        PROVE  Counted(t)
    BY <1>4, DrainsTwice DEF Counted
  <1>5. CASE Redirected(t)
    <2>1. PICK b \in root : Run(t, b, <<>>, "uncount") /\ pc[t] = "idle"
      BY <1>5 DEF Redirected, At
    <2>2. b \in Blocks /\ status[b] = "ready" /\ <<>> \in Seq(Frames)
      BY <1>1, <2>1 DEF Types, Inv, Listing, PlaceAt
    <2>3. pc'[t] = "body" /\ (DrainRuns(t)' <=> DrainRuns(t))
      BY <2>1, <2>2, RunRoles DEF DrainAfter
    <2>4. pc[t] \notin DrainPcs /\ pc'[t] \notin DrainPcs
      BY <2>1, <2>3 DEF DrainPcs
    <2>5. dq_state' = dq_state /\ pushes' = pushes
      BY <1>5 DEF Redirected
    <2>. QED
      BY <2>3, <2>4, <2>5, DrainsTwice DEF Counted, Enqueue
  <1>6. CASE PopLane(t)
    <2>1. pc[t] = "idle" /\ pc'[t] = "try_lock" /\ pushes > 0 /\ pushes' = pushes - 1 /\ dq_state' = dq_state
      BY <1>2, <1>6 DEF PopLane, At
    <2>. QED
      BY <2>1, DrainsTwice DEF Counted, DrainPcs, InTry
  <1>7. CASE DrainTryLock(t)
    <2>1. CASE ~Locked(dq_state) /\ Runnable(dq_state)
      <3>1. pc[t] = "try_lock" /\ pc'[t] = "drain" /\ pushes' = pushes
        BY <1>2, <1>7, <2>1 DEF DrainTryLock, At
      <3>2. FullLock(dq_state, t) \in WordRange /\ FullLock(dq_state, t).e = dq_state.e
        BY <1>1, WordTypes, EnqueuedBit
      <3>3. \A ib : [FullLock(dq_state, t) EXCEPT !.ib = ib].e = FullLock(dq_state, t).e
        BY <3>2 DEF WordRange
      <3>4. dq_state'.e = dq_state.e
        BY <1>7, <2>1, <3>2, <3>3 DEF DrainTryLock
      <3>. QED
        BY <1>3, <3>1, <3>4 DEF DrainPcs
    <2>2. CASE ~(~Locked(dq_state) /\ Runnable(dq_state))
      <3>1. pc[t] = "try_lock" /\ pc'[t] = "idle" /\ pushes' = pushes /\ ~dq_state'.e
        BY <1>1, <1>2, <1>7, <2>2 DEF DrainTryLock, At, WordRange
      <3>. QED
        BY <1>4, <3>1, DrainsTwice DEF DrainPcs, InTry
    <2>. QED
      BY <2>1, <2>2
  <1>8. CASE Drain(t) \/ DrainWaiter(t) \/ DrainGive(t) \/ DrainProbe(t)
    <2>1. dq_state' = dq_state /\ pushes' = pushes
      BY <1>8 DEF Drain, DrainWaiter, HandOver, DrainGive, DrainProbe
    <2>2. pc[t] \in DrainPcs
      BY <1>8 DEF Drain, DrainWaiter, Draining, DrainGive, DrainProbe, At, DrainPcs
    <2>3. \E label \in {"drain_done", "drain_first", "drain_transfer", "drain_probe", "drain_more"} : Goto(t, label)
      BY <1>8 DEF Drain, DrainWaiter, HandOver, DrainGive, DrainProbe
    <2>4. pc'[t] \in DrainPcs
      BY <1>2, <2>3 DEF DrainPcs
    <2>. QED
      BY <1>3, <2>1, <2>2, <2>4
  <1>9. CASE DrainUpgrade(t) \/ DrainDrop(t) \/ DrainReserve(t)
    <2>1. pc[t] \in DrainPcs /\ pushes' = pushes
      BY <1>9 DEF DrainUpgrade, DrainDrop, DrainReserve, Draining, DrainPcs
    <2>2. pc'[t] \in DrainPcs
      BY <1>2, <1>9, <2>1 DEF DrainUpgrade, DrainDrop, DrainReserve, TakeMore, DrainPcs
    <2>3. dq_state'.e = dq_state.e
      <3>1. DrainDrop(t) => dq_state'.e = dq_state.e
        BY <1>1 DEF DrainDrop, WordRange
      <3>2. DrainReserve(t) => dq_state' \in {dq_state, Take(dq_state, 1)}
        BY DEF DrainReserve, TakeMore
      <3>3. Upgraded(dq_state, own[t].w).e = dq_state.e
        <4>. DEFINE free == Take(dq_state, -own[t].w)
                    kept == IF dq_state.pb THEN free ELSE Reserve(free)
        <4>1. free \in WordRange /\ free.e = dq_state.e
          <5>1. -own[t].w \in Int
            BY <1>1
          <5>. QED
            BY <1>1, <5>1, WordTypes, EnqueuedBit
        <4>. HIDE DEF free
        <4>2. kept \in WordRange /\ kept.e = dq_state.e
          BY <1>1, <4>1, WordTypes, EnqueuedBit
        <4>. HIDE DEF kept
        <4>3. Take(kept, 1) \in WordRange /\ Take(kept, 1).e = dq_state.e
          BY <1>1, <4>2, WordTypes, EnqueuedBit
        <4>4. [Take(kept, 1) EXCEPT !.ib = TRUE, !.pb = FALSE] \in WordRange
              /\ [Take(kept, 1) EXCEPT !.ib = TRUE, !.pb = FALSE].e = dq_state.e
          BY <4>3 DEF WordRange
        <4>5. \A s \in WordRange : [s EXCEPT !.d = FALSE].e = s.e
          BY DEF WordRange
        <4>6. Upgraded(dq_state, own[t].w) =
                [IF Runnable(kept) THEN [Take(kept, 1) EXCEPT !.ib = TRUE, !.pb = FALSE] ELSE kept EXCEPT !.d = FALSE]
          BY DEF Upgraded, free, kept
        <4>. QED
          BY <4>2, <4>4, <4>5, <4>6
      <3>4. DrainUpgrade(t) => dq_state' = Upgraded(dq_state, own[t].w)
        BY DEF DrainUpgrade
      <3>. QED
        BY <1>1, <1>9, <3>1, <3>2, <3>3, <3>4, EnqueuedBit
    <2>. QED
      BY <1>3, <2>1, <2>2, <2>3
  <1>10. CASE DrainBarrier(t)
    <2>1. PICK after \in DrainAfter : Run(t, Head(dq_items), <<>>, after)
      BY <1>10 DEF DrainBarrier, DrainAfter
    <2>2. pc[t] \in DrainPcs /\ HeadLinked /\ dq_state' = dq_state /\ pushes' = pushes
      BY <1>10 DEF DrainBarrier, Draining, DrainPcs
    <2>3. Head(dq_items) \in Blocks /\ status[Head(dq_items)] = "called" /\ <<>> \in Seq(Frames)
      BY <2>2, HeadFacts DEF Inv, Types
    <2>4. DrainRuns(t)'
      BY <2>1, <2>3, RunRoles DEF DrainAfter
    <2>. QED
      BY <2>2, <2>4, DrainsTwice DEF Counted, Enqueue
  <1>11. CASE DrainNarrow(t)
    <2>1. pc[t] = "drain_more" /\ pc'[t] = "idle" /\ pushes' = IF dq_state'.e THEN pushes + 1 ELSE pushes
      BY <1>2, <1>11 DEF DrainNarrow, At
    <2>. QED
      BY <1>4, <2>1, DrainsTwice DEF DrainPcs, InTry
  <1>12. CASE DrainUnlock(t)
    <2>1. CASE dq_state.d
      <3>1. dq_state'.e = dq_state.e /\ pushes' = pushes /\ pc[t] \in DrainPcs /\ pc'[t] \in DrainPcs
        BY <1>1, <1>2, <1>12, <2>1 DEF DrainUnlock, WordRange, DrainPcs
      <3>. QED
        BY <1>3, <3>1
    <2>2. CASE ~dq_state.d
      <3>1. pc[t] \in DrainPcs /\ pc'[t] = "idle" /\ pushes' = pushes
        BY <1>2, <1>12, <2>2 DEF DrainUnlock, DrainPcs
      <3>2. Release(dq_state, own[t]) \in WordRange
        BY <1>1, WordTypes
      <3>3. ~dq_state'.e
        BY <1>12, <2>2, <3>2 DEF DrainUnlock, WordRange
      <3>. QED
        BY <1>4, <3>1, <3>3, DrainsTwice DEF DrainPcs, InTry
    <2>. QED
      BY <2>1, <2>2
  <1>13. CASE TransferLock(t) /\ pc[t] = "drain_transfer"
    <2>1. dc[t] \in Blocks /\ Readied(dc[t])
      BY <1>1, <1>13 DEF TransferAt, Transfers, TransferLock, Readied
    <2>2. ~dq_state'.e /\ pushes' = pushes /\ Complete(t)
      BY <1>1, <1>13 DEF TransferLock, Transferred, WordRange
    <2>3. pc'[t] \in {"idle", "body", "wait"} /\ ~DrainRuns(t)'
      BY <1>13, <2>1, <2>2, CompleteRoles
    <2>. QED
      BY <1>4, <1>13, <2>2, <2>3 DEF DrainPcs
  <1>. QED
    BY <1>5, <1>6, <1>7, <1>8, <1>9, <1>10, <1>11, <1>12, <1>13

\* Every step.
LEMMA CountedAll ==
  ASSUME Inv, NEW t \in Threads, Acts(t), dq_width' = dq_width
  PROVE  Counted(t) /\ EnqueuedOnce'
PROOF
  <1>1. TransferLock(t) => (TransferLock(t) /\ pc[t] = "transfer") \/ (TransferLock(t) /\ pc[t] = "drain_transfer")
    BY DEF TransferLock
  <1>2. Counted(t)
    BY <1>1, CountedCall, CountedPush, CountedReturn, CountedComplete, CountedDrain DEF Acts, Step
  <1>. QED
    BY <1>2, EnqueuedStep

\* A thread that is caught stays where it is, and nothing steps any more.
LEMMA CrashingStep ==
  ASSUME Inv, NEW t \in Threads, Acts(t)
  PROVE  Crashing'
PROOF
  <1>. USE DEF list, target, locals, calls
  <1>1. Running
    BY DEF Acts, Call, NestedCall, Step, AsyncProbe, AsyncTry, SyncProbe, SyncTry, BarrierTry, Prepare, PushTail,
           NeedOverride, PushLink, PushHead, WakeupProbe, Wakeup, OverrideLast, MergeQos, PushWaiter, Wait, Return,
           NonBarrierComplete, UnlockProbe, Unlock, BarrierComplete, BarrierRelease, BarrierRequeue, PopWaiter,
           TransferLock, Open, GiveReserve, Give, Close, Reload, Redirected, PopLane, DrainTryLock, Drain,
           DrainUpgrade, DrainWaiter, DrainBarrier, DrainDrop, DrainReserve, DrainGive, DrainProbe, DrainNarrow,
           DrainUnlock, Draining, At
  <1>2. Prepare(t) => crash' = crash \/ (pc[t] = "prepare" /\ pc' = pc /\ dq_state.owner = t /\ dq_state' = dq_state)
    BY DEF Prepare, At
  <1>3. Prepare(t) \/ crash' = crash
    BY DEF Acts, Call, NestedCall, Submit, Step, AsyncProbe, AsyncTry, SyncProbe, SyncTry, BarrierTry, PushTail,
           NeedOverride, PushLink, PushHead, WakeupProbe, Wakeup, OverrideLast, MergeQos, PushWaiter, Wait, Return,
           NonBarrierComplete, UnlockProbe, Unlock, BarrierComplete, BarrierRelease, BarrierRequeue, PopWaiter,
           HandOver, TransferLock, Open, GiveReserve, Give, Close, Reload, Redirected, PopLane, DrainTryLock, Drain,
           DrainUpgrade, DrainWaiter, DrainBarrier, DrainDrop, DrainReserve, DrainGive, DrainProbe, DrainNarrow,
           DrainUnlock
  <1>. QED
    BY <1>1, <1>2, <1>3 DEF Crashing, Running

\* A step keeps the invariant.
LEMMA InvStep ==
  ASSUME Inv, Next
  PROVE  Inv'
PROOF
  <1>1. PICK t \in Threads : Acts(t) /\ dq_width' = dq_width
    BY Actor
  <1>. QED
    BY <1>1, TypesStep, ThreadingStep, ListingStep, LockingStep, CountedAll, CrashingStep DEF Inv

\* At the start nothing is submitted.
LEMMA InvInit ==
  ASSUME Init
  PROVE  Inv
PROOF
  <1>1. Widths \subseteq Nat \ {0} /\ IsFiniteSet(Workers) /\ NoThread \notin Threads /\ dq_width \in Nat /\ dq_width >= 1
    BY Constants DEF Init
  <1>2. Types
    <2>1. dq_state \in WordRange
      BY DEF Init, Idle, WordRange
    <2>2. /\ dq_items \in Seq(Blocks) /\ pc \in [Threads -> Labels] /\ stack \in [Threads -> Seq(Frames)]
          /\ own \in [Threads -> [ib : BOOLEAN, w : Int]]
      BY DEF Init, Labels
    <2>3. /\ dq_width \in Widths /\ linked \subseteq Blocks /\ root \subseteq Blocks /\ pushes \in Nat
          /\ kind \in [Blocks -> Kinds \union {"none"}] /\ caller \in [Blocks -> Threads \union {NoThread}]
          /\ events \subseteq Blocks /\ dc \in [Threads -> Blocks \union {0}] /\ then \in [Threads -> {"return", "wait"}]
          /\ crash \in BOOLEAN
          /\ status \in [Blocks -> {"new", "called", "ready", "running", "done"}]
          /\ returned \subseteq Blocks /\ prior \in [Blocks -> SUBSET Blocks]
      BY DEF Init
    <2>. QED
      BY <2>1, <2>2, <2>3 DEF Types, WordRange
  <1>3. \A t \in Threads : /\ pc[t] = "idle" /\ stack[t] = <<>> /\ own[t] = [ib |-> FALSE, w |-> 0] /\ then[t] = "return"
                           /\ Count(t) = 0
    BY DEF Init, Count
  <1>4. \A b \in Blocks : status[b] = "new" /\ kind[b] = "none"
    BY DEF Init
  <1>5. Threading
    <2>1. \A t \in Threads : FrameAt(t) /\ LiveAt(t) /\ CallAt(t) /\ FinishedAt(t)
      BY <1>3 DEF FrameAt, LiveAt, CallAt, FinishedAt, Submits, Calling, Early, Linking, Waking, Waits, DrainPcs,
                  Completing, Giving
    <2>2. LiveOnce /\ LiveSome /\ UncountOnce
      BY <1>3, <1>4 DEF LiveOnce, LiveSome, UncountOnce
    <2>3. \A b \in Blocks : KindAt(b) /\ WaiterAt(b)
      BY <1>4 DEF KindAt, WaiterAt, Waiter
    <2>. QED
      BY <2>1, <2>2, <2>3 DEF Threading, ThreadAt
  <1>6. dq_items = <<>> /\ linked = {} /\ root = {} /\ events = {} /\ dq_state = Idle /\ pushes = 0 /\ ~crash
    BY DEF Init
  <1>7. Listing
    <2>1. \A b \in Blocks : ~OnList(b)
      BY <1>6 DEF OnList
    <2>2. ListOnce
      BY <1>6 DEF ListOnce
    <2>3. \A t \in Threads : ListAt(t) /\ TransferAt(t)
      BY <1>3 DEF ListAt, TransferAt, Early, Linking, Transfers
    <2>. QED
      BY <1>4, <1>6, <2>1, <2>2, <2>3 DEF Listing, PlaceAt
  <1>8. \A t \in Threads : ~Handed(t) /\ ~RunsBarrier(t) /\ ~DrainRuns(t) /\ ~HasBarrier(t) /\ ~Holds(t)
    BY <1>3 DEF Handed, RunsBarrier, DrainRuns, HasBarrier, Holds, Completing, Giving, DrainLocked, DrainPcs
  <1>9. Locking
    <2>1. Alone /\ Pending
      BY <1>6 DEF Alone, Pending, Idle
    <2>2. \A t \in Threads : LockAt(t) /\ HandedAt(t) /\ IbAt(t) /\ PendingAt(t)
      BY <1>1, <1>6, <1>8 DEF LockAt, HandedAt, IbAt, PendingAt, Idle
    <2>3. \A t \in Threads : OwnAt(t) /\ OwnerAt(t)
      BY <1>1, <1>3, <1>8 DEF OwnAt, OwnerAt, OwnNone, Giving
    <2>. QED
      BY <2>1, <2>2, <2>3 DEF Locking
  <1>10. Counting
    <2>1. InFlight = {} /\ Asyncs = {}
      BY <1>4 DEF InFlight, Submitted, Asyncs
    <2>2. Users = 0 /\ AsyncUsers = 0
      BY <2>1, FS_EmptySet DEF Users, AsyncUsers
    <2>3. Balanced
      BY <1>6, <2>2 DEF Balanced, Held, Locked, Idle
    <2>4. \A t \in Threads : RoomAt(t)
      BY <1>3 DEF RoomAt
    <2>. QED
      BY <1>1, <2>2, <2>3, <2>4 DEF Counting
  <1>11. EnqueuedOnce
    <2>1. \A t \in Workers : ~Drains(t)
      BY <1>3, Constants DEF Drains, DrainPcs
    <2>2. {t \in Workers : Drains(t)} = {}
      BY <2>1
    <2>. QED
      BY <1>6, <2>2, FS_EmptySet DEF EnqueuedOnce, Idle
  <1>. QED
    BY <1>2, <1>5, <1>6, <1>7, <1>9, <1>10, <1>11 DEF Inv, Crashing

\* A step that changes no variable keeps everything.
LEMMA InvStays ==
  ASSUME Inv, UNCHANGED vars
  PROVE  Inv'
PROOF
  <1>. USE DEF vars, list, target, locals, calls
  <1>1. \A t \in Threads : /\ Count(t)' = Count(t) /\ Live(t)' = Live(t) /\ Current(t)' = Current(t)
                           /\ pc'[t] = pc[t] /\ stack'[t] = stack[t] /\ then'[t] = then[t] /\ own'[t] = own[t] /\ dc'[t] = dc[t]
    BY DEF Count, Live, Current
  <1>2. \A b : (Waiter(b)' <=> Waiter(b)) /\ (Barrier(b)' <=> Barrier(b)) /\ (OnList(b)' <=> OnList(b))
    BY DEF Waiter, Barrier, OnList
  <1>3. Types'
    BY DEF Inv, Types
  <1>4. Threading'
    <2>1. LiveOnce' /\ LiveSome' /\ UncountOnce'
      BY <1>1 DEF Inv, Threading, LiveOnce, LiveSome, UncountOnce
    <2>2. ASSUME NEW t \in Threads PROVE ThreadAt(t)'
      <3>1. ThreadAt(t) /\ Current(t)' = Current(t) /\ Count(t)' = Count(t) /\ Live(t)' = Live(t)
        BY <1>1 DEF Inv, Threading
      <3>2. FrameAt(t)'
        BY <3>1 DEF ThreadAt, FrameAt
      <3>3. LiveAt(t)'
        BY <1>2, <3>1 DEF ThreadAt, LiveAt
      <3>4. CallAt(t)' /\ FinishedAt(t)'
        BY <1>2, <3>1 DEF ThreadAt, CallAt, FinishedAt, Submits
      <3>. QED
        BY <3>2, <3>3, <3>4 DEF ThreadAt
    <2>3. ASSUME NEW b \in Blocks PROVE KindAt(b)' /\ WaiterAt(b)'
      <3>1. KindAt(b) /\ WaiterAt(b)
        BY DEF Inv, Threading
      <3>2. KindAt(b)'
        BY <3>1 DEF KindAt
      <3>3. WaiterAt(b)'
        BY <1>1, <1>2, <3>1 DEF WaiterAt, Submits
      <3>. QED
        BY <3>2, <3>3
    <2>. QED
      BY <2>1, <2>2, <2>3 DEF Threading
  <1>5. Listing'
    BY <1>1, <1>2 DEF Inv, Listing, ListOnce, ListAt, TransferAt, PlaceAt
  <1>6. \A t \in Threads : /\ (Handed(t)' <=> Handed(t)) /\ (RunsBarrier(t)' <=> RunsBarrier(t)) /\ (DrainRuns(t)' <=> DrainRuns(t))
                           /\ (Drains(t)' <=> Drains(t))
    BY <1>1, <1>2 DEF Handed, RunsBarrier, DrainRuns, Drains
  <1>7. \A t \in Threads : (HasBarrier(t)' <=> HasBarrier(t)) /\ (Holds(t)' <=> Holds(t))
    BY <1>1, <1>6 DEF HasBarrier, Holds
  <1>8. InFlight' = InFlight /\ Asyncs' = Asyncs
    <2>1. InFlight' = InFlight
      BY <1>2 DEF InFlight, Submitted, Current
    <2>. QED
      BY <2>1 DEF Asyncs
  <1>9. Users' = Users /\ AsyncUsers' = AsyncUsers
    BY <1>8 DEF Users, AsyncUsers
  <1>10. Locking'
    <2>1. Alone' /\ Pending'
      BY <1>2, <1>8 DEF Inv, Locking, Alone, Pending, Locked, Barrier
    <2>2. ASSUME NEW t \in Threads PROVE LockAt(t)' /\ HandedAt(t)' /\ OwnAt(t)' /\ IbAt(t)' /\ PendingAt(t)'
      BY <1>1, <1>6, <1>7 DEF Inv, Locking, LockAt, HandedAt, OwnAt, IbAt, PendingAt, OwnAll
    <2>3. ASSUME NEW t \in Threads PROVE OwnerAt(t)'
      BY <1>1 DEF Inv, Locking, OwnerAt, Barrier, Waiter
    <2>. QED
      BY <2>1, <2>2, <2>3 DEF Locking
  <1>11. Counting'
    <2>1. Balanced'
      BY <1>9 DEF Inv, Counting, Balanced, Held, Locked
    <2>2. \A t \in Threads : RoomAt(t)'
      BY <1>9 DEF Inv, Counting, RoomAt, Barrier, Waiter
    <2>. QED
      BY <1>9, <2>1, <2>2 DEF Inv, Counting
  <1>12. EnqueuedOnce'
    BY <1>6, Constants DEF Inv, EnqueuedOnce
  <1>13. Crashing'
    BY DEF Inv, Crashing
  <1>. QED
    BY <1>3, <1>4, <1>5, <1>10, <1>11, <1>12, <1>13 DEF Inv

-----------------------------------------------------------------------------
(***************************************************************************)
(* The theorems.                                                           *)
(***************************************************************************)
\* The invariant holds of every queue.
THEOREM LaneInvariant == Spec => []Inv
PROOF
  <1>1. Init => Inv
    BY InvInit
  <1>2. Inv /\ [Next]_vars => Inv'
    BY InvStep, InvStays
  <1>. QED
    BY <1>1, <1>2, PTL DEF Spec

\* There are no more blocks in flight than calls.
LEMMA UsersBound ==
  ASSUME Inv
  PROVE  Users \in Nat /\ Users <= Calls
PROOF
  <1>1. InFlight \subseteq 1..Calls /\ IsFiniteSet(1..Calls) /\ Cardinality(1..Calls) = Calls
    <2>1. Cardinality(1..Calls) = IF 1 > Calls THEN 0 ELSE Calls - 1 + 1
      BY LaneAssumption, FS_Interval
    <2>2. Calls \in Nat
      BY LaneAssumption
    <2>. QED
      BY <2>1, <2>2, FS_Interval DEF InFlight, Submitted, Blocks
  <1>. QED
    BY <1>1, FS_Subset, FS_CardinalityType DEF Users

\* The width that the owner of the lock has in hand.
LEMMA HeldBound ==
  ASSUME Inv
  PROVE  Held \in 0..dq_width /\ (dq_state.pb => ~dq_state.ib)
PROOF
  <1>1. Types /\ dq_width \in Nat /\ NoThread \notin Threads
    BY Constants DEF Inv, Types
  <1>2. CASE dq_state.ib
    BY <1>1, <1>2 DEF Held, Inv, Locking, Alone
  <1>3. CASE ~dq_state.ib /\ Locked(dq_state)
    <2>1. dq_state.owner \in Threads
      BY <1>1, <1>3 DEF Types, Locked
    <2>2. own[dq_state.owner].w \in 0..dq_width
      BY <2>1 DEF Inv, Locking, OwnAt
    <2>. QED
      BY <1>3, <2>2 DEF Held
  <1>4. CASE ~dq_state.ib /\ ~Locked(dq_state)
    BY <1>1, <1>4 DEF Held
  <1>. QED
    BY <1>2, <1>3, <1>4

\* The ranges follow.
LEMMA InvTypeOK ==
  ASSUME Inv
  PROVE  TypeOK
PROOF
  <1>1. Types /\ dq_width \in Nat /\ dq_width >= 1 /\ Calls \in Nat
    BY Constants, LaneAssumption DEF Inv, Types
  <1>2. dq_state.used \in 0..(2 * dq_width + Calls)
    <2>. DEFINE reserved == IF dq_state.pb THEN dq_width - 1 ELSE 0
    <2>1. dq_state.used = Users + Held + reserved
      BY DEF Inv, Counting, Balanced
    <2>2. Users \in Nat /\ Users <= Calls /\ Held \in 0..dq_width
      BY UsersBound, HeldBound
    <2>3. reserved \in 0..(dq_width - 1)
      BY <1>1
    <2>. HIDE DEF reserved
    <2>4. \A u, h, r, w, c \in Int :
             u >= 0 /\ u <= c /\ h \in 0..w /\ r \in 0..(w - 1) => u + h + r \in 0..(2 * w + c)
      OBVIOUS
    <2>5. Users \in Int /\ Held \in Int /\ reserved \in Int /\ dq_width \in Int /\ Calls \in Int
      BY <1>1, <2>2, <2>3
    <2>6. Users + Held + reserved \in 0..(2 * dq_width + Calls)
      BY <2>2, <2>3, <2>4, <2>5
    <2>. QED
      BY <2>1, <2>6
  <1>3. dq_state \in [used : 0..(2 * dq_width + Calls), ib : BOOLEAN, pb : BOOLEAN, d : BOOLEAN, e : BOOLEAN,
                      q : BOOLEAN, owner : Threads \union {NoThread}]
    BY <1>1, <1>2 DEF Types
  <1>4. pushes \in 0..1
    <2>1. Cardinality({t \in Workers : Drains(t)}) \in Nat
      BY Constants, FS_Subset, FS_CardinalityType
    <2>. QED
      BY <1>1, <2>1 DEF Inv, EnqueuedOnce, Types
  <1>5. own \in [Threads -> [ib : BOOLEAN, w : 0..dq_width]]
    BY <1>1 DEF Inv, Types, Locking, OwnAt
  <1>. QED
    BY <1>1, <1>3, <1>4, <1>5 DEF Types, TypeOK

\* Every variable stays in its range: the width in use is bounded by the blocks submitted and twice
\* the width of the queue, a drainer owns at most the width, and the lane is on the root queue at
\* most once.
THEOREM LaneTypes == Spec => []TypeOK
PROOF
  <1>1. Inv => TypeOK
    BY InvTypeOK
  <1>. QED
    BY <1>1, LaneInvariant, PTL

\* The two ways to say that a thread has a barrier.
LEMMA SameBarrier ==
  ASSUME Types, NEW t \in Threads
  PROVE  HoldsBarrier(t) <=> HasBarrier(t)
PROOF
  <1>. DEFINE Mark(i) == stack[t][i].after \in {"unlock_probe", "complete"}
  <1>1. DOMAIN stack[t] = 1..Len(stack[t]) /\ Len(stack[t]) \in Nat /\ Count(t) \in Nat /\ (stack[t] = <<>> <=> Len(stack[t]) = 0)
    BY StackFacts, LiveFacts
  <1>2. ASSUME NEW j \in 1..Count(t), Live(t)[j].after \in {"unlock_probe", "complete"}
        PROVE  \E i \in DOMAIN stack[t] : (i > 1 \/ pc[t] = "body") /\ Mark(i)
    <2>1. Len(stack[t]) + 1 - j \in DOMAIN stack[t] /\ (Len(stack[t]) + 1 - j > 1 \/ pc[t] = "body")
      BY <1>1, LiveFacts
    <2>2. Live(t)[j] = stack[t][Len(stack[t]) + 1 - j]
      BY LiveFacts
    <2>. QED
      BY <1>2, <2>1, <2>2
  <1>3. ASSUME NEW i \in DOMAIN stack[t], i > 1 \/ pc[t] = "body", Mark(i)
        PROVE  \E j \in 1..Count(t) : Live(t)[j].after \in {"unlock_probe", "complete"}
    <2>1. Len(stack[t]) + 1 - i \in 1..Count(t) /\ Len(stack[t]) + 1 - (Len(stack[t]) + 1 - i) = i
      BY <1>1, <1>3, LiveFacts
    <2>2. Live(t)[Len(stack[t]) + 1 - i] = stack[t][i]
      BY <2>1, LiveFacts
    <2>. QED
      BY <1>3, <2>1, <2>2
  <1>4. RunsBarrier(t) <=> \E i \in DOMAIN stack[t] : (i > 1 \/ pc[t] = "body") /\ Mark(i)
    BY <1>2, <1>3 DEF RunsBarrier
  <1>. QED
    BY <1>4 DEF HoldsBarrier, HasBarrier, Handed

\* What the word counts is what the threads have.
LEMMA InvWordBalance ==
  ASSUME Inv
  PROVE  WordBalance
PROOF
  <1>1. Types /\ NoThread \notin Threads /\ dq_width \in Nat
    BY Constants DEF Inv, Types
  <1>2. \A t \in Threads : HoldsBarrier(t) <=> HasBarrier(t)
    BY <1>1, SameBarrier
  <1>3. \A t \in Threads : /\ own[t].w \in 0..dq_width /\ own[t].ib \in BOOLEAN
                           /\ ~Holds(t) => own[t].w = 0 /\ ~own[t].ib
                           /\ Holds(t) <=> dq_state.owner = t
                           /\ HasBarrier(t) => Holds(t)
                           /\ Holds(t) => (dq_state.ib <=> HasBarrier(t) \/ own[t].ib)
    BY <1>1 DEF Inv, Types, Locking, OwnAt, OwnNone, LockAt, IbAt, Holds
  <1>4. \A t \in Threads : WidthOf(t) > 0 => dq_state.owner = t
    BY <1>1, <1>2, <1>3 DEF WidthOf
  <1>5. Held = IF Locked(dq_state) THEN WidthOf(dq_state.owner) ELSE 0
    <2>1. CASE Locked(dq_state)
      <3>1. dq_state.owner \in Threads
        BY <1>1, <2>1 DEF Types, Locked
      <3>. QED
        BY <1>2, <1>3, <2>1, <3>1 DEF Held, WidthOf
    <2>2. CASE ~Locked(dq_state)
      BY <2>2 DEF Held, Inv, Locking, Alone
    <2>. QED
      BY <2>1, <2>2
  <1>6. WidthBalance
    BY <1>4, <1>5 DEF WidthBalance, Inv, Counting, Balanced, Users, AsyncUsers, Asyncs
  <1>. QED
    BY <1>6 DEF WordBalance, Inv

\* No width is lost or given twice: what the word counts is in the hands of the blocks in flight, of
\* the thread that drains or completes, or of a pending barrier, and the lane is on the root queue or
\* with one of its workers, once, if the word says that it is enqueued.
THEOREM LaneBalance == Spec => []WordBalance
PROOF
  <1>1. Inv => WordBalance
    BY InvWordBalance
  <1>. QED
    BY <1>1, LaneInvariant, PTL

\* A thread with a barrier on its stack is in its block or in the first steps of a call.
LEMMA InvSelfSync ==
  ASSUME Inv
  PROVE  SelfSyncCaught
PROOF
  <1>1. Types
    BY DEF Inv
  <1>2. ASSUME NEW t \in Threads, pc[t] \in {"push", "link", "link_first", "merge_qos", "push_waiter", "wait"}, InBarrier(t)
        PROVE  FALSE
    <2>1. PICK i \in 2..Len(stack[t]) : Barrier(stack[t][i].block)
      BY <1>2 DEF InBarrier
    <2>2. Len(stack[t]) + 1 - i \in 1..Count(t) /\ Len(stack[t]) + 1 - (Len(stack[t]) + 1 - i) = i
      <3>1. Len(stack[t]) \in Nat /\ i \in Nat /\ i >= 2 /\ i <= Len(stack[t])
        BY <1>1, <2>1, StackFacts
      <3>2. Count(t) = Len(stack[t]) - 1
        BY <1>1, <1>2, <3>1, StackFacts, LiveFacts
      <3>. QED
        BY <3>1, <3>2
    <2>3. Live(t)[Len(stack[t]) + 1 - i] = stack[t][i]
      BY <1>1, <2>2, LiveFacts
    <2>4. LiveAt(t)
      BY DEF Inv, Threading, ThreadAt
    <2>5. Live(t)[Len(stack[t]) + 1 - i].after \in Exclusive
      BY <2>1, <2>2, <2>3, <2>4 DEF LiveAt
    <2>. QED
      BY <1>2, <2>2, <2>4, <2>5 DEF LiveAt, InTry
  <1>3. ASSUME crash PROVE \E t \in Threads : pc[t] = "prepare" /\ InBarrier(t)
    <2>1. PICK t \in Threads : pc[t] = "prepare" /\ dq_state.owner = t
      BY <1>3 DEF Inv, Crashing
    <2>2. Holds(t) /\ LiveAt(t) /\ HandedAt(t) /\ FrameAt(t)
      BY <2>1 DEF Inv, Threading, ThreadAt, Locking, LockAt
    <2>3. RunsBarrier(t) \/ DrainRuns(t)
      BY <2>1, <2>2 DEF Holds, HasBarrier, HandedAt, Waits, Completing, Giving, DrainLocked, DrainPcs
    <2>4. PICK j \in 1..Count(t) : Live(t)[j].after \in Exclusive
      BY <2>3 DEF RunsBarrier, DrainRuns, DrainAfter, Exclusive
    <2>5. Barrier(Live(t)[j].block)
      BY <2>2, <2>4 DEF LiveAt, Exclusive
    <2>6. stack[t] # <<>>
      BY <2>1, <2>2 DEF FrameAt, DrainPcs
    <2>7. Len(stack[t]) + 1 - j \in 2..Len(stack[t])
      <3>1. Count(t) = Len(stack[t]) - 1 /\ Len(stack[t]) \in Nat /\ j \in 1..Count(t)
        BY <1>1, <2>1, <2>6, StackFacts, LiveFacts
      <3>. QED
        BY <3>1
    <2>8. Live(t)[j] = stack[t][Len(stack[t]) + 1 - j]
      BY <1>1, LiveFacts
    <2>9. InBarrier(t)
      BY <2>5, <2>7, <2>8 DEF InBarrier
    <2>. QED
      BY <2>1, <2>9
  <1>. QED
    BY <1>2, <1>3 DEF SelfSyncCaught

\* dispatch_sync on a queue from a barrier that runs on it is caught, and no other call is: the lock
\* is in the name of the thread that runs the barrier, even if another one handed it over.
THEOREM LaneSelfSync == Spec => []SelfSyncCaught
PROOF
  <1>1. Inv => SelfSyncCaught
    BY InvSelfSync
  <1>. QED
    BY <1>1, LaneInvariant, PTL
=============================================================================
