------------------------------ MODULE SyncNetwork ------------------------------
(***************************************************************************)
(* A network request made to look synchronous (GCDSynNetController.m):     *)
(* syncNetwork sends a data task, and holds the main thread on a semaphore *)
(* until the completion handler signals it.  The handler hands the         *)
(* callback to the main queue and waits, on a second semaphore, until it   *)
(* has run.  The shared session runs its handlers one after the other.     *)
(* asyncNetwork calls back on the main queue and makes nobody wait.        *)
(***************************************************************************)
EXTENDS Naturals, Sequences, FiniteSets

CONSTANTS SyncCalls,   \* the taps on the button of syncNet
          AsyncCalls,  \* the taps on the button of asyncNet
          NoCall

CallsAssumption == SyncCalls \intersect AsyncCalls = {} /\ NoCall \notin SyncCalls \union AsyncCalls

VARIABLES main,       \* the call whose semaphore the main thread waits for, or NoCall
          main_queue, \* the callbacks on the main queue
          network,    \* the calls whose answer is on its way
          session,    \* the completion handlers, the first of which may be running
          handler,    \* the line of the running handler
          semaphore,  \* semaphore[c]: the main thread waits for it
          semaphore1, \* semaphore1[c]: the handler waits for it
          tapped,     \* history: the calls that have begun
          returned,   \* history: the calls of syncNetwork that have returned
          called_back, \* history: the calls whose callback has run
          overtaken   \* history: calls that began before a callback on the main queue had run

vars == <<main, main_queue, network, session, handler, semaphore, semaphore1,
          tapped, returned, called_back, overtaken>>

Calls == SyncCalls \union AsyncCalls
-----------------------------------------------------------------------------
Init == /\ main = NoCall /\ main_queue = <<>>
        /\ network = {} /\ session = <<>> /\ handler = "dispatch"
        /\ semaphore = [c \in SyncCalls |-> 0] /\ semaphore1 = [c \in SyncCalls |-> 0]
        /\ tapped = {} /\ returned = {} /\ called_back = {} /\ overtaken = {}

\* syncNet:, up to the wait of the main thread, and asyncNet:
Tap(c) ==
  /\ main = NoCall /\ c \notin tapped
  /\ tapped' = tapped \union {c}
  /\ network' = network \union {c}
  /\ main' = IF c \in SyncCalls THEN c ELSE NoCall
  /\ overtaken' = IF main_queue = <<>> THEN overtaken ELSE overtaken \union {c}
  /\ UNCHANGED <<main_queue, session, handler, semaphore, semaphore1, returned, called_back>>

\* The answer, or the failure, of a request arrives: the handler of a data task goes to the
\* session's queue, and AFNetworking's own hands success or failure to the main queue.
Respond(c) ==
  /\ c \in network
  /\ network' = network \ {c}
  /\ IF c \in SyncCalls THEN session' = Append(session, c) /\ UNCHANGED main_queue
                        ELSE main_queue' = Append(main_queue, c) /\ UNCHANGED session
  /\ UNCHANGED <<main, handler, semaphore, semaphore1, tapped, returned, called_back, overtaken>>

At(line) == session # <<>> /\ handler = line
Handled == Head(session)

\* Mutation: the callback runs on the thread of the handler.
DispatchCallback_Direct ==
  /\ At("dispatch") /\ handler' = "signal"
  /\ called_back' = called_back \union {Handled}
  /\ semaphore1' = [semaphore1 EXCEPT ![Handled] = @ + 1]
  /\ UNCHANGED <<main, main_queue, network, session, semaphore, tapped, returned, overtaken>>

\* The handler's lines: dispatch_async, dispatch_semaphore_signal and dispatch_semaphore_wait
DispatchCallback ==
  /\ At("dispatch") /\ handler' = "signal"
  /\ main_queue' = Append(main_queue, Handled)
  /\ UNCHANGED <<main, network, session, semaphore, semaphore1, tapped, returned, called_back, overtaken>>

\* Mutation: the handler waits for the callback before it releases the main thread.
SignalCaller_Late ==
  /\ At("signal") /\ semaphore1[Handled] > 0 /\ handler' = "wait"
  /\ semaphore' = [semaphore EXCEPT ![Handled] = @ + 1]
  /\ UNCHANGED <<main, main_queue, network, session, semaphore1, tapped, returned, called_back, overtaken>>

SignalCaller ==
  /\ At("signal") /\ handler' = "wait"
  /\ semaphore' = [semaphore EXCEPT ![Handled] = @ + 1]
  /\ UNCHANGED <<main, main_queue, network, session, semaphore1, tapped, returned, called_back, overtaken>>

WaitForCallback ==
  /\ At("wait") /\ semaphore1[Handled] > 0
  /\ semaphore1' = [semaphore1 EXCEPT ![Handled] = @ - 1]
  /\ session' = Tail(session) /\ handler' = "dispatch"
  /\ UNCHANGED <<main, main_queue, network, semaphore, tapped, returned, called_back, overtaken>>

\* The main thread goes on: syncNetwork returns.
Return ==
  /\ main # NoCall /\ semaphore[main] > 0
  /\ semaphore' = [semaphore EXCEPT ![main] = @ - 1]
  /\ returned' = returned \union {main}
  /\ main' = NoCall
  /\ UNCHANGED <<main_queue, network, session, handler, semaphore1, tapped, called_back, overtaken>>

\* Mutation: the callback's block does not signal.
Callback_Silent ==
  /\ main = NoCall /\ main_queue # <<>>
  /\ called_back' = called_back \union {Head(main_queue)}
  /\ main_queue' = Tail(main_queue)
  /\ UNCHANGED <<main, network, session, handler, semaphore, semaphore1, tapped, returned, overtaken>>

\* The main thread runs a block of the main queue.
Callback ==
  /\ main = NoCall /\ main_queue # <<>>
  /\ LET c == Head(main_queue) IN
     /\ called_back' = called_back \union {c}
     /\ semaphore1' = [d \in SyncCalls |-> IF d = c THEN semaphore1[d] + 1 ELSE semaphore1[d]]
  /\ main_queue' = Tail(main_queue)
  /\ UNCHANGED <<main, network, session, handler, semaphore, tapped, returned, overtaken>>

Next == \/ \E c \in Calls : Tap(c) \/ Respond(c)
        \/ DispatchCallback \/ SignalCaller \/ WaitForCallback \/ Return \/ Callback

\* Every request ends, if only by its timeout; the threads run when they can.
Fairness == /\ \A c \in Calls : WF_vars(Respond(c))
            /\ WF_vars(DispatchCallback) /\ WF_vars(SignalCaller) /\ WF_vars(WaitForCallback)
            /\ WF_vars(Return) /\ WF_vars(Callback)

Spec == Init /\ [][Next]_vars
FairSpec == Spec /\ Fairness
-----------------------------------------------------------------------------
TypeOK ==
  /\ main \in SyncCalls \union {NoCall} /\ main_queue \in Seq(Calls)
  /\ network \subseteq Calls /\ session \in Seq(SyncCalls)
  /\ handler \in {"dispatch", "signal", "wait"}
  /\ semaphore \in [SyncCalls -> 0..1] /\ semaphore1 \in [SyncCalls -> 0..1]
  /\ tapped \subseteq Calls /\ returned \subseteq SyncCalls
  /\ called_back \subseteq Calls /\ overtaken \subseteq Calls

\* The main thread waits for a call whose handler cannot run, behind a handler that waits for
\* the main thread.
Stuck == main # NoCall /\ At("wait") /\ Handled # main /\ semaphore[main] = 0
         /\ semaphore1[Handled] = 0

\* A call of syncNetwork returns before its callback runs: what comes after it on the main
\* thread ("the synchronous request is complete") does not see the answer.
CallbackAfterReturn == \A c \in SyncCalls \intersect called_back : c \in returned

\* Every call returns and every callback runs, in this order; or the two threads wait for each
\* other for good, and that only if a tap came in before the callback of an earlier call, which
\* was already on the main queue, had run.
CallsEnd ==
  /\ []CallbackAfterReturn
  /\ \A c \in Calls :
       c \in tapped ~> \/ c \in called_back /\ (c \in SyncCalls => c \in returned)
                      \/ [](Stuck /\ main \in overtaken)
=============================================================================
