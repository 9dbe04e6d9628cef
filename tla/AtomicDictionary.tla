--------------------------- MODULE AtomicDictionary ---------------------------
(***************************************************************************)
(* A dictionary whose writes and reads happen at one point of time each:   *)
(* what the users of GCDBarrierPersion may believe they have.              *)
(***************************************************************************)
CONSTANTS Threads, Keys, Objects, Nil

VARIABLES contents,  \* contents[key]
          answer     \* answer[t]: what the last read of thread t found

Init == /\ contents = [key \in Keys |-> Nil]
        /\ answer = [t \in Threads |-> Nil]

Set(key, obj) == /\ contents' = [contents EXCEPT ![key] = obj]
                 /\ UNCHANGED answer

Get(t, key) == /\ answer' = [answer EXCEPT ![t] = contents[key]]
               /\ UNCHANGED contents

Next == \E key \in Keys : \/ \E obj \in Objects : Set(key, obj)
                          \/ \E t \in Threads : Get(t, key)

Spec == Init /\ [][Next]_<<contents, answer>>
=============================================================================
