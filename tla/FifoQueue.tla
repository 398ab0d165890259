------------------------------ MODULE FifoQueue ------------------------------
(***************************************************************************)
(* What SQueue<T> promises its users: an unbounded first-in first-out      *)
(* queue whose operations take effect atomically.  contents is the queue,  *)
(* out[t] what the last completed operation of thread t handed back.       *)
(***************************************************************************)
EXTENDS Naturals, Sequences

CONSTANTS Threads, Values, NoResult, Refused

VARIABLES contents, out

vars == <<contents, out>>

Results == Values \cup {NoResult, Refused} \cup Nat

Init ==
    /\ contents = <<>>
    /\ out = [t \in Threads |-> NoResult]

\* A thread starts a new operation: its previous result is forgotten.
Call(t) ==
    /\ out' = [out EXCEPT ![t] = NoResult]
    /\ UNCHANGED contents

Push(t, v) ==
    /\ contents' = Append(contents, v)
    /\ UNCHANGED out

\* pop, or a try_pop that succeeds: the oldest element, removed exactly once.
Pop(t) ==
    /\ contents # <<>>
    /\ out' = [out EXCEPT ![t] = Head(contents)]
    /\ contents' = Tail(contents)

\* try_pop may fail only at a moment when the queue is empty.
Refuse(t) ==
    /\ contents = <<>>
    /\ out' = [out EXCEPT ![t] = Refused]
    /\ UNCHANGED contents

Size(t) ==
    /\ out' = [out EXCEPT ![t] = Len(contents)]
    /\ UNCHANGED contents

Next ==
    \E t \in Threads :
        \/ Call(t)
        \/ \E v \in Values : Push(t, v)
        \/ Pop(t)
        \/ Refuse(t)
        \/ Size(t)

Spec == Init /\ [][Next]_vars
==============================================================================
