-------------------------------- MODULE SQueue --------------------------------
(***************************************************************************)
(* SQueue<T> (squeue.h): the queue every pair of neighbouring stages of    *)
(* the spider shares.  An operation takes Mutex::ScopeGuard, works, and    *)
(* releases the mutex on return; pop waits on the Conditional while the    *)
(* queue is empty, push signals it once.  A thread that waits may wake up  *)
(* without a signal and may be cancelled (ThreadPool::stop).               *)
(*                                                                         *)
(* The model takes one step per lock, body, signal, wait and unlock.       *)
(***************************************************************************)
EXTENDS Naturals, Sequences, FiniteSets

CONSTANTS
    Threads,    \* the threads that share the queue
    Values,     \* what is queued
    Nobody,     \* the mutex has no owner
    NoResult,   \* an operation has not handed anything back yet
    Refused,    \* S_FAIL of try_pop
    Cap         \* bound of the model: no push starts on a queue this long

ASSUME ThreadsFinite == IsFiniteSet(Threads)
ASSUME NobodyIsNoThread == Nobody \notin Threads
ASSUME CapIsNat == Cap \in Nat

VARIABLES
    queue,      \* _queue
    owner,      \* the owner of _mutex
    pc,         \* where each thread is
    arg,        \* the argument of a push
    out         \* the out parameter or result code of the last operation

vars == <<queue, owner, pc, arg, out>>

\* The operations, by the place where each asks for the mutex, and the place
\* the thread is at once it holds it.
Body == [push_lock |-> "push", pop_lock |-> "pop", try_lock |-> "try",
         size_lock |-> "size", cancel_lock |-> "cancel"]

Asking == DOMAIN Body
Holding == {Body[l] : l \in Asking} \cup {"signal", "unlock"}
Places == Asking \cup Holding \cup {"idle", "waiting", "dead"}

\* Threads blocked in pthread_cond_wait.
Waiters == {t \in Threads : pc[t] = "waiting"}

Init ==
    /\ queue = <<>>
    /\ owner = Nobody
    /\ pc = [t \in Threads |-> "idle"]
    /\ arg = [t \in Threads |-> NoResult]
    /\ out = [t \in Threads |-> NoResult]

-------------------------------------------------------------------------------
(* Calls. *)

Enter(t, place) ==
    /\ pc[t] = "idle"
    /\ pc' = [pc EXCEPT ![t] = place]
    /\ out' = [out EXCEPT ![t] = NoResult]

CallPush(t, v) ==
    /\ Len(queue) < Cap
    /\ Enter(t, "push_lock")
    /\ arg' = [arg EXCEPT ![t] = v]
    /\ UNCHANGED <<queue, owner>>

CallPop(t) == Enter(t, "pop_lock") /\ UNCHANGED <<queue, owner, arg>>
CallTryPop(t) == Enter(t, "try_lock") /\ UNCHANGED <<queue, owner, arg>>
CallSize(t) == Enter(t, "size_lock") /\ UNCHANGED <<queue, owner, arg>>

-------------------------------------------------------------------------------
(* Mutex::ScopeGuard: the constructor locks, the destructor unlocks. *)

Lock(t) ==
    /\ pc[t] \in Asking
    /\ owner = Nobody
    /\ owner' = t
    /\ pc' = [pc EXCEPT ![t] = Body[pc[t]]]
    /\ UNCHANGED <<queue, arg, out>>

Release(t, place) ==
    /\ owner' = Nobody
    /\ pc' = [pc EXCEPT ![t] = place]

Unlock(t) ==
    /\ pc[t] = "unlock"
    /\ Release(t, "idle")
    /\ UNCHANGED <<queue, arg, out>>

-------------------------------------------------------------------------------
(* The bodies of the operations, with the mutex held. *)

Push(t) ==
    /\ pc[t] = "push"
    /\ queue' = Append(queue, arg[t])
    /\ arg' = [arg EXCEPT ![t] = NoResult]
    /\ pc' = [pc EXCEPT ![t] = "signal"]
    /\ UNCHANGED <<owner, out>>

\* Mutant: the signal is sent only when the queue was empty before the push.
WakeOnFirst(t) ==
    IF Waiters = {} \/ Len(queue) > 1
    THEN pc' = [pc EXCEPT ![t] = "unlock"]
    ELSE \E w \in Waiters :
            pc' = [pc EXCEPT ![t] = "unlock", ![w] = "pop_lock"]

\* pthread_cond_signal: one waiter, if there is any, leaves the wait and asks
\* for the mutex again; without a waiter the signal is lost.
Wake(t) ==
    IF Waiters = {}
    THEN pc' = [pc EXCEPT ![t] = "unlock"]
    ELSE \E w \in Waiters :
            pc' = [pc EXCEPT ![t] = "unlock", ![w] = "pop_lock"]

Signal(t) ==
    /\ pc[t] = "signal"
    /\ Wake(t)
    /\ UNCHANGED <<queue, owner, arg, out>>

\* The loop test of pop: wait on an empty queue, giving the mutex up in the
\* same step.
PopWait(t) ==
    /\ pc[t] = "pop"
    /\ queue = <<>>
    /\ Release(t, "waiting")
    /\ UNCHANGED <<queue, arg, out>>

\* Mutant: the front is copied but _queue.pop() is forgotten.
TakeFrontKeeping(t) ==
    /\ queue # <<>>
    /\ out' = [out EXCEPT ![t] = Head(queue)]
    /\ pc' = [pc EXCEPT ![t] = "unlock"]
    /\ UNCHANGED <<queue, owner, arg>>

TakeFront(t) ==
    /\ queue # <<>>
    /\ out' = [out EXCEPT ![t] = Head(queue)]
    /\ queue' = Tail(queue)
    /\ pc' = [pc EXCEPT ![t] = "unlock"]
    /\ UNCHANGED <<owner, arg>>

PopTake(t) == pc[t] = "pop" /\ TakeFront(t)

TryTake(t) == pc[t] = "try" /\ TakeFront(t)

\* Mutant: the early return of try_pop leaves the mutex locked.
TryRefuseLocked(t) ==
    /\ pc[t] = "try"
    /\ queue = <<>>
    /\ out' = [out EXCEPT ![t] = Refused]
    /\ pc' = [pc EXCEPT ![t] = "idle"]
    /\ UNCHANGED <<queue, owner, arg>>

TryRefuse(t) ==
    /\ pc[t] = "try"
    /\ queue = <<>>
    /\ out' = [out EXCEPT ![t] = Refused]
    /\ pc' = [pc EXCEPT ![t] = "unlock"]
    /\ UNCHANGED <<queue, owner, arg>>

Size(t) ==
    /\ pc[t] = "size"
    /\ out' = [out EXCEPT ![t] = Len(queue)]
    /\ pc' = [pc EXCEPT ![t] = "unlock"]
    /\ UNCHANGED <<queue, owner, arg>>

-------------------------------------------------------------------------------
(* What a wait on a POSIX condition variable may also do. *)

SpuriousWakeup(t) ==
    /\ pc[t] = "waiting"
    /\ pc' = [pc EXCEPT ![t] = "pop_lock"]
    /\ UNCHANGED <<queue, owner, arg, out>>

\* pthread_cancel: the wait is a cancellation point.  The cancelled thread gets
\* the mutex back, the unwinding stack destroys the ScopeGuard, the thread ends.
Cancel(t) ==
    /\ pc[t] = "waiting"
    /\ pc' = [pc EXCEPT ![t] = "cancel_lock"]
    /\ UNCHANGED <<queue, owner, arg, out>>

Unwind(t) ==
    /\ pc[t] = "cancel"
    /\ Release(t, "dead")
    /\ UNCHANGED <<queue, arg, out>>

-------------------------------------------------------------------------------

Run(t) ==
    \/ Unlock(t) \/ Push(t) \/ Signal(t)
    \/ PopWait(t) \/ PopTake(t) \/ TryTake(t) \/ TryRefuse(t)
    \/ Size(t) \/ Unwind(t)

CallAny(t) ==
    \/ \E v \in Values : CallPush(t, v)
    \/ CallPop(t) \/ CallTryPop(t) \/ CallSize(t)

Next ==
    \E t \in Threads :
        \/ CallAny(t)
        \/ Lock(t)
        \/ Run(t)
        \/ SpuriousWakeup(t)
        \/ Cancel(t)

Spec == Init /\ [][Next]_vars

\* A thread inside an operation keeps running, and a thread that asks for the
\* mutex gets it when the mutex is free again and again (every critical section
\* is a few instructions long).  Nothing makes a thread call an operation.
Fairness == \A t \in Threads : WF_vars(Run(t)) /\ SF_vars(Lock(t))

FairSpec == Spec /\ Fairness

-------------------------------------------------------------------------------
(* Properties. *)

TypeOK ==
    /\ queue \in Seq(Values)
    /\ owner \in Threads \cup {Nobody}
    /\ pc \in [Threads -> Places]
    /\ arg \in [Threads -> Values \cup {NoResult}]
    /\ out \in [Threads -> Values \cup {NoResult, Refused} \cup Nat]

\* The threads inside a critical section are exactly the owner of the mutex:
\* in particular a thread that waits or was cancelled out of its wait does not
\* keep the lock, and no early return of try_pop leaves it behind.
OwnerHolds == \A t \in Threads : (owner = t) <=> (pc[t] \in Holding)

\* Threads on their way to take an element, and signals still to be sent.
Poppers == {t \in Threads : pc[t] \in {"pop_lock", "pop"}}
Signallers == {t \in Threads : pc[t] = "signal"}

\* No wake-up is lost: while somebody sleeps in pop, there are never more
\* queued elements than threads awake to take them or signals on their way
\* (push signals once per element, also on a queue that is not empty).
NoLostWakeup ==
    Waiters # {} =>
        Len(queue) <= Cardinality(Poppers) + Cardinality(Signallers)

\* Every operation takes effect atomically in first-in first-out order: an
\* element goes to one thread, and try_pop fails only on an empty queue.
Fifo == INSTANCE FifoQueue WITH contents <- queue
ImplementsFifo == Fifo!Spec

\* An element does not stay in the queue while a consumer sleeps for it.
SleepersAreServed ==
    (queue # <<>> /\ Waiters # {}) ~> (queue = <<>> \/ Waiters = {})
===============================================================================
