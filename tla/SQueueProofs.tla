----------------------------- MODULE SQueueProofs -----------------------------
(***************************************************************************)
(* Proofs about SQueue for any number of threads, any values and any       *)
(* bound.  The inductive invariant adds to the checked ones only what a    *)
(* push carries.                                                           *)
(***************************************************************************)
EXTENDS SQueue, FiniteSetTheorems, TLAPS

\* A thread on its way to append carries a value of the queue.
Carries == \A t \in Threads : pc[t] \in {"push_lock", "push"} => arg[t] \in Values

Safe == TypeOK /\ OwnerHolds /\ Carries

IInv == Safe /\ NoLostWakeup

\* The lock points and the places behind them, written out.
LEMMA PlaceFacts ==
    /\ Asking = {"push_lock", "pop_lock", "try_lock", "size_lock", "cancel_lock"}
    /\ Body["push_lock"] = "push"
    /\ Body["pop_lock"] = "pop"
    /\ Body["try_lock"] = "try"
    /\ Body["size_lock"] = "size"
    /\ Body["cancel_lock"] = "cancel"
    /\ Holding = {"push", "pop", "try", "size", "cancel", "signal", "unlock"}
BY DEF Asking, Body, Holding

\* The sets counted by NoLostWakeup are finite sets of threads.
LEMMA CountFacts ==
    /\ IsFiniteSet(Poppers) /\ Cardinality(Poppers) \in Nat
    /\ IsFiniteSet(Signallers) /\ Cardinality(Signallers) \in Nat
<1>1. Poppers \subseteq Threads /\ Signallers \subseteq Threads
  BY DEF Poppers, Signallers
<1> QED
  BY <1>1, ThreadsFinite, FS_Subset, FS_CardinalityType

\* The same sets after a step.
LEMMA CountFactsPrime ==
    /\ IsFiniteSet(Poppers') /\ Cardinality(Poppers') \in Nat
    /\ IsFiniteSet(Signallers') /\ Cardinality(Signallers') \in Nat
<1>1. Poppers' \subseteq Threads /\ Signallers' \subseteq Threads
  BY DEF Poppers, Signallers
<1> QED
  BY <1>1, ThreadsFinite, FS_Subset, FS_CardinalityType

\* Init establishes the inductive invariant: nobody waits, nobody owns the lock.
LEMMA InitIInv == Init => IInv
<1> SUFFICES ASSUME Init PROVE IInv
  OBVIOUS
<1>1. TypeOK
  BY DEF Init, TypeOK, Places
<1>2. OwnerHolds
  BY PlaceFacts, NobodyIsNoThread DEF Init, OwnerHolds
<1>3. Carries
  BY DEF Init, Carries
<1>4. NoLostWakeup
  BY DEF Init, NoLostWakeup, Waiters
<1> QED
  BY <1>1, <1>2, <1>3, <1>4 DEF IInv, Safe

\* Every step of every thread keeps the types, the lock discipline and the
\* argument of a push.
LEMMA SafeStep ==
    ASSUME Safe, [Next]_vars
    PROVE  Safe'
<1> USE PlaceFacts, NobodyIsNoThread DEF Safe, TypeOK, OwnerHolds, Carries, Places
<1>1. CASE UNCHANGED vars
  BY <1>1 DEF vars
<1>2. ASSUME NEW t \in Threads, NEW v \in Values, CallPush(t, v) PROVE Safe'
  BY <1>2 DEF CallPush, Enter
<1>3. ASSUME NEW t \in Threads, CallPop(t) \/ CallTryPop(t) \/ CallSize(t)
      PROVE Safe'
  BY <1>3 DEF CallPop, CallTryPop, CallSize, Enter
<1>4. ASSUME NEW t \in Threads, Lock(t) PROVE Safe'
  BY <1>4 DEF Lock
<1>5. ASSUME NEW t \in Threads, Unlock(t) \/ PopWait(t) \/ Unwind(t) PROVE Safe'
  BY <1>5 DEF Unlock, PopWait, Unwind, Release
<1>6. ASSUME NEW t \in Threads, Push(t) PROVE Safe'
  BY <1>6 DEF Push
<1>7. ASSUME NEW t \in Threads, Signal(t) PROVE Safe'
  BY <1>7 DEF Signal, Wake, Waiters
<1>8. ASSUME NEW t \in Threads, PopTake(t) \/ TryTake(t) PROVE Safe'
  <2>1. Head(queue) \in Values /\ Tail(queue) \in Seq(Values)
    BY <1>8 DEF PopTake, TryTake, TakeFront
  <2> QED
    BY <1>8, <2>1 DEF PopTake, TryTake, TakeFront
<1>9. ASSUME NEW t \in Threads, TryRefuse(t) \/ Size(t) PROVE Safe'
  BY <1>9 DEF TryRefuse, Size
<1>10. ASSUME NEW t \in Threads, SpuriousWakeup(t) \/ Cancel(t) PROVE Safe'
  BY <1>10 DEF SpuriousWakeup, Cancel
<1> QED
  BY <1>1, <1>2, <1>3, <1>4, <1>5, <1>6, <1>7, <1>8, <1>9, <1>10
     DEF Next, CallAny, Run

\* A step that adds no element, no sleeper where there was none, and takes no
\* thread from those that will serve, loses no wake-up.
LEMMA NoLossByCounting ==
    ASSUME TypeOK, TypeOK', NoLostWakeup,
           Waiters' # {} => Waiters # {},
           Len(queue') <= Len(queue),
           Poppers \subseteq Poppers',
           Signallers \subseteq Signallers'
    PROVE  NoLostWakeup'
<1>1. Cardinality(Poppers) <= Cardinality(Poppers')
  BY CountFactsPrime, FS_Subset
<1>2. Cardinality(Signallers) <= Cardinality(Signallers')
  BY CountFactsPrime, FS_Subset
<1>3. Len(queue) \in Nat /\ Len(queue') \in Nat
  BY DEF TypeOK
<1> QED
  BY <1>1, <1>2, <1>3, CountFacts, CountFactsPrime DEF NoLostWakeup

\* push: the new element comes with a signal still to be sent.
LEMMA PushKeepsWakeups ==
    ASSUME Safe, Safe', NoLostWakeup, NEW t \in Threads, Push(t)
    PROVE  NoLostWakeup'
<1> USE DEF Safe, TypeOK, Push
<1>1. Len(queue') = Len(queue) + 1 /\ Len(queue) \in Nat
  BY DEF Carries
<1>2. Poppers' = Poppers /\ (Waiters' # {} => Waiters # {})
  BY DEF Poppers, Waiters
<1>3. t \notin Signallers /\ Signallers' = Signallers \cup {t}
  BY DEF Signallers
<1>4. Cardinality(Signallers') = Cardinality(Signallers) + 1
  BY <1>3, CountFacts, FS_AddElement
<1> QED
  BY <1>1, <1>2, <1>4, CountFacts DEF NoLostWakeup

\* signal: the signal turns into a thread that is awake.
LEMMA SignalKeepsWakeups ==
    ASSUME Safe, Safe', NoLostWakeup, NEW t \in Threads, Signal(t)
    PROVE  NoLostWakeup'
<1> USE DEF Safe, TypeOK, Signal
<1>1. CASE Waiters = {}
  <2>1. Waiters' = {}
    BY <1>1 DEF Wake, Waiters
  <2> QED
    BY <2>1 DEF NoLostWakeup
<1>2. CASE Waiters # {}
  <2>1. PICK w \in Waiters : pc' = [pc EXCEPT ![t] = "unlock", ![w] = "pop_lock"]
    BY <1>2 DEF Wake
  <2>2. w \in Threads /\ w # t /\ pc[w] = "waiting" /\ w \notin Poppers
    BY <2>1 DEF Waiters, Poppers
  <2>3. Poppers' = Poppers \cup {w}
    BY <2>1, <2>2 DEF Poppers
  <2>4. t \in Signallers /\ Signallers' = Signallers \ {t}
    BY <2>1, <2>2 DEF Signallers
  <2>5. Cardinality(Poppers') = Cardinality(Poppers) + 1
    BY <2>2, <2>3, CountFacts, FS_AddElement
  <2>6. Cardinality(Signallers') = Cardinality(Signallers) - 1
    BY <2>4, CountFacts, FS_RemoveElement
  <2> QED
    BY <1>2, <2>5, <2>6, CountFacts, CountFactsPrime DEF NoLostWakeup
<1> QED
  BY <1>1, <1>2

\* pop: one thread fewer, and one element fewer.
LEMMA PopKeepsWakeups ==
    ASSUME Safe, Safe', NoLostWakeup, NEW t \in Threads, PopTake(t)
    PROVE  NoLostWakeup'
<1> USE DEF Safe, TypeOK, PopTake, TakeFront
<1>1. Len(queue') = Len(queue) - 1 /\ Len(queue) \in Nat
  OBVIOUS
<1>2. Signallers' = Signallers /\ (Waiters' # {} => Waiters # {})
  BY DEF Signallers, Waiters
<1>3. t \in Poppers /\ Poppers' = Poppers \ {t}
  BY DEF Poppers
<1>4. Cardinality(Poppers') = Cardinality(Poppers) - 1
  BY <1>3, CountFacts, FS_RemoveElement
<1> QED
  BY <1>1, <1>2, <1>4, CountFacts, CountFactsPrime DEF NoLostWakeup

\* Every step keeps the count of NoLostWakeup.
LEMMA WakeupStep ==
    ASSUME Safe, Safe', NoLostWakeup, [Next]_vars
    PROVE  NoLostWakeup'
<1> USE DEF Safe
<1>1. CASE UNCHANGED vars
  BY <1>1 DEF vars, NoLostWakeup, Waiters, Poppers, Signallers
<1> DEFINE Kept == /\ Waiters' # {} => Waiters # {}
                   /\ Len(queue') <= Len(queue)
                   /\ Poppers \subseteq Poppers'
                   /\ Signallers \subseteq Signallers'
<1>0. Kept => NoLostWakeup'
  BY NoLossByCounting
<1>2. ASSUME NEW t \in Threads, CallAny(t) PROVE Kept
  BY <1>2 DEF CallAny, CallPush, CallPop, CallTryPop, CallSize, Enter,
              Waiters, Poppers, Signallers, TypeOK
<1>3. ASSUME NEW t \in Threads, Lock(t) PROVE Kept
  BY <1>3, PlaceFacts DEF Lock, Waiters, Poppers, Signallers, TypeOK
<1>4. ASSUME NEW t \in Threads, Unlock(t) \/ Unwind(t) PROVE Kept
  BY <1>4 DEF Unlock, Unwind, Release, Waiters, Poppers, Signallers, TypeOK
<1>5. ASSUME NEW t \in Threads, PopWait(t) PROVE NoLostWakeup'
  BY <1>5, CountFactsPrime DEF PopWait, NoLostWakeup
<1>6. ASSUME NEW t \in Threads, TryRefuse(t) \/ Size(t) PROVE Kept
  BY <1>6 DEF TryRefuse, Size, Waiters, Poppers, Signallers, TypeOK
<1>7. ASSUME NEW t \in Threads, TryTake(t) PROVE Kept
  BY <1>7 DEF TryTake, TakeFront, Waiters, Poppers, Signallers, TypeOK
<1>8. ASSUME NEW t \in Threads, SpuriousWakeup(t) \/ Cancel(t) PROVE Kept
  BY <1>8 DEF SpuriousWakeup, Cancel, Waiters, Poppers, Signallers, TypeOK
<1> HIDE DEF Kept
<1> QED
  BY <1>0, <1>1, <1>2, <1>3, <1>4, <1>5, <1>6, <1>7, <1>8,
     PushKeepsWakeups, SignalKeepsWakeups, PopKeepsWakeups
     DEF Next, Run

\* The inductive invariant holds in every reachable state of the queue.
THEOREM InvariantHolds == Spec => []IInv
<1>1. Init => IInv
  BY InitIInv
<1>2. IInv /\ [Next]_vars => IInv'
  BY SafeStep, WakeupStep DEF IInv
<1> QED
  BY <1>1, <1>2, PTL DEF Spec

\* TypeOK: push, pop, try_pop and size keep every variable in its type.
THEOREM TypeCorrect == Spec => []TypeOK
<1>1. IInv => TypeOK
  BY DEF IInv, Safe
<1> QED
  BY <1>1, InvariantHolds, PTL

\* OwnerHolds: ScopeGuard and the wait give the mutex back on every path, for
\* any number of threads.
THEOREM LockDiscipline == Spec => []OwnerHolds
<1>1. IInv => OwnerHolds
  BY DEF IInv, Safe
<1> QED
  BY <1>1, InvariantHolds, PTL

\* NoLostWakeup: one signal per push is enough for any number of consumers,
\* also when waits end spuriously or are cancelled.
THEOREM WakeupsAreNotLost == Spec => []NoLostWakeup
<1>1. IInv => NoLostWakeup
  BY DEF IInv
<1> QED
  BY <1>1, InvariantHolds, PTL

\* A step of SQueue is a step of the abstract queue or leaves it alone.
LEMMA StepRefines ==
    ASSUME Safe, [Next]_vars
    PROVE  [Fifo!Next]_Fifo!vars
<1> USE DEF Safe, TypeOK
<1>1. CASE UNCHANGED vars
  BY <1>1 DEF vars, Fifo!vars
<1>2. ASSUME NEW t \in Threads, CallAny(t) PROVE Fifo!Call(t)
  BY <1>2 DEF CallAny, CallPush, CallPop, CallTryPop, CallSize, Enter, Fifo!Call
<1>3. ASSUME NEW t \in Threads,
             \/ Lock(t) \/ Unlock(t) \/ Signal(t) \/ PopWait(t)
             \/ Unwind(t) \/ SpuriousWakeup(t) \/ Cancel(t)
      PROVE UNCHANGED Fifo!vars
  BY <1>3 DEF Lock, Unlock, Signal, PopWait, Unwind, SpuriousWakeup, Cancel, Fifo!vars
<1>4. ASSUME NEW t \in Threads, Push(t)
      PROVE \E v \in Values : Fifo!Push(t, v)
  <2>1. arg[t] \in Values
    BY <1>4 DEF Push, Carries
  <2> QED
    BY <1>4, <2>1 DEF Push, Fifo!Push
<1>5. ASSUME NEW t \in Threads, PopTake(t) \/ TryTake(t) PROVE Fifo!Pop(t)
  BY <1>5 DEF PopTake, TryTake, TakeFront, Fifo!Pop
<1>6. ASSUME NEW t \in Threads, TryRefuse(t) PROVE Fifo!Refuse(t)
  BY <1>6 DEF TryRefuse, Fifo!Refuse
<1>7. ASSUME NEW t \in Threads, Size(t) PROVE Fifo!Size(t)
  BY <1>7 DEF Size, Fifo!Size
<1> QED
  BY <1>1, <1>2, <1>3, <1>4, <1>5, <1>6, <1>7 DEF Next, Run, Fifo!Next

\* ImplementsFifo: SQueue is an atomic first-in first-out queue for any number
\* of threads that push, pop, try_pop and ask for its size.
THEOREM QueueIsFifo == Spec => ImplementsFifo
<1>1. Init => Fifo!Init
  BY DEF Init, Fifo!Init
<1>2. IInv /\ [Next]_vars => [Fifo!Next]_Fifo!vars
  BY StepRefines DEF IInv
<1> QED
  BY <1>1, <1>2, InvariantHolds, PTL DEF Spec, ImplementsFifo, Fifo!Spec
===============================================================================
