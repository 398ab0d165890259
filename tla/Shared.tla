-------------------------------- MODULE Shared --------------------------------
(***************************************************************************)
(* SharedPointer<T> (shared_pointer.h) over Shared (shared.cc): every Url  *)
(* and every Page of the spider is reached through counted pointers, which *)
(* are locals of a thread or elements of a queue.  add_ref and dec_ref     *)
(* lock the object; the pointers themselves have no lock.  A pointer that  *)
(* is written is used by one thread alone, because it is a local of the    *)
(* thread or an element of a queue, which has a mutex; one that is only    *)
(* copied may have several readers.                                        *)
(*                                                                         *)
(* A step is one assignment to a pointer, one add_ref or dec_ref, or one   *)
(* delete.  The memory of a deleted object may be used for a new one.      *)
(***************************************************************************)
EXTENDS Naturals, FiniteSets

CONSTANTS
    Threads, Objects, Pointers,
    Null,           \* the pointer points to nothing, or does not exist
    NoPointer

ASSUME PointersFinite == IsFiniteSet(Pointers)
ASSUME NullIsNoObject == Null \notin Objects
ASSUME NoPointerIsNone == NoPointer \notin Pointers

VARIABLES
    ref,        \* _p of each pointer
    count,      \* _count of each object
    live,       \* the objects that exist
    pc,         \* where each thread is in an operation of SharedPointer
    dst, src    \* the pointer it works on, and the one it copies

sharedVars == <<ref, count, live, pc, dst, src>>

SharedInit ==
    /\ ref = [p \in Pointers |-> Null]
    /\ count = [o \in Objects |-> 0]
    /\ live = {}
    /\ pc = [t \in Threads |-> "idle"]
    /\ dst = [t \in Threads |-> NoPointer]
    /\ src = [t \in Threads |-> NoPointer]

-------------------------------------------------------------------------------
(* The operations begin. *)

Untouched(p) == \A t \in Threads : p \notin {dst[t], src[t]}
Unwritten(p) == \A t \in Threads : p # dst[t]

Begin(t, p, q, place) ==
    /\ pc[t] = "idle"
    /\ pc' = [pc EXCEPT ![t] = place]
    /\ dst' = [dst EXCEPT ![t] = p]
    /\ src' = [src EXCEPT ![t] = q]

\* SharedPointer(new T): the constructor stores the address, then counts it.
New(t, p, o) ==
    /\ Untouched(p) /\ ref[p] = Null
    /\ o \notin live
    /\ live' = live \cup {o}
    /\ count' = [count EXCEPT ![o] = 0]
    /\ ref' = [ref EXCEPT ![p] = o]
    /\ Begin(t, p, NoPointer, "add")

\* The copy constructors.
Copy(t, p, q) ==
    /\ Untouched(p) /\ Unwritten(q)
    /\ ref[p] = Null /\ ref[q] # Null
    /\ ref' = [ref EXCEPT ![p] = ref[q]]
    /\ Begin(t, p, q, "add")
    /\ UNCHANGED <<count, live>>

\* Mutant: operator= without the test of _p != r._p.
AssignUnchecked(t, p, q) ==
    /\ Untouched(p) /\ Unwritten(q)
    /\ Begin(t, p, q, IF ref[p] = Null THEN "set" ELSE "dec")
    /\ UNCHANGED <<ref, count, live>>

\* operator=, which does nothing when both point to the same object.
Assign(t, p, q) ==
    /\ Untouched(p) /\ Unwritten(q)
    /\ ref[p] # ref[q]
    /\ Begin(t, p, q, IF ref[p] = Null THEN "set" ELSE "dec")
    /\ UNCHANGED <<ref, count, live>>

\* ~SharedPointer
Destroy(t, p) ==
    /\ Untouched(p) /\ ref[p] # Null
    /\ Begin(t, p, NoPointer, "dec")
    /\ UNCHANGED <<ref, count, live>>

-------------------------------------------------------------------------------
(* The operations go on. *)

Here(t) == ref[dst[t]]
Source(t) == IF src[t] = NoPointer THEN Null ELSE ref[src[t]]

\* Mutant: delete is decided by a count that another thread has not seen yet.
DecRefEarly(t) ==
    LET o == Here(t) IN
    /\ pc[t] = "dec"
    /\ count' = [count EXCEPT ![o] = IF @ > 0 THEN @ - 1 ELSE 0]
    /\ pc' = [pc EXCEPT ![t] = IF count[o] \in {1, 2} THEN "delete" ELSE "set"]
    /\ UNCHANGED <<ref, live, dst, src>>

\* Mutant: delete is left out for the last pointer.
DecRefNeverLast(t) ==
    /\ pc[t] = "dec"
    /\ count' = [count EXCEPT ![Here(t)] = IF @ > 0 THEN @ - 1 ELSE 0]
    /\ pc' = [pc EXCEPT ![t] = "set"]
    /\ UNCHANGED <<ref, live, dst, src>>

\* dec_ref: the thread that takes the count from one to zero deletes.  A count
\* that is zero already stays zero, and flag says so.
DecRef(t) ==
    LET o == Here(t) IN
    /\ pc[t] = "dec"
    /\ count' = [count EXCEPT ![o] = IF @ > 0 THEN @ - 1 ELSE 0]
    /\ pc' = [pc EXCEPT ![t] = IF count[o] = 1 THEN "delete" ELSE "set"]
    /\ UNCHANGED <<ref, live, dst, src>>

Delete(t) ==
    /\ pc[t] = "delete"
    /\ live' = live \ {Here(t)}
    /\ pc' = [pc EXCEPT ![t] = "set"]
    /\ UNCHANGED <<ref, count, dst, src>>

End(t) ==
    /\ pc' = [pc EXCEPT ![t] = "idle"]
    /\ dst' = [dst EXCEPT ![t] = NoPointer]
    /\ src' = [src EXCEPT ![t] = NoPointer]

\* The pointer is gone, or takes over what the other one points to.
Clear(t) ==
    /\ pc[t] = "set"
    /\ Source(t) = Null
    /\ ref' = [ref EXCEPT ![dst[t]] = Null]
    /\ End(t)
    /\ UNCHANGED <<count, live>>

Set(t) ==
    /\ pc[t] = "set"
    /\ Source(t) # Null
    /\ ref' = [ref EXCEPT ![dst[t]] = Source(t)]
    /\ pc' = [pc EXCEPT ![t] = "add"]
    /\ UNCHANGED <<count, live, dst, src>>

\* Mutant: the pointer is not counted.
AddRefNot(t) ==
    /\ pc[t] = "add"
    /\ End(t)
    /\ UNCHANGED <<ref, count, live>>

AddRef(t) ==
    /\ pc[t] = "add"
    /\ count' = [count EXCEPT ![Here(t)] = @ + 1]
    /\ End(t)
    /\ UNCHANGED <<ref, live>>

-------------------------------------------------------------------------------

\* What does not make or delete an object.
PointerStep(t) ==
    \/ \E p, q \in Pointers : Copy(t, p, q) \/ Assign(t, p, q)
    \/ \E p \in Pointers : Destroy(t, p)
    \/ DecRef(t) \/ Clear(t) \/ Set(t) \/ AddRef(t)

SharedNext ==
    \E t \in Threads :
        \/ PointerStep(t)
        \/ \E p \in Pointers, o \in Objects : New(t, p, o)
        \/ Delete(t)

SharedSpec == SharedInit /\ [][SharedNext]_sharedVars

-------------------------------------------------------------------------------
(* Properties. *)

SharedTypeOK ==
    /\ ref \in [Pointers -> Objects \cup {Null}]
    /\ count \in [Objects -> Nat]
    /\ live \subseteq Objects
    /\ pc \in [Threads -> {"idle", "add", "dec", "delete", "set"}]
    /\ dst \in [Threads -> Pointers \cup {NoPointer}]
    /\ src \in [Threads -> Pointers \cup {NoPointer}]

\* A pointer whose count has not been added yet, or is given back already.
Uncounted(p) == \E t \in Threads : dst[t] = p /\ pc[t] \in {"add", "delete", "set"}

\* The pointers that keep an object alive.
Holders(o) == {p \in Pointers : ref[p] = o /\ ~Uncounted(p)}

\* The count of an object is the number of pointers that keep it alive, whatever
\* the threads that copy, assign and destroy pointers to it are doing.
CountIsHolders == \A o \in Objects : count[o] = Cardinality(Holders(o))

\* No pointer dangles: what a pointer keeps alive exists, and so does what a
\* thread is about to count or to delete.
NoDangling ==
    /\ \A p \in Pointers : ref[p] # Null /\ ~Uncounted(p) => ref[p] \in live
    /\ \A t \in Threads : pc[t] \in {"add", "delete"} => Here(t) \in live

\* Two threads never delete the same object (shared.cc: "avoid that two threads
\* destruct the object at the sametime"), and none that somebody else uses.
DeletedAlone ==
    \A t \in Threads : pc[t] = "delete" =>
        /\ Holders(Here(t)) = {}
        /\ \A r \in Threads \ {t} :
              pc[r] \in {"add", "delete"} => Here(r) # Here(t)

\* No object leaks: one that no pointer holds is about to be counted or deleted.
NoLeak ==
    \A o \in live : Holders(o) = {} =>
        \E t \in Threads : pc[t] \in {"add", "delete"} /\ Here(t) = o
===============================================================================
