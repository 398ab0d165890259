----------------------------- MODULE PagesProofs ------------------------------
(***************************************************************************)
(* Proofs about Shared and Pages for any threads, pages, pointers, blocks  *)
(* and sizes.  The first half is about Shared alone: the count of an       *)
(* object is the number of its pointers, so nothing dangles, is deleted    *)
(* twice or leaks.  The second half adds that every block of the pool is   *)
(* in one place and every page has room for its bytes.                     *)
(***************************************************************************)
EXTENDS Pages, FiniteSetTheorems, WellFoundedInduction, SequenceTheorems, TLAPS

\* A pointer that a thread writes is used by no other operation.
Exclusive ==
    \A t \in Threads :
        /\ pc[t] = "idle" <=> dst[t] = NoPointer
        /\ pc[t] = "idle" => src[t] = NoPointer
        /\ dst[t] # NoPointer =>
              /\ dst[t] # src[t]
              /\ \A r \in Threads \ {t} : dst[t] \notin {dst[r], src[r]}

\* A thread that counts or deletes has an object, the one its source points to.
HasObject ==
    \A t \in Threads :
        /\ pc[t] \in {"add", "dec", "delete"} => Here(t) # Null
        /\ pc[t] = "add" /\ src[t] # NoPointer => ref[src[t]] = Here(t)

\* A thread that deletes an object, or has just made it, is alone with it.
Alone ==
    \A t \in Threads, o \in Objects :
        (pc[t] = "delete" \/ (pc[t] = "add" /\ src[t] = NoPointer)) /\ Here(t) = o =>
            /\ Holders(o) = {}
            /\ \A r \in Threads \ {t} : pc[r] \in {"add", "delete"} => Here(r) # o

\* What is held, counted or deleted exists: NoDangling by objects.
HeldExists ==
    /\ \A o \in Objects : Holders(o) # {} => o \in live
    /\ \A t \in Threads : pc[t] \in {"add", "delete"} => Here(t) \in live

Shape == SharedTypeOK /\ Exclusive /\ HasObject

IInv == Shape /\ Alone /\ CountIsHolders /\ HeldExists /\ NoLeak

LEMMA HoldersFinite ==
    ASSUME NEW o
    PROVE  /\ IsFiniteSet(Holders(o)) /\ Cardinality(Holders(o)) \in Nat
           /\ Cardinality(Holders(o)) = 0 <=> Holders(o) = {}
<1>1. Holders(o) \subseteq Pointers
  BY DEF Holders
<1> QED
  BY <1>1, PointersFinite, FS_Subset, FS_CardinalityType, FS_EmptySet

LEMMA InitIInv == SharedInit => IInv
<1> SUFFICES ASSUME SharedInit PROVE IInv
  OBVIOUS
<1>1. SharedTypeOK
  BY DEF SharedInit, SharedTypeOK
<1>2. Exclusive /\ HasObject /\ Alone
  BY DEF SharedInit, Exclusive, HasObject, Alone
<1>3. CountIsHolders
  <2> SUFFICES ASSUME NEW o \in Objects PROVE count[o] = Cardinality(Holders(o))
    BY DEF CountIsHolders
  <2>1. Holders(o) = {}
    BY NullIsNoObject DEF SharedInit, Holders
  <2> QED
    BY <2>1, FS_EmptySet DEF SharedInit
<1>4. HeldExists /\ NoLeak
  BY NullIsNoObject DEF SharedInit, HeldExists, NoLeak, Holders
<1> QED
  BY <1>1, <1>2, <1>3, <1>4 DEF IInv, Shape

\* Types, exclusive use and the objects at hand, for every step.
LEMMA ShapeHolds == Shape /\ [SharedNext]_sharedVars => Shape'
<1> SUFFICES ASSUME Shape, [SharedNext]_sharedVars PROVE Shape'
  OBVIOUS
<1> USE NullIsNoObject, NoPointerIsNone DEF Shape, SharedTypeOK, Exclusive, HasObject, Here
<1>1. ASSUME NEW t \in Threads, NEW p \in Pointers, NEW o \in Objects, New(t, p, o)
      PROVE  Shape'
  BY <1>1 DEF New, Begin, Untouched
<1>2. ASSUME NEW t \in Threads, Delete(t)
      PROVE  Shape'
  BY <1>2 DEF Delete
<1>3. ASSUME NEW t \in Threads, NEW p \in Pointers, NEW q \in Pointers, Copy(t, p, q)
      PROVE  Shape'
  BY <1>3 DEF Copy, Begin, Untouched, Unwritten
<1>4. ASSUME NEW t \in Threads, NEW p \in Pointers, NEW q \in Pointers, Assign(t, p, q)
      PROVE  Shape'
  BY <1>4 DEF Assign, Begin, Untouched, Unwritten
<1>5. ASSUME NEW t \in Threads, NEW p \in Pointers, Destroy(t, p)
      PROVE  Shape'
  BY <1>5 DEF Destroy, Begin, Untouched
<1>6. ASSUME NEW t \in Threads, DecRef(t)
      PROVE  Shape'
  BY <1>6 DEF DecRef
<1>7. ASSUME NEW t \in Threads, Clear(t)
      PROVE  Shape'
  BY <1>7 DEF Clear, End, Source
<1>8. ASSUME NEW t \in Threads, Set(t)
      PROVE  Shape'
  BY <1>8 DEF Set, Source
<1>9. ASSUME NEW t \in Threads, AddRef(t)
      PROVE  Shape'
  BY <1>9 DEF AddRef, End
<1>10. CASE UNCHANGED sharedVars
  BY <1>10 DEF sharedVars
<1> QED
  BY <1>1, <1>2, <1>3, <1>4, <1>5, <1>6, <1>7, <1>8, <1>9, <1>10
  DEF SharedNext, PointerStep

-------------------------------------------------------------------------------
(* What a step does to the holders of an object. *)

\* Only dec_ref and add_ref change who holds an object.
LEMMA HoldersStay ==
    ASSUME Shape, NEW t \in Threads,
           \/ \E p \in Pointers, o \in Objects : New(t, p, o)
           \/ \E p, q \in Pointers : Copy(t, p, q) \/ Assign(t, p, q)
           \/ \E p \in Pointers : Destroy(t, p)
           \/ Delete(t) \/ Clear(t) \/ Set(t)
    PROVE  \A x \in Objects : Holders(x)' = Holders(x)
<1> USE NullIsNoObject, NoPointerIsNone
    DEF Shape, SharedTypeOK, Exclusive, HasObject, Here, Holders, Uncounted
<1>1. ASSUME NEW p \in Pointers, NEW o \in Objects, New(t, p, o)
      PROVE  \A x \in Objects : Holders(x)' = Holders(x)
  BY <1>1 DEF New, Begin, Untouched
<1>2. ASSUME NEW p \in Pointers, NEW q \in Pointers, Copy(t, p, q)
      PROVE  \A x \in Objects : Holders(x)' = Holders(x)
  BY <1>2 DEF Copy, Begin, Untouched, Unwritten
<1>3. ASSUME NEW p \in Pointers, NEW q \in Pointers, Assign(t, p, q)
      PROVE  \A x \in Objects : Holders(x)' = Holders(x)
  BY <1>3 DEF Assign, Begin, Untouched, Unwritten
<1>4. ASSUME NEW p \in Pointers, Destroy(t, p)
      PROVE  \A x \in Objects : Holders(x)' = Holders(x)
  BY <1>4 DEF Destroy, Begin, Untouched
<1>5. CASE Delete(t)
  BY <1>5 DEF Delete
<1>6. CASE Clear(t)
  BY <1>6 DEF Clear, End, Source
<1>7. CASE Set(t)
  BY <1>7 DEF Set, Source
<1> QED
  BY <1>1, <1>2, <1>3, <1>4, <1>5, <1>6, <1>7

LEMMA DecRefHolders ==
    ASSUME Shape, NEW t \in Threads, DecRef(t)
    PROVE  /\ Here(t) \in Objects /\ dst[t] \in Holders(Here(t))
           /\ \A x \in Objects :
                 Holders(x)' = IF x = Here(t) THEN Holders(x) \ {dst[t]} ELSE Holders(x)
<1> USE NullIsNoObject, NoPointerIsNone
    DEF Shape, SharedTypeOK, Exclusive, HasObject, Here, Holders, Uncounted, DecRef
<1>1. Here(t) \in Objects /\ dst[t] \in Pointers
  OBVIOUS
<1>2. dst[t] \in Holders(Here(t))
  BY <1>1
<1>3. ASSUME NEW x \in Objects
      PROVE  Holders(x)' = IF x = Here(t) THEN Holders(x) \ {dst[t]} ELSE Holders(x)
  BY <1>1
<1> QED
  BY <1>1, <1>2, <1>3

LEMMA AddRefHolders ==
    ASSUME Shape, NEW t \in Threads, AddRef(t)
    PROVE  /\ Here(t) \in Objects /\ dst[t] \notin Holders(Here(t))
           /\ \A x \in Objects :
                 Holders(x)' = IF x = Here(t) THEN Holders(x) \cup {dst[t]} ELSE Holders(x)
<1> USE NullIsNoObject, NoPointerIsNone
    DEF Shape, SharedTypeOK, Exclusive, HasObject, Here, Holders, Uncounted, AddRef, End
<1>1. Here(t) \in Objects /\ dst[t] \in Pointers
  OBVIOUS
<1>2. dst[t] \notin Holders(Here(t))
  BY <1>1
<1>3. ASSUME NEW x \in Objects
      PROVE  Holders(x)' = IF x = Here(t) THEN Holders(x) \cup {dst[t]} ELSE Holders(x)
  BY <1>1
<1> QED
  BY <1>1, <1>2, <1>3

-------------------------------------------------------------------------------
(* Each step keeps the counts, and with them the objects. *)

\* An object that does not exist has no holder and the count zero.
LEMMA NewObjectIsUncounted ==
    ASSUME IInv, NEW o \in Objects, o \notin live
    PROVE  Holders(o) = {} /\ count[o] = 0
<1>1. Holders(o) = {}
  BY DEF IInv, HeldExists
<1> QED
  BY <1>1, FS_EmptySet DEF IInv, CountIsHolders

LEMMA CountsHold ==
    ASSUME IInv, [SharedNext]_sharedVars
    PROVE  CountIsHolders'
<1> USE DEF IInv, CountIsHolders
<1> SUFFICES ASSUME NEW x \in Objects PROVE count'[x] = Cardinality(Holders(x)')
  OBVIOUS
<1>0. count \in [Objects -> Nat]
  BY DEF Shape, SharedTypeOK
<1>1. ASSUME NEW t \in Threads, NEW p \in Pointers, NEW o \in Objects, New(t, p, o)
      PROVE  count'[x] = Cardinality(Holders(x)')
  BY <1>0, <1>1, HoldersStay, NewObjectIsUncounted DEF New
<1>2. ASSUME NEW t \in Threads,
             \/ \E p, q \in Pointers : Copy(t, p, q) \/ Assign(t, p, q)
             \/ \E p \in Pointers : Destroy(t, p)
             \/ Delete(t) \/ Clear(t) \/ Set(t)
      PROVE  count'[x] = Cardinality(Holders(x)')
  <2>1. count' = count
    BY <1>2 DEF Copy, Assign, Destroy, Delete, Clear, Set
  <2> QED
    BY <1>2, <2>1, HoldersStay
<1>3. ASSUME NEW t \in Threads, DecRef(t)
      PROVE  count'[x] = Cardinality(Holders(x)')
  <2>1. CASE x = Here(t)
    <3>1. x \in Objects /\ dst[t] \in Holders(x) /\ Holders(x)' = Holders(x) \ {dst[t]}
      BY <1>3, <2>1, DecRefHolders
    <3>2. Cardinality(Holders(x)') = Cardinality(Holders(x)) - 1
      BY <3>1, HoldersFinite, FS_RemoveElement
    <3>3. count[x] > 0 /\ count'[x] = count[x] - 1
      BY <1>0, <1>3, <2>1, <3>1, HoldersFinite DEF DecRef
    <3> QED
      BY <3>2, <3>3
  <2>2. CASE x # Here(t)
    BY <1>0, <1>3, <2>2, DecRefHolders DEF DecRef
  <2> QED
    BY <2>1, <2>2
<1>4. ASSUME NEW t \in Threads, AddRef(t)
      PROVE  count'[x] = Cardinality(Holders(x)')
  <2>1. CASE x = Here(t)
    <3>1. dst[t] \notin Holders(x) /\ Holders(x)' = Holders(x) \cup {dst[t]}
      BY <1>4, <2>1, AddRefHolders
    <3>2. Cardinality(Holders(x)') = Cardinality(Holders(x)) + 1
      BY <3>1, HoldersFinite, FS_AddElement
    <3> QED
      BY <1>0, <1>4, <2>1, <3>2 DEF AddRef
  <2>2. CASE x # Here(t)
    BY <1>0, <1>4, <2>2, AddRefHolders DEF AddRef
  <2> QED
    BY <2>1, <2>2
<1>5. CASE UNCHANGED sharedVars
  BY <1>5 DEF sharedVars, Holders, Uncounted
<1> QED
  BY <1>1, <1>2, <1>3, <1>4, <1>5 DEF SharedNext, PointerStep

\* The thread that takes the last pointer away leaves no holder and is alone:
\* who would count the object copies from a holder, which is not its pointer.
LEMMA LastPointer ==
    ASSUME IInv, NEW t \in Threads, NEW o \in Objects, o = Here(t), DecRef(t)
    PROVE  /\ count[o] = 1 =>
                /\ Holders(o)' = {}
                /\ \A r \in Threads \ {t} : pc[r] \in {"add", "delete"} => Here(r) # o
           /\ count[o] # 1 => Holders(o)' # {}
<1>0. dst[t] \in Holders(o) /\ Holders(o)' = Holders(o) \ {dst[t]}
  BY DecRefHolders DEF IInv
<1>1. count[o] = Cardinality(Holders(o)) /\ Cardinality(Holders(o)') = Cardinality(Holders(o)) - 1
  BY <1>0, HoldersFinite, FS_RemoveElement DEF IInv, CountIsHolders
<1>2. Cardinality(Holders(o)') = 0 <=> Holders(o)' = {}
  BY <1>0, HoldersFinite, FS_RemoveElement, FS_EmptySet
<1>3. count[o] = 1 <=> Holders(o)' = {}
  BY <1>1, <1>2, HoldersFinite
<1>4. ASSUME count[o] = 1, NEW r \in Threads \ {t}, pc[r] \in {"add", "delete"}, Here(r) = o
      PROVE  FALSE
  <2>1. Holders(o) = {dst[t]}
    BY <1>0, <1>3, <1>4
  <2>2. pc[r] = "add" /\ src[r] # NoPointer
    BY <1>0, <1>4 DEF IInv, Alone
  <2>3. src[r] \in Pointers /\ ref[src[r]] = o /\ dst[t] # src[r]
    BY <1>4, <2>2, NoPointerIsNone DEF IInv, Shape, SharedTypeOK, HasObject, Exclusive, DecRef
  <2>4. ~Uncounted(src[r])
    BY <2>2, <2>3 DEF IInv, Shape, Exclusive, Uncounted
  <2> QED
    BY <2>1, <2>3, <2>4 DEF Holders
<1> QED
  BY <1>3, <1>4

\* A step of one thread leaves the others where they are, with their objects.
Frame(t) ==
    \A r \in Threads \ {t} :
        /\ pc'[r] = pc[r] /\ dst'[r] = dst[r] /\ src'[r] = src[r]
        /\ pc[r] # "idle" => Here(r)' = Here(r)

\* The three remaining parts of the invariant, without the counts.
Kept == Alone /\ HeldExists /\ NoLeak

LEMMA KeptByNew ==
    ASSUME IInv, NEW t \in Threads, NEW p \in Pointers, NEW o \in Objects, New(t, p, o)
    PROVE  Kept'
<1>1. \A x \in Objects : Holders(x)' = Holders(x)
  BY HoldersStay DEF IInv
<1>2. Holders(o) = {} /\ o \notin live /\ live' = live \cup {o}
  BY NewObjectIsUncounted DEF New
<1>3. Frame(t)
  BY DEF Frame, IInv, Shape, SharedTypeOK, Exclusive, Here, New, Begin, Untouched
<1>4. pc'[t] = "add" /\ dst'[t] = p /\ Here(t)' = o
  BY DEF IInv, Shape, SharedTypeOK, Here, New, Begin
<1>5. \A r \in Threads : pc[r] \in {"add", "delete"} => Here(r) \in live
  BY DEF IInv, HeldExists
<1>6. Alone'
  <2> SUFFICES ASSUME NEW r \in Threads, NEW x \in Objects, Here(r)' = x,
                      pc'[r] = "delete" \/ (pc'[r] = "add" /\ src'[r] = NoPointer)
               PROVE  /\ Holders(x)' = {}
                      /\ \A w \in Threads \ {r} :
                            pc'[w] \in {"add", "delete"} => Here(w)' # x
    BY DEF Alone
  <2>1. CASE r = t
    BY <1>1, <1>2, <1>3, <1>4, <1>5, <2>1 DEF Frame
  <2>2. CASE r # t
    BY <1>1, <1>2, <1>3, <1>4, <1>5, <2>2 DEF Frame, IInv, Alone
  <2> QED
    BY <2>1, <2>2
<1>7. HeldExists'
  BY <1>1, <1>2, <1>3, <1>4, <1>5 DEF Frame, IInv, HeldExists
<1>8. NoLeak'
  <2> SUFFICES ASSUME NEW x \in live', Holders(x)' = {}
               PROVE  \E r \in Threads : pc'[r] \in {"add", "delete"} /\ Here(r)' = x
    BY DEF NoLeak
  <2>1. CASE x = o
    BY <1>4, <2>1
  <2>2. CASE x # o
    <3>1. x \in live /\ Holders(x) = {}
      BY <1>1, <1>2, <2>2 DEF IInv, Shape, SharedTypeOK
    <3>2. PICK r \in Threads : pc[r] \in {"add", "delete"} /\ Here(r) = x
      BY <3>1 DEF IInv, NoLeak
    <3>3. r # t
      BY <3>2 DEF New, Begin
    <3> QED
      BY <1>3, <3>2, <3>3 DEF Frame
  <2> QED
    BY <2>1, <2>2
<1> QED
  BY <1>6, <1>7, <1>8 DEF Kept

\* The steps of one thread leave the others alone.
LEMMA FrameHolds ==
    ASSUME Shape, NEW t \in Threads,
           \/ \E p, q \in Pointers : Copy(t, p, q) \/ Assign(t, p, q)
           \/ \E p \in Pointers : Destroy(t, p)
           \/ DecRef(t) \/ Delete(t) \/ Clear(t) \/ Set(t) \/ AddRef(t)
    PROVE  Frame(t)
<1> USE DEF Frame, Shape, SharedTypeOK, Exclusive, Here
<1>1. ASSUME NEW p \in Pointers, NEW q \in Pointers, Copy(t, p, q)
      PROVE  Frame(t)
  BY <1>1 DEF Copy, Begin, Untouched, Unwritten
<1>2. ASSUME NEW p \in Pointers, NEW q \in Pointers, Assign(t, p, q)
      PROVE  Frame(t)
  BY <1>2 DEF Assign, Begin
<1>3. ASSUME NEW p \in Pointers, Destroy(t, p)
      PROVE  Frame(t)
  BY <1>3 DEF Destroy, Begin
<1>4. CASE DecRef(t)
  BY <1>4 DEF DecRef
<1>5. CASE Delete(t)
  BY <1>5 DEF Delete
<1>6. CASE Clear(t)
  BY <1>6 DEF Clear, End
<1>7. CASE Set(t)
  BY <1>7 DEF Set
<1>8. CASE AddRef(t)
  BY <1>8 DEF AddRef, End
<1> QED
  BY <1>1, <1>2, <1>3, <1>4, <1>5, <1>6, <1>7, <1>8

\* A thread that neither counts nor deletes, before or after, disturbs nothing.
LEMMA KeptQuietly ==
    ASSUME IInv, NEW t \in Threads, Frame(t), live' = live,
           \A x \in Objects : Holders(x)' = Holders(x),
           pc[t] \notin {"add", "delete"}, pc'[t] \notin {"add", "delete"}
    PROVE  Kept'
<1>1. Alone'
  BY DEF Frame, IInv, Alone
<1>2. HeldExists'
  BY DEF Frame, IInv, HeldExists
<1>3. NoLeak'
  <2> SUFFICES ASSUME NEW x \in live', Holders(x)' = {}
               PROVE  \E r \in Threads : pc'[r] \in {"add", "delete"} /\ Here(r)' = x
    BY DEF NoLeak
  <2>1. PICK r \in Threads : pc[r] \in {"add", "delete"} /\ Here(r) = x
    BY DEF IInv, Shape, SharedTypeOK, NoLeak
  <2> QED
    BY <2>1 DEF Frame
<1> QED
  BY <1>1, <1>2, <1>3 DEF Kept

\* A thread that is about to count a copy has the object of a holder.
LEMMA KeptByCopying ==
    ASSUME IInv, NEW t \in Threads, Frame(t), live' = live,
           \A x \in Objects : Holders(x)' = Holders(x),
           pc[t] \notin {"add", "delete"}, pc'[t] = "add", src'[t] # NoPointer,
           NEW o \in Objects, Here(t)' = o, Holders(o) # {}
    PROVE  Kept'
<1>1. Alone'
  <2> SUFFICES ASSUME NEW r \in Threads, NEW x \in Objects, Here(r)' = x,
                      pc'[r] = "delete" \/ (pc'[r] = "add" /\ src'[r] = NoPointer)
               PROVE  /\ Holders(x)' = {}
                      /\ \A w \in Threads \ {r} :
                            pc'[w] \in {"add", "delete"} => Here(w)' # x
    BY DEF Alone
  <2>1. r # t
    OBVIOUS
  <2>2. Holders(x) = {} /\ \A w \in Threads \ {r} : pc[w] \in {"add", "delete"} => Here(w) # x
    BY <2>1 DEF Frame, IInv, Alone
  <2> QED
    BY <2>1, <2>2 DEF Frame
<1>2. HeldExists'
  BY DEF Frame, IInv, HeldExists
<1>3. NoLeak'
  <2> SUFFICES ASSUME NEW x \in live', Holders(x)' = {}
               PROVE  \E r \in Threads : pc'[r] \in {"add", "delete"} /\ Here(r)' = x
    BY DEF NoLeak
  <2>1. PICK r \in Threads : pc[r] \in {"add", "delete"} /\ Here(r) = x
    BY DEF IInv, Shape, SharedTypeOK, NoLeak
  <2> QED
    BY <2>1 DEF Frame
<1> QED
  BY <1>1, <1>2, <1>3 DEF Kept

LEMMA KeptByCopyAndSet ==
    ASSUME IInv, NEW t \in Threads,
           \/ \E p, q \in Pointers : Copy(t, p, q)
           \/ Set(t)
    PROVE  Kept'
<1>1. Frame(t) /\ \A x \in Objects : Holders(x)' = Holders(x)
  BY FrameHolds, HoldersStay DEF IInv
<1> USE NullIsNoObject, NoPointerIsNone
    DEF IInv, Shape, SharedTypeOK, Exclusive, Here, Uncounted, Holders
<1>2. ASSUME NEW p \in Pointers, NEW q \in Pointers, Copy(t, p, q)
      PROVE  Kept'
  <2>1. ref[q] \in Objects /\ Here(t)' = ref[q] /\ src'[t] # NoPointer
    BY <1>2 DEF Copy, Begin
  <2>2. q \in Holders(ref[q])
    BY <1>2, <2>1 DEF Copy, Unwritten
  <2>3. pc[t] = "idle" /\ pc'[t] = "add" /\ live' = live
    BY <1>2 DEF Copy, Begin
  <2> QED
    BY <1>1, <2>1, <2>2, <2>3, KeptByCopying
<1>3. CASE Set(t)
  <2>1. /\ src[t] \in Pointers /\ ref[src[t]] \in Objects
        /\ Here(t)' = ref[src[t]] /\ src'[t] = src[t] /\ src'[t] # NoPointer
    BY <1>3 DEF Set, Source
  <2>2. src[t] \in Holders(ref[src[t]])
    BY <1>3, <2>1
  <2>3. pc[t] = "set" /\ pc'[t] = "add" /\ live' = live
    BY <1>3 DEF Set
  <2> QED
    BY <1>1, <2>1, <2>2, <2>3, KeptByCopying
<1> QED
  BY <1>2, <1>3

LEMMA KeptByQuietSteps ==
    ASSUME IInv, NEW t \in Threads,
           \/ \E p, q \in Pointers : Assign(t, p, q)
           \/ \E p \in Pointers : Destroy(t, p)
           \/ Clear(t)
    PROVE  Kept'
<1>1. Frame(t) /\ \A x \in Objects : Holders(x)' = Holders(x)
  BY FrameHolds, HoldersStay DEF IInv
<1>2. /\ live' = live
      /\ pc[t] \notin {"add", "delete"} /\ pc'[t] \notin {"add", "delete"}
  BY DEF IInv, Shape, SharedTypeOK, Assign, Destroy, Clear, Begin, End
<1> QED
  BY <1>1, <1>2, KeptQuietly

LEMMA KeptByDecRef ==
    ASSUME IInv, NEW t \in Threads, DecRef(t)
    PROVE  Kept'
<1> DEFINE o == Here(t)
<1>1. Frame(t)
  BY FrameHolds DEF IInv
<1>2. o \in Objects /\ \A x \in Objects :
         Holders(x)' = IF x = o THEN Holders(x) \ {dst[t]} ELSE Holders(x)
  BY DecRefHolders DEF IInv
<1>3. pc[t] = "dec" /\ live' = live /\ Here(t)' = o
  BY DEF DecRef, Here
<1>4. pc'[t] = IF count[o] = 1 THEN "delete" ELSE "set"
  BY DEF DecRef, IInv, Shape, SharedTypeOK
<1>5. PICK y \in Objects : y = o
  BY <1>2
<1>6. /\ count[y] = 1 =>
            /\ Holders(y)' = {}
            /\ \A r \in Threads \ {t} : pc[r] \in {"add", "delete"} => Here(r) # y
      /\ count[y] # 1 => Holders(y)' # {}
  BY <1>5, LastPointer
<1>7. y \in live
  BY <1>2, <1>5, DecRefHolders DEF IInv, HeldExists
<1> HIDE DEF o
<1>8. Alone'
  <2> SUFFICES ASSUME NEW r \in Threads, NEW x \in Objects, Here(r)' = x,
                      pc'[r] = "delete" \/ (pc'[r] = "add" /\ src'[r] = NoPointer)
               PROVE  /\ Holders(x)' = {}
                      /\ \A w \in Threads \ {r} :
                            pc'[w] \in {"add", "delete"} => Here(w)' # x
    BY DEF Alone
  <2>1. CASE r = t
    BY <1>1, <1>3, <1>4, <1>5, <1>6, <2>1 DEF Frame
  <2>2. CASE r # t
    <3>1. Holders(x) = {} /\ \A w \in Threads \ {r} : pc[w] \in {"add", "delete"} => Here(w) # x
      BY <1>1, <2>2 DEF Frame, IInv, Alone
    <3>2. Holders(x)' = {}
      BY <1>2, <3>1
    <3>3. pc'[t] = "delete" => Here(t)' # x
      BY <1>1, <1>3, <1>4, <1>5, <1>6, <2>2 DEF Frame
    <3> QED
      BY <1>1, <1>4, <3>1, <3>2, <3>3 DEF Frame
  <2> QED
    BY <2>1, <2>2
<1>9. HeldExists'
  BY <1>1, <1>2, <1>3, <1>5, <1>7 DEF Frame, IInv, HeldExists
<1>10. NoLeak'
  <2> SUFFICES ASSUME NEW x \in live', Holders(x)' = {}
               PROVE  \E r \in Threads : pc'[r] \in {"add", "delete"} /\ Here(r)' = x
    BY DEF NoLeak
  <2>1. CASE x = o
    BY <1>3, <1>4, <1>5, <1>6, <2>1
  <2>2. CASE x # o
    <3>1. x \in live /\ Holders(x) = {}
      BY <1>2, <1>3, <2>2 DEF IInv, Shape, SharedTypeOK
    <3>2. PICK r \in Threads : pc[r] \in {"add", "delete"} /\ Here(r) = x
      BY <3>1 DEF IInv, NoLeak
    <3> QED
      BY <1>1, <1>3, <3>2 DEF Frame
  <2> QED
    BY <2>1, <2>2
<1> QED
  BY <1>8, <1>9, <1>10 DEF Kept

LEMMA KeptByDelete ==
    ASSUME IInv, NEW t \in Threads, Delete(t)
    PROVE  Kept'
<1>1. Frame(t) /\ \A x \in Objects : Holders(x)' = Holders(x)
  BY FrameHolds, HoldersStay DEF IInv
<1>2. PICK o \in Objects : o = Here(t)
  BY DEF IInv, Shape, SharedTypeOK, HeldExists, Delete
<1>3. /\ Holders(o) = {}
      /\ \A r \in Threads \ {t} : pc[r] \in {"add", "delete"} => Here(r) # o
  BY <1>2 DEF IInv, Alone, Delete
<1>4. live' = live \ {o} /\ pc[t] = "delete" /\ pc'[t] = "set"
  BY <1>2 DEF Delete, IInv, Shape, SharedTypeOK
<1>5. Alone'
  BY <1>1, <1>4 DEF Frame, IInv, Alone
<1>6. HeldExists'
  BY <1>1, <1>3, <1>4 DEF Frame, IInv, HeldExists
<1>7. NoLeak'
  <2> SUFFICES ASSUME NEW x \in live', Holders(x)' = {}
               PROVE  \E r \in Threads : pc'[r] \in {"add", "delete"} /\ Here(r)' = x
    BY DEF NoLeak
  <2>1. x \in live /\ Holders(x) = {} /\ x # o
    BY <1>1, <1>4 DEF IInv, Shape, SharedTypeOK
  <2>2. PICK r \in Threads : pc[r] \in {"add", "delete"} /\ Here(r) = x
    BY <2>1 DEF IInv, NoLeak
  <2> QED
    BY <1>1, <1>2, <2>1, <2>2 DEF Frame
<1> QED
  BY <1>5, <1>6, <1>7 DEF Kept

LEMMA KeptByAddRef ==
    ASSUME IInv, NEW t \in Threads, AddRef(t)
    PROVE  Kept'
<1>1. Frame(t)
  BY FrameHolds DEF IInv
<1>2. PICK o \in Objects : o = Here(t)
  BY AddRefHolders DEF IInv
<1>3. \A x \in Objects : Holders(x)' = IF x = o THEN Holders(x) \cup {dst[t]} ELSE Holders(x)
  BY <1>2, AddRefHolders DEF IInv
<1>4. live' = live /\ pc[t] = "add" /\ pc'[t] = "idle" /\ o \in live
  BY <1>2 DEF AddRef, End, IInv, Shape, SharedTypeOK, HeldExists
<1>5. Alone'
  BY <1>1, <1>2, <1>3, <1>4 DEF Frame, IInv, Alone
<1>6. HeldExists'
  BY <1>1, <1>3, <1>4 DEF Frame, IInv, HeldExists
<1>7. NoLeak'
  <2> SUFFICES ASSUME NEW x \in live', Holders(x)' = {}
               PROVE  \E r \in Threads : pc'[r] \in {"add", "delete"} /\ Here(r)' = x
    BY DEF NoLeak
  <2>1. x \in live /\ Holders(x) = {} /\ x # o
    BY <1>3, <1>4 DEF IInv, Shape, SharedTypeOK
  <2>2. PICK r \in Threads : pc[r] \in {"add", "delete"} /\ Here(r) = x
    BY <2>1 DEF IInv, NoLeak
  <2> QED
    BY <1>1, <1>2, <2>1, <2>2 DEF Frame
<1> QED
  BY <1>5, <1>6, <1>7 DEF Kept

-------------------------------------------------------------------------------

LEMMA StepIInv == IInv /\ [SharedNext]_sharedVars => IInv'
<1> SUFFICES ASSUME IInv, [SharedNext]_sharedVars PROVE IInv'
  OBVIOUS
<1>1. Shape' /\ CountIsHolders'
  BY ShapeHolds, CountsHold DEF IInv
<1>2. Kept'
  <2>1. ASSUME NEW t \in Threads, PointerStep(t)
        PROVE  Kept'
    BY <2>1, KeptByCopyAndSet, KeptByQuietSteps, KeptByDecRef, KeptByAddRef DEF PointerStep
  <2>2. CASE UNCHANGED sharedVars
    BY <2>2 DEF sharedVars, Kept, IInv, Alone, HeldExists, NoLeak, Holders, Uncounted, Here
  <2> QED
    BY <2>1, <2>2, KeptByNew, KeptByDelete DEF SharedNext
<1> QED
  BY <1>1, <1>2 DEF IInv, Kept

\* The invariant implies the properties that the runs check.
LEMMA IInvImplies ==
    IInv => SharedTypeOK /\ CountIsHolders /\ NoDangling /\ DeletedAlone /\ NoLeak
<1> SUFFICES ASSUME IInv
             PROVE  SharedTypeOK /\ CountIsHolders /\ NoDangling /\ DeletedAlone /\ NoLeak
  OBVIOUS
<1>1. NoDangling
  BY DEF IInv, Shape, SharedTypeOK, HeldExists, NoDangling, Holders
<1>2. DeletedAlone
  <2> SUFFICES ASSUME NEW t \in Threads, pc[t] = "delete"
               PROVE  /\ Holders(Here(t)) = {}
                      /\ \A r \in Threads \ {t} : pc[r] \in {"add", "delete"} => Here(r) # Here(t)
    BY DEF DeletedAlone
  <2>1. Here(t) \in Objects
    BY DEF IInv, Shape, SharedTypeOK, HeldExists
  <2> QED
    BY <2>1 DEF IInv, Alone
<1> QED
  BY <1>1, <1>2 DEF IInv, Shape

-------------------------------------------------------------------------------
(* Pages *)

\* Every step of Pages is a step of Shared, or none.
LEMMA StepIsShared == [Next]_vars => [SharedNext]_sharedVars
<1> SUFFICES ASSUME [Next]_vars PROVE [SharedNext]_sharedVars
  OBVIOUS
<1>1. ASSUME NEW t \in Threads, MovePointer(t) \/ DeletePage(t)
      PROVE  SharedNext
  BY <1>1 DEF MovePointer, DeletePage, SharedNext
<1>2. ASSUME NEW t \in Threads, NEW n \in Lengths, PoolIsEmpty(t, n)
      PROVE  UNCHANGED sharedVars
  BY <1>2 DEF PoolIsEmpty
<1>3. ASSUME NEW t \in Threads, NEW p \in Pointers, NEW o \in Objects,
             \/ NewEmpty(t, p, o) \/ NewWithoutMemory(t, p, o)
             \/ \E b \in Blocks : \/ NewFromMalloc(t, p, o, b)
                                  \/ \E n \in Lengths : NewFromPool(t, p, o, n, b)
      PROVE  SharedNext
  BY <1>3 DEF NewEmpty, NewWithoutMemory, NewFromMalloc, NewFromPool, Constructed, SharedNext
<1>4. CASE Exit
  BY <1>4 DEF Exit
<1>5. CASE UNCHANGED vars
  BY <1>5 DEF vars
<1> QED
  BY <1>1, <1>2, <1>3, <1>4, <1>5 DEF Next

\* Pages keeps the inductive invariant of Shared.
THEOREM CountsAreInvariant == Spec => []IInv
<1>1. Init => IInv
  BY InitIInv DEF Init
<1>2. IInv /\ [Next]_vars => IInv'
  BY StepIsShared, StepIInv
<1> QED
  BY <1>1, <1>2, PTL DEF Spec

\* The count of a page is the number of pointers that keep it, in every state.
THEOREM CountsAreHolders == Spec => []CountIsHolders
<1>1. IInv => CountIsHolders
  BY IInvImplies
<1> QED
  BY <1>1, CountsAreInvariant, PTL

\* No pointer to a page dangles.
THEOREM NothingDangles == Spec => []NoDangling
<1>1. IInv => NoDangling
  BY IInvImplies
<1> QED
  BY <1>1, CountsAreInvariant, PTL

\* A page is deleted by one thread, and when nobody else uses it.
THEOREM DeletionIsExclusive == Spec => []DeletedAlone
<1>1. IInv => DeletedAlone
  BY IInvImplies
<1> QED
  BY <1>1, CountsAreInvariant, PTL

\* No page leaks.
THEOREM NothingLeaks == Spec => []NoLeak
<1>1. IInv => NoLeak
  BY IInvImplies
<1> QED
  BY <1>1, CountsAreInvariant, PTL

-------------------------------------------------------------------------------
(* The size classes. *)

\* The intervals from zero are finite sets, and those are well-founded.
LEMMA NonemptyHasMin ==
    ASSUME NEW S \in SUBSET Nat, S # {}
    PROVE  Min(S) \in S /\ \A x \in S : Min(S) <= x
<1> DEFINE T == {0..x : x \in S}
<1>1. T \subseteq FiniteSubsetsOf(Nat) /\ T # {}
  <2>1. \A x \in S : 0..x \in SUBSET Nat /\ IsFiniteSet(0..x)
    BY FS_Interval
  <2> QED
    BY <2>1 DEF FiniteSubsetsOf
<1>2. PICK U \in T : \A V \in T : <<V, U>> \notin StrictSubsetOrdering(Nat)
  <2> HIDE DEF T
  <2> QED
    BY <1>1, FS_StrictSubsetOrderingWellFounded, WFMin
<1>3. PICK x \in S : U = 0..x
  OBVIOUS
<1>4. ASSUME NEW y \in S, y < x
      PROVE  FALSE
  <2>1. 0..y \in T /\ 0..y \subseteq U /\ 0..y # U
    BY <1>3, <1>4
  <2>2. 0..y \in SUBSET Nat /\ U \in SUBSET Nat
    BY <1>3
  <2> QED
    BY <1>2, <2>1, <2>2 DEF StrictSubsetOrdering
<1>5. \A y \in S : x <= y
  BY <1>4
<1> QED
  BY <1>5 DEF Min

LEMMA AdjustSizeFits ==
    ASSUME NEW n \in Lengths
    PROVE  /\ AdjustSize(n) \in Nat /\ n <= AdjustSize(n)
           /\ AdjustSize(n) <= Largest => AdjustSize(n) \in Classes
<1>1. CASE n <= Largest
  <2> DEFINE S == {c \in Classes : n <= c}
  <2>1. S \in SUBSET Nat /\ S # {}
    BY <1>1, ClassesAreSizes, LargestIsTheLast
  <2>2. Min(S) \in S
    BY <2>1, NonemptyHasMin
  <2> QED
    BY <1>1, <2>2, ClassesAreSizes DEF AdjustSize
<1>2. CASE ~(n <= Largest)
  BY <1>2, LengthsAreSizes, ClassesAreSizes, LargestIsTheLast DEF AdjustSize
<1> QED
  BY <1>1, <1>2

-------------------------------------------------------------------------------
(* The free lists. *)

LEMMA FrontAndLast ==
    ASSUME NEW S, NEW s \in Seq(S), s # <<>>
    PROVE  /\ Front(s) \in Seq(S) /\ Len(Front(s)) = Len(s) - 1
           /\ Len(s) \in DOMAIN s /\ Last(s) = s[Len(s)]
           /\ \A i \in 1..(Len(s) - 1) : Front(s)[i] = s[i]
<1>1. Len(s) \in Nat \ {0} /\ DOMAIN s = 1..Len(s) /\ \A i \in 1..Len(s) : s[i] \in S
  OBVIOUS
<1>2. /\ Front(s) \in Seq(S) /\ Len(Front(s)) = Len(s) - 1
      /\ \A i \in 1..(Len(s) - 1) : Front(s)[i] = s[i]
  BY <1>1, SubSeqProperties DEF Front
<1> QED
  BY <1>1, <1>2 DEF Last

\* No block is twice on the lists.
NoTwice ==
    \A c, d \in Classes : \A i \in DOMAIN free[c], j \in DOMAIN free[d] :
        free[c][i] = free[d][j] => c = d /\ i = j

LEMMA ListedMeans ==
    ASSUME PoolTypeOK
    PROVE  \A b : b \in Listed <=> \E c \in Classes : \E i \in 1..Len(free[c]) : free[c][i] = b
<1>1. \A c \in Classes : DOMAIN free[c] = 1..Len(free[c])
  BY DEF PoolTypeOK
<1>2. ASSUME NEW b, b \in Listed
      PROVE  \E c \in Classes : \E i \in 1..Len(free[c]) : free[c][i] = b
  BY <1>1, <1>2 DEF Listed, ToSet
<1>3. ASSUME NEW b, NEW c \in Classes, NEW i \in 1..Len(free[c]), free[c][i] = b
      PROVE  b \in Listed
  BY <1>1, <1>3 DEF Listed, ToSet
<1> QED
  BY <1>2, <1>3

LEMMA ListedAreBlocks ==
    ASSUME PoolTypeOK
    PROVE  Listed \subseteq Blocks
<1> SUFFICES ASSUME NEW b \in Listed PROVE b \in Blocks
  OBVIOUS
<1>1. PICK c \in Classes : \E i \in 1..Len(free[c]) : free[c][i] = b
  BY ListedMeans
<1>2. free[c] \in Seq(Blocks)
  BY DEF PoolTypeOK
<1> QED
  BY <1>1, <1>2

LEMMA ListedMeansPrime ==
    ASSUME PoolTypeOK'
    PROVE  \A b : b \in Listed' <=> \E c \in Classes : \E i \in 1..Len(free'[c]) : free'[c][i] = b
<1>1. \A c \in Classes : DOMAIN free'[c] = 1..Len(free'[c])
  BY DEF PoolTypeOK
<1>2. ASSUME NEW b, b \in Listed'
      PROVE  \E c \in Classes : \E i \in 1..Len(free'[c]) : free'[c][i] = b
  BY <1>1, <1>2 DEF Listed, ToSet
<1>3. ASSUME NEW b, NEW c \in Classes, NEW i \in 1..Len(free'[c]), free'[c][i] = b
      PROVE  b \in Listed'
  BY <1>1, <1>3 DEF Listed, ToSet
<1> QED
  BY <1>2, <1>3

LEMMA TakeFreeLists ==
    ASSUME PoolTypeOK, NoTwice, NEW n \in Lengths, NEW b \in Blocks, TakeFree(n, b)
    PROVE  /\ PoolTypeOK' /\ NoTwice'
           /\ AdjustSize(n) \in Classes /\ b \in Listed /\ Listed' = Listed \ {b}
           /\ \E i \in 1..Len(free[AdjustSize(n)]) : free[AdjustSize(n)][i] = b
<1> DEFINE k == AdjustSize(n)
<1>1. k \in Classes /\ free[k] \in Seq(Blocks) /\ free[k] # <<>>
  BY AdjustSizeFits DEF TakeFree, Pooled, PoolTypeOK
<1>2. /\ free' = [free EXCEPT ![k] = Front(@)]
      /\ b = Last(free[k]) /\ UNCHANGED <<header, bytes, closed>>
  BY DEF TakeFree
<1>3. /\ Front(free[k]) \in Seq(Blocks) /\ Len(Front(free[k])) = Len(free[k]) - 1
      /\ Len(free[k]) \in DOMAIN free[k] /\ b = free[k][Len(free[k])]
      /\ \A i \in 1..(Len(free[k]) - 1) : Front(free[k])[i] = free[k][i]
  BY <1>1, <1>2, FrontAndLast
<1> HIDE DEF k
<1>4. PoolTypeOK'
  BY <1>1, <1>2, <1>3 DEF PoolTypeOK
<1>5. \A c \in Classes :
         /\ free'[c] \in Seq(Blocks) /\ free[c] \in Seq(Blocks)
         /\ Len(free'[c]) = IF c = k THEN Len(free[c]) - 1 ELSE Len(free[c])
         /\ \A i \in 1..Len(free'[c]) : free'[c][i] = free[c][i]
  BY <1>1, <1>2, <1>3 DEF PoolTypeOK
<1>6. NoTwice'
  <2>1. \A c \in Classes :
           /\ DOMAIN free'[c] \subseteq DOMAIN free[c]
           /\ \A i \in DOMAIN free'[c] : free'[c][i] = free[c][i]
    BY <1>5
  <2> QED
    BY <2>1 DEF NoTwice
<1>7. b \in Listed
  BY <1>1, <1>3, ListedMeans
<1>8. ASSUME NEW x
      PROVE  x \in Listed' <=> x \in Listed \ {b}
  <2>1. ASSUME x \in Listed'
        PROVE  x \in Listed \ {b}
    <3>1. PICK c \in Classes : \E i \in 1..Len(free'[c]) : free'[c][i] = x
      BY <1>4, <2>1, ListedMeansPrime
    <3>2. PICK i \in 1..Len(free'[c]) : free'[c][i] = x
      BY <3>1
    <3>3. i \in 1..Len(free[c]) /\ free[c][i] = x /\ (c = k => i # Len(free[c]))
      BY <1>5, <3>2
    <3>4. x # b
      BY <1>1, <1>3, <1>5, <3>3 DEF NoTwice
    <3> QED
      BY <3>3, <3>4, ListedMeans
  <2>2. ASSUME x \in Listed, x # b
        PROVE  x \in Listed'
    <3>1. PICK c \in Classes : \E i \in 1..Len(free[c]) : free[c][i] = x
      BY <2>2, ListedMeans
    <3>2. PICK i \in 1..Len(free[c]) : free[c][i] = x
      BY <3>1
    <3>3. i \in 1..Len(free'[c]) /\ free'[c][i] = x
      BY <1>3, <1>5, <2>2, <3>2
    <3> QED
      BY <1>4, <3>3, ListedMeansPrime
  <2> QED
    BY <2>1, <2>2
<1>9. Listed' = Listed \ {b}
  BY <1>8
<1>10. \E i \in 1..Len(free[k]) : free[k][i] = b
  BY <1>1, <1>3
<1> QED
  BY <1>1, <1>4, <1>6, <1>7, <1>9, <1>10 DEF k

LEMMA PutMemoryLists ==
    ASSUME PoolTypeOK, NoTwice, NEW b \in Blocks, b \notin Listed,
           header[b] \in Classes, header[b] <= Largest, PutMemory(b)
    PROVE  /\ PoolTypeOK' /\ NoTwice' /\ Listed' = Listed \cup {b}
           /\ \A c \in Classes : \A i \in 1..Len(free'[c]) :
                 (free'[c][i] = b /\ c = header[b]) \/ \E j \in 1..Len(free[c]) : free'[c][i] = free[c][j]
<1> DEFINE k == header[b]
<1>1. /\ k \in Classes /\ free[k] \in Seq(Blocks)
      /\ free' = [free EXCEPT ![k] = Append(@, b)] /\ UNCHANGED <<header, bytes, closed>>
  BY ClassesAreSizes, LargestIsTheLast DEF PutMemory, PoolTypeOK
<1>2. /\ Append(free[k], b) \in Seq(Blocks) /\ Len(Append(free[k], b)) = Len(free[k]) + 1
      /\ Append(free[k], b)[Len(free[k]) + 1] = b
      /\ \A i \in 1..Len(free[k]) : Append(free[k], b)[i] = free[k][i]
  BY <1>1
<1> HIDE DEF k
<1>3. PoolTypeOK'
  BY <1>1, <1>2 DEF PoolTypeOK
<1>4. \A c \in Classes :
         /\ free'[c] \in Seq(Blocks) /\ free[c] \in Seq(Blocks)
         /\ DOMAIN free'[c] = 1..Len(free'[c]) /\ DOMAIN free[c] = 1..Len(free[c])
         /\ Len(free'[c]) = IF c = k THEN Len(free[c]) + 1 ELSE Len(free[c])
         /\ \A i \in 1..Len(free[c]) : free'[c][i] = free[c][i]
  BY <1>1, <1>2 DEF PoolTypeOK
<1>5. free'[k][Len(free[k]) + 1] = b
  BY <1>1, <1>2 DEF PoolTypeOK
<1>6. \A c \in Classes : \A i \in 1..Len(free'[c]) :
         \/ c = k /\ i = Len(free[k]) + 1 /\ free'[c][i] = b
         \/ i \in 1..Len(free[c]) /\ free'[c][i] = free[c][i] /\ free[c][i] # b
  <2> SUFFICES ASSUME NEW c \in Classes, NEW i \in 1..Len(free'[c])
               PROVE  \/ c = k /\ i = Len(free[k]) + 1 /\ free'[c][i] = b
                      \/ i \in 1..Len(free[c]) /\ free'[c][i] = free[c][i] /\ free[c][i] # b
    OBVIOUS
  <2>1. CASE i \in 1..Len(free[c])
    <3>1. free[c][i] \in Listed
      BY <2>1, ListedMeans
    <3> QED
      BY <1>4, <2>1, <3>1
  <2>2. CASE i \notin 1..Len(free[c])
    <3>1. Len(free[c]) \in Nat /\ Len(free'[c]) \in Nat
      BY <1>4
    <3>2. c = k /\ i = Len(free[k]) + 1
      BY <1>4, <2>2, <3>1
    <3> QED
      BY <1>5, <3>2
  <2> QED
    BY <2>1, <2>2
<1>7. NoTwice'
  <2>1. ASSUME NEW c \in Classes, NEW d \in Classes, NEW i \in DOMAIN free'[c],
               NEW j \in DOMAIN free'[d], free'[c][i] = free'[d][j]
        PROVE  c = d /\ i = j
    <3>1. i \in 1..Len(free'[c]) /\ j \in 1..Len(free'[d])
      <4>1. DOMAIN free'[c] = 1..Len(free'[c]) /\ DOMAIN free'[d] = 1..Len(free'[d])
        BY <1>4
      <4> QED
        BY <2>1, <4>1
    <3>2. CASE free'[c][i] = b
      <4>1. c = k /\ i = Len(free[k]) + 1
        BY <1>6, <3>1, <3>2
      <4>2. free'[d][j] = b
        BY <2>1, <3>2
      <4>3. d = k /\ j = Len(free[k]) + 1
        BY <1>6, <3>1, <4>2
      <4> QED
        BY <4>1, <4>3
    <3>3. CASE free'[c][i] # b
      <4>1. /\ i \in 1..Len(free[c]) /\ free'[c][i] = free[c][i]
            /\ j \in 1..Len(free[d]) /\ free'[d][j] = free[d][j]
        BY <1>6, <2>1, <3>1, <3>3
      <4>2. DOMAIN free[c] = 1..Len(free[c]) /\ DOMAIN free[d] = 1..Len(free[d])
        BY <1>4
      <4>3. i \in DOMAIN free[c] /\ j \in DOMAIN free[d] /\ free[c][i] = free[d][j]
        BY <2>1, <4>1, <4>2
      <4> QED
        BY <4>3 DEF NoTwice
    <3> QED
      BY <3>2, <3>3
  <2> QED
    BY <2>1 DEF NoTwice
<1>8. ASSUME NEW x
      PROVE  x \in Listed' <=> x \in Listed \cup {b}
  <2>1. ASSUME x \in Listed'
        PROVE  x \in Listed \cup {b}
    <3>1. PICK c \in Classes : \E i \in 1..Len(free'[c]) : free'[c][i] = x
      BY <1>3, <2>1, ListedMeansPrime
    <3> QED
      BY <1>6, <3>1, ListedMeans
  <2>2. ASSUME x \in Listed
        PROVE  x \in Listed'
    <3>1. PICK c \in Classes : \E i \in 1..Len(free[c]) : free[c][i] = x
      BY <2>2, ListedMeans
    <3>2. PICK i \in 1..Len(free[c]) : free[c][i] = x
      BY <3>1
    <3>3. i \in 1..Len(free'[c]) /\ free'[c][i] = x
      BY <1>4, <3>2
    <3> QED
      BY <1>3, <3>3, ListedMeansPrime
  <2>3. b \in Listed'
    <3>1. Len(free[k]) + 1 \in 1..Len(free'[k])
      BY <1>1, <1>4
    <3> QED
      BY <1>1, <1>3, <1>5, <3>1, ListedMeansPrime
  <2> QED
    BY <2>1, <2>2, <2>3
<1>9. Listed' = Listed \cup {b}
  BY <1>8
<1> QED
  BY <1>3, <1>6, <1>7, <1>9 DEF k

\* ~MemoryPool leaves no list, and frees what was on them.
LEMMA ClosePoolLists ==
    ASSUME PoolTypeOK, ClosePool
    PROVE  /\ PoolTypeOK' /\ NoTwice' /\ Listed' = {}
           /\ Allocated' = Allocated \ Listed
           /\ \A b \in Blocks : bytes'[b] > 0 => bytes'[b] = bytes[b]
           /\ header' = header
<1>1. /\ free' = [c \in Classes |-> <<>>] /\ header' = header /\ closed' = TRUE
      /\ bytes' = [b \in Blocks |-> IF b \in Listed THEN 0 ELSE bytes[b]]
  BY DEF ClosePool, Listed
<1>2. PoolTypeOK'
  BY <1>1 DEF PoolTypeOK
<1>3. NoTwice' /\ Listed' = {}
  BY <1>1 DEF NoTwice, Listed, ToSet
<1>4. Allocated' = Allocated \ Listed /\ \A b \in Blocks : bytes'[b] > 0 => bytes'[b] = bytes[b]
  BY <1>1 DEF Allocated, PoolTypeOK
<1> QED
  BY <1>1, <1>2, <1>3, <1>4

-------------------------------------------------------------------------------
(* The blocks and the pages. *)

\* What put_memory reads in front of a block is what malloc was asked for.
Headers ==
    \A b \in Blocks : bytes[b] > 0 =>
        /\ bytes[b] = header[b] + HeaderBytes
        /\ header[b] <= Largest => header[b] \in Classes

\* A block is on the list of its header.
ListsMatch == \A c \in Classes : \A i \in 1..Len(free[c]) : header[free[c][i]] = c

\* A page is not larger than what the header of its block says.
Room == \A o \in live : content[o] # NoBlock => size[o] <= header[content[o]]

\* BlockInOnePlace, in three parts.
Accounted ==
    \A b \in Blocks :
        bytes[b] > 0 <=> b \in Listed \/ \E o \in live : content[o] = b
Apart == \A o \in live : content[o] \notin Listed
Sole == \A o, p \in live : content[o] = content[p] /\ content[o] # NoBlock => o = p

\* After the destructor of the pool nothing goes on.
ClosedQuiet ==
    closed => /\ \A b \in Blocks : bytes[b] = 0
              /\ live = {}
              /\ \A t \in Threads : pc[t] = "idle" /\ making[t] = NoLength
              /\ \A p \in Pointers : ref[p] = Null

Places == Headers /\ ListsMatch /\ Room /\ Accounted /\ Apart /\ Sole /\ NoTwice

PagesInv == IInv /\ TypeOK /\ Places /\ ClosedQuiet

LEMMA InitPagesInv == Init => PagesInv
<1> SUFFICES ASSUME Init PROVE PagesInv
  OBVIOUS
<1>1. IInv
  BY InitIInv DEF Init
<1>2. PoolTypeOK /\ \A b : b \notin Listed
  <2>1. \A c \in Classes : free[c] = <<>>
    BY DEF Init, PoolInit
  <2>2. <<>> \in Seq(Blocks) /\ Len(<<>>) = 0
    OBVIOUS
  <2>3. PoolTypeOK
    BY <2>2 DEF Init, PoolInit, PoolTypeOK
  <2>4. \A c \in Classes : Len(free[c]) = 0
    BY <2>1, <2>2
  <2> QED
    BY <2>3, <2>4, ListedMeans
<1>3. TypeOK
  BY <1>1, <1>2 DEF IInv, Shape, Init, TypeOK
<1>4. Headers /\ ListsMatch /\ Room /\ Accounted /\ Apart /\ Sole /\ NoTwice
  BY <1>2 DEF Init, SharedInit, PoolInit, Headers, ListsMatch, Room, Accounted, Apart, Sole, NoTwice
<1>5. ClosedQuiet
  BY DEF Init, PoolInit, ClosedQuiet
<1> QED
  BY <1>1, <1>3, <1>4, <1>5 DEF PagesInv, Places

\* What a new page is.
LEMMA ConstructedPage ==
    ASSUME PagesInv, NEW t \in Threads, NEW p \in Pointers, NEW o \in Objects,
           NEW n \in Lengths \cup {0}, NEW b \in Blocks \cup {NoBlock}, Constructed(t, p, o, n, b)
    PROVE  /\ o \notin live /\ live' = live \cup {o}
           /\ content' \in [Objects -> Blocks \cup {NoBlock}] /\ size' \in [Objects -> Nat]
           /\ making' \in [Threads -> Lengths \cup {NoLength}]
           /\ \A x \in live : content'[x] = content[x] /\ size'[x] = size[x]
           /\ content'[o] = b /\ size'[o] = IF b = NoBlock THEN 0 ELSE n
<1>1. /\ content \in [Objects -> Blocks \cup {NoBlock}] /\ size \in [Objects -> Nat]
      /\ making \in [Threads -> Lengths \cup {NoLength}] /\ live \subseteq Objects
  BY DEF PagesInv, TypeOK, SharedTypeOK
<1>2. o \notin live /\ live' = live \cup {o} /\ n \in Nat
  BY LengthsAreSizes DEF Constructed, New
<1> QED
  BY <1>1, <1>2 DEF Constructed

\* A page without content leaves the pool as it is.
LEMMA NewEmptyPlaces ==
    ASSUME PagesInv, NEW t \in Threads, NEW p \in Pointers, NEW o \in Objects,
           NEW n \in Lengths \cup {0}, Constructed(t, p, o, n, NoBlock), UNCHANGED poolVars
    PROVE  Places' /\ PoolTypeOK'
<1>1. /\ o \notin live /\ live' = live \cup {o}
      /\ \A x \in live : content'[x] = content[x] /\ size'[x] = size[x]
      /\ content'[o] = NoBlock
  BY ConstructedPage
<1>2. /\ UNCHANGED <<free, header, bytes, closed>> /\ Listed' = Listed
      /\ PoolTypeOK /\ PoolTypeOK'
  BY DEF poolVars, Listed, PagesInv, TypeOK, PoolTypeOK
<1>3. NoBlock \notin Listed
  BY <1>2, NoBlockIsNone, ListedAreBlocks
<1>4. Headers' /\ ListsMatch' /\ NoTwice'
  BY <1>2 DEF PagesInv, Places, Headers, ListsMatch, NoTwice
<1>5. Room' /\ Accounted' /\ Apart' /\ Sole'
  BY <1>1, <1>2, <1>3, NoBlockIsNone DEF PagesInv, Places, Room, Accounted, Apart, Sole
<1> QED
  BY <1>2, <1>4, <1>5 DEF Places

\* A page with a block of the pool.
LEMMA NewFromPoolPlaces ==
    ASSUME PagesInv, NEW t \in Threads, NEW p \in Pointers, NEW o \in Objects,
           NEW n \in Lengths, NEW b \in Blocks, TakeFree(n, b), Constructed(t, p, o, n, b)
    PROVE  Places' /\ PoolTypeOK'
<1>1. /\ o \notin live /\ live' = live \cup {o}
      /\ \A x \in live : content'[x] = content[x] /\ size'[x] = size[x]
      /\ content'[o] = b /\ b # NoBlock /\ size'[o] = n
  BY ConstructedPage, NoBlockIsNone
<1>2. PoolTypeOK /\ NoTwice
  BY DEF PagesInv, TypeOK, Places
<1>3. /\ PoolTypeOK' /\ NoTwice' /\ b \in Listed /\ Listed' = Listed \ {b}
      /\ AdjustSize(n) \in Classes
      /\ \E i \in 1..Len(free[AdjustSize(n)]) : free[AdjustSize(n)][i] = b
  BY <1>2, TakeFreeLists
<1>4. UNCHANGED <<header, bytes, closed>> /\ n <= AdjustSize(n) /\ AdjustSize(n) \in Nat
  BY AdjustSizeFits DEF TakeFree
<1>5. header[b] = AdjustSize(n)
  BY <1>3 DEF PagesInv, Places, ListsMatch
<1>6. Headers'
  BY <1>4 DEF PagesInv, Places, Headers
<1>7. ListsMatch'
  <2> SUFFICES ASSUME NEW c \in Classes, NEW i \in 1..Len(free'[c])
               PROVE  header'[free'[c][i]] = c
    BY DEF ListsMatch
  <2>1. free[AdjustSize(n)] \in Seq(Blocks) /\ free[AdjustSize(n)] # <<>>
    BY <1>2, <1>3 DEF TakeFree, Pooled, PoolTypeOK
  <2>2. /\ Len(Front(free[AdjustSize(n)])) = Len(free[AdjustSize(n)]) - 1
        /\ \A j \in 1..(Len(free[AdjustSize(n)]) - 1) :
              Front(free[AdjustSize(n)])[j] = free[AdjustSize(n)][j]
    BY <2>1, FrontAndLast
  <2>3. free'[c] = IF c = AdjustSize(n) THEN Front(free[c]) ELSE free[c]
    BY <1>2 DEF TakeFree, PoolTypeOK
  <2>4. i \in 1..Len(free[c]) /\ free'[c][i] = free[c][i]
    BY <2>1, <2>2, <2>3
  <2> QED
    BY <1>4, <2>4 DEF PagesInv, Places, ListsMatch
<1>8. Room' /\ Accounted' /\ Apart' /\ Sole'
  BY <1>1, <1>3, <1>4, <1>5 DEF PagesInv, Places, Room, Accounted, Apart, Sole
<1> QED
  BY <1>3, <1>6, <1>7, <1>8 DEF Places

\* A page with a new block.
LEMMA NewFromMallocPlaces ==
    ASSUME PagesInv, NEW t \in Threads, NEW p \in Pointers, NEW o \in Objects,
           NEW n \in Lengths, NEW b \in Blocks, Malloc(n, b), Constructed(t, p, o, n, b)
    PROVE  Places' /\ PoolTypeOK'
<1>1. /\ o \notin live /\ live' = live \cup {o}
      /\ \A x \in live : content'[x] = content[x] /\ size'[x] = size[x]
      /\ content'[o] = b /\ b # NoBlock /\ size'[o] = n
  BY ConstructedPage, NoBlockIsNone
<1>2. PoolTypeOK /\ HeaderBytes = 4
  BY DEF PagesInv, TypeOK, HeaderBytes
<1>3. /\ AdjustSize(n) \in Nat /\ n <= AdjustSize(n)
      /\ AdjustSize(n) <= Largest => AdjustSize(n) \in Classes
  BY AdjustSizeFits
<1>4. /\ bytes[b] = 0 /\ bytes' = [bytes EXCEPT ![b] = AdjustSize(n) + HeaderBytes]
      /\ header' = [header EXCEPT ![b] = AdjustSize(n)]
      /\ free' = free /\ closed' = closed /\ Listed' = Listed
  BY DEF Malloc, Listed
<1>5. /\ header'[b] = AdjustSize(n) /\ bytes'[b] = AdjustSize(n) + 4
      /\ \A x \in Blocks \ {b} : header'[x] = header[x] /\ bytes'[x] = bytes[x]
  BY <1>2, <1>4 DEF PoolTypeOK
<1>6. PoolTypeOK'
  BY <1>2, <1>3, <1>4 DEF PoolTypeOK
<1>7. b \notin Listed /\ \A x \in live : content[x] # b
  BY <1>4 DEF PagesInv, Places, Accounted
<1>8. Headers'
  BY <1>2, <1>3, <1>5 DEF PagesInv, Places, Headers
<1>9. ListsMatch'
  <2> SUFFICES ASSUME NEW c \in Classes, NEW i \in 1..Len(free[c])
               PROVE  header'[free[c][i]] = c
    BY <1>4 DEF ListsMatch
  <2>1. free[c][i] \in Listed
    BY <1>2, ListedMeans
  <2>2. free[c][i] \in Blocks \ {b}
    BY <1>2, <1>7, <2>1, ListedAreBlocks
  <2> QED
    BY <1>5, <2>2 DEF PagesInv, Places, ListsMatch
<1>10. NoTwice'
  BY <1>4 DEF PagesInv, Places, NoTwice
<1>11. \A x \in live : content[x] \in Blocks \cup {NoBlock}
  BY DEF PagesInv, TypeOK, SharedTypeOK
<1>12. Room'
  BY <1>1, <1>3, <1>5, <1>7, <1>11 DEF PagesInv, Places, Room
<1>13. Accounted'
  BY <1>1, <1>2, <1>3, <1>4, <1>5 DEF PagesInv, Places, Accounted
<1>14. Apart' /\ Sole'
  BY <1>1, <1>4, <1>7 DEF PagesInv, Places, Apart, Sole
<1> QED
  BY <1>6, <1>8, <1>9, <1>10, <1>12, <1>13, <1>14 DEF Places

\* The last pointer is gone: the content goes back to the pool.
LEMMA DeletePagePlaces ==
    ASSUME PagesInv, NEW t \in Threads, DeletePage(t)
    PROVE  /\ Places' /\ PoolTypeOK' /\ closed' = closed
           /\ content' \in [Objects -> Blocks \cup {NoBlock}] /\ size' \in [Objects -> Nat]
<1>1. PICK o \in Objects : o = Here(t)
  BY DEF PagesInv, IInv, Shape, SharedTypeOK, HeldExists, DeletePage, Delete
<1>2. o \in live /\ live' = live \ {o}
  BY <1>1 DEF PagesInv, IInv, HeldExists, DeletePage, Delete
<1>3. /\ content \in [Objects -> Blocks \cup {NoBlock}] /\ size \in [Objects -> Nat]
      /\ PoolTypeOK /\ live \subseteq Objects
  BY DEF PagesInv, TypeOK, SharedTypeOK
<1>4. /\ content' = [content EXCEPT ![o] = NoBlock] /\ size' = [size EXCEPT ![o] = 0]
      /\ IF content[o] # NoBlock THEN PutMemory(content[o]) ELSE UNCHANGED poolVars
  BY <1>1 DEF DeletePage
<1>5. /\ content' \in [Objects -> Blocks \cup {NoBlock}] /\ size' \in [Objects -> Nat]
      /\ \A x \in live' : x \in live /\ x # o /\ content'[x] = content[x] /\ size'[x] = size[x]
  BY <1>2, <1>3, <1>4
<1>6. CASE content[o] = NoBlock
  <2>1. UNCHANGED <<free, header, bytes, closed>> /\ Listed' = Listed /\ PoolTypeOK'
    BY <1>3, <1>4, <1>6 DEF poolVars, Listed, PoolTypeOK
  <2>2. Headers' /\ ListsMatch' /\ NoTwice'
    BY <2>1 DEF PagesInv, Places, Headers, ListsMatch, NoTwice
  <2>3. Room' /\ Accounted' /\ Apart' /\ Sole'
    BY <1>2, <1>5, <1>6, <2>1, NoBlockIsNone DEF PagesInv, Places, Room, Accounted, Apart, Sole
  <2> QED
    BY <1>5, <2>1, <2>2, <2>3 DEF Places
<1>7. CASE content[o] # NoBlock
  <2> DEFINE b == content[o]
  <2>1. b \in Blocks /\ PutMemory(b)
    BY <1>3, <1>4, <1>7
  <2>2. /\ b \notin Listed /\ bytes[b] > 0 /\ bytes[b] = header[b] + HeaderBytes
        /\ header[b] <= Largest => header[b] \in Classes
        /\ \A x \in live' : content'[x] # b
    BY <1>2, <1>5, <1>7, <2>1 DEF PagesInv, Places, Headers, Accounted, Apart, Sole
  <2> HIDE DEF b
  <2>3. CASE header[b] > Largest
    <3>1. bytes' = [bytes EXCEPT ![b] = 0] /\ UNCHANGED <<free, header, closed>> /\ Listed' = Listed
      BY <2>1, <2>3 DEF PutMemory, Listed
    <3>2. PoolTypeOK' /\ bytes'[b] = 0 /\ \A x \in Blocks \ {b} : bytes'[x] = bytes[x]
      BY <1>3, <2>1, <3>1 DEF PoolTypeOK
    <3>3. Headers' /\ ListsMatch' /\ NoTwice'
      BY <3>1, <3>2 DEF PagesInv, Places, Headers, ListsMatch, NoTwice
    <3>4. Room' /\ Apart' /\ Sole'
      BY <1>5, <3>1 DEF PagesInv, Places, Room, Apart, Sole
    <3>5. Accounted'
      BY <1>2, <1>5, <2>2, <3>1, <3>2 DEF PagesInv, Places, Accounted, b
    <3> QED
      BY <1>5, <3>1, <3>2, <3>3, <3>4, <3>5 DEF Places
  <2>4. CASE ~(header[b] > Largest)
    <3>1. header[b] \in Classes /\ header[b] <= Largest
      BY <1>3, <2>1, <2>2, <2>4, ClassesAreSizes, LargestIsTheLast DEF PoolTypeOK
    <3>2. UNCHANGED <<header, bytes, closed>>
      BY <2>1, <2>4 DEF PutMemory
    <3>3. /\ PoolTypeOK' /\ NoTwice' /\ Listed' = Listed \cup {b}
          /\ \A c \in Classes : \A i \in 1..Len(free'[c]) :
                (free'[c][i] = b /\ c = header[b]) \/ \E j \in 1..Len(free[c]) : free'[c][i] = free[c][j]
      BY <1>3, <2>1, <2>2, <3>1, PutMemoryLists DEF PagesInv, Places
    <3>4. Headers'
      BY <3>2 DEF PagesInv, Places, Headers
    <3>5. ListsMatch'
      BY <3>2, <3>3 DEF PagesInv, Places, ListsMatch
    <3>6. Room' /\ Apart' /\ Sole'
      BY <1>5, <2>2, <3>2, <3>3 DEF PagesInv, Places, Room, Apart, Sole
    <3>7. Accounted'
      BY <1>2, <1>5, <2>2, <3>2, <3>3 DEF PagesInv, Places, Accounted, b
    <3> QED
      BY <1>5, <3>2, <3>3, <3>4, <3>5, <3>6, <3>7 DEF Places
  <2> QED
    BY <2>3, <2>4
<1> QED
  BY <1>6, <1>7

\* Exit happens when no page is left: none is counted, and none leaks.
LEMMA ExitPlaces ==
    ASSUME PagesInv, Exit
    PROVE  Places' /\ PoolTypeOK' /\ ClosedQuiet'
<1>1. /\ \A t \in Threads : pc[t] = "idle" /\ making[t] = NoLength
      /\ \A p \in Pointers : ref[p] = Null
      /\ UNCHANGED <<sharedVars, content, size, making>>
      /\ ClosePool
  BY DEF Exit
<1>2. live = {} /\ live' = {}
  <2>1. \A o \in Objects : Holders(o) = {}
    BY <1>1, NullIsNoObject DEF Holders
  <2>2. live = {}
    BY <1>1, <2>1 DEF PagesInv, IInv, Shape, SharedTypeOK, NoLeak
  <2> QED
    BY <1>1, <2>2 DEF sharedVars
<1>3. PoolTypeOK
  BY DEF PagesInv, TypeOK
<1>4. /\ PoolTypeOK' /\ NoTwice' /\ Listed' = {} /\ header' = header
      /\ Allocated' = Allocated \ Listed
      /\ \A b \in Blocks : bytes'[b] > 0 => bytes'[b] = bytes[b]
  BY <1>1, <1>3, ClosePoolLists
<1>5. Allocated = Listed
  BY <1>2, <1>3, ListedAreBlocks DEF PagesInv, Places, Accounted, Allocated
<1>6. \A b \in Blocks : bytes'[b] = 0
  BY <1>4, <1>5 DEF Allocated, PoolTypeOK
<1>7. Headers'
  BY <1>6 DEF Headers
<1>8. ListsMatch'
  <2>1. \A c \in Classes : free'[c] = <<>>
    BY <1>1 DEF ClosePool
  <2> QED
    BY <2>1 DEF ListsMatch
<1>9. Room' /\ Accounted' /\ Apart' /\ Sole'
  BY <1>2, <1>4, <1>6 DEF Room, Accounted, Apart, Sole
<1>10. ClosedQuiet'
  BY <1>1, <1>2, <1>6 DEF ClosedQuiet, sharedVars
<1> QED
  BY <1>4, <1>7, <1>8, <1>9, <1>10 DEF Places

\* Steps that move pointers or find the pool empty leave pages and blocks.
LEMMA QuietPlaces ==
    ASSUME PagesInv, UNCHANGED <<poolVars, content, size>>, live' = live
    PROVE  Places' /\ PoolTypeOK'
<1>1. UNCHANGED <<free, header, bytes, closed>> /\ Listed' = Listed
  BY DEF poolVars, Listed
<1>2. PoolTypeOK'
  BY <1>1 DEF PagesInv, TypeOK, PoolTypeOK
<1>3. Headers' /\ ListsMatch' /\ NoTwice'
  BY <1>1 DEF PagesInv, Places, Headers, ListsMatch, NoTwice
<1>4. Room' /\ Accounted' /\ Apart' /\ Sole'
  BY <1>1 DEF PagesInv, Places, Room, Accounted, Apart, Sole
<1> QED
  BY <1>2, <1>3, <1>4 DEF Places

\* Nothing moves after the end.
LEMMA MovePointerIsOpen ==
    ASSUME PagesInv, NEW t \in Threads, MovePointer(t)
    PROVE  ~closed /\ live' = live
<1>1. PointerStep(t)
  BY DEF MovePointer
<1>2. live' = live
  BY <1>1 DEF PointerStep, Copy, Assign, Destroy, DecRef, Clear, Set, AddRef
<1>3. ASSUME closed
      PROVE  FALSE
  <2>1. pc[t] = "idle" /\ \A p \in Pointers : ref[p] = Null
    BY <1>3 DEF PagesInv, ClosedQuiet
  <2> QED
    BY <1>1, <2>1 DEF PointerStep, Copy, Assign, Destroy, DecRef, Clear, Set, AddRef
<1> QED
  BY <1>2, <1>3

LEMMA StepPagesInv == PagesInv /\ [Next]_vars => PagesInv'
<1> SUFFICES ASSUME PagesInv, [Next]_vars PROVE PagesInv'
  OBVIOUS
<1>1. IInv' /\ SharedTypeOK'
  BY StepIsShared, StepIInv DEF PagesInv, IInv, Shape
<1>2. ASSUME NEW t \in Threads, MovePointer(t)
      PROVE  PagesInv'
  <2>1. ~closed /\ live' = live /\ UNCHANGED <<poolVars, content, size, making>>
    BY <1>2, MovePointerIsOpen DEF MovePointer
  <2>2. Places' /\ PoolTypeOK'
    BY <2>1, QuietPlaces
  <2> QED
    BY <1>1, <2>1, <2>2 DEF PagesInv, TypeOK, ClosedQuiet, poolVars
<1>3. ASSUME NEW t \in Threads, DeletePage(t)
      PROVE  PagesInv'
  <2>1. making' = making /\ pc[t] = "delete"
    BY <1>3 DEF DeletePage, Delete
  <2>2. ~closed
    BY <2>1 DEF PagesInv, ClosedQuiet
  <2> QED
    BY <1>1, <1>3, <2>1, <2>2, DeletePagePlaces DEF PagesInv, TypeOK, ClosedQuiet
<1>4. ASSUME NEW t \in Threads, NEW n \in Lengths, PoolIsEmpty(t, n)
      PROVE  PagesInv'
  <2>1. ~closed /\ UNCHANGED <<poolVars, content, size>> /\ live' = live
    BY <1>4 DEF PoolIsEmpty, sharedVars
  <2>2. Places' /\ PoolTypeOK' /\ closed' = closed
    BY <2>1, QuietPlaces DEF poolVars
  <2>3. making' \in [Threads -> Lengths \cup {NoLength}]
    BY <1>4 DEF PoolIsEmpty, PagesInv, TypeOK
  <2> QED
    BY <1>1, <2>1, <2>2, <2>3 DEF PagesInv, TypeOK, ClosedQuiet
<1>5. ASSUME NEW t \in Threads, NEW p \in Pointers, NEW o \in Objects,
             NEW n \in Lengths \cup {0}, NEW b \in Blocks \cup {NoBlock},
             Constructed(t, p, o, n, b), Places', PoolTypeOK', ~closed, closed' = closed
      PROVE  PagesInv'
  BY <1>1, <1>5, ConstructedPage DEF PagesInv, TypeOK, ClosedQuiet
<1>6. ASSUME NEW t \in Threads, NEW p \in Pointers, NEW o \in Objects, NewEmpty(t, p, o)
      PROVE  PagesInv'
  <2>1. Constructed(t, p, o, 0, NoBlock) /\ UNCHANGED poolVars /\ ~closed /\ closed' = closed
    BY <1>6 DEF NewEmpty, poolVars
  <2> QED
    BY <1>5, <2>1, NewEmptyPlaces
<1>7. ASSUME NEW t \in Threads, making[t] # NoLength
      PROVE  making[t] \in Lengths /\ ~closed
  BY <1>7 DEF PagesInv, TypeOK, ClosedQuiet
<1>8. ASSUME NEW t \in Threads, NEW p \in Pointers, NEW o \in Objects, NewWithoutMemory(t, p, o)
      PROVE  PagesInv'
  <2>1. /\ making[t] \in Lengths /\ ~closed /\ closed' = closed
        /\ Constructed(t, p, o, making[t], NoBlock) /\ UNCHANGED poolVars
    BY <1>7, <1>8 DEF NewWithoutMemory, poolVars
  <2>2. PICK n \in Lengths : n = making[t]
    BY <2>1
  <2> QED
    BY <1>5, <2>1, <2>2, NewEmptyPlaces
<1>9. ASSUME NEW t \in Threads, NEW p \in Pointers, NEW o \in Objects, NEW b \in Blocks,
             NewFromMalloc(t, p, o, b)
      PROVE  PagesInv'
  <2>1. /\ making[t] \in Lengths /\ ~closed /\ closed' = closed
        /\ Malloc(making[t], b) /\ Constructed(t, p, o, making[t], b)
    BY <1>7, <1>9 DEF NewFromMalloc, Malloc
  <2>2. PICK n \in Lengths : n = making[t]
    BY <2>1
  <2> QED
    BY <1>5, <2>1, <2>2, NewFromMallocPlaces
<1>10. ASSUME NEW t \in Threads, NEW p \in Pointers, NEW o \in Objects, NEW b \in Blocks,
              NEW n \in Lengths, NewFromPool(t, p, o, n, b)
       PROVE  PagesInv'
  <2>1. ~closed /\ closed' = closed /\ TakeFree(n, b) /\ Constructed(t, p, o, n, b)
    BY <1>10 DEF NewFromPool, TakeFree
  <2> QED
    BY <1>5, <2>1, NewFromPoolPlaces
<1>11. CASE Exit
  BY <1>1, <1>11, ExitPlaces DEF Exit, PagesInv, TypeOK
<1>12. CASE UNCHANGED vars
  <2>1. UNCHANGED <<poolVars, content, size, making, sharedVars>> /\ live' = live /\ closed' = closed
    BY <1>12 DEF vars, sharedVars, poolVars
  <2>2. Places' /\ PoolTypeOK'
    BY <2>1, QuietPlaces
  <2>3. ClosedQuiet'
    BY <2>1 DEF PagesInv, ClosedQuiet, poolVars, sharedVars
  <2> QED
    BY <1>1, <2>1, <2>2, <2>3 DEF PagesInv, TypeOK
<1> QED
  BY <1>2, <1>3, <1>4, <1>6, <1>8, <1>9, <1>10, <1>11, <1>12 DEF Next

-------------------------------------------------------------------------------
(* The theorems about the pool. *)

THEOREM PagesInvariant == Spec => []PagesInv
<1> QED
  BY InitPagesInv, StepPagesInv, PTL DEF Spec

\* Every variable keeps its type, and the pool the lists of its classes.
THEOREM TypeCorrect == Spec => []TypeOK
<1>1. PagesInv => TypeOK
  BY DEF PagesInv
<1> QED
  BY <1>1, PagesInvariant, PTL

\* Every block that is malloc'd is once on one list, or the content of one page.
THEOREM BlocksAreInOnePlace == Spec => []BlockInOnePlace
<1>1. PagesInv => BlockInOnePlace
  <2> SUFFICES ASSUME PagesInv PROVE BlockInOnePlace
    OBVIOUS
  <2>1. PoolTypeOK /\ content \in [Objects -> Blocks \cup {NoBlock}] /\ live \subseteq Objects
    BY DEF PagesInv, TypeOK, SharedTypeOK
  <2>2. Allocated = Listed \cup {content[o] : o \in {p \in live : content[p] # NoBlock}}
    BY <2>1, ListedAreBlocks, NoBlockIsNone DEF PagesInv, Places, Accounted, Allocated, PoolTypeOK
  <2> QED
    BY <2>2 DEF BlockInOnePlace, PagesInv, Places, Apart, Sole, NoTwice
<1> QED
  BY <1>1, PagesInvariant, PTL

\* A page has room for its bytes, whatever the history of its block.
THEOREM PagesFit == Spec => []PageFits
<1>1. PagesInv => PageFits
  <2> SUFFICES ASSUME PagesInv, NEW o \in live, content[o] # NoBlock
               PROVE  size[o] + HeaderBytes <= bytes[content[o]]
    BY DEF PageFits
  <2>1. /\ content[o] \in Blocks /\ size[o] \in Nat /\ header[content[o]] \in Nat
        /\ bytes[content[o]] \in Nat
    BY DEF PagesInv, TypeOK, SharedTypeOK, PoolTypeOK
  <2>2. bytes[content[o]] > 0 /\ size[o] <= header[content[o]]
    BY <2>1 DEF PagesInv, Places, Accounted, Room
  <2>3. bytes[content[o]] = header[content[o]] + HeaderBytes
    BY <2>1, <2>2 DEF PagesInv, Places, Headers
  <2> QED
    BY <2>1, <2>2, <2>3 DEF HeaderBytes
<1> QED
  BY <1>1, PagesInvariant, PTL

\* The destructor of the pool finds every block on a list and frees it.
THEOREM EverythingIsFreed == Spec => []AllFreed
<1>1. PagesInv => AllFreed
  BY DEF PagesInv, ClosedQuiet, AllFreed, Allocated
<1> QED
  BY <1>1, PagesInvariant, PTL
===============================================================================
