------------------------------ MODULE MemoryPool ------------------------------
(***************************************************************************)
(* MemoryPool (memory_pool.cc): blocks for pages and buffers, kept in one  *)
(* free list per size class.  A block is malloc'd with a word in front of  *)
(* it that tells its size, which put_memory reads to find the list.        *)
(*                                                                         *)
(* A block is an allocation of malloc.  The classes of the code are the    *)
(* powers of two from 128 bytes to 8 MB.  Lengths are those for which the  *)
(* sum of length and header stays below 2^32.                              *)
(***************************************************************************)
EXTENDS Naturals, Sequences, FiniteSetsExt, SequencesExt

CONSTANTS Blocks, Classes, Largest, Lengths

ASSUME ClassesAreSizes == Classes \subseteq Nat
ASSUME LargestIsTheLast == Largest \in Classes /\ \A c \in Classes : c <= Largest
ASSUME LengthsAreSizes == Lengths \subseteq Nat

HeaderBytes == 4

VARIABLES
    free,       \* _memories: the free list of each class, the last one on top
    header,     \* the word in front of each block
    bytes,      \* what malloc was asked for; 0: the block is not malloc'd
    closed      \* the pool is destructed

poolVars == <<free, header, bytes, closed>>

PoolInit ==
    /\ free = [c \in Classes |-> <<>>]
    /\ header = [b \in Blocks |-> 0]
    /\ bytes = [b \in Blocks |-> 0]
    /\ closed = FALSE

\* adjust_size: the smallest class that holds n, or n itself when none does.
AdjustSize(n) == IF n <= Largest THEN Min({c \in Classes : n <= c}) ELSE n

\* get_memory looks into a list only for a size that has one.
Pooled(n) == AdjustSize(n) <= Largest /\ free[AdjustSize(n)] # <<>>

\* Mutant: v.back() without v.pop_back().
TakeFreeKeeping(n, b) ==
    /\ Pooled(n)
    /\ b = Last(free[AdjustSize(n)])
    /\ UNCHANGED <<free, header, bytes, closed>>

\* The first half of get_memory, under _mutex: a free block of the class.
TakeFree(n, b) ==
    /\ Pooled(n)
    /\ b = Last(free[AdjustSize(n)])
    /\ free' = [free EXCEPT ![AdjustSize(n)] = Front(@)]
    /\ UNCHANGED <<header, bytes, closed>>

\* Mutant: the header is not counted.
MallocBare(n, b) ==
    /\ bytes[b] = 0
    /\ bytes' = [bytes EXCEPT ![b] = AdjustSize(n)]
    /\ header' = [header EXCEPT ![b] = AdjustSize(n)]
    /\ UNCHANGED <<free, closed>>

\* The second half, without _mutex: malloc, and the size into the header.
Malloc(n, b) ==
    /\ bytes[b] = 0
    /\ bytes' = [bytes EXCEPT ![b] = AdjustSize(n) + HeaderBytes]
    /\ header' = [header EXCEPT ![b] = AdjustSize(n)]
    /\ UNCHANGED <<free, closed>>

\* put_memory: a block of a class goes on its list, a larger one to free().
PutMemory(b) ==
    IF header[b] > Largest
    THEN bytes' = [bytes EXCEPT ![b] = 0] /\ UNCHANGED <<free, header, closed>>
    ELSE /\ free' = [free EXCEPT ![header[b]] = Append(@, b)]
         /\ UNCHANGED <<header, bytes, closed>>

\* ~MemoryPool: free_memory for each class, then _memories.clear().
ClosePool ==
    /\ ~closed /\ closed' = TRUE
    /\ bytes' = [b \in Blocks |->
          IF \E c \in Classes : b \in ToSet(free[c]) THEN 0 ELSE bytes[b]]
    /\ free' = [c \in Classes |-> <<>>]
    /\ UNCHANGED header

-------------------------------------------------------------------------------
(* Properties. *)

PoolTypeOK ==
    /\ free \in [Classes -> Seq(Blocks)]
    /\ header \in [Blocks -> Nat]
    /\ bytes \in [Blocks -> Nat]
    /\ closed \in BOOLEAN

Allocated == {b \in Blocks : bytes[b] > 0}
Listed == UNION {ToSet(free[c]) : c \in Classes}
===============================================================================
