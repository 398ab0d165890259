-------------------------------- MODULE Pages ---------------------------------
(***************************************************************************)
(* Pages (page.h) as the downloaders and extractors use them: reached      *)
(* through counted pointers (Shared), with a content that comes from the   *)
(* memory pool (MemoryPool) and goes back to it with the last pointer.     *)
(*                                                                         *)
(* Nobody locks a Page.  That its content is not handed to another page    *)
(* while somebody still reads it depends on the counts, on the free lists  *)
(* and on the destructor together.                                         *)
(***************************************************************************)
EXTENDS Shared, MemoryPool

CONSTANTS NoBlock, NoLength

ASSUME NoBlockIsNone == NoBlock \notin Blocks
ASSUME NoLengthIsNone == NoLength \notin Lengths

VARIABLES
    content,    \* _page_content of each page
    size,       \* _page_size
    making      \* per thread: the length of a Page whose pool was empty, or none

vars == <<sharedVars, poolVars, content, size, making>>

Init ==
    /\ SharedInit
    /\ PoolInit
    /\ content = [o \in Objects |-> NoBlock]
    /\ size = [o \in Objects |-> 0]
    /\ making = [t \in Threads |-> NoLength]

-------------------------------------------------------------------------------

\* The constructor of Page ends, with content b, and SharedPointer counts it.
Constructed(t, p, o, n, b) ==
    /\ New(t, p, o)
    /\ content' = [content EXCEPT ![o] = b]
    /\ size' = [size EXCEPT ![o] = IF b = NoBlock THEN 0 ELSE n]
    /\ making' = [making EXCEPT ![t] = NoLength]

NewEmpty(t, p, o) ==
    /\ ~closed /\ making[t] = NoLength
    /\ Constructed(t, p, o, 0, NoBlock)
    /\ UNCHANGED poolVars

NewFromPool(t, p, o, n, b) ==
    /\ ~closed /\ making[t] = NoLength /\ n > 0
    /\ TakeFree(n, b)
    /\ Constructed(t, p, o, n, b)

\* The list is empty; _mutex is released before malloc is called.
PoolIsEmpty(t, n) ==
    /\ pc[t] = "idle" /\ making[t] = NoLength /\ n > 0
    /\ ~closed /\ ~Pooled(n)
    /\ making' = [making EXCEPT ![t] = n]
    /\ UNCHANGED <<sharedVars, poolVars, content, size>>

NewFromMalloc(t, p, o, b) ==
    /\ making[t] # NoLength
    /\ Malloc(making[t], b)
    /\ Constructed(t, p, o, making[t], b)

\* malloc fails: a page of size 0 without content.
NewWithoutMemory(t, p, o) ==
    /\ making[t] # NoLength
    /\ Constructed(t, p, o, making[t], NoBlock)
    /\ UNCHANGED poolVars

\* delete of a Page: ~Page puts its content back.
DeletePage(t) ==
    /\ Delete(t)
    /\ content' = [content EXCEPT ![Here(t)] = NoBlock]
    /\ size' = [size EXCEPT ![Here(t)] = 0]
    /\ IF content[Here(t)] # NoBlock THEN PutMemory(content[Here(t)])
                                    ELSE UNCHANGED poolVars
    /\ UNCHANGED making

\* What does not make or delete a page.
MovePointer(t) ==
    /\ making[t] = NoLength
    /\ PointerStep(t)
    /\ UNCHANGED <<poolVars, content, size, making>>

\* The process ends when the threads are joined, which unwinds their stacks, and
\* the queues are deleted: no pointer is left.
Exit ==
    /\ \A t \in Threads : pc[t] = "idle" /\ making[t] = NoLength
    /\ \A p \in Pointers : ref[p] = Null
    /\ ClosePool
    /\ UNCHANGED <<sharedVars, content, size, making>>

Next ==
    \/ \E t \in Threads :
          \/ MovePointer(t) \/ DeletePage(t)
          \/ \E n \in Lengths : PoolIsEmpty(t, n)
          \/ \E p \in Pointers, o \in Objects :
                \/ NewEmpty(t, p, o) \/ NewWithoutMemory(t, p, o)
                \/ \E b \in Blocks :
                      \/ NewFromMalloc(t, p, o, b)
                      \/ \E n \in Lengths : NewFromPool(t, p, o, n, b)
    \/ Exit

Spec == Init /\ [][Next]_vars

-------------------------------------------------------------------------------
(* Properties. *)

\* Types; the lists are those of the classes and no other.
TypeOK ==
    /\ SharedTypeOK /\ PoolTypeOK
    /\ content \in [Objects -> Blocks \cup {NoBlock}]
    /\ size \in [Objects -> Nat]
    /\ making \in [Threads -> Lengths \cup {NoLength}]

\* A block that is malloc'd is in one place: once on one free list, or the
\* content of one page that exists.  So no page gets a content that another one
\* still has, and no block is lost on the way through get_memory, the pages, the
\* counts and put_memory.
BlockInOnePlace ==
    /\ Allocated = Listed \cup {content[o] : o \in {p \in live : content[p] # NoBlock}}
    /\ \A o \in live : content[o] \notin Listed
    /\ \A o, p \in live : content[o] = content[p] /\ content[o] # NoBlock => o = p
    /\ \A c, d \in Classes : \A i \in DOMAIN free[c], j \in DOMAIN free[d] :
          free[c][i] = free[d][j] => c = d /\ i = j

\* A page has room for its _page_size bytes behind the header of its block, also
\* when the block comes from a list.
PageFits ==
    \A o \in live : content[o] # NoBlock => size[o] + HeaderBytes <= bytes[content[o]]

\* After the pool is gone no block and no page is left.
AllFreed == closed => Allocated = {} /\ live = {}
===============================================================================
