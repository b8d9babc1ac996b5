------------------------------- MODULE RtMem -------------------------------
(***************************************************************************)
(* The heap of the kernel (rt-thread/src/mem.c): one stretch of memory cut *)
(* into blocks, each with a header that holds the offsets of its two       *)
(* neighbours.  Offsets and sizes are counted in units of RT_ALIGN_SIZE.   *)
(* An action is a stretch of code under heap_sem, a semaphore of value 1,  *)
(* so no two threads are inside the heap; rt_realloc gives the semaphore   *)
(* back before it moves a block, and any thread may come in between.       *)
(***************************************************************************)
EXTENDS Integers, FiniteSets, FiniteSetsExt

CONSTANTS
    Header,      \* SIZEOF_STRUCT_MEM
    MinSize,     \* MIN_SIZE_ALIGNED, which is MIN_SIZE
    MemSize,     \* mem_size_aligned
    Sizes        \* the sizes asked for: a bound of the model

ASSUME HeaderAssumption == Header \in Nat \ {0}
ASSUME MinSizeAssumption == MinSize \in Nat \ {0}
ASSUME MemSizeAssumption == MemSize \in Nat /\ MemSize >= MinSize
ASSUME SizesAssumption == Sizes \subseteq Nat \ {0}

VARIABLES
    heap,        \* the offsets at which a block begins
    next, prev,  \* the fields of its header; 0 where there is no header
    used,        \* the blocks whose field used is 1
    lfree,
    used_mem,    \* the statistics of rt_memory_info
    asked,       \* size each caller asked for, by block; 0: not handed out
    moving       \* blocks rt_realloc is about to free, their content moved

vars == <<heap, next, prev, used, lfree, used_mem, asked, moving>>

\* heap_end: the last header, with nothing behind it.
End == MemSize + Header
Offsets == 0..End

\* rt_system_heap_init.
Init ==
    /\ heap = {0, End}
    /\ next = [o \in Offsets |-> IF o \in {0, End} THEN End ELSE 0]
    /\ prev = [o \in Offsets |-> IF o = End THEN End ELSE 0]
    /\ used = {End}
    /\ lfree = 0
    /\ used_mem = 0
    /\ asked = [o \in Offsets |-> 0]
    /\ moving = {}

-----------------------------------------------------------------------------
(* Blocks *)

\* The user data size of a block.
Room(b) == next[b] - (b + Header)

\* size is aligned, and raised to MIN_SIZE_ALIGNED.
Need(size) == IF size < MinSize THEN MinSize ELSE size

\* The blocks at which the walk from lfree along next would stop.
Fits(n) ==
    {b \in heap \ used : b >= lfree /\ b < MemSize - n /\ Room(b) >= n}

\* A header at p2 cuts block b in two.  The field prev of heap_end is left alone.
SplitNext(b, p2) == [next EXCEPT ![b] = p2, ![p2] = next[b]]
SplitPrev(b, p2) ==
    IF next[b] # End THEN [prev EXCEPT ![p2] = b, ![next[b]] = p2]
                     ELSE [prev EXCEPT ![p2] = b]

\* The lowest free block from b on, or heap_end.
LowestFrom(b, h, u) == Min({c \in h : c >= b /\ (c \notin u \/ c = End)})

\* Mutant: only the block behind is joined.
PlugForward(mem, h, nx, pv, u, lf) ==
    LET nmem == nx[mem]
        forward == nmem \notin u /\ nmem # End
    IN  /\ heap' = IF forward THEN h \ {nmem} ELSE h
        /\ next' = IF forward THEN [nx EXCEPT ![mem] = nx[nmem], ![nmem] = 0] ELSE nx
        /\ prev' = IF forward THEN [pv EXCEPT ![nx[nmem]] = mem, ![nmem] = 0] ELSE pv
        /\ lfree' = IF forward /\ lf = nmem THEN mem ELSE lf

\* Mutant: the block behind mem's new neighbour keeps its old prev.
PlugOldPrev(mem, h, nx, pv, u, lf) ==
    LET nmem == nx[mem]
        forward == nmem \notin u /\ nmem # End
        nx1 == IF forward THEN [nx EXCEPT ![mem] = nx[nmem], ![nmem] = 0] ELSE nx
        pv1 == IF forward THEN [pv EXCEPT ![nx[nmem]] = mem, ![nmem] = 0] ELSE pv
        lf1 == IF forward /\ lf = nmem THEN mem ELSE lf
        pmem == pv[mem]
        backward == pmem # mem /\ pmem \notin u
    IN  /\ heap' = h \ ((IF forward THEN {nmem} ELSE {}) \cup (IF backward THEN {mem} ELSE {}))
        /\ next' = IF backward THEN [nx1 EXCEPT ![pmem] = nx1[mem], ![mem] = 0] ELSE nx1
        /\ prev' = IF backward THEN [pv1 EXCEPT ![mem] = 0] ELSE pv1
        /\ lfree' = IF backward /\ lf1 = mem THEN pmem ELSE lf1

\* plug_holes(mem), on a heap with the given fields: join mem with the block
\* behind it, then with the block before it, if they are free.
plug_holes(mem, h, nx, pv, u, lf) ==
    LET nmem == nx[mem]
        forward == nmem \notin u /\ nmem # End
        nx1 == IF forward THEN [nx EXCEPT ![mem] = nx[nmem], ![nmem] = 0] ELSE nx
        pv1 == IF forward THEN [pv EXCEPT ![nx[nmem]] = mem, ![nmem] = 0] ELSE pv
        lf1 == IF forward /\ lf = nmem THEN mem ELSE lf
        pmem == pv[mem]
        backward == pmem # mem /\ pmem \notin u
    IN  /\ heap' = h \ ((IF forward THEN {nmem} ELSE {}) \cup (IF backward THEN {mem} ELSE {}))
        /\ next' = IF backward THEN [nx1 EXCEPT ![pmem] = nx1[mem], ![mem] = 0] ELSE nx1
        /\ prev' = IF backward THEN [pv1 EXCEPT ![nx1[mem]] = pmem, ![mem] = 0] ELSE pv1
        /\ lfree' = IF backward /\ lf1 = mem THEN pmem ELSE lf1

-----------------------------------------------------------------------------
(* Actions *)

\* Mutant: lfree is not moved off the block that was taken.
AllocateKeepsLfree(b, n) ==
    /\ IF Room(b) >= n + Header + MinSize
       THEN LET p2 == b + Header + n
            IN  /\ heap' = heap \cup {p2}
                /\ next' = SplitNext(b, p2)
                /\ prev' = SplitPrev(b, p2)
       ELSE UNCHANGED <<heap, next, prev>>
    /\ used' = used \cup {b}
    /\ used_mem' = used_mem + (next'[b] - b)
    /\ UNCHANGED lfree

\* rt_malloc takes block b for n units: a large block is cut, a smaller one is
\* used as it is; lfree moves on if it was b.
Allocate(b, n) ==
    /\ IF Room(b) >= n + Header + MinSize
       THEN LET p2 == b + Header + n
            IN  /\ heap' = heap \cup {p2}
                /\ next' = SplitNext(b, p2)
                /\ prev' = SplitPrev(b, p2)
       ELSE UNCHANGED <<heap, next, prev>>
    /\ used' = used \cup {b}
    /\ lfree' = IF b = lfree THEN LowestFrom(b, heap', used') ELSE lfree
    /\ used_mem' = used_mem + (next'[b] - b)

\* rt_malloc (and rt_calloc), when a block is found; else it returns RT_NULL and
\* changes nothing.
rt_malloc(size) ==
    /\ size <= MemSize
    /\ Fits(Need(size)) # {}
    /\ LET b == Min(Fits(Need(size)))
       IN  /\ Allocate(b, Need(size))
           /\ asked' = [asked EXCEPT ![b] = size]

\* rt_free under the semaphore.
Release(b) ==
    /\ used' = used \ {b}
    /\ plug_holes(b, heap, next, prev, used', IF b < lfree THEN b ELSE lfree)
    /\ used_mem' = used_mem - (next[b] - b)
    /\ asked' = [asked EXCEPT ![b] = 0]

\* A caller gives back a block it got.
rt_free(b) ==
    /\ asked[b] # 0 /\ b \notin moving
    /\ Release(b)
    /\ UNCHANGED moving

\* Mutant: rt_realloc puts the new header into the data that is kept.
ShrinkShort(b, size) ==
    LET p2 == b + size
    IN  /\ plug_holes(p2, heap \cup {p2}, SplitNext(b, p2), SplitPrev(b, p2), used, lfree)
        /\ used_mem' = used_mem - (Room(b) - size)
        /\ asked' = [asked EXCEPT ![b] = size]
        /\ UNCHANGED used

\* Mutant: rt_realloc also takes the header of the rest off the statistics.
ShrinkCountsHeader(b, size) ==
    LET p2 == b + Header + size
    IN  /\ plug_holes(p2, heap \cup {p2}, SplitNext(b, p2), SplitPrev(b, p2), used, lfree)
        /\ used_mem' = used_mem - (Room(b) - size + Header)
        /\ asked' = [asked EXCEPT ![b] = size]
        /\ UNCHANGED used

\* rt_realloc to a smaller size: what is cut off becomes a free block.
Shrink(b, size) ==
    LET p2 == b + Header + size
    IN  /\ plug_holes(p2, heap \cup {p2}, SplitNext(b, p2), SplitPrev(b, p2), used, lfree)
        /\ used_mem' = used_mem - (Room(b) - size)
        /\ asked' = [asked EXCEPT ![b] = size]
        /\ UNCHANGED used

\* rt_realloc, from its call to its return or to the second part of a move.
\* Size 0 is rt_free, no block is rt_malloc, and the same size changes nothing.
rt_realloc(b, size) ==
    /\ asked[b] # 0 /\ b \notin moving
    /\ size <= MemSize /\ size # Room(b)
    /\ \/ size + Header + MinSize < Room(b) /\ Shrink(b, size) /\ UNCHANGED moving
       \/ size + Header + MinSize >= Room(b) /\ rt_malloc(size) /\ moving' = moving \cup {b}

\* The end of rt_realloc: the old block is freed after its content was copied.
FreeMoved(b) ==
    /\ b \in moving
    /\ Release(b)
    /\ moving' = moving \ {b}

Next ==
    \/ \E size \in Sizes : rt_malloc(size) /\ UNCHANGED moving
    \/ \E b \in Offsets : rt_free(b) \/ FreeMoved(b) \/ (\E size \in Sizes : rt_realloc(b, size))

Spec == Init /\ [][Next]_vars

-----------------------------------------------------------------------------
(* Properties *)

\* Types of the variables.
TypeOK ==
    /\ heap \subseteq Offsets /\ used \subseteq heap /\ moving \subseteq heap
    /\ next \in [Offsets -> Offsets] /\ prev \in [Offsets -> Offsets]
    /\ lfree \in Offsets
    /\ used_mem \in Nat
    /\ asked \in [Offsets -> Nat]

\* The blocks cover the heap from its first header to heap_end without gap or
\* overlap: next leads from each block to the one right behind it, leaving room
\* for its header, and prev leads back, however blocks were cut and joined.
ChainConsistent ==
    /\ TypeOK
    /\ 0 \in heap /\ End \in heap /\ prev[0] = 0
    /\ \A b \in heap \ {End} :
          /\ next[b] \in heap /\ next[b] > b + Header
          /\ \A c \in heap : c <= b \/ c >= next[b]
          /\ next[b] # End => prev[next[b]] = b

\* No two free blocks lie side by side, because plug_holes joined them (the
\* comment in rt_malloc relies on it when it does not cut a block), and lfree
\* points to a free block or to heap_end (the assertion at the end of the search
\* in rt_malloc), so that the next search begins at a hole of full size.
HolesJoined ==
    /\ \A b \in heap \ used : next[b] \in used
    /\ lfree \in heap /\ (lfree \in used => lfree = End)

\* A block that was handed out stays in use and keeps room for what was asked
\* until its caller frees it, and nothing else is in use: whatever others
\* allocate, shrink, move or free, no memory is taken away and none leaks.
AllocationsIntact ==
    /\ used \ {End} = {b \in Offsets : asked[b] # 0}
    /\ \A b \in used \ {End} : Room(b) >= asked[b]

\* When every block has been freed the heap is one block again: after any
\* sequence of operations no fragment is left behind.
NothingLost ==
    used = {End} => heap = {0, End} /\ next[0] = End /\ lfree = 0

\* The units that belong to a block in use, its header included.
InUse == {o \in Offsets : \E b \in used \ {End} : b <= o /\ o < next[b]}

\* used_mem is the memory in use: what a block adds when it is taken, cut or used
\* whole, is what it takes off, in parts when rt_realloc cut it, until it is freed.
StatsExact ==
    used_mem = Cardinality(InUse)

\* lfree is the lowest free block (the comment at mem.c:131), so that rt_malloc,
\* which begins its search there, does not miss any.
LfreeIsLowest ==
    \A b \in heap \ used : lfree <= b
=============================================================================
