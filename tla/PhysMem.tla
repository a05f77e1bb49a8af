------------------------------ MODULE PhysMem ------------------------------
(***************************************************************************)
(* The physical page allocator: the bitmap of memory/bitmap.cpp as         *)
(* memory/pmm.cpp and memory/vmm.cpp use it.  The bitmap is the set of its *)
(* one bits; a region is what one call of physical_allocate returned.      *)
(* Calls are atomic: they are made by one thread, or under liballoc_lock   *)
(* (module HeapLock).                                                      *)
(***************************************************************************)
EXTENDS Integers, Sequences

CONSTANTS BlockSize,          \* BLOCK_SIZE, bytes in a block
          memory_map_Total,   \* bytes the bootloader counted (module BootMemory)
          memory_map_entries, \* sequence of [base, length, usable]
          MaxPages            \* bound: largest request a caller makes

BLOCKS_PER_BYTE == 8

CEILING_DIVISION(a, b) == (a + b - 1) \div b

BitmapSizeInBlocks == CEILING_DIVISION(memory_map_Total, BlockSize)
BitmapSizeInBytes  == CEILING_DIVISION(BitmapSizeInBlocks, BLOCKS_PER_BYTE)
PagesRequired      == CEILING_DIVISION(BitmapSizeInBytes, BlockSize)

Blocks   == 0 .. (BitmapSizeInBlocks - 1)
Requests == 1 .. (IF PagesRequired > MaxPages THEN PagesRequired ELSE MaxPages)

(***************************************************************************)
(* BLOCK_SIZE is positive and there is memory to manage.                   *)
(***************************************************************************)
ASSUME SizesAssumption ==
    /\ BlockSize \in Nat \ {0}
    /\ memory_map_Total \in Nat \ {0}
    /\ MaxPages \in Nat \ {0}

(***************************************************************************)
(* mark_region: used memory is rounded outwards, free memory inwards.      *)
(***************************************************************************)
region_blocks(base, bytes, isUsed) ==
    LET first == IF isUsed THEN base \div BlockSize
                           ELSE CEILING_DIVISION(base, BlockSize)
        size  == IF isUsed THEN CEILING_DIVISION(bytes, BlockSize)
                           ELSE bytes \div BlockSize
    IN  first .. (first + size - 1)

Entries == {memory_map_entries[i] : i \in DOMAIN memory_map_entries}

CanHoldBitmap(e) == e.usable /\ e.length >= BitmapSizeInBytes

(***************************************************************************)
(* The entry that holds the bitmap is the first one that is large enough.  *)
(***************************************************************************)
BitmapEntry ==
    memory_map_entries[CHOOSE i \in DOMAIN memory_map_entries :
        /\ CanHoldBitmap(memory_map_entries[i])
        /\ \A j \in 1 .. (i - 1) : ~ CanHoldBitmap(memory_map_entries[j])]

(***************************************************************************)
(* The bitmap after physical_memory_manager_initialize.  Bits outside      *)
(* Blocks are never looked at by find_free_region.                         *)
(***************************************************************************)
BootUsed ==
    LET freed    == UNION {region_blocks(e.base, e.length, FALSE) :
                               e \in {x \in Entries : x.usable}}
        reserved == UNION {region_blocks(e.base, e.length, TRUE) :
                               e \in {x \in Entries : ~ x.usable}}
        bitmap   == region_blocks(BitmapEntry.base, BitmapSizeInBytes, TRUE)
    IN  {b \in Blocks : b \notin freed \/ b \in reserved \/ b \in bitmap}

(***************************************************************************)
(* The Limine protocol never reports the first page as usable.             *)
(***************************************************************************)
ASSUME FirstPageAssumption == 0 \in BootUsed

VARIABLES used,                \* blocks whose bit is 1
          lastDeepFragmented,  \* where the next search starts
          regions,             \* regions handed out and not yet freed
          virtual_bitmap,      \* {}, then the region that holds _virtual.Bitmap
          halted               \* 0, or the request on which the kernel halted

vars == <<used, lastDeepFragmented, regions, virtual_bitmap, halted>>

BlocksOf(r) == r.start .. (r.start + r.size - 1)

Init ==
    /\ \E e \in Entries : CanHoldBitmap(e)
    /\ used = BootUsed
    /\ lastDeepFragmented = 0
    /\ regions = {}
    /\ virtual_bitmap = {}
    /\ halted = 0

(***************************************************************************)
(* virtual_memory_manager_initialize makes the first request, PagesRequired*)
(* for the bitmap of the virtual allocator, and never frees it.            *)
(***************************************************************************)
ready == virtual_bitmap # {}

RequestsNow == IF ready THEN 1 .. MaxPages ELSE {PagesRequired}

\* Planted bug: a run one block short is accepted.
FreeRunButLast(start, size) ==
    start + size <= BitmapSizeInBlocks
    /\ \A b \in {start} \cup (start .. (start + size - 2)) : b \notin used

FreeRun(start, size) ==
    start + size <= BitmapSizeInBlocks
    /\ \A b \in start .. (start + size - 1) : b \notin used

(***************************************************************************)
(* find_free_region returns the first run at or after lastDeepFragmented,  *)
(* or INVALID_BLOCK when there is none.                                    *)
(***************************************************************************)
IsFirstFit(start, size) ==
    /\ start >= lastDeepFragmented
    /\ FreeRun(start, size)
    /\ \A s \in lastDeepFragmented .. (start - 1) : ~ FreeRun(s, size)

\* Planted bug: the search starts one block behind the hint.
NoFitAfterHint(size) ==
    \A s \in (lastDeepFragmented + 1) .. (BitmapSizeInBlocks - 1) : ~ FreeRun(s, size)

NoFit(size) ==
    \A s \in lastDeepFragmented .. (BitmapSizeInBlocks - 1) : ~ FreeRun(s, size)

(***************************************************************************)
(* optimization(1) of bitmap.h: a search for one block leaves the hint     *)
(* behind the block it found; a free lowers it again.                      *)
(***************************************************************************)
\* Planted bug: searches for several blocks raise the hint as well.
HintAfterAnyFind(start, size) == start + 1

HintAfterFind(start, size) ==
    IF size = 1 THEN start + 1 ELSE lastDeepFragmented

\* Planted bug: freeing leaves the hint alone.
HintKeptByFree(start) == lastDeepFragmented

HintAfterFree(start) ==
    IF start < lastDeepFragmented THEN start ELSE lastDeepFragmented

(***************************************************************************)
(* physical_allocate (virtual_allocate adds the HHDM offset): find the     *)
(* region and mark it used.  Physical address 0 counts as out of memory.   *)
(***************************************************************************)
physical_allocate(start, size) ==
    /\ halted = 0
    /\ IsFirstFit(start, size)
    /\ used' = used \cup (start .. (start + size - 1))
    /\ lastDeepFragmented' = HintAfterFind(start, size)
    /\ LET region == [start |-> start, size |-> size]
       IN  /\ regions' = regions \cup {region}
           /\ virtual_bitmap' = IF ready THEN virtual_bitmap ELSE {region}
    /\ halted' = IF start = 0 THEN size ELSE 0

out_of_memory(size) ==
    /\ halted = 0
    /\ NoFit(size)
    /\ halted' = size
    /\ UNCHANGED <<used, lastDeepFragmented, regions, virtual_bitmap>>

(***************************************************************************)
(* physical_free (virtual_free subtracts the HHDM offset): the holder      *)
(* gives a whole region back, through mark_region.                         *)
(***************************************************************************)
\* Planted bug: only the first page of the region is freed.
physical_free_one(r) ==
    /\ halted = 0
    /\ used' = used \ region_blocks(r.start * BlockSize, BlockSize, FALSE)
    /\ lastDeepFragmented' = HintAfterFree(r.start)
    /\ regions' = regions \ {r}
    /\ UNCHANGED <<virtual_bitmap, halted>>

physical_free(r) ==
    /\ halted = 0
    /\ used' = used \ region_blocks(r.start * BlockSize, r.size * BlockSize, FALSE)
    /\ lastDeepFragmented' = HintAfterFree(r.start)
    /\ regions' = regions \ {r}
    /\ UNCHANGED <<virtual_bitmap, halted>>

Next ==
    \/ \E s \in Blocks, n \in RequestsNow : physical_allocate(s, n)
    \/ \E n \in RequestsNow : out_of_memory(n)
    \/ \E r \in regions \ virtual_bitmap : physical_free(r)

Spec == Init /\ [][Next]_vars

-----------------------------------------------------------------------------
(***************************************************************************)
(* The loop of find_free_region, as written.  found is what it returned;   *)
(* start and size describe the run of free blocks that ends before block i *)
(* and hint is lastDeepFragmented.                                         *)
(***************************************************************************)
INVALID_BLOCK == -1

\* Planted bug: a used block does not end the run.
LookAtNoReset(s, i, blocks) ==
    IF s.found # INVALID_BLOCK THEN s
    ELSE IF i \in used THEN [s EXCEPT !.start = i + 1]
    ELSE [s EXCEPT !.size  = s.size + 1,
                   !.hint  = IF blocks = 1 THEN s.start + 1 ELSE s.hint,
                   !.found = IF s.size + 1 >= blocks THEN s.start ELSE INVALID_BLOCK]

LookAt(s, i, blocks) ==
    IF s.found # INVALID_BLOCK THEN s
    ELSE IF i \in used THEN [s EXCEPT !.start = i + 1, !.size = 0]
    ELSE [s EXCEPT !.size  = s.size + 1,
                   !.hint  = IF blocks = 1 THEN s.start + 1 ELSE s.hint,
                   !.found = IF s.size + 1 >= blocks THEN s.start ELSE INVALID_BLOCK]

find_free_region(blocks) ==
    LET loop[i \in lastDeepFragmented .. BitmapSizeInBlocks] ==
            IF i = lastDeepFragmented
            THEN [start |-> i, size |-> 0, hint |-> i, found |-> INVALID_BLOCK]
            ELSE LookAt(loop[i - 1], i - 1, blocks)
    IN  loop[BitmapSizeInBlocks]

-----------------------------------------------------------------------------
(***************************************************************************)
(* Types of the allocator's state (struct Bitmap in bitmap.h).             *)
(***************************************************************************)
TypeOK ==
    /\ used \subseteq Blocks
    /\ lastDeepFragmented \in 0 .. BitmapSizeInBlocks
    /\ regions \subseteq [start : Blocks, size : Requests]
    /\ virtual_bitmap \subseteq regions
    /\ halted \in Requests \cup {0}

(***************************************************************************)
(* The search may start at lastDeepFragmented because no block below it is *)
(* free: mark_blocks lowers the hint whenever it frees a block below it,   *)
(* and find_free_region raises it only past a block it hands out.          *)
(***************************************************************************)
HintIsSound == \A b \in Blocks : b < lastDeepFragmented => b \in used

(***************************************************************************)
(* Two callers of physical_allocate never hold the same block.             *)
(***************************************************************************)
RegionsDisjoint ==
    \A r, q \in regions : r # q => BlocksOf(r) \cap BlocksOf(q) = {}

(***************************************************************************)
(* The one bits are exactly the blocks reserved at boot and the blocks     *)
(* some caller holds: freeing gives back all of a region, nothing else,    *)
(* and kernel, module and bitmap pages are never handed out.               *)
(***************************************************************************)
BitmapAccounts ==
    /\ used = BootUsed \cup UNION {BlocksOf(r) : r \in regions}
    /\ \A r \in regions : BlocksOf(r) \cap BootUsed = {}

(***************************************************************************)
(* physical_allocate halts the kernel only when memory really ran out: no  *)
(* run of the requested size is free anywhere, below the hint included.    *)
(***************************************************************************)
HaltsOnlyWhenExhausted ==
    halted # 0 => \A s \in Blocks : ~ FreeRun(s, halted)

(***************************************************************************)
(* In every reachable bitmap the loop of find_free_region finds the first  *)
(* fit the allocation is stated with, returns INVALID_BLOCK exactly when   *)
(* there is none, and leaves the hint the allocation leaves.               *)
(***************************************************************************)
LoopFindsFirstFit ==
    \A n \in Requests :
        LET end == find_free_region(n)
        IN  IF end.found = INVALID_BLOCK
            THEN NoFit(n) /\ end.hint = lastDeepFragmented
            ELSE IsFirstFit(end.found, n) /\ end.hint = HintAfterFind(end.found, n)

(***************************************************************************)
(* The allocator implements the abstract region allocator: the regions are *)
(* those granted and not released, and a halt is a refusal.                *)
(***************************************************************************)
Abstract == INSTANCE RegionAllocator
                WITH Reserved <- BootUsed, refused <- halted

ImplementsRegionAllocator == Abstract!Spec
============================================================================
