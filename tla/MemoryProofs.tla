---------------------------- MODULE MemoryProofs ----------------------------
(***************************************************************************)
(* The page allocator (PhysMem) is correct for every memory map and every  *)
(* block size.  Inv is inductive; its heart is HintIsSound, without which  *)
(* neither HaltsOnlyWhenExhausted nor the refinement would follow.  The    *)
(* second part is about the page directories built from its pages.         *)
(***************************************************************************)
EXTENDS PhysMem, Paging, TLAPS, NaturalsInduction, WellFoundedInduction

(***************************************************************************)
(* Rounding up a positive number of units gives a positive number.         *)
(***************************************************************************)
LEMMA CeilingPositive ==
    ASSUME NEW a \in Nat \ {0}, NEW b \in Nat \ {0}
    PROVE  CEILING_DIVISION(a, b) \in Nat \ {0}
  BY DEF CEILING_DIVISION

(***************************************************************************)
(* A block aligned address is rounded up to its own block, and a whole     *)
(* number of blocks is rounded down to itself.                             *)
(***************************************************************************)
LEMMA AlignedExact ==
    ASSUME NEW a \in Nat, NEW b \in Nat \ {0}
    PROVE  CEILING_DIVISION(a * b, b) = a /\ (a * b) \div b = a
  BY DEF CEILING_DIVISION

(***************************************************************************)
(* What the proofs use of the constants: the bitmap has at least one       *)
(* block, and both the boot-time and the later requests are in Requests.   *)
(***************************************************************************)
LEMMA ConstantFacts ==
    /\ BitmapSizeInBlocks \in Nat \ {0}
    /\ PagesRequired \in Nat \ {0}
    /\ Requests \subseteq Nat \ {0}
    /\ PagesRequired \in Requests
    /\ 1 .. MaxPages \subseteq Requests
    /\ BootUsed \subseteq Blocks
<1>1. BitmapSizeInBlocks \in Nat \ {0}
  BY SizesAssumption, CeilingPositive, Zenon DEF BitmapSizeInBlocks
<1>2. BitmapSizeInBytes \in Nat \ {0}
  BY <1>1, CeilingPositive DEF BitmapSizeInBytes, BLOCKS_PER_BYTE
<1>3. PagesRequired \in Nat \ {0}
  BY <1>2, SizesAssumption, CeilingPositive, Zenon DEF PagesRequired
<1>4. /\ Requests \subseteq Nat \ {0}
      /\ PagesRequired \in Requests
      /\ 1 .. MaxPages \subseteq Requests
  BY <1>3, SizesAssumption DEF Requests
<1>5. BootUsed \subseteq Blocks
  BY Zenon DEF BootUsed
<1> QED
  BY <1>1, <1>3, <1>4, <1>5, Zenon

(***************************************************************************)
(* The inductive invariant.                                                *)
(***************************************************************************)
Inv ==
    /\ TypeOK
    /\ HintIsSound
    /\ RegionsDisjoint
    /\ BitmapAccounts
    /\ HaltsOnlyWhenExhausted

(***************************************************************************)
(* The boot-time bitmap satisfies the invariant.                           *)
(***************************************************************************)
LEMMA InitInv == Init => Inv
<1> SUFFICES ASSUME Init PROVE Inv
  BY Zenon
<1>1. TypeOK
  BY ConstantFacts DEF Init, TypeOK
<1>2. HintIsSound /\ HaltsOnlyWhenExhausted
  BY DEF Init, HintIsSound, HaltsOnlyWhenExhausted, Blocks
<1>3. RegionsDisjoint /\ BitmapAccounts
  BY Zenon DEF Init, RegionsDisjoint, BitmapAccounts
<1> QED
  BY <1>1, <1>2, <1>3, Zenon DEF Inv

(***************************************************************************)
(* A first fit is a run of free blocks of the bitmap and never starts at   *)
(* block 0, so physical_allocate succeeds.                                 *)
(***************************************************************************)
LEMMA AllocationSucceeds ==
    ASSUME TypeOK, BitmapAccounts, NEW s \in Blocks, NEW n \in Requests,
           physical_allocate(s, n)
    PROVE  /\ s # 0
           /\ s .. (s + n - 1) \subseteq Blocks \ used
           /\ s \in s .. (s + n - 1)
           /\ halted = 0 /\ halted' = 0
<1>1. n \in Nat \ {0} /\ s \in Nat /\ BitmapSizeInBlocks \in Nat
  BY ConstantFacts DEF Blocks
<1>2. s + n <= BitmapSizeInBlocks /\ \A b \in s .. (s + n - 1) : b \notin used
  BY Zenon DEF physical_allocate, IsFirstFit, FreeRun
<1>3. s .. (s + n - 1) \subseteq Blocks \ used
  BY <1>1, <1>2 DEF Blocks
<1>4. s \in s .. (s + n - 1)
  BY <1>1
<1>5. s # 0
  BY <1>3, <1>4, FirstPageAssumption, Zenon DEF BitmapAccounts
<1> QED
  BY <1>3, <1>4, <1>5, Zenon DEF physical_allocate

(***************************************************************************)
(* physical_allocate preserves the invariant.  The hint stays sound        *)
(* because the block found for a request of one block is the first free    *)
(* block at or after the hint.                                             *)
(***************************************************************************)
LEMMA AllocateInv ==
    ASSUME Inv, NEW s \in Blocks, NEW n \in Requests, physical_allocate(s, n),
           virtual_bitmap' \subseteq regions'
    PROVE  Inv'
<1> DEFINE region == [start |-> s, size |-> n]
           new == s .. (s + n - 1)
<1> USE DEF Inv
<1>1. /\ s # 0 /\ halted = 0 /\ halted' = 0
      /\ new \subseteq Blocks \ used
      /\ s \in new
  BY AllocationSucceeds, Zenon
<1>2. /\ used' = used \cup new
      /\ regions' = regions \cup {region}
      /\ lastDeepFragmented' = HintAfterFind(s, n)
      /\ BlocksOf(region) = new
  BY Zenon DEF physical_allocate, BlocksOf
<1>3. s \in Nat /\ BitmapSizeInBlocks \in Nat /\ s < BitmapSizeInBlocks
      /\ n \in Nat
  BY ConstantFacts DEF Blocks
<1>4. TypeOK'
  BY <1>1, <1>2, <1>3 DEF TypeOK, HintAfterFind
<1>5. HintIsSound'
  <2> SUFFICES ASSUME NEW b \in Blocks, b < lastDeepFragmented', b \notin used'
               PROVE  FALSE
    BY Zenon DEF HintIsSound, Blocks
  <2>1. b >= lastDeepFragmented /\ b \notin used
    BY <1>2, <1>3 DEF HintIsSound, TypeOK, Blocks
  <2>2. n = 1 /\ b < s + 1
    BY <2>1, <1>2, <1>3 DEF HintAfterFind, TypeOK, Blocks
  <2>3. b # s
    BY <1>1, <1>2, Zenon
  <2>4. b \in lastDeepFragmented .. (s - 1) /\ FreeRun(b, n)
    BY <2>1, <2>2, <2>3, <1>3 DEF FreeRun, Blocks, TypeOK
  <2> QED
    BY <2>4, Zenon DEF physical_allocate, IsFirstFit
<1>6. \A r \in regions : BlocksOf(r) \cap new = {}
  BY <1>1, Zenon DEF BitmapAccounts
<1>7. RegionsDisjoint'
  BY <1>2, <1>6, Zenon DEF RegionsDisjoint, BlocksOf
<1>8. BitmapAccounts'
  <2>1. new \cap BootUsed = {}
    BY <1>1, Zenon DEF BitmapAccounts
  <2> QED
    BY <2>1, <1>2, ZenonT(30) DEF BitmapAccounts, BlocksOf
<1>9. HaltsOnlyWhenExhausted'
  BY <1>1, Zenon DEF HaltsOnlyWhenExhausted
<1> QED
  BY <1>4, <1>5, <1>7, <1>8, <1>9, Zenon

(***************************************************************************)
(* When the search behind the hint fails, no run is free at all: a run     *)
(* that starts below the hint would start with a free block there.         *)
(***************************************************************************)
LEMMA NothingFits ==
    ASSUME TypeOK, HintIsSound, NEW n \in Requests, NoFit(n)
    PROVE  \A s \in Blocks : ~ FreeRun(s, n)
<1> SUFFICES ASSUME NEW s \in Blocks, FreeRun(s, n) PROVE FALSE
  BY Zenon
<1>1. n \in Nat \ {0} /\ s \in Nat /\ BitmapSizeInBlocks \in Nat
  BY ConstantFacts DEF Blocks
<1>2. s \notin used
  BY <1>1 DEF FreeRun
<1>3. s >= lastDeepFragmented
  BY <1>1, <1>2 DEF HintIsSound, TypeOK
<1> QED
  BY <1>1, <1>3 DEF NoFit, Blocks, TypeOK

(***************************************************************************)
(* Halting preserves the invariant.                                        *)
(***************************************************************************)
LEMMA OutOfMemoryInv ==
    ASSUME Inv, NEW n \in Requests, out_of_memory(n)
    PROVE  Inv'
<1> USE DEF Inv
<1>1. HaltsOnlyWhenExhausted'
  BY NothingFits, Zenon DEF HaltsOnlyWhenExhausted, out_of_memory, FreeRun
<1> QED
  BY <1>1, Zenon DEF out_of_memory, TypeOK, HintIsSound, RegionsDisjoint, BitmapAccounts

(***************************************************************************)
(* What the type of a region says of its fields.                           *)
(***************************************************************************)
LEMMA RegionParts ==
    ASSUME NEW r \in [start : Blocks, size : Requests]
    PROVE  r.start \in Nat /\ r.start < BitmapSizeInBlocks /\ r.size \in Nat \ {0}
<1>1. r.start \in Blocks /\ r.size \in Requests
  BY Zenon
<1>2. r.size \in Nat \ {0} /\ BitmapSizeInBlocks \in Nat
  BY <1>1, ConstantFacts, Zenon
<1>3. r.start \in Nat /\ r.start < BitmapSizeInBlocks
  BY <1>1, <1>2 DEF Blocks
<1> QED
  BY <1>2, <1>3, Zenon

(***************************************************************************)
(* physical_free clears the bits of exactly the blocks of the region.      *)
(***************************************************************************)
LEMMA FreedBlocks ==
    ASSUME NEW r \in [start : Blocks, size : Requests]
    PROVE  region_blocks(r.start * BlockSize, r.size * BlockSize, FALSE) = BlocksOf(r)
<1>1. r.start \in Nat /\ r.size \in Nat /\ BlockSize \in Nat \ {0}
  BY RegionParts, SizesAssumption, Zenon
<1>2. /\ CEILING_DIVISION(r.start * BlockSize, BlockSize) = r.start
      /\ (r.size * BlockSize) \div BlockSize = r.size
  BY <1>1, AlignedExact, Zenon
<1> QED
  BY <1>2, Zenon DEF region_blocks, BlocksOf

(***************************************************************************)
(* physical_free preserves the invariant.  The hint stays sound because    *)
(* mark_blocks lowers it to the first block it frees.                      *)
(***************************************************************************)
LEMMA FreeInv ==
    ASSUME Inv, NEW r \in regions \ virtual_bitmap, physical_free(r)
    PROVE  Inv'
<1> USE DEF Inv
<1>1. r \in [start : Blocks, size : Requests]
  BY Zenon DEF TypeOK
<1>2. /\ used' = used \ BlocksOf(r)
      /\ regions' = regions \ {r}
      /\ lastDeepFragmented' = HintAfterFree(r.start)
      /\ virtual_bitmap' = virtual_bitmap
      /\ halted = 0 /\ halted' = 0
  BY <1>1, FreedBlocks, Zenon DEF physical_free
<1>3. TypeOK'
  <2>1. r.start \in Nat /\ r.start < BitmapSizeInBlocks /\ BitmapSizeInBlocks \in Nat
    BY <1>1, RegionParts, ConstantFacts, Zenon
  <2>2. lastDeepFragmented' \in 0 .. BitmapSizeInBlocks
    BY <1>2, <2>1 DEF TypeOK, HintAfterFree
  <2>3. virtual_bitmap' \subseteq regions'
    BY <1>2, Zenon DEF TypeOK
  <2> QED
    BY <1>2, <2>2, <2>3, Zenon DEF TypeOK
<1>4. HintIsSound'
  <2> SUFFICES ASSUME NEW b \in Blocks, b < lastDeepFragmented' PROVE b \in used'
    BY Zenon DEF HintIsSound, Blocks
  <2>1. r.start \in Nat /\ r.size \in Nat /\ b \in Nat
    BY <1>1, RegionParts DEF Blocks
  <2>2. b < lastDeepFragmented /\ b < r.start
    BY <1>2, <2>1 DEF HintAfterFree, TypeOK
  <2>3. b \in used
    BY <2>2, Zenon DEF HintIsSound
  <2>4. b \notin BlocksOf(r)
    BY <2>1, <2>2 DEF BlocksOf
  <2> QED
    BY <2>3, <2>4, <1>2, Zenon
<1>5. RegionsDisjoint'
  BY <1>2, Zenon DEF RegionsDisjoint, BlocksOf
<1>6. BitmapAccounts'
  <2>1. \A q \in regions' : BlocksOf(q) \cap BlocksOf(r) = {}
    BY <1>2, Zenon DEF RegionsDisjoint
  <2>2. BlocksOf(r) \cap BootUsed = {}
    BY Zenon DEF BitmapAccounts
  <2> QED
    BY <2>1, <2>2, <1>2 DEF BitmapAccounts, BlocksOf
<1>7. HaltsOnlyWhenExhausted'
  BY <1>2, Zenon DEF HaltsOnlyWhenExhausted
<1> QED
  BY <1>3, <1>4, <1>5, <1>6, <1>7, Zenon

(***************************************************************************)
(* The boot-time request and later requests are all in Requests.           *)
(***************************************************************************)
LEMMA RequestsNowFacts == RequestsNow \subseteq Requests
  BY ConstantFacts, Zenon DEF RequestsNow

(***************************************************************************)
(* Every step preserves the invariant.                                     *)
(***************************************************************************)
LEMMA NextInv == Inv /\ [Next]_vars => Inv'
<1> SUFFICES ASSUME Inv, [Next]_vars PROVE Inv'
  BY Zenon
<1>1. CASE \E s \in Blocks, n \in RequestsNow : physical_allocate(s, n)
  <2> PICK s \in Blocks, n \in RequestsNow : physical_allocate(s, n)
    BY <1>1, Zenon
  <2>1. virtual_bitmap' \subseteq regions'
    BY Zenon DEF physical_allocate, Inv, TypeOK
  <2> QED
    BY <2>1, AllocateInv, RequestsNowFacts, Zenon
<1>2. CASE \E n \in RequestsNow : out_of_memory(n)
  BY <1>2, OutOfMemoryInv, RequestsNowFacts, Zenon
<1>3. CASE \E r \in regions \ virtual_bitmap : physical_free(r)
  BY <1>3, FreeInv, Zenon
<1>4. CASE UNCHANGED vars
  BY <1>4, Zenon DEF vars, Inv, TypeOK, HintIsSound, RegionsDisjoint, BitmapAccounts,
              HaltsOnlyWhenExhausted, FreeRun
<1> QED
  BY <1>1, <1>2, <1>3, <1>4, Zenon DEF Next

(***************************************************************************)
(* The invariant always holds.                                             *)
(***************************************************************************)
LEMMA InvAlways == Spec => []Inv
  BY InitInv, NextInv, PTL DEF Spec

(***************************************************************************)
(* Types of the allocator's state (struct Bitmap).                         *)
(***************************************************************************)
THEOREM TypeCorrect == Spec => []TypeOK
  BY InvAlways, PTL DEF Inv

(***************************************************************************)
(* Two callers of physical_allocate never hold the same block.             *)
(***************************************************************************)
THEOREM NoDoubleAllocation == Spec => []RegionsDisjoint
  BY InvAlways, PTL DEF Inv

(***************************************************************************)
(* No free block lies below lastDeepFragmented, so that find_free_region   *)
(* misses none by starting there.                                          *)
(***************************************************************************)
THEOREM HintNeverSkips == Spec => []HintIsSound
  BY InvAlways, PTL DEF Inv

(***************************************************************************)
(* The bitmap marks exactly the boot-time reservations and the blocks      *)
(* handed out by physical_allocate and not yet freed.                      *)
(***************************************************************************)
THEOREM BitmapIsExact == Spec => []BitmapAccounts
  BY InvAlways, PTL DEF Inv

(***************************************************************************)
(* physical_allocate halts only when no free run of the requested size is  *)
(* left: optimization(1) of bitmap.h never hides free memory.              *)
(***************************************************************************)
THEOREM NoSpuriousHalt == Spec => []HaltsOnlyWhenExhausted
  BY InvAlways, PTL DEF Inv

(***************************************************************************)
(* The bitmap allocator implements the abstract region allocator.          *)
(***************************************************************************)
THEOREM Refinement == Spec => ImplementsRegionAllocator
<1>1. Init => Abstract!Init
  BY Zenon DEF Init, Abstract!Init
<1>2. Inv /\ [Next]_vars => [Abstract!Next]_(Abstract!spec_vars)
  <2> SUFFICES ASSUME Inv, [Next]_vars
               PROVE  [Abstract!Next]_(Abstract!spec_vars)
    BY Zenon
  <2> USE DEF Inv
  <2>1. ASSUME NEW s \in Blocks, NEW n \in RequestsNow, physical_allocate(s, n)
        PROVE  Abstract!Next
    <3>1. n \in Requests
      BY RequestsNowFacts, Zenon
    <3>2. s .. (s + n - 1) \subseteq Blocks \ used /\ halted = 0 /\ halted' = 0
      BY <2>1, <3>1, AllocationSucceeds, Zenon
    <3>3. Abstract!Grant([start |-> s, size |-> n])
      BY <2>1, <3>2, Zenon DEF Abstract!Grant, Abstract!Grantable, Abstract!Held,
                        Abstract!BlocksOf, BlocksOf, BitmapAccounts, physical_allocate
    <3> QED
      BY <3>1, <3>3, Zenon DEF Abstract!Next
  <2>2. ASSUME NEW n \in RequestsNow, out_of_memory(n)
        PROVE  Abstract!Next
    <3>1. n \in Requests /\ \A s \in Blocks : ~ FreeRun(s, n)
      BY <2>2, RequestsNowFacts, NothingFits, Zenon DEF out_of_memory
    <3>2. ASSUME NEW b \in Blocks, Abstract!Grantable([start |-> b, size |-> n])
          PROVE  FALSE
      <4>1. b .. (b + n - 1) \subseteq Blocks \ used
        BY <3>2, Zenon DEF Abstract!Grantable, Abstract!Held, Abstract!BlocksOf,
                    BlocksOf, BitmapAccounts
      <4>2. n \in Nat \ {0} /\ b \in Nat /\ BitmapSizeInBlocks \in Nat
        BY <3>1, ConstantFacts DEF Blocks
      <4>3. b + n - 1 \in Blocks
        BY <4>1, <4>2
      <4>4. FreeRun(b, n)
        BY <4>1, <4>2, <4>3 DEF FreeRun, Blocks
      <4> QED
        BY <4>4, <3>1, Zenon
    <3>3. Abstract!Refuse(n)
      BY <2>2, <3>2, Zenon DEF Abstract!Refuse, out_of_memory
    <3> QED
      BY <3>1, <3>3, Zenon DEF Abstract!Next
  <2>3. ASSUME NEW r \in regions \ virtual_bitmap, physical_free(r)
        PROVE  Abstract!Next
    BY <2>3, Zenon DEF physical_free, Abstract!Release, Abstract!Next
  <2>4. CASE UNCHANGED vars
    BY <2>4, Zenon DEF vars, Abstract!spec_vars
  <2> QED
    BY <2>1, <2>2, <2>3, <2>4, Zenon DEF Next
<1> QED
  BY <1>1, <1>2, InvAlways, PTL DEF Spec, ImplementsRegionAllocator, Abstract!Spec

-----------------------------------------------------------------------------
(***************************************************************************)
(* Induction over an interval, with the set of the numbers a fact holds    *)
(* for in the place of a predicate.                                        *)
(***************************************************************************)
LEMMA LeastExists ==
    ASSUME NEW S \in SUBSET Nat, S # {}
    PROVE  \E s \in S : \A t \in S : s <= t
<1>1. PICK s \in S : \A t \in S : ~ (<<t, s>> \in OpToRel(<, Nat))
  BY NatLessThanWellFounded, WFMin, Zenon
<1>2. ASSUME NEW t \in S PROVE s <= t
  <2>1. ~ (<<t, s>> \in {p \in Nat \X Nat : p[1] < p[2]})
    BY <1>1, Zenon DEF OpToRel
  <2> QED
    BY <2>1
<1> QED
  BY <1>2, Zenon

\* A set that holds lo and, with every number below hi, the next, holds lo to hi.
LEMMA IntervalInduction ==
    ASSUME NEW lo \in Nat, NEW hi \in Nat, NEW P \in SUBSET (lo .. hi), lo \in P,
           \A k \in P : k < hi => k + 1 \in P
    PROVE  P = lo .. hi
<1> DEFINE Missing == (lo .. hi) \ P
<1>1. SUFFICES ASSUME Missing # {} PROVE FALSE
  BY Zenon
<1>2. Missing \in SUBSET Nat
  OBVIOUS
<1>3. PICK m \in Missing : \A t \in Missing : m <= t
  <2> HIDE DEF Missing
  <2> QED
    BY <1>1, <1>2, LeastExists, Zenon
<1>4. m \in lo .. hi /\ m \notin P /\ m # lo
  BY Zenon
<1>5. m - 1 \in lo .. hi /\ m - 1 < hi /\ (m - 1) + 1 = m /\ ~ (m <= m - 1)
  BY <1>4
<1>6. m - 1 \in P
  BY <1>3, <1>5, Zenon
<1> QED
  BY <1>4, <1>5, <1>6, Zenon

(***************************************************************************)
(* The loop of find_free_region.  Before block i is looked at, start to    *)
(* i - 1 are free but fewer than n, and no run of n blocks begins below    *)
(* start; once found is set, it is the first fit.                          *)
(***************************************************************************)
LoopStates == [start : Nat, size : Nat, hint : Nat, found : Nat \cup {INVALID_BLOCK}]

LoopInv(s, i, n) ==
    IF s.found = INVALID_BLOCK
    THEN /\ s.start \in lastDeepFragmented .. i
         /\ s.size = i - s.start /\ s.size < n
         /\ \A b \in s.start .. (i - 1) : b \notin used
         /\ \A p \in lastDeepFragmented .. (s.start - 1) : ~ FreeRun(p, n)
         /\ s.hint = lastDeepFragmented
    ELSE IsFirstFit(s.found, n) /\ s.hint = HintAfterFind(s.found, n)

\* What one turn of the loop computes.
LEMMA LookAtStates ==
    ASSUME NEW s \in LoopStates, NEW i \in Nat, NEW n \in Nat
    PROVE  LookAt(s, i, n) \in LoopStates
<1>1. CASE s.found # INVALID_BLOCK
  BY <1>1, Zenon DEF LookAt
<1>2. CASE s.found = INVALID_BLOCK /\ i \in used
  <2>1. LookAt(s, i, n) = [s EXCEPT !.start = i + 1, !.size = 0]
    BY <1>2, Zenon DEF LookAt
  <2>2. i + 1 \in Nat /\ 0 \in Nat
    OBVIOUS
  <2> QED
    BY <2>1, <2>2 DEF LoopStates
<1>3. CASE s.found = INVALID_BLOCK /\ i \notin used
  <2>1. PICK h : h = IF n = 1 THEN s.start + 1 ELSE s.hint
    OBVIOUS
  <2>2. PICK f : f = IF s.size + 1 >= n THEN s.start ELSE INVALID_BLOCK
    OBVIOUS
  <2>3. LookAt(s, i, n) = [s EXCEPT !.size = s.size + 1, !.hint = h, !.found = f]
    BY <1>3, <2>1, <2>2, Zenon DEF LookAt
  <2>4. s.start \in Nat /\ s.hint \in Nat /\ s.size + 1 \in Nat /\ s.start + 1 \in Nat
    BY DEF LoopStates
  <2>5. h \in Nat /\ f \in Nat \cup {INVALID_BLOCK}
    BY <2>1, <2>2, <2>4, Zenon
  <2> QED
    BY <2>3, <2>4, <2>5 DEF LoopStates
<1> QED
  BY <1>1, <1>2, <1>3, Zenon

LEMMA LookAtInv ==
    ASSUME TypeOK, NEW n \in Requests, NEW i \in lastDeepFragmented .. (BitmapSizeInBlocks - 1),
           NEW s \in LoopStates, LoopInv(s, i, n)
    PROVE  LoopInv(LookAt(s, i, n), i + 1, n)
<1> DEFINE lo == lastDeepFragmented
<1>1. /\ lo \in Nat /\ n \in Nat /\ n > 0 /\ i \in Nat /\ BitmapSizeInBlocks \in Nat
      /\ lo <= i /\ i + 1 <= BitmapSizeInBlocks
  BY ConstantFacts DEF TypeOK
<1>2. CASE s.found # INVALID_BLOCK
  BY <1>2, Zenon DEF LookAt, LoopInv
<1>3. ASSUME s.found = INVALID_BLOCK
      PROVE  /\ s.start \in lo .. i /\ s.size = i - s.start /\ s.size < n
             /\ \A b \in s.start .. (i - 1) : b \notin used
             /\ \A p \in lo .. (s.start - 1) : ~ FreeRun(p, n)
             /\ s.hint = lo
  BY <1>3, Zenon DEF LoopInv
<1>4. CASE s.found = INVALID_BLOCK /\ i \in used
  <2>1. PICK t : t = LookAt(s, i, n)
    OBVIOUS
  <2>2. t.start = i + 1 /\ t.size = 0 /\ t.hint = s.hint /\ t.found = INVALID_BLOCK
    BY <1>4, <2>1 DEF LookAt, LoopStates
  <2>3. ASSUME NEW p \in lo .. ((i + 1) - 1) PROVE ~ FreeRun(p, n)
    <3>1. CASE p \in lo .. (s.start - 1)
      BY <1>3, <1>4, <3>1, Zenon
    <3>2. CASE p \in s.start .. i
      <4>1. i \in p .. (p + n - 1)
        BY <1>1, <1>3, <1>4, <3>2
      <4> QED
        BY <1>4, <4>1, Zenon DEF FreeRun
    <3>3. s.start \in Nat
      BY DEF LoopStates
    <3> QED
      BY <1>1, <3>1, <3>2, <3>3
  <2>4. i + 1 \in lo .. (i + 1) /\ 0 = (i + 1) - (i + 1) /\ 0 < n
    BY <1>1
  <2>5. \A b \in (i + 1) .. ((i + 1) - 1) : b \notin used
    BY <1>1
  <2>6. s.hint = lo
    BY <1>3, <1>4, Zenon
  <2>7. LoopInv(t, i + 1, n)
    BY <2>2, <2>3, <2>4, <2>5, <2>6, Zenon DEF LoopInv
  <2> QED
    BY <2>1, <2>7, Zenon
<1>5. CASE s.found = INVALID_BLOCK /\ i \notin used
  <2>1. PICK t : t = LookAt(s, i, n)
    OBVIOUS
  <2>2. /\ t.start = s.start /\ t.size = s.size + 1
        /\ t.hint = IF n = 1 THEN s.start + 1 ELSE s.hint
        /\ t.found = IF s.size + 1 >= n THEN s.start ELSE INVALID_BLOCK
    <3>1. t = [s EXCEPT !.size = s.size + 1,
                        !.hint = IF n = 1 THEN s.start + 1 ELSE s.hint,
                        !.found = IF s.size + 1 >= n THEN s.start ELSE INVALID_BLOCK]
      BY <1>5, <2>1, Zenon DEF LookAt
    <3> QED
      BY <3>1 DEF LoopStates
  <2>3. s.start \in Nat /\ s.size \in Nat /\ s.start # INVALID_BLOCK
    BY DEF LoopStates, INVALID_BLOCK
  <2>4. /\ s.start \in lo .. i /\ s.size = i - s.start /\ s.size < n /\ s.hint = lo
        /\ \A p \in lo .. (s.start - 1) : ~ FreeRun(p, n)
    BY <1>3, <1>5, Zenon
  <2>5. \A b \in s.start .. i : b \notin used
    <3>1. \A b \in s.start .. i : b \in s.start .. (i - 1) \/ b = i
      BY <1>1, <2>3
    <3> QED
      BY <1>3, <1>5, <3>1, Zenon
  <2>6. CASE s.size + 1 >= n
    <3>1. s.start + n = i + 1 /\ s.start + n - 1 = i /\ s.start >= lo
      BY <1>1, <2>3, <2>4, <2>6
    <3>2. s.start + n <= BitmapSizeInBlocks
      BY <1>1, <3>1
    <3>3. FreeRun(s.start, n)
      BY <2>5, <3>1, <3>2, Zenon DEF FreeRun
    <3>4. IsFirstFit(s.start, n)
      BY <2>4, <3>1, <3>3, Zenon DEF IsFirstFit
    <3>5. t.found = s.start /\ t.found # INVALID_BLOCK
      BY <2>2, <2>3, <2>6, Zenon
    <3>6. t.hint = HintAfterFind(s.start, n)
      BY <2>2, <2>4, Zenon DEF HintAfterFind
    <3>7. LoopInv(t, i + 1, n)
      BY <3>4, <3>5, <3>6, Zenon DEF LoopInv
    <3> QED
      BY <2>1, <3>7, Zenon
  <2>7. CASE ~ (s.size + 1 >= n)
    <3>1. n # 1 /\ s.size + 1 < n /\ s.size + 1 = (i + 1) - s.start
      BY <1>1, <2>3, <2>4, <2>7
    <3>2. s.start \in lo .. (i + 1) /\ (i + 1) - 1 = i
      BY <1>1, <2>3, <2>4
    <3>3. t.found = INVALID_BLOCK /\ t.hint = lo
      BY <2>2, <2>4, <2>7, <3>1, Zenon
    <3>4. LoopInv(t, i + 1, n)
      BY <2>2, <2>4, <2>5, <3>1, <3>2, <3>3, Zenon DEF LoopInv
    <3> QED
      BY <2>1, <3>4, Zenon
  <2> QED
    BY <2>6, <2>7, Zenon
<1> QED
  BY <1>2, <1>4, <1>5, Zenon

\* The function the loop is modelled with exists.
LEMMA LoopExists ==
    ASSUME TypeOK, NEW n \in Requests
    PROVE  \E f : f = [i \in lastDeepFragmented .. BitmapSizeInBlocks |->
               IF i = lastDeepFragmented
               THEN [start |-> i, size |-> 0, hint |-> i, found |-> INVALID_BLOCK]
               ELSE LookAt(f[i - 1], i - 1, n)]
<1> DEFINE lo == lastDeepFragmented
           D == lo .. BitmapSizeInBlocks
           Body(f, i) == IF i = lo
                         THEN [start |-> i, size |-> 0, hint |-> i, found |-> INVALID_BLOCK]
                         ELSE LookAt(f[i - 1], i - 1, n)
           Upto == {k \in D : \E f \in [D -> LoopStates] : \A i \in lo .. k : f[i] = Body(f, i)}
<1>1. lo \in Nat /\ BitmapSizeInBlocks \in Nat /\ lo <= BitmapSizeInBlocks /\ n \in Nat
  BY ConstantFacts DEF TypeOK
<1>2. lo \in Upto
  <2>1. PICK f : f = [i \in D |-> [start |-> lo, size |-> 0, hint |-> lo, found |-> INVALID_BLOCK]]
    OBVIOUS
  <2>2. [start |-> lo, size |-> 0, hint |-> lo, found |-> INVALID_BLOCK] \in LoopStates
    BY <1>1 DEF LoopStates
  <2>3. f \in [D -> LoopStates]
    BY <2>1, <2>2, Zenon
  <2>4. lo \in D /\ \A i \in lo .. lo : i = lo
    BY <1>1
  <2>5. f[lo] = Body(f, lo)
    BY <2>1, <2>4, Zenon
  <2> QED
    BY <2>3, <2>4, <2>5, Zenon
<1>3. ASSUME NEW k \in Upto, k < BitmapSizeInBlocks PROVE k + 1 \in Upto
  <2>1. PICK f \in [D -> LoopStates] : \A i \in lo .. k : f[i] = Body(f, i)
    BY Zenon
  <2>2. k \in D /\ k \in Nat /\ k + 1 \in D /\ k + 1 # lo /\ (k + 1) - 1 = k
    BY <1>1, <1>3
  <2>3. PICK v : v = LookAt(f[k], k, n)
    OBVIOUS
  <2>4. v \in LoopStates
    BY <1>1, <2>2, <2>3, LookAtStates
  <2>5. PICK g : g = [f EXCEPT ![k + 1] = v]
    OBVIOUS
  <2>6. g \in [D -> LoopStates] /\ g[k + 1] = v /\ \A i \in D : i # k + 1 => g[i] = f[i]
    BY <2>2, <2>4, <2>5
  <2>7. ASSUME NEW i \in lo .. (k + 1) PROVE g[i] = Body(g, i)
    <3>1. CASE i = k + 1
      <4>1. g[k] = f[k]
        BY <2>2, <2>6
      <4>2. Body(g, k + 1) = LookAt(g[k], k, n)
        BY <2>2, Zenon
      <4> QED
        BY <2>3, <2>6, <3>1, <4>1, <4>2, Zenon
    <3>2. CASE i # k + 1
      <4>1. i \in lo .. k /\ i \in D
        BY <1>1, <2>2, <3>2
      <4>2. CASE i = lo
        BY <2>1, <2>6, <3>2, <4>1, <4>2, Zenon
      <4>3. CASE i # lo
        <5>1. i - 1 \in D /\ i - 1 # k + 1
          BY <1>1, <2>2, <4>1, <4>3
        <5>2. g[i - 1] = f[i - 1] /\ g[i] = f[i]
          BY <2>6, <3>2, <4>1, <5>1, Zenon
        <5>3. Body(g, i) = LookAt(g[i - 1], i - 1, n) /\ Body(f, i) = LookAt(f[i - 1], i - 1, n)
          BY <4>3, Zenon
        <5> QED
          BY <2>1, <4>1, <5>2, <5>3, Zenon
      <4> QED
        BY <4>2, <4>3, Zenon
    <3> QED
      BY <3>1, <3>2, Zenon
  <2> QED
    BY <2>2, <2>6, <2>7, Zenon
<1>4. Upto \in SUBSET (lo .. BitmapSizeInBlocks)
  BY Zenon
<1>5. Upto = lo .. BitmapSizeInBlocks
  <2> HIDE DEF Upto
  <2> QED
    BY <1>1, <1>2, <1>3, <1>4, IntervalInduction, Zenon
<1>6. BitmapSizeInBlocks \in Upto
  <2>1. BitmapSizeInBlocks \in lo .. BitmapSizeInBlocks
    BY <1>1
  <2> HIDE DEF Upto
  <2> QED
    BY <1>5, <2>1, Zenon
<1>7. PICK f \in [D -> LoopStates] : \A i \in lo .. BitmapSizeInBlocks : f[i] = Body(f, i)
  BY <1>6, Zenon
<1>8. f = [i \in lo .. BitmapSizeInBlocks |-> Body(f, i)]
  <2> HIDE DEF Body
  <2>1. f = [i \in lo .. BitmapSizeInBlocks |-> f[i]]
    BY Zenon
  <2> QED
    BY <1>7, <2>1, Zenon
<1> QED
  BY <1>8, Zenon

\* In every bitmap of the right type the loop finds the first fit.
LEMMA LoopCorrect ==
    ASSUME TypeOK
    PROVE  LoopFindsFirstFit
<1> SUFFICES ASSUME NEW n \in Requests
             PROVE  LET end == find_free_region(n)
                    IN  IF end.found = INVALID_BLOCK
                        THEN NoFit(n) /\ end.hint = lastDeepFragmented
                        ELSE IsFirstFit(end.found, n) /\ end.hint = HintAfterFind(end.found, n)
  BY Zenon DEF LoopFindsFirstFit
<1> DEFINE lo == lastDeepFragmented
           top == BitmapSizeInBlocks
<1>1. lo \in Nat /\ top \in Nat /\ lo <= top /\ n \in Nat /\ n > 0
  BY ConstantFacts DEF TypeOK
<1>2. \E f : /\ f = [i \in lo .. top |->
                        IF i = lo
                        THEN [start |-> i, size |-> 0, hint |-> i, found |-> INVALID_BLOCK]
                        ELSE LookAt(f[i - 1], i - 1, n)]
             /\ find_free_region(n) = f[top]
  BY LoopExists, Zenon DEF find_free_region
<1>3. PICK f : /\ f = [i \in lo .. top |->
                          IF i = lo
                          THEN [start |-> i, size |-> 0, hint |-> i, found |-> INVALID_BLOCK]
                          ELSE LookAt(f[i - 1], i - 1, n)]
               /\ find_free_region(n) = f[top]
  BY <1>2, Zenon
<1> DEFINE Holds == {i \in lo .. top : f[i] \in LoopStates /\ LoopInv(f[i], i, n)}
<1>4. lo \in Holds
  <2>1. lo \in lo .. top
    BY <1>1
  <2>2. f[lo] = [start |-> lo, size |-> 0, hint |-> lo, found |-> INVALID_BLOCK]
    BY <1>3, <2>1, Zenon
  <2>3. f[lo] \in LoopStates
    BY <1>1, <2>2 DEF LoopStates
  <2>4. /\ f[lo].start = lo /\ f[lo].size = 0 /\ f[lo].hint = lo
        /\ f[lo].found = INVALID_BLOCK
    BY <2>2
  <2>5. lo \in lo .. lo /\ 0 = lo - lo /\ 0 < n
    BY <1>1
  <2>6. (\A b \in lo .. (lo - 1) : b \notin used) /\ \A p \in lo .. (lo - 1) : ~ FreeRun(p, n)
    BY <1>1
  <2>7. LoopInv(f[lo], lo, n)
    BY <2>4, <2>5, <2>6, Zenon DEF LoopInv
  <2> QED
    BY <2>1, <2>3, <2>7, Zenon
<1>5. ASSUME NEW k \in Holds, k < top PROVE k + 1 \in Holds
  <2>1. /\ k \in lo .. (top - 1) /\ k \in Nat /\ k + 1 \in lo .. top /\ k + 1 # lo
        /\ (k + 1) - 1 = k
    BY <1>1, <1>5
  <2>2. f[k + 1] = LookAt(f[k], k, n)
    BY <1>3, <2>1, Zenon
  <2>3. f[k] \in LoopStates /\ LoopInv(f[k], k, n)
    BY Zenon
  <2>4. f[k + 1] \in LoopStates
    BY <1>1, <2>1, <2>2, <2>3, LookAtStates, Zenon
  <2>5. LoopInv(f[k + 1], k + 1, n)
    BY <2>1, <2>2, <2>3, LookAtInv, Zenon
  <2> QED
    BY <2>1, <2>4, <2>5, Zenon
<1>6. Holds \in SUBSET (lo .. top)
  BY Zenon
<1>7. Holds = lo .. top
  <2> HIDE DEF Holds
  <2> QED
    BY <1>1, <1>4, <1>5, <1>6, IntervalInduction, Zenon
<1>8. top \in lo .. top
  BY <1>1
<1>9. PICK e : e = find_free_region(n)
  OBVIOUS
<1>10. e \in LoopStates /\ LoopInv(e, top, n)
  BY <1>3, <1>7, <1>8, <1>9, Zenon
<1>11. CASE e.found = INVALID_BLOCK
  <2>1. /\ e.start \in lo .. top /\ e.size = top - e.start /\ e.size < n
        /\ \A p \in lo .. (e.start - 1) : ~ FreeRun(p, n)
        /\ e.hint = lo
    BY <1>10, <1>11, Zenon DEF LoopInv
  <2>2. ASSUME NEW p \in lo .. (top - 1) PROVE ~ FreeRun(p, n)
    <3>1. CASE p \in lo .. (e.start - 1)
      BY <2>1, <3>1, Zenon
    <3>2. CASE p \in e.start .. top
      <4>1. ~ (p + n <= top)
        BY <1>1, <2>1, <3>2
      <4> QED
        BY <4>1, Zenon DEF FreeRun
    <3> QED
      BY <1>1, <2>1, <3>1, <3>2
  <2>3. NoFit(n)
    BY <2>2, Zenon DEF NoFit
  <2> QED
    BY <1>9, <1>11, <2>1, <2>3, Zenon
<1>12. CASE e.found # INVALID_BLOCK
  BY <1>9, <1>10, <1>12, Zenon DEF LoopInv
<1> QED
  BY <1>11, <1>12, Zenon

(***************************************************************************)
(* In every reachable bitmap, for every memory map, find_free_region       *)
(* returns the first fit and leaves the hint physical_allocate is stated   *)
(* with, or INVALID_BLOCK when nothing fits.                               *)
(***************************************************************************)
THEOREM LoopIsFirstFit == Spec => []LoopFindsFirstFit
<1>1. Inv => LoopFindsFirstFit
  BY LoopCorrect, Zenon DEF Inv
<1> QED
  BY <1>1, InvAlways, PTL

-----------------------------------------------------------------------------
(***************************************************************************)
(* The memory of tasks (Paging).  F says which frame each page of the user *)
(* half of a directory is mapped to, X which frames a call has taken and   *)
(* not yet mapped.                                                         *)
(***************************************************************************)

\* A frame of a program, neither missing nor the frame 0 that munmap leaves.
Own == Frames \ {0}

Owned(u, F, mk, X) ==
  /\ \A f \in X : f \in Own /\ f \notin mk /\ f \notin Reserved
  /\ \A d \in Dirs, p \in Pages :
       F[d][p] \in Own => F[d][p] \notin mk /\ F[d][p] \notin Reserved /\ F[d][p] \notin X
  /\ \A d, e \in Dirs, p, q \in Pages : F[d][p] \in Own /\ F[d][p] = F[e][q] => d = e /\ p = q
  /\ \A f \in Own : f \in u <=> \/ f \in Reserved \/ f \in mk \/ f \in X
                                \/ \E d \in Dirs, p \in Pages : F[d][p] = f

\* The constants: frames and pages are numbered from 0.
LEMMA PagingConstants ==
  /\ Frames \subseteq Nat /\ Reserved \subseteq Frames /\ None \notin Frames
  /\ KernelTable \in Own /\ KernelPage \in Own /\ 0 \in Frames /\ None # 0
  /\ Image \in Pages /\ Halves = {"user", "kernel"} /\ "user" # "kernel"
<1>1. PICK n \in Nat : n >= 2 /\ Frames = 0 .. n
  BY PagingAssumption, Zenon
<1>2. PICK k \in Nat : Pages = 0 .. k
  BY PagingAssumption, Zenon
<1>3. /\ Frames \subseteq Nat /\ Reserved \subseteq Frames /\ None \notin Frames
      /\ KernelTable \in Own /\ KernelPage \in Own /\ 0 \in Frames /\ None # 0
  BY <1>1 DEF Reserved, KernelPage, KernelTable, None, Own
<1>4. Image \in Pages
  BY <1>2 DEF Image
<1> QED
  BY <1>3, <1>4, Zenon DEF Halves

\* No frame of a program is mapped at two pages.
LEMMA OwnedOnce ==
  ASSUME NEW u, NEW F, NEW mk, NEW X, Owned(u, F, mk, X), NEW d \in Dirs, NEW e \in Dirs,
         NEW p \in Pages, NEW q \in Pages, F[d][p] \in Own, F[d][p] = F[e][q]
  PROVE  d = e /\ p = q
BY DEF Owned

\* physical_allocate takes a free frame.
LEMMA OwnedTake ==
  ASSUME NEW u, NEW F, NEW mk, NEW X, Owned(u, F, mk, X), NEW f \in Own, f \notin u
  PROVE  Owned(u \cup {f}, F, mk, X \cup {f}) /\ f \notin X
<1>1. /\ f \notin X /\ f \notin mk /\ f \notin Reserved
      /\ \A d \in Dirs, p \in Pages : F[d][p] # f
  BY Zenon DEF Owned
<1> QED
  BY <1>1, Zenon DEF Owned

\* A frame taken becomes a directory or a table.
LEMMA OwnedMake ==
  ASSUME NEW u, NEW F, NEW mk, NEW X, Owned(u, F, mk, X), NEW f \in X
  PROVE  Owned(u, F, mk \cup {f}, X \ {f})
BY DEF Owned

\* A frame taken, or frame 0, is mapped at page p of d, and what was there freed.
LEMMA OwnedMap ==
  ASSUME NEW u, NEW F, NEW mk, NEW X, Owned(u, F, mk, X), NEW f \in X \cup {0},
         NEW d \in Dirs, NEW p \in Pages, NEW G,
         G[d][p] = f, \A e \in Dirs, q \in Pages : e # d \/ q # p => G[e][q] = F[e][q]
  PROVE  Owned(u \ {F[d][p]}, G, mk, X \ {f})
<1>1. \A g \in Own : g # 0
  BY Zenon DEF Own
<1>2. \A g \in X \ {f} : g \in Own /\ g \notin mk /\ g \notin Reserved
  BY Zenon DEF Owned
<1>3. f \in Own => f \in X /\ f \notin mk /\ f \notin Reserved
  BY <1>1, Zenon DEF Owned
<1>4. f \in Own => \A e \in Dirs, q \in Pages : F[e][q] # f
  BY <1>3, Zenon DEF Owned
<1>5. ASSUME NEW e \in Dirs, NEW q \in Pages, G[e][q] \in Own
      PROVE  G[e][q] \notin mk /\ G[e][q] \notin Reserved /\ G[e][q] \notin X \ {f}
  <2>1. CASE e = d /\ q = p
    BY <1>3, <1>5, <2>1, Zenon
  <2>2. CASE e # d \/ q # p
    BY <1>5, <2>2, Zenon DEF Owned
  <2> QED
    BY <2>1, <2>2, Zenon
<1>6. ASSUME NEW e \in Dirs, NEW q \in Pages, NEW b \in Dirs, NEW r \in Pages,
             G[e][q] \in Own, G[e][q] = G[b][r]
      PROVE  e = b /\ q = r
  <2>1. CASE e = d /\ q = p
    BY <1>4, <1>6, <2>1
  <2>2. CASE b = d /\ r = p
    BY <1>4, <1>6, <2>2
  <2>3. CASE (e # d \/ q # p) /\ (b # d \/ r # p)
    <3>1. G[e][q] = F[e][q] /\ G[b][r] = F[b][r]
      BY <2>3, Zenon
    <3>2. F[e][q] \in Own /\ F[e][q] = F[b][r]
      BY <1>6, <3>1
    <3> QED
      BY <3>2, OwnedOnce
  <2> QED
    BY <2>1, <2>2, <2>3, Zenon
<1>7. ASSUME NEW g \in Own
      PROVE  g \in u \ {F[d][p]} <=> \/ g \in Reserved \/ g \in mk \/ g \in X \ {f}
                                     \/ \E e \in Dirs, q \in Pages : G[e][q] = g
  <2>1. CASE g = f
    <3>1. g \in u /\ g # F[d][p] /\ G[d][p] = g
      BY <1>3, <1>4, <1>7, <2>1, Zenon DEF Owned
    <3> QED
      BY <3>1, Zenon
  <2>2. CASE g # f /\ g = F[d][p]
    <3>1. g \notin Reserved /\ g \notin mk /\ g \notin X
      BY <1>7, <2>2, Zenon DEF Owned
    <3>2. ASSUME NEW e \in Dirs, NEW q \in Pages PROVE G[e][q] # g
      <4>1. CASE e = d /\ q = p
        BY <2>2, <4>1, Zenon
      <4>2. CASE e # d \/ q # p
        BY <1>7, <2>2, <4>2 DEF Owned
      <4> QED
        BY <4>1, <4>2, Zenon
    <3> QED
      BY <2>2, <3>1, <3>2, Zenon
  <2>3. CASE g # f /\ g # F[d][p]
    <3>1. (\E e \in Dirs, q \in Pages : G[e][q] = g) <=> \E e \in Dirs, q \in Pages : F[e][q] = g
      <4>1. ASSUME NEW e \in Dirs, NEW q \in Pages PROVE G[e][q] = g <=> F[e][q] = g
        BY <2>3, Zenon
      <4> QED
        BY <4>1, Zenon
    <3> QED
      BY <1>7, <2>3, <3>1, Zenon DEF Owned
  <2> QED
    BY <2>1, <2>2, <2>3, Zenon
<1> QED
  BY <1>2, <1>5, <1>6, <1>7 DEF Owned

\* G is F without the pages of d, whose frames are in S.
Dropped(F, G, d, S) ==
  /\ \A f \in Own : f \in S <=> \E p \in Pages : F[d][p] = f
  /\ \A p \in Pages : G[d][p] = None
  /\ \A e \in Dirs, p \in Pages : e # d => G[e][p] = F[e][p]

\* All frames of d are given back at once.
LEMMA OwnedDrop ==
  ASSUME NEW u, NEW F, NEW mk, NEW X, Owned(u, F, mk, X), NEW d \in Dirs, NEW G, NEW S, Dropped(F, G, d, S)
  PROVE  Owned(u \ S, G, mk, X)
<1>1. None \notin Own
  BY PagingConstants, Zenon DEF Own
<1>2. ASSUME NEW e \in Dirs, NEW p \in Pages, G[e][p] \in Own
      PROVE  e # d /\ G[e][p] = F[e][p]
  BY <1>1, <1>2, Zenon DEF Dropped
<1>3. ASSUME NEW g \in Own
      PROVE  g \in u \ S <=> \/ g \in Reserved \/ g \in mk \/ g \in X
                             \/ \E e \in Dirs, p \in Pages : G[e][p] = g
  <2>1. CASE g \in S
    <3>1. PICK p \in Pages : F[d][p] = g
      BY <1>3, <2>1, Zenon DEF Dropped
    <3>2. g \notin Reserved /\ g \notin mk /\ g \notin X
      BY <1>3, <3>1, Zenon DEF Owned
    <3>3. ASSUME NEW e \in Dirs, NEW q \in Pages PROVE G[e][q] # g
      <4>1. SUFFICES ASSUME G[e][q] = g PROVE FALSE
        BY Zenon
      <4>2. e # d /\ F[e][q] = g
        BY <1>2, <1>3, <4>1, Zenon
      <4> QED
        BY <1>3, <3>1, <4>2 DEF Owned
    <3> QED
      BY <2>1, <3>2, <3>3, Zenon
  <2>2. CASE g \notin S
    <3>1. ASSUME NEW e \in Dirs, NEW p \in Pages PROVE G[e][p] = g <=> F[e][p] = g
      BY <1>1, <1>3, <2>2, ZenonT(30) DEF Dropped
    <3>2. (\E e \in Dirs, p \in Pages : G[e][p] = g) <=> \E e \in Dirs, p \in Pages : F[e][p] = g
      BY <3>1
    <3> QED
      BY <1>3, <2>2, <3>2, Zenon DEF Owned
  <2> QED
    BY <2>1, <2>2, Zenon
<1>4. \A e \in Dirs, p \in Pages :
        G[e][p] \in Own => G[e][p] \notin mk /\ G[e][p] \notin Reserved /\ G[e][p] \notin X
  BY <1>2 DEF Owned
<1>5. ASSUME NEW e \in Dirs, NEW q \in Pages, NEW b \in Dirs, NEW r \in Pages,
             G[e][q] \in Own, G[e][q] = G[b][r]
      PROVE  e = b /\ q = r
  <2>1. G[e][q] = F[e][q] /\ G[b][r] = F[b][r]
    BY <1>2, <1>5, Zenon
  <2>2. F[e][q] \in Own /\ F[e][q] = F[b][r]
    BY <1>5, <2>1
  <2> QED
    BY <2>2, OwnedOnce
<1>6. \A f \in X : f \in Own /\ f \notin mk /\ f \notin Reserved
  BY Zenon DEF Owned
<1> QED
  BY <1>3, <1>4, <1>5, <1>6 DEF Owned

\* The records the functions of Paging work on.
EntryType == [phys : Frames \cup {None}, user : BOOLEAN]
TableType == [Frames -> [Pages -> EntryType]]
DirType == [Dirs -> [Halves -> Frames \cup {None}]]
MachineType == [used : SUBSET Frames, dir : DirType, table : TableType,
                made : SUBSET Frames, halted : BOOLEAN, got : Frames \cup {None}]

\* The frame that page p of the user half of d is mapped to.
PhysOf(dr, tb, d, p) == IF dr[d]["user"] = None THEN None ELSE tb[dr[d]["user"]][p].phys
Maps(dr, tb) == [d \in Dirs |-> [p \in Pages |-> PhysOf(dr, tb, d, p)]]

(***************************************************************************)
(* The directories in L are in use: each has a user table of its own, or   *)
(* none yet, and shares that of the kernel.                                *)
(***************************************************************************)
Shape(dr, tb, mk, L) ==
  /\ \A f \in mk : f \in Own /\ f \notin Reserved
  /\ \A d \in Dirs : d \in L => dr[d]["kernel"] = KernelTable
  /\ \A d \in Dirs : d \notin L => dr[d]["kernel"] = None /\ dr[d]["user"] = None
  /\ \A d \in Dirs : dr[d]["user"] # None => dr[d]["user"] \in mk
  /\ \A d, e \in Dirs : dr[d]["user"] # None /\ dr[d]["user"] = dr[e]["user"] => d = e
  /\ \A p \in Pages : ~ tb[KernelTable][p].user
  /\ \A d \in Dirs, p \in Pages : dr[d]["user"] # None =>
       \/ tb[dr[d]["user"]][p] = NoEntry
       \/ tb[dr[d]["user"]][p].user /\ tb[dr[d]["user"]][p].phys \in Frames

Safe(m, L, X) ==
  /\ m \in MachineType
  /\ ~ m.halted => /\ Shape(m.dir, m.table, m.made, L)
                   /\ Owned(m.used, Maps(m.dir, m.table), m.made, X)

\* What Maps holds at a page.
LEMMA MapsAt ==
  ASSUME NEW dr, NEW tb, NEW d \in Dirs, NEW p \in Pages
  PROVE  Maps(dr, tb)[d][p] = PhysOf(dr, tb, d, p)
BY Zenon DEF Maps

\* Tables that say the same map the same.
LEMMA MapsSame ==
  ASSUME NEW dr, NEW tb, NEW dr2, NEW tb2,
         \A d \in Dirs, p \in Pages : PhysOf(dr2, tb2, d, p) = PhysOf(dr, tb, d, p)
  PROVE  Maps(dr2, tb2) = Maps(dr, tb)
BY DEF Maps

\* A cleared table has no entries.
LEMMA EmptyType == NoEntry \in EntryType /\ Empty \in [Pages -> EntryType]
<1>1. NoEntry \in EntryType
  BY DEF NoEntry, EntryType
<1> QED
  BY <1>1, Zenon DEF Empty

\* The halves of a new directory.
LEMMA NewHalves ==
  /\ [user |-> None, kernel |-> KernelTable] \in [Halves -> Frames \cup {None}]
  /\ [h \in Halves |-> None] \in [Halves -> Frames \cup {None}]
<1>1. KernelTable \in Frames /\ Halves = {"user", "kernel"}
  BY PagingConstants, Zenon DEF Own
<1> QED
  BY <1>1

\* What physical_allocate does to the machine.
LEMMA AllocateFields ==
  ASSUME NEW m \in MachineType, NEW n, n = allocate_frame(m)
  PROVE  /\ n \in MachineType /\ n.dir = m.dir /\ n.table = m.table /\ n.made = m.made
         /\ ~ n.halted => /\ ~ m.halted /\ n.got \in Own /\ n.got \notin m.used
                          /\ n.used = m.used \cup {n.got}
<1> DEFINE free == Frames \ m.used
           f == CHOOSE x \in free : \A y \in free : x <= y
<1>1. CASE m.halted
  <2>1. n = m
    BY <1>1 DEF allocate_frame
  <2> QED
    BY <1>1, <2>1
<1>2. CASE ~ m.halted /\ free = {}
  <2>1. n = [m EXCEPT !.halted = TRUE]
    BY <1>2 DEF allocate_frame
  <2> QED
    BY <2>1 DEF MachineType
<1>3. CASE ~ m.halted /\ free # {}
  <2>1. free \in SUBSET Nat
    BY PagingConstants, Zenon
  <2>2. \E x \in free : \A y \in free : x <= y
    <3> HIDE DEF free
    <3> QED
      BY <1>3, <2>1, LeastExists, Zenon
  <2>3. f \in free
    <3> HIDE DEF free
    <3> QED
      BY <2>2, Zenon
  <2>4. PICK g : g = f
    BY Zenon
  <2>5. g \in Frames /\ g \notin m.used
    BY <2>3, <2>4, Zenon
  <2>6. n = IF g = 0 THEN [m EXCEPT !.used = @ \cup {0}, !.halted = TRUE]
                     ELSE [m EXCEPT !.used = @ \cup {g}, !.got = g]
    BY <1>3, <2>4 DEF allocate_frame
  <2>7. CASE g = 0
    <3>1. n = [m EXCEPT !.used = @ \cup {0}, !.halted = TRUE]
      BY <2>6, <2>7
    <3> HIDE DEF f, free
    <3>2. n \in MachineType
      BY <2>5, <2>7, <3>1, ZenonT(30) DEF MachineType
    <3>3. n.dir = m.dir /\ n.table = m.table /\ n.made = m.made /\ n.halted
      BY <3>1 DEF MachineType
    <3> QED
      BY <3>2, <3>3, Zenon
  <2>8. CASE g # 0
    <3>1. n = [m EXCEPT !.used = @ \cup {g}, !.got = g]
      BY <2>6, <2>8
    <3> HIDE DEF f, free
    <3>2. n \in MachineType
      BY <2>5, <3>1, ZenonT(30) DEF MachineType
    <3>3. /\ n.dir = m.dir /\ n.table = m.table /\ n.made = m.made /\ n.halted = m.halted
          /\ n.got = g /\ n.used = m.used \cup {g}
      BY <3>1 DEF MachineType
    <3> QED
      BY <1>3, <2>5, <2>8, <3>2, <3>3 DEF Own
  <2> QED
    BY <2>7, <2>8, Zenon
<1> QED
  BY <1>1, <1>2, <1>3, Zenon

\* A frame is taken.
LEMMA AllocateSafe ==
  ASSUME NEW m, NEW L, NEW X, Safe(m, L, X), NEW n, n = allocate_frame(m)
  PROVE  /\ Safe(n, L, X \cup {n.got}) /\ n.dir = m.dir /\ n.table = m.table /\ n.made = m.made
         /\ ~ n.halted => /\ ~ m.halted /\ n.got \in Own /\ n.got \notin X
                          /\ n.got \notin m.made /\ n.got \notin Reserved
<1>1. m \in MachineType
  BY Zenon DEF Safe
<1>2. /\ n \in MachineType /\ n.dir = m.dir /\ n.table = m.table /\ n.made = m.made
      /\ ~ n.halted => /\ ~ m.halted /\ n.got \in Own /\ n.got \notin m.used
                       /\ n.used = m.used \cup {n.got}
  BY <1>1, AllocateFields, Zenon
<1>3. CASE n.halted
  BY <1>2, <1>3, Zenon DEF Safe
<1>4. CASE ~ n.halted
  <2>1. /\ Shape(m.dir, m.table, m.made, L)
        /\ Owned(m.used, Maps(m.dir, m.table), m.made, X)
    BY <1>2, <1>4, Zenon DEF Safe
  <2>2. Owned(m.used \cup {n.got}, Maps(m.dir, m.table), m.made, X \cup {n.got}) /\ n.got \notin X
    BY <1>2, <1>4, <2>1, OwnedTake
  <2>3. n.got \notin m.made /\ n.got \notin Reserved
    <3>1. n.got \in X \cup {n.got}
      BY Zenon
    <3> QED
      BY <2>2, <3>1 DEF Owned
  <2> QED
    BY <1>2, <1>4, <2>1, <2>2, <2>3 DEF Safe
<1> QED
  BY <1>3, <1>4, Zenon

\* A frame that is no table yet is cleared.
LEMMA ClearShape ==
  ASSUME NEW dr \in DirType, NEW tb, NEW mk, NEW L, Shape(dr, tb, mk, L),
         NEW g \in Frames, g \notin mk, g \notin Reserved, NEW tb2,
         \A f \in Frames : f # g => tb2[f] = tb[f]
  PROVE  Shape(dr, tb2, mk, L) /\ Maps(dr, tb2) = Maps(dr, tb)
<1>1. tb2[KernelTable] = tb[KernelTable]
  <2>1. KernelTable \in Frames /\ KernelTable # g
    BY PagingConstants, Zenon DEF Own, Reserved
  <2> QED
    BY <2>1, Zenon
<1>2. ASSUME NEW d \in Dirs, dr[d]["user"] # None
      PROVE  tb2[dr[d]["user"]] = tb[dr[d]["user"]]
  <2>1. dr[d]["user"] \in mk /\ dr[d]["user"] \in Frames
    BY <1>2, Zenon DEF Shape, Own
  <2> QED
    BY <2>1, Zenon
<1>3. Shape(dr, tb2, mk, L)
  BY <1>1, <1>2 DEF Shape
<1>4. \A d \in Dirs, p \in Pages : PhysOf(dr, tb2, d, p) = PhysOf(dr, tb, d, p)
  BY <1>2 DEF PhysOf
<1>5. Maps(dr, tb2) = Maps(dr, tb)
  BY <1>4, Zenon DEF Maps
<1> QED
  BY <1>3, <1>5, Zenon

\* One more frame has been taken for a directory or a table.
LEMMA MakeShape ==
  ASSUME NEW dr, NEW tb, NEW mk, NEW L, Shape(dr, tb, mk, L), NEW g \in Own, g \notin Reserved
  PROVE  Shape(dr, tb, mk \cup {g}, L)
BY DEF Shape

(***************************************************************************)
(* A cleared frame is taken: as a table, or, once made is put back, for a  *)
(* page.                                                                   *)
(***************************************************************************)
LEMMA ClearedSafe ==
  ASSUME NEW m, NEW L, NEW X, Safe(m, L, X), NEW n, n = paging_physical_allocate(m)
  PROVE  /\ Safe(n, L, X) /\ n.dir = m.dir
         /\ ~ n.halted => /\ ~ m.halted /\ n.got \in Own /\ n.got \notin m.made /\ n.got \in n.made
                          /\ n.got \notin X /\ n.table[n.got] = Empty
                          /\ Safe([n EXCEPT !.made = m.made], L, X \cup {n.got})
<1>1. PICK a : a = allocate_frame(m)
  BY Zenon
<1>2. /\ Safe(a, L, X \cup {a.got}) /\ a.dir = m.dir /\ a.table = m.table /\ a.made = m.made
      /\ ~ a.halted => /\ ~ m.halted /\ a.got \in Own /\ a.got \notin X
                       /\ a.got \notin m.made /\ a.got \notin Reserved
  BY <1>1, AllocateSafe, Zenon
<1>3. a \in MachineType
  BY <1>2, Zenon DEF Safe
<1>4. CASE a.halted
  <2>1. n = a
    BY <1>1, <1>4 DEF paging_physical_allocate
  <2> QED
    BY <1>2, <1>3, <1>4, <2>1, Zenon DEF Safe
<1>5. CASE ~ a.halted
  <2>1. PICK g : g = a.got
    BY Zenon
  <2>2. n = [a EXCEPT !.table[g] = Empty, !.made = @ \cup {g}]
    BY <1>1, <1>5, <2>1 DEF paging_physical_allocate
  <2>3. /\ g \in Own /\ g \in Frames /\ g \notin X /\ g \notin m.made /\ g \notin Reserved
        /\ ~ m.halted
    BY <1>2, <1>5, <2>1, Zenon DEF Own
  <2>4. PICK tb2 : tb2 = [m.table EXCEPT ![g] = Empty]
    BY Zenon
  <2>5. /\ Shape(m.dir, m.table, m.made, L)
        /\ Owned(a.used, Maps(m.dir, m.table), m.made, X \cup {g})
    BY <1>2, <1>5, <2>1 DEF Safe
  <2>6. /\ m.dir \in DirType /\ m.table \in TableType /\ m.made \in SUBSET Frames
        /\ a.used \in SUBSET Frames
    BY <1>2, <1>3 DEF MachineType
  <2>7. /\ tb2 \in TableType /\ tb2[g] = Empty
        /\ \A f \in Frames : f # g => tb2[f] = m.table[f]
    BY <2>3, <2>4, <2>6, EmptyType DEF TableType
  <2>8. /\ Shape(m.dir, tb2, m.made, L) /\ Maps(m.dir, tb2) = Maps(m.dir, m.table)
    BY <2>3, <2>5, <2>6, <2>7, ClearShape
  <2>9. /\ n.used = a.used /\ n.dir = m.dir /\ n.table = tb2 /\ n.made = m.made \cup {g}
        /\ ~ n.halted /\ n.got = g
    BY <1>2, <1>3, <1>5, <2>1, <2>2, <2>4 DEF MachineType
  <2>10. n \in MachineType
    BY <1>3, <2>2, <2>3, <2>4, <2>6, <2>7, <2>9 DEF MachineType
  <2>11. Shape(m.dir, tb2, m.made \cup {g}, L)
    BY <2>3, <2>8, MakeShape, Zenon
  <2>12. Owned(a.used, Maps(m.dir, tb2), m.made \cup {g}, X)
    <3>1. (X \cup {g}) \ {g} = X /\ g \in X \cup {g}
      BY <2>3
    <3> QED
      BY <2>5, <2>8, <3>1, OwnedMake
  <2>13. Safe(n, L, X)
    BY <2>9, <2>10, <2>11, <2>12 DEF Safe
  <2>14. PICK o : o = [n EXCEPT !.made = m.made]
    BY Zenon
  <2>15. /\ o.used = a.used /\ o.dir = m.dir /\ o.table = tb2 /\ o.made = m.made
         /\ ~ o.halted /\ o \in MachineType
    BY <2>6, <2>9, <2>10, <2>14 DEF MachineType
  <2>16. Safe(o, L, X \cup {g})
    BY <2>5, <2>15, <2>8 DEF Safe
  <2> QED
    BY <2>3, <2>7, <2>9, <2>13, <2>14, <2>16
<1> QED
  BY <1>4, <1>5, Zenon

\* After EnsureTable the directory has a user table, which maps what it did.
LEMMA EnsureSafe ==
  ASSUME NEW m, NEW L, NEW X, Safe(m, L, X), NEW d \in Dirs, d \in L,
         NEW n, n = EnsureTable(m, d, "user")
  PROVE  /\ Safe(n, L, X)
         /\ ~ n.halted => ~ m.halted /\ n.dir[d]["user"] # None
<1>1. CASE m.halted \/ m.dir[d]["user"] # None
  <2>1. n = m
    BY <1>1 DEF EnsureTable
  <2> QED
    BY <1>1, <2>1, Zenon
<1>2. CASE ~ m.halted /\ m.dir[d]["user"] = None
  <2>1. PICK a : a = paging_physical_allocate(m)
    BY Zenon
  <2>2. /\ Safe(a, L, X) /\ a.dir = m.dir
        /\ ~ a.halted => /\ a.got \in Own /\ a.got \notin m.made /\ a.got \in a.made
                         /\ a.table[a.got] = Empty
    BY <2>1, ClearedSafe
  <2>3. CASE a.halted
    <3>1. n = a
      BY <1>2, <2>1, <2>3 DEF EnsureTable
    <3> QED
      BY <2>2, <2>3, <3>1, Zenon
  <2>4. CASE ~ a.halted
    <3>1. PICK g : g = a.got
      BY Zenon
    <3>2. n = [a EXCEPT !.dir[d]["user"] = g]
      BY <1>2, <2>1, <2>4, <3>1 DEF EnsureTable
    <3>3. a \in MachineType
      BY <2>2, Zenon DEF Safe
    <3>4. g \in Frames /\ g \in Own /\ g \notin m.made /\ g \in a.made /\ a.table[g] = Empty
      BY <2>2, <2>4, <3>1, Zenon DEF Own
    <3>5. PICK dr2 : dr2 = [m.dir EXCEPT ![d]["user"] = g]
      BY Zenon
    <3>6. m.dir \in DirType
      BY <2>2, <3>3 DEF MachineType
    <3>7. /\ dr2 \in DirType /\ dr2[d]["user"] = g /\ dr2[d]["kernel"] = m.dir[d]["kernel"]
          /\ \A e \in Dirs : e # d => dr2[e] = m.dir[e]
      BY <3>4, <3>5, <3>6, PagingConstants DEF DirType
    <3>8. /\ n.used = a.used /\ n.dir = dr2 /\ n.table = a.table /\ n.made = a.made
          /\ n.halted = a.halted
      BY <2>2, <3>2, <3>3, <3>5 DEF MachineType
    <3>9. n \in MachineType
      BY <3>2, <3>3, <3>7, <3>8 DEF MachineType
    <3>10. /\ Shape(m.dir, a.table, a.made, L) /\ Shape(m.dir, m.table, m.made, L)
           /\ Owned(a.used, Maps(m.dir, a.table), a.made, X)
      BY <1>2, <2>2, <2>4, SMTT(30) DEF Safe
    <3>11. g # None /\ \A e \in Dirs : m.dir[e]["user"] # g
      <4>1. g # None
        BY <3>4, PagingConstants, Zenon
      <4>2. ASSUME NEW e \in Dirs PROVE m.dir[e]["user"] # g
        <5>1. m.dir[e]["user"] # None => m.dir[e]["user"] \in m.made
          BY <3>10, ZenonT(30) DEF Shape
        <5> QED
          BY <3>4, <4>1, <5>1, Zenon
      <4> QED
        BY <4>1, <4>2, Zenon
    <3>12. Shape(dr2, a.table, a.made, L)
      <4>1. \A p \in Pages : a.table[g][p] = NoEntry
        BY <3>4, Zenon DEF Empty
      <4>2. ASSUME NEW b \in Dirs, dr2[b]["user"] # None
            PROVE  /\ dr2[b]["user"] \in a.made
                   /\ \A p \in Pages :
                        \/ a.table[dr2[b]["user"]][p] = NoEntry
                        \/ /\ a.table[dr2[b]["user"]][p].user
                           /\ a.table[dr2[b]["user"]][p].phys \in Frames
        <5>1. CASE b = d
          BY <3>4, <3>7, <4>1, <5>1, SMTT(30)
        <5>2. CASE b # d
          <6>1. dr2[b]["user"] = m.dir[b]["user"] /\ m.dir[b]["user"] # None
            BY <3>7, <4>2, <5>2
          <6>2. /\ m.dir[b]["user"] \in a.made
                /\ \A p \in Pages :
                     \/ a.table[m.dir[b]["user"]][p] = NoEntry
                     \/ /\ a.table[m.dir[b]["user"]][p].user
                        /\ a.table[m.dir[b]["user"]][p].phys \in Frames
            BY <3>10, <6>1, Zenon DEF Shape
          <6> QED
            BY <6>1, <6>2
        <5> QED
          BY <5>1, <5>2, Zenon
      <4>3. ASSUME NEW b \in Dirs, NEW e \in Dirs, dr2[b]["user"] # None,
                   dr2[b]["user"] = dr2[e]["user"]
            PROVE  b = e
        <5>1. CASE b = d \/ e = d
          BY <3>7, <3>11, <4>3, <5>1
        <5>2. CASE b # d /\ e # d
          <6>1. m.dir[b]["user"] # None /\ m.dir[b]["user"] = m.dir[e]["user"]
            BY <3>7, <4>3, <5>2
          <6> QED
            BY <3>10, <6>1, Zenon DEF Shape
        <5> QED
          BY <5>1, <5>2, Zenon
      <4>4. \A b \in Dirs : /\ dr2[b]["kernel"] = m.dir[b]["kernel"]
                            /\ b \notin L => dr2[b]["user"] = m.dir[b]["user"]
        BY <3>7
      <4>5. /\ \A b \in Dirs : b \in L => m.dir[b]["kernel"] = KernelTable
            /\ \A b \in Dirs : b \notin L => m.dir[b]["kernel"] = None /\ m.dir[b]["user"] = None
        BY <3>10, Zenon DEF Shape
      <4>6. /\ \A f \in a.made : f \in Own /\ f \notin Reserved
            /\ \A b \in Dirs : b \in L => dr2[b]["kernel"] = KernelTable
            /\ \A b \in Dirs : b \notin L => dr2[b]["kernel"] = None /\ dr2[b]["user"] = None
            /\ \A p \in Pages : ~ a.table[KernelTable][p].user
        <5>1. /\ \A f \in a.made : f \in Own /\ f \notin Reserved
              /\ \A p \in Pages : ~ a.table[KernelTable][p].user
          BY <3>10, Zenon DEF Shape
        <5>2. ASSUME NEW b \in Dirs, b \in L PROVE dr2[b]["kernel"] = KernelTable
          <6>1. dr2[b]["kernel"] = m.dir[b]["kernel"]
            BY <4>4, Zenon
          <6>2. m.dir[b]["kernel"] = KernelTable
            BY <4>5, <5>2, Zenon
          <6> QED
            BY <6>1, <6>2, Zenon
        <5>3. ASSUME NEW b \in Dirs, b \notin L
              PROVE  dr2[b]["kernel"] = None /\ dr2[b]["user"] = None
          <6>1. dr2[b]["kernel"] = m.dir[b]["kernel"] /\ dr2[b]["user"] = m.dir[b]["user"]
            BY <4>4, <5>3, Zenon
          <6>2. m.dir[b]["kernel"] = None /\ m.dir[b]["user"] = None
            BY <4>5, <5>3, Zenon
          <6> QED
            BY <6>1, <6>2, Zenon
        <5> QED
          BY <5>1, <5>2, <5>3, Zenon
      <4> QED
        BY <4>2, <4>3, <4>6 DEF Shape
    <3>13. ASSUME NEW b \in Dirs, NEW p \in Pages
           PROVE  PhysOf(dr2, a.table, b, p) = PhysOf(m.dir, a.table, b, p)
      <4>1. CASE b = d
        <5>1. PhysOf(m.dir, a.table, b, p) = None
          BY <1>2, <4>1 DEF PhysOf
        <5>2. a.table[g][p].phys = None
          BY <3>4 DEF Empty, NoEntry
        <5> QED
          BY <3>7, <3>11, <4>1, <5>1, <5>2 DEF PhysOf
      <4>2. CASE b # d
        BY <3>7, <4>2 DEF PhysOf
      <4> QED
        BY <4>1, <4>2, ZenonT(30)
    <3>14. Maps(dr2, a.table) = Maps(m.dir, a.table)
      BY <3>13, MapsSame
    <3> QED
      BY <1>2, <2>4, <3>7, <3>8, <3>9, <3>10, <3>11, <3>12, <3>14 DEF Safe
  <2> QED
    BY <2>3, <2>4, Zenon
<1> QED
  BY <1>1, <1>2, Zenon

\* Page p of the user half is mapped to f, a frame taken or frame 0.
LEMMA MapSafe ==
  ASSUME NEW m, NEW L, NEW X, Safe(m, L, X), NEW d \in Dirs, d \in L, NEW p \in Pages,
         NEW f \in Frames, f \in X \cup {0}, NEW r, r = virtual_mapL(m, d, "user", p, f, TRUE)
  PROVE  Safe(r, L, X \ {f})
<1>1. PICK n : n = EnsureTable(m, d, "user")
  BY Zenon
<1>2. /\ Safe(n, L, X)
      /\ ~ n.halted => ~ m.halted /\ n.dir[d]["user"] # None
  BY <1>1, EnsureSafe
<1>3. n \in MachineType
  BY <1>2, Zenon DEF Safe
<1>4. CASE n.halted
  <2>1. r = n
    BY <1>1, <1>4 DEF virtual_mapL
  <2> QED
    BY <1>3, <1>4, <2>1, ZenonT(30) DEF Safe
<1>5. CASE ~ n.halted
  <2>1. /\ Shape(n.dir, n.table, n.made, L)
        /\ Owned(n.used, Maps(n.dir, n.table), n.made, X)
    BY <1>2, <1>5, Zenon DEF Safe
  <2>2. PICK t : t = n.dir[d]["user"]
    BY Zenon
  <2>3. PICK old : old = n.table[t][p]
    BY Zenon
  <2>4. PICK w : w = [phys |-> f, user |-> TRUE]
    BY Zenon
  <2>5. w \in EntryType /\ w.phys = f /\ w.user = TRUE
    BY <2>4 DEF EntryType
  <2>6. t # None /\ t \in n.made /\ t \in Own /\ t \in Frames /\ t \notin Reserved
    BY <1>2, <1>5, <2>1, <2>2, Zenon DEF Shape, Own
  <2>7. /\ n.used \in SUBSET Frames /\ n.dir \in DirType /\ n.table \in TableType
        /\ n.made \in SUBSET Frames
    BY <1>3 DEF MachineType
  <2>8. PICK tb2 : tb2 = [n.table EXCEPT ![t][p] = w]
    BY Zenon
  <2>9. /\ tb2 \in TableType /\ tb2[t][p] = w
        /\ \A q \in Pages : q # p => tb2[t][q] = n.table[t][q]
        /\ \A g \in Frames : g # t => tb2[g] = n.table[g]
    BY <2>5, <2>6, <2>7, <2>8 DEF TableType
  <2>10. PICK o : o = IF old = NoEntry THEN n ELSE free_frame(n, old.phys)
    BY ZenonT(30)
  <2>11. r = [o EXCEPT !.table[t][p] = w]
    BY <1>1, <1>5, <2>2, <2>3, <2>4, <2>10 DEF virtual_mapL
  <2>12. /\ o \in MachineType /\ o.used = n.used \ {old.phys} /\ o.dir = n.dir
         /\ o.table = n.table /\ o.made = n.made /\ o.halted = n.halted
    <3>1. CASE old = NoEntry
      <4>1. old.phys = None
        BY <3>1 DEF NoEntry
      <4>2. n.used \ {None} = n.used
        BY <2>7, PagingConstants
      <4> QED
        BY <1>3, <2>10, <3>1, <4>1, <4>2
    <3>2. CASE old # NoEntry
      <4>1. o = [n EXCEPT !.used = @ \ {old.phys}]
        BY <2>10, <3>2 DEF free_frame
      <4> QED
        BY <1>3, <4>1 DEF MachineType
    <3> QED
      BY <3>1, <3>2, Zenon
  <2>13. /\ r.used = n.used \ {old.phys} /\ r.dir = n.dir /\ r.table = tb2
         /\ r.made = n.made /\ ~ r.halted
    BY <1>5, <2>8, <2>11, <2>12 DEF MachineType
  <2>14. r \in MachineType
    BY <2>9, <2>11, <2>12, <2>13 DEF MachineType
  <2>15. \A e \in Dirs : e # d /\ n.dir[e]["user"] # None =>
                         tb2[n.dir[e]["user"]] = n.table[n.dir[e]["user"]]
    <3>1. ASSUME NEW e \in Dirs, e # d, n.dir[e]["user"] # None
          PROVE  n.dir[e]["user"] # t /\ n.dir[e]["user"] \in Frames
      BY <2>1, <2>2, <3>1, Zenon DEF Shape, Own
    <3> QED
      BY <2>9, <3>1, Zenon
  <2>16. Shape(n.dir, tb2, n.made, L)
    <3>1. tb2[KernelTable] = n.table[KernelTable]
      <4>1. KernelTable \in Frames /\ KernelTable # t
        BY <2>6, PagingConstants, ZenonT(30) DEF Own, Reserved
      <4> QED
        BY <2>9, <4>1, Zenon
    <3>2. \A q \in Pages : ~ tb2[KernelTable][q].user
      BY <2>1, <3>1 DEF Shape
    <3>3. ASSUME NEW e \in Dirs, NEW q \in Pages, n.dir[e]["user"] # None
          PROVE  \/ tb2[n.dir[e]["user"]][q] = NoEntry
                 \/ tb2[n.dir[e]["user"]][q].user /\ tb2[n.dir[e]["user"]][q].phys \in Frames
      <4>1. \/ n.table[n.dir[e]["user"]][q] = NoEntry
            \/ /\ n.table[n.dir[e]["user"]][q].user
               /\ n.table[n.dir[e]["user"]][q].phys \in Frames
        BY <2>1, <3>3, Zenon DEF Shape
      <4>2. CASE e = d /\ q = p
        <5>1. tb2[n.dir[e]["user"]][q] = w
          BY <2>2, <2>9, <4>2, SMTT(30)
        <5> QED
          BY <2>5, <5>1
      <4>3. CASE e # d \/ q # p
        <5>1. tb2[n.dir[e]["user"]][q] = n.table[n.dir[e]["user"]][q]
          BY <2>2, <2>9, <2>15, <3>3, <4>3
        <5> QED
          BY <4>1, <5>1
      <4> QED
        BY <4>2, <4>3, Zenon
    <3> QED
      BY <2>1, <3>2, <3>3, Zenon DEF Shape
  <2>17. PICK F : F = Maps(n.dir, n.table)
    BY Zenon
  <2>18. PICK G : G = Maps(n.dir, tb2)
    BY Zenon
  <2>19. F[d][p] = old.phys
    BY <2>2, <2>3, <2>6, <2>17, MapsAt DEF PhysOf
  <2>20. G[d][p] = f
    BY <2>2, <2>5, <2>6, <2>9, <2>18, MapsAt DEF PhysOf
  <2>21. ASSUME NEW e \in Dirs, NEW q \in Pages, e # d \/ q # p PROVE G[e][q] = F[e][q]
    <3>1. PhysOf(n.dir, tb2, e, q) = PhysOf(n.dir, n.table, e, q)
      BY <2>2, <2>9, <2>15, <2>21 DEF PhysOf
    <3> QED
      BY <2>17, <2>18, <3>1, MapsAt, SMTT(30)
  <2>22. Owned(n.used \ {F[d][p]}, G, n.made, X \ {f})
    BY <2>1, <2>17, <2>20, <2>21, OwnedMap
  <2> QED
    BY <2>13, <2>14, <2>16, <2>18, <2>19, <2>22 DEF Safe
<1> QED
  BY <1>4, <1>5, Zenon

\* A fresh frame is mapped.
LEMMA MapFreshSafe ==
  ASSUME NEW m, NEW L, Safe(m, L, {}), NEW d \in Dirs, d \in L, NEW p \in Pages,
         NEW r, r = MapFresh(m, d, p)
  PROVE  Safe(r, L, {})
<1>1. PICK n : n = allocate_frame(m)
  BY Zenon
<1>2. /\ Safe(n, L, {} \cup {n.got})
      /\ ~ n.halted => n.got \in Own
  BY <1>1, AllocateSafe
<1>3. CASE n.halted
  <2>1. r = n
    BY <1>1, <1>3 DEF MapFresh
  <2> QED
    BY <1>2, <1>3, <2>1, Zenon DEF Safe
<1>4. CASE ~ n.halted
  <2>1. PICK g : g = n.got
    BY Zenon
  <2>2. r = virtual_mapL(n, d, "user", p, g, TRUE)
    BY <1>1, <1>4, <2>1 DEF MapFresh
  <2>3. Safe(n, L, {g}) /\ g \in Frames /\ g \in {g} \cup {0} /\ {g} \ {g} = {}
    BY <1>2, <1>4, <2>1 DEF Own
  <2>4. Safe(r, L, {g} \ {g})
    BY <2>2, <2>3, MapSafe
  <2> QED
    BY <2>3, <2>4
<1> QED
  BY <1>3, <1>4, Zenon

\* A directory comes into use, with the table of the kernel.
LEMMA NewDirSafe ==
  ASSUME NEW m, NEW L, Safe(m, L, {}), NEW d \in Dirs, d \notin L,
         NEW r, r = page_directory_allocate(m, d)
  PROVE  Safe(r, L \cup {d}, {})
<1>1. PICK n : n = allocate_frame(m)
  BY Zenon
<1>2. /\ Safe(n, L, {} \cup {n.got}) /\ n.made = m.made
      /\ ~ n.halted => n.got \in Own /\ n.got \notin Reserved
  BY <1>1, AllocateSafe
<1>3. n \in MachineType
  BY <1>2, Zenon DEF Safe
<1>4. CASE n.halted
  <2>1. r = n
    BY <1>1, <1>4 DEF page_directory_allocate
  <2> QED
    BY <1>3, <1>4, <2>1, Zenon DEF Safe
<1>5. CASE ~ n.halted
  <2>1. PICK g : g = n.got
    BY Zenon
  <2>2. PICK w : w = [user |-> None, kernel |-> KernelTable]
    BY Zenon
  <2>3. w \in [Halves -> Frames \cup {None}] /\ w["user"] = None /\ w["kernel"] = KernelTable
    BY <2>2, NewHalves
  <2>4. r = [n EXCEPT !.made = @ \cup {g}, !.dir[d] = w]
    BY <1>1, <1>5, <2>1, <2>2 DEF page_directory_allocate
  <2>5. /\ n.used \in SUBSET Frames /\ n.dir \in DirType /\ n.table \in TableType
        /\ n.made \in SUBSET Frames
    BY <1>3 DEF MachineType
  <2>6. PICK dr2 : dr2 = [n.dir EXCEPT ![d] = w]
    BY Zenon
  <2>7. /\ dr2 \in DirType /\ dr2[d] = w
        /\ \A e \in Dirs : e # d => dr2[e] = n.dir[e]
    BY <2>3, <2>5, <2>6 DEF DirType
  <2>8. g \in Own /\ g \in Frames /\ g \notin Reserved
    BY <1>2, <1>5, <2>1, Zenon DEF Own
  <2>9. /\ r.used = n.used /\ r.dir = dr2 /\ r.table = n.table /\ r.made = n.made \cup {g}
        /\ ~ r.halted
    BY <1>3, <1>5, <2>4, <2>6 DEF MachineType
  <2>10. r \in MachineType
    BY <1>3, <2>4, <2>5, <2>7, <2>8, <2>9, ZenonT(30) DEF MachineType
  <2>11. /\ Shape(n.dir, n.table, n.made, L)
         /\ Owned(n.used, Maps(n.dir, n.table), n.made, {g})
    BY <1>2, <1>5, <2>1 DEF Safe
  <2>12. \A e \in Dirs : dr2[e]["user"] = n.dir[e]["user"]
    <3>1. n.dir[d]["user"] = None
      BY <2>11, Zenon DEF Shape
    <3> QED
      BY <2>3, <2>7, <3>1
  <2>13. Shape(dr2, n.table, n.made, L \cup {d})
    <3>1. ASSUME NEW e \in Dirs, e \in L \cup {d} PROVE dr2[e]["kernel"] = KernelTable
      <4>1. CASE e = d
        BY <2>3, <2>7, <4>1
      <4>2. CASE e # d
        <5>1. n.dir[e]["kernel"] = KernelTable
          BY <2>11, <3>1, <4>2 DEF Shape
        <5> QED
          BY <2>7, <4>2, <5>1, SMTT(30)
      <4> QED
        BY <4>1, <4>2, Zenon
    <3>2. ASSUME NEW e \in Dirs, e \notin L \cup {d}
          PROVE  dr2[e]["kernel"] = None /\ dr2[e]["user"] = None
      <4>1. n.dir[e]["kernel"] = None /\ n.dir[e]["user"] = None
        BY <2>11, <3>2 DEF Shape
      <4>2. e # d
        BY <3>2, ZenonT(30)
      <4> QED
        BY <2>7, <4>1, <4>2, SMTT(30)
    <3>3. ASSUME NEW e \in Dirs, dr2[e]["user"] # None
          PROVE  /\ dr2[e]["user"] \in n.made
                 /\ \A b \in Dirs : dr2[e]["user"] = dr2[b]["user"] => e = b
                 /\ \A p \in Pages :
                      \/ n.table[dr2[e]["user"]][p] = NoEntry
                      \/ /\ n.table[dr2[e]["user"]][p].user
                         /\ n.table[dr2[e]["user"]][p].phys \in Frames
      <4>1. /\ n.dir[e]["user"] \in n.made
            /\ \A b \in Dirs : n.dir[e]["user"] = n.dir[b]["user"] => e = b
            /\ \A p \in Pages :
                 \/ n.table[n.dir[e]["user"]][p] = NoEntry
                 \/ /\ n.table[n.dir[e]["user"]][p].user
                    /\ n.table[n.dir[e]["user"]][p].phys \in Frames
        <5>1. n.dir[e]["user"] # None
          BY <2>12, <3>3
        <5> QED
          BY <2>11, <5>1, Zenon DEF Shape
      <4> QED
        BY <2>12, <4>1
    <3>4. /\ \A f \in n.made : f \in Own /\ f \notin Reserved
          /\ \A p \in Pages : ~ n.table[KernelTable][p].user
      BY <2>11, Zenon DEF Shape
    <3> QED
      BY <3>1, <3>2, <3>3, <3>4, Zenon DEF Shape
  <2>14. Shape(dr2, n.table, n.made \cup {g}, L \cup {d})
    BY <2>8, <2>13, MakeShape, Zenon
  <2>15. Maps(dr2, n.table) = Maps(n.dir, n.table)
    <3>1. \A e \in Dirs, p \in Pages : PhysOf(dr2, n.table, e, p) = PhysOf(n.dir, n.table, e, p)
      BY <2>12 DEF PhysOf
    <3> QED
      BY <3>1, MapsSame
  <2>16. Owned(n.used, Maps(dr2, n.table), n.made \cup {g}, {})
    <3>1. {g} \ {g} = {} /\ g \in {g}
      OBVIOUS
    <3> QED
      BY <2>11, <2>15, <3>1, OwnedMake
  <2> QED
    BY <2>9, <2>10, <2>14, <2>16 DEF Safe
<1> QED
  BY <1>4, <1>5, Zenon

\* The user pages of d are those of its user table, and Maps has their frames.
InUserTable(m, d) ==
  /\ \A e \in UserEntries(m, d) :
       /\ e[1] = "user" /\ e[2] \in Pages /\ e = <<"user", e[2]>>
       /\ Entry(m, d, e).phys \in Frames
       /\ Entry(m, d, e).phys = Maps(m.dir, m.table)[d][e[2]]
  /\ \A p \in Pages : Maps(m.dir, m.table)[d][p] \in Frames =>
       /\ <<"user", p>> \in UserEntries(m, d)
       /\ Entry(m, d, <<"user", p>>).phys = Maps(m.dir, m.table)[d][p]

\* Pages of the kernel are never marked as a user's.
LEMMA UserPages ==
  ASSUME NEW m, NEW L, Shape(m.dir, m.table, m.made, L), NEW d \in Dirs
  PROVE  InUserTable(m, d)
<1>1. ASSUME NEW e \in UserEntries(m, d)
      PROVE  /\ e[1] = "user" /\ e[2] \in Pages /\ e = <<"user", e[2]>>
             /\ Entry(m, d, e).phys \in Frames
             /\ Entry(m, d, e).phys = Maps(m.dir, m.table)[d][e[2]]
  <2>1. /\ e \in Halves \X Pages /\ m.dir[d][e[1]] # None /\ Entry(m, d, e) # NoEntry
        /\ Entry(m, d, e).user
    BY Zenon DEF UserEntries, Present
  <2>2. e[1] \in {"user", "kernel"} /\ e[2] \in Pages /\ e = <<e[1], e[2]>>
    BY <2>1 DEF Halves
  <2>3. e[1] # "kernel"
    <3>1. SUFFICES ASSUME e[1] = "kernel" PROVE FALSE
      BY ZenonT(30)
    <3>2. m.dir[d]["kernel"] = KernelTable
      BY <2>1, <3>1 DEF Shape
    <3>3. ~ m.table[KernelTable][e[2]].user
      BY <2>2, Zenon DEF Shape
    <3> QED
      BY <2>1, <3>1, <3>2, <3>3 DEF Entry
  <2>4. e[1] = "user"
    BY <2>2, <2>3, ZenonT(30)
  <2>5. m.dir[d]["user"] # None /\ Entry(m, d, e) = m.table[m.dir[d]["user"]][e[2]]
    BY <2>1, <2>4 DEF Entry
  <2>6. m.table[m.dir[d]["user"]][e[2]].phys \in Frames
    <3>1. m.table[m.dir[d]["user"]][e[2]] # NoEntry
      BY <2>1, <2>5
    <3> QED
      BY <2>2, <2>5, <3>1, ZenonT(30) DEF Shape
  <2>7. Maps(m.dir, m.table)[d][e[2]] = PhysOf(m.dir, m.table, d, e[2])
    BY <2>2, MapsAt, ZenonT(30)
  <2>8. PhysOf(m.dir, m.table, d, e[2]) = m.table[m.dir[d]["user"]][e[2]].phys
    BY <2>5, Zenon DEF PhysOf
  <2> QED
    BY <2>2, <2>4, <2>5, <2>6, <2>7, <2>8
<1>2. ASSUME NEW p \in Pages, Maps(m.dir, m.table)[d][p] \in Frames
      PROVE  /\ <<"user", p>> \in UserEntries(m, d)
             /\ Entry(m, d, <<"user", p>>).phys = Maps(m.dir, m.table)[d][p]
  <2>1. Maps(m.dir, m.table)[d][p] = PhysOf(m.dir, m.table, d, p)
    BY MapsAt, Zenon
  <2>2. /\ m.dir[d]["user"] # None
        /\ PhysOf(m.dir, m.table, d, p) = m.table[m.dir[d]["user"]][p].phys
    BY <1>2, <2>1, PagingConstants, Zenon DEF PhysOf
  <2>3. Entry(m, d, <<"user", p>>) = m.table[m.dir[d]["user"]][p]
    BY DEF Entry
  <2>4. NoEntry.phys = None
    BY SMTT(30) DEF NoEntry
  <2>5. m.table[m.dir[d]["user"]][p] # NoEntry
    BY <1>2, <2>1, <2>2, <2>4, PagingConstants
  <2>6. m.table[m.dir[d]["user"]][p].user
    BY <2>2, <2>5, Zenon DEF Shape
  <2>7. <<"user", p>> \in Halves \X Pages
    BY DEF Halves
  <2>8. m.dir[d][<<"user", p>>[1]] # None
    BY <2>2
  <2> QED
    BY <2>1, <2>2, <2>3, <2>5, <2>6, <2>7, <2>8 DEF UserEntries, Present
<1> QED
  BY <1>1, <1>2, ZenonT(30) DEF InUserTable

\* A directory goes out of use.
LEMMA FreeSafe ==
  ASSUME NEW m, NEW L, Safe(m, L, {}), ~ m.halted, NEW d \in Dirs,
         NEW r, r = page_directory_free(m, d)
  PROVE  Safe(r, L \ {d}, {})
<1>1. /\ m \in MachineType /\ Shape(m.dir, m.table, m.made, L)
      /\ Owned(m.used, Maps(m.dir, m.table), m.made, {})
  BY Zenon DEF Safe
<1>2. /\ m.used \in SUBSET Frames /\ m.dir \in DirType /\ m.table \in TableType
      /\ m.made \in SUBSET Frames
  BY <1>1 DEF MachineType
<1>3. PICK S : S = {Entry(m, d, e).phys : e \in UserEntries(m, d)}
  BY Zenon
<1>4. PICK tb2 : tb2 = [f \in Frames |-> IF f = m.dir[d]["user"] THEN Empty ELSE m.table[f]]
  BY Zenon
<1>5. PICK w : w = [h \in Halves |-> None]
  BY Zenon
<1>6. w \in [Halves -> Frames \cup {None}] /\ w["user"] = None /\ w["kernel"] = None
  BY <1>5, NewHalves DEF Halves
<1>7. PICK dr2 : dr2 = [m.dir EXCEPT ![d] = w]
  BY Zenon
<1>8. /\ dr2 \in DirType /\ dr2[d] = w
      /\ \A e \in Dirs : e # d => dr2[e] = m.dir[e]
  BY <1>2, <1>6, <1>7 DEF DirType
<1>9. /\ tb2 \in TableType
      /\ \A f \in Frames : f # m.dir[d]["user"] => tb2[f] = m.table[f]
  <2>1. \A f \in Frames : m.table[f] \in [Pages -> EntryType]
    BY <1>2 DEF TableType
  <2> QED
    BY <1>4, <2>1, EmptyType DEF TableType
<1>10. /\ r.used = m.used \ S /\ r.dir = dr2 /\ r.table = tb2 /\ r.made = m.made
       /\ r.halted = m.halted /\ r.got = m.got
  BY <1>1, <1>3, <1>4, <1>5, <1>7 DEF page_directory_free, MachineType
<1>11. r \in MachineType
  <2>1. r = [m EXCEPT !.used = r.used, !.table = r.table, !.dir = r.dir]
    BY <1>1, <1>3, <1>4, <1>5, <1>7 DEF page_directory_free, MachineType
  <2> QED
    BY <1>1, <1>2, <1>8, <1>9, <1>10, <2>1 DEF MachineType
<1>12. ASSUME NEW e \in Dirs, e # d, m.dir[e]["user"] # None
       PROVE  tb2[m.dir[e]["user"]] = m.table[m.dir[e]["user"]]
  <2>1. m.dir[e]["user"] # m.dir[d]["user"] /\ m.dir[e]["user"] \in Frames
    BY <1>1, <1>12, Zenon DEF Shape, Own
  <2> QED
    BY <1>9, <2>1, Zenon
<1>13. tb2[KernelTable] = m.table[KernelTable]
  <2>1. KernelTable \in Frames /\ KernelTable \in Reserved /\ KernelTable # None
    BY PagingConstants, Zenon DEF Own, Reserved
  <2>2. m.dir[d]["user"] # KernelTable
    BY <1>1, <2>1, Zenon DEF Shape
  <2> QED
    BY <1>9, <2>1, <2>2, Zenon
<1>14. \A e \in Dirs : dr2[e]["user"] # None => e # d /\ dr2[e]["user"] = m.dir[e]["user"]
  BY <1>6, <1>8
<1>15. Shape(dr2, tb2, m.made, L \ {d})
  <2>1. ASSUME NEW e \in Dirs, e \in L \ {d} PROVE dr2[e]["kernel"] = KernelTable
    <3>1. m.dir[e]["kernel"] = KernelTable /\ e # d
      BY <1>1, <2>1 DEF Shape
    <3> QED
      BY <1>8, <3>1, SMTT(30)
  <2>2. ASSUME NEW e \in Dirs, e \notin L \ {d}
        PROVE  dr2[e]["kernel"] = None /\ dr2[e]["user"] = None
    <3>1. CASE e = d
      BY <1>6, <1>8, <3>1
    <3>2. CASE e # d
      <4>1. m.dir[e]["kernel"] = None /\ m.dir[e]["user"] = None
        BY <1>1, <2>2, <3>2, ZenonT(30) DEF Shape
      <4> QED
        BY <1>8, <3>2, <4>1, SMTT(30)
    <3> QED
      BY <3>1, <3>2, Zenon
  <2>3. ASSUME NEW e \in Dirs, dr2[e]["user"] # None
        PROVE  /\ dr2[e]["user"] \in m.made
               /\ \A b \in Dirs : dr2[e]["user"] = dr2[b]["user"] => e = b
               /\ \A p \in Pages :
                    \/ tb2[dr2[e]["user"]][p] = NoEntry
                    \/ /\ tb2[dr2[e]["user"]][p].user
                       /\ tb2[dr2[e]["user"]][p].phys \in Frames
    <3>1. e # d /\ dr2[e]["user"] = m.dir[e]["user"]
      BY <1>14, <2>3, Zenon
    <3>2. m.dir[e]["user"] # None
      BY <2>3, <3>1
    <3>3. /\ m.dir[e]["user"] \in m.made
          /\ \A b \in Dirs : m.dir[e]["user"] = m.dir[b]["user"] => e = b
          /\ \A p \in Pages :
               \/ m.table[m.dir[e]["user"]][p] = NoEntry
               \/ /\ m.table[m.dir[e]["user"]][p].user
                  /\ m.table[m.dir[e]["user"]][p].phys \in Frames
      BY <1>1, <3>2, ZenonT(30) DEF Shape
    <3>4. tb2[m.dir[e]["user"]] = m.table[m.dir[e]["user"]]
      BY <1>12, <3>1, <3>2, Zenon
    <3>5. ASSUME NEW b \in Dirs, dr2[e]["user"] = dr2[b]["user"] PROVE e = b
      <4>1. dr2[b]["user"] = m.dir[b]["user"]
        BY <1>14, <2>3, <3>5, SMTT(30)
      <4> QED
        BY <3>1, <3>3, <3>5, <4>1
    <3> QED
      BY <3>1, <3>3, <3>4, <3>5
  <2>4. /\ \A f \in m.made : f \in Own /\ f \notin Reserved
        /\ \A p \in Pages : ~ tb2[KernelTable][p].user
    BY <1>1, <1>13 DEF Shape
  <2> QED
    BY <2>1, <2>2, <2>3, <2>4, Zenon DEF Shape
<1>16. PICK F : F = Maps(m.dir, m.table)
  BY Zenon
<1>17. PICK G : G = Maps(dr2, tb2)
  BY Zenon
<1>18. InUserTable(m, d)
  BY <1>1, UserPages, Zenon
<1>19. \A f \in Own : f \in S <=> \E p \in Pages : F[d][p] = f
  <2>1. ASSUME NEW f \in Own, f \in S PROVE \E p \in Pages : F[d][p] = f
    <3>1. PICK e \in UserEntries(m, d) : f = Entry(m, d, e).phys
      BY <1>3, <2>1, Zenon
    <3>2. e[2] \in Pages /\ Entry(m, d, e).phys = F[d][e[2]]
      <4>1. /\ e[2] \in Pages
            /\ Entry(m, d, e).phys = Maps(m.dir, m.table)[d][e[2]]
        BY <1>18, Zenon DEF InUserTable
      <4> QED
        BY <1>16, <4>1
    <3> QED
      BY <3>1, <3>2
  <2>2. ASSUME NEW f \in Own, NEW p \in Pages, F[d][p] = f PROVE f \in S
    <3>1. F[d][p] \in Frames
      BY <2>2, Zenon DEF Own
    <3>2. /\ <<"user", p>> \in UserEntries(m, d)
          /\ Entry(m, d, <<"user", p>>).phys = F[d][p]
      <4>1. Maps(m.dir, m.table)[d][p] \in Frames
        BY <1>16, <3>1
      <4>2. /\ <<"user", p>> \in UserEntries(m, d)
            /\ Entry(m, d, <<"user", p>>).phys = Maps(m.dir, m.table)[d][p]
        BY <1>18, <4>1, Zenon DEF InUserTable
      <4> QED
        BY <1>16, <4>2
    <3> QED
      BY <1>3, <2>2, <3>2
  <2> QED
    BY <2>1, <2>2, Zenon
<1>20. ASSUME NEW p \in Pages PROVE G[d][p] = None
  <2>1. PhysOf(dr2, tb2, d, p) = None
    BY <1>6, <1>8, Zenon DEF PhysOf
  <2> QED
    BY <1>17, <2>1, MapsAt
<1>21. ASSUME NEW e \in Dirs, NEW p \in Pages, e # d PROVE G[e][p] = F[e][p]
  <2>1. PhysOf(dr2, tb2, e, p) = PhysOf(m.dir, m.table, e, p)
    BY <1>8, <1>12, <1>21 DEF PhysOf
  <2> QED
    BY <1>16, <1>17, <2>1, MapsAt, SMTT(30)
<1>22. Owned(m.used \ S, G, m.made, {})
  <2>1. Owned(m.used, F, m.made, {})
    BY <1>1, <1>16
  <2>2. Dropped(F, G, d, S)
    BY <1>19, <1>20, <1>21, Zenon DEF Dropped
  <2> QED
    BY <2>1, <2>2, OwnedDrop, Zenon
<1> QED
  BY <1>10, <1>11, <1>15, <1>17, <1>22 DEF Safe

\* One page is copied.
LEMMA CopySafe ==
  ASSUME NEW m, NEW n, NEW L, Safe(n, L, {}), NEW d, NEW e \in Dirs, e \in L, NEW p \in Pages,
         NEW r, r = CopyPage(m, d, e, n, p)
  PROVE  Safe(r, L, {})
<1>1. CASE <<"user", p>> \notin UserEntries(m, d)
  <2>1. r = n
    BY <1>1 DEF CopyPage
  <2> QED
    BY <2>1, Zenon
<1>2. CASE <<"user", p>> \in UserEntries(m, d)
  <2>1. PICK o : o = paging_physical_allocate(n)
    BY Zenon
  <2>2. /\ Safe(o, L, {})
        /\ ~ o.halted => o.got \in Own /\ Safe([o EXCEPT !.made = n.made], L, {} \cup {o.got})
    BY <2>1, ClearedSafe
  <2>3. CASE o.halted
    <3>1. r = o
      BY <1>2, <2>1, <2>3 DEF CopyPage
    <3> QED
      BY <2>2, <3>1, Zenon
  <2>4. CASE ~ o.halted
    <3>1. PICK g : g = o.got
      BY Zenon
    <3>2. PICK c : c = [o EXCEPT !.made = n.made]
      BY Zenon
    <3>3. r = virtual_mapL(c, e, "user", p, g, TRUE)
      BY <1>2, <2>1, <2>4, <3>1, <3>2 DEF CopyPage
    <3>4. Safe(c, L, {g}) /\ g \in Frames /\ g \in {g} \cup {0} /\ {g} \ {g} = {}
      BY <2>2, <2>4, <3>1, <3>2 DEF Own
    <3>5. Safe(r, L, {g} \ {g})
      BY <3>3, <3>4, MapSafe
    <3> QED
      BY <3>4, <3>5
  <2> QED
    BY <2>3, <2>4, Zenon
<1> QED
  BY <1>1, <1>2, Zenon

\* The copies of the first n pages, one after the other.
CopyNext(m, d, e, i, x) == CopyPage(m, d, e, x, i - 1)
IsCopies(m, d, e, f, n) ==
  f = [i \in 0 .. n |-> IF i = 0 THEN m ELSE CopyPage(m, d, e, f[i - 1], i - 1)]

\* The recursion of page_directory_user_duplicate has a solution.
LEMMA CopiesExist ==
  ASSUME NEW m, NEW d, NEW e, NEW k \in Nat
  PROVE  \E f : IsCopies(m, d, e, f, k)
<1> DEFINE P == {n \in 0 .. k : \E f : IsCopies(m, d, e, f, n)}
<1>1. 0 \in P
  <2>1. PICK f : f = [i \in 0 .. 0 |-> m]
    BY Zenon
  <2>2. (\A i \in 0 .. 0 : i = 0) /\ 0 \in 0 .. k
    OBVIOUS
  <2>3. IsCopies(m, d, e, f, 0)
    BY <2>1, <2>2, Zenon DEF IsCopies
  <2> QED
    BY <2>2, <2>3, Zenon
<1>2. ASSUME NEW n \in P, n < k PROVE n + 1 \in P
  <2>1. PICK f : IsCopies(m, d, e, f, n)
    BY Zenon
  <2>2. n \in Nat /\ n + 1 \in 0 .. k
    BY <1>2
  <2>3. PICK g : g = [i \in 0 .. n + 1 |-> IF i = n + 1 THEN CopyNext(m, d, e, i, f[n]) ELSE f[i]]
    BY Zenon
  <2>4. /\ \A i \in 0 .. n : i # n + 1 /\ i \in 0 .. n + 1
        /\ \A i \in 1 .. n : i - 1 \in 0 .. n /\ i # 0
        /\ n \in 0 .. n /\ n + 1 # 0 /\ (n + 1) - 1 = n /\ n + 1 \in 0 .. n + 1
        /\ \A i \in 0 .. n + 1 : i = 0 \/ i \in 1 .. n \/ i = n + 1
        /\ 0 \in 0 .. n /\ \A i \in 1 .. n : i \in 0 .. n
    BY <2>2
  <2>5. \A i \in 0 .. n : g[i] = f[i]
    BY <2>3, <2>4, Zenon
  <2>6. g[0] = m
    BY <2>1, <2>4, <2>5, Zenon DEF IsCopies
  <2>7. ASSUME NEW i \in 1 .. n PROVE g[i] = CopyNext(m, d, e, i, g[i - 1])
    <3>1. f[i] = CopyNext(m, d, e, i, f[i - 1])
      BY <2>1, <2>4, Zenon DEF IsCopies, CopyNext
    <3> QED
      BY <2>4, <2>5, <3>1, Zenon
  <2>8. g[n + 1] = CopyNext(m, d, e, n + 1, g[(n + 1) - 1])
    BY <2>3, <2>4, <2>5, Zenon
  <2>9. \A i \in 0 .. n + 1 : g[i] = IF i = 0 THEN m ELSE CopyNext(m, d, e, i, g[i - 1])
    BY <2>4, <2>6, <2>7, <2>8, Zenon
  <2>10. IsCopies(m, d, e, g, n + 1)
    BY <2>3, <2>9, Zenon DEF IsCopies, CopyNext
  <2> QED
    BY <2>2, <2>10, Zenon
<1>3. P = 0 .. k
  <2> HIDE DEF P
  <2>1. P \in SUBSET (0 .. k)
    BY Zenon DEF P
  <2>2. 0 \in Nat
    OBVIOUS
  <2> QED
    BY <1>1, <1>2, <2>1, <2>2, IntervalInduction, Zenon
<1>4. k \in 0 .. k
  OBVIOUS
<1> QED
  BY <1>3, <1>4, Zenon

\* The pages of a directory are copied to a new one.
LEMMA DuplicateSafe ==
  ASSUME NEW m, NEW L, Safe(m, L, {}), NEW d, NEW e \in Dirs, e \in L
  PROVE  Safe(page_directory_user_duplicate(m, d, e), L, {})
<1>1. PICK c : c = LastPage + 1
  BY Zenon
<1>2. c \in Nat /\ 0 \in Nat /\ \A i \in 0 .. c : i < c => i \in Pages
  <2>1. LastPage \in Pages /\ Pages = 0 .. LastPage
    BY PagingAssumption, Zenon DEF LastPage
  <2>2. LastPage \in Nat
    BY <2>1, PagingAssumption, Zenon
  <2> QED
    BY <1>1, <2>1, <2>2
<1>3. PICK f : IsCopies(m, d, e, f, c) /\ page_directory_user_duplicate(m, d, e) = f[c]
  <2>1. \E f : IsCopies(m, d, e, f, c)
    BY <1>2, CopiesExist, Zenon
  <2> QED
    BY <1>1, <2>1, Zenon DEF page_directory_user_duplicate, IsCopies
<1> DEFINE P == {i \in 0 .. c : Safe(f[i], L, {})}
<1>4. 0 \in P
  <2>1. 0 \in 0 .. c
    BY <1>2
  <2>2. f[0] = m
    BY <1>3, <2>1, Zenon DEF IsCopies
  <2> QED
    BY <2>1, <2>2, Zenon
<1>5. ASSUME NEW i \in P, i < c PROVE i + 1 \in P
  <2>1. i + 1 \in 0 .. c /\ i + 1 # 0 /\ (i + 1) - 1 = i /\ i \in Pages
    BY <1>2, <1>5
  <2>2. f[i + 1] = CopyPage(m, d, e, f[i], i)
    <3>1. f[i + 1] = CopyNext(m, d, e, i + 1, f[(i + 1) - 1])
      BY <1>3, <2>1, Zenon DEF IsCopies, CopyNext
    <3> QED
      BY <2>1, <3>1, Zenon DEF CopyNext
  <2>3. Safe(f[i], L, {})
    BY <1>5, Zenon
  <2>4. Safe(f[i + 1], L, {})
    BY <2>1, <2>2, <2>3, CopySafe
  <2> QED
    BY <2>1, <2>4, Zenon
<1>6. P = 0 .. c
  <2> HIDE DEF P
  <2>1. P \in SUBSET (0 .. c)
    BY Zenon DEF P
  <2>2. c \in Nat /\ 0 \in Nat
    BY <1>2, Zenon
  <2>3. \A i \in P : i < c => i + 1 \in P
    BY <1>5, Zenon
  <2> QED
    BY <1>4, <2>1, <2>2, <2>3, IntervalInduction, Zenon
<1>7. c \in 0 .. c
  BY <1>2
<1> QED
  BY <1>3, <1>6, <1>7, Zenon

-----------------------------------------------------------------------------
\* Between system calls no frame is taken and not mapped.
PagingInv == live \in SUBSET Dirs /\ Safe(Machine, live, {})

\* A system call starts from the variables.
LEMMA MachineFields ==
  /\ Machine.used = bitmap /\ Machine.dir = dir /\ Machine.table = table /\ Machine.made = made
  /\ Machine.halted = ran_out
BY DEF Machine

\* The end of a system call puts the machine it worked on in place.
LEMMA InstallSafe ==
  ASSUME NEW m, NEW L, Safe(m, L, {}), Install(m)
  PROVE  Safe(Machine, L, {})'
<1>1. PICK n : n = [used |-> m.used, dir |-> m.dir, table |-> m.table, made |-> m.made,
                    halted |-> m.halted, got |-> None]
  BY Zenon
<1>2. m \in MachineType
  BY Zenon DEF Safe
<1>3. /\ n.used = m.used /\ n.dir = m.dir /\ n.table = m.table /\ n.made = m.made
      /\ n.halted = m.halted
  BY <1>1
<1>4. n \in MachineType
  BY <1>1, <1>2 DEF MachineType
<1>5. Safe(n, L, {})
  BY <1>3, <1>4 DEF Safe
<1>6. Machine' = n
  BY <1>1, SMTT(30) DEF Install, Machine
<1> QED
  BY <1>5, <1>6

\* At boot only the frames of the kernel are in use.
LEMMA PagingStart == PagingInit => PagingInv
<1> SUFFICES ASSUME PagingInit PROVE PagingInv
  BY Zenon
<1>1. /\ bitmap = Reserved /\ made = {} /\ live = {} /\ ran_out = FALSE
      /\ dir = [d \in Dirs |-> [h \in Halves |-> None]]
      /\ table = [f \in Frames |->
                    IF f = KernelTable THEN [p \in Pages |-> [phys |-> KernelPage, user |-> FALSE]]
                                       ELSE Empty]
  BY Zenon DEF PagingInit
<1>2. dir \in DirType /\ \A d \in Dirs : dir[d]["user"] = None /\ dir[d]["kernel"] = None
  BY <1>1, NewHalves DEF DirType, Halves
<1>3. KernelTable \in Frames /\ KernelPage \in Frames /\ Reserved \in SUBSET Frames
  BY PagingConstants, Zenon DEF Own
<1>4. PICK w : w = [phys |-> KernelPage, user |-> FALSE]
  BY Zenon
<1>5. w \in EntryType /\ ~ w.user
  BY <1>3, <1>4 DEF EntryType
<1>6. PICK k : k = [p \in Pages |-> w]
  BY Zenon
<1>7. k \in [Pages -> EntryType] /\ \A p \in Pages : k[p] = w
  BY <1>5, <1>6, Zenon
<1>8. table = [f \in Frames |-> IF f = KernelTable THEN k ELSE Empty]
  BY <1>1, <1>4, <1>6, Zenon
<1>9. table \in TableType /\ table[KernelTable] = k
  BY <1>3, <1>7, <1>8, EmptyType, SMTT(30) DEF TableType
<1>10. Machine \in MachineType
  BY <1>1, <1>2, <1>3, <1>9 DEF Machine, MachineType
<1>11. Shape(dir, table, made, live)
  BY <1>1, <1>2, <1>5, <1>7, <1>9 DEF Shape
<1>12. \A d \in Dirs, p \in Pages : Maps(dir, table)[d][p] = None
  <2>1. \A d \in Dirs, p \in Pages : PhysOf(dir, table, d, p) = None
    BY <1>2, Zenon DEF PhysOf
  <2> QED
    BY <2>1, MapsAt
<1>13. None \notin Own
  BY PagingConstants, Zenon DEF Own
<1>14. Owned(bitmap, Maps(dir, table), made, {})
  BY <1>1, <1>12, <1>13 DEF Owned
<1> QED
  BY <1>1, <1>10, <1>11, <1>14, MachineFields DEF PagingInv, Safe

\* Every system call keeps the invariant.
LEMMA PagingKept ==
  ASSUME PagingInv, [PagingStep]_pagingVars
  PROVE  PagingInv'
<1>1. live \in SUBSET Dirs /\ Safe(Machine, live, {})
  BY Zenon DEF PagingInv
<1>2. ASSUME NEW d \in Dirs, elfExecute(d) PROVE PagingInv'
  <2>1. PICK n : n = page_directory_allocate(Machine, d)
    BY Zenon
  <2>2. PICK m : m = MapFresh(n, d, Image)
    BY Zenon
  <2>3. Install(m) /\ live' = live \cup {d} /\ d \notin live
    BY <1>2, <2>1, <2>2 DEF elfExecute
  <2>4. Safe(n, live \cup {d}, {})
    BY <1>1, <2>1, <2>3, NewDirSafe, Zenon
  <2>5. d \in live \cup {d} /\ Image \in Pages
    BY PagingConstants, Zenon
  <2>6. Safe(m, live \cup {d}, {})
    BY <2>2, <2>4, <2>5, MapFreshSafe, Zenon
  <2>7. Safe(Machine, live \cup {d}, {})'
    BY <2>3, <2>6, InstallSafe
  <2> QED
    BY <1>1, <2>3, <2>7 DEF PagingInv
<1>3. ASSUME NEW d \in Dirs, taskInfoPdDiscard(d) PROVE PagingInv'
  <2>1. PICK m : m = page_directory_free(Machine, d)
    BY Zenon
  <2>2. Install(m) /\ live' = live \ {d} /\ ~ Machine.halted
    BY <1>3, <2>1, MachineFields DEF taskInfoPdDiscard
  <2>3. Safe(m, live \ {d}, {})
    BY <1>1, <2>1, <2>2, FreeSafe, Zenon
  <2>4. Safe(Machine, live \ {d}, {})'
    BY <2>2, <2>3, InstallSafe
  <2> QED
    BY <1>1, <2>2, <2>4 DEF PagingInv
<1>4. ASSUME NEW d \in Dirs, NEW p \in Pages, syscallMmap(d, p) PROVE PagingInv'
  <2>1. PICK m : m = MapFresh(Machine, d, p)
    BY Zenon
  <2>2. Install(m) /\ live' = live /\ d \in live
    BY <1>4, <2>1 DEF syscallMmap
  <2>3. Safe(m, live, {})
    BY <1>1, <2>1, <2>2, MapFreshSafe, Zenon
  <2>4. Safe(Machine, live, {})'
    BY <2>2, <2>3, InstallSafe
  <2> QED
    BY <1>1, <2>2, <2>4 DEF PagingInv
<1>5. ASSUME NEW d \in Dirs, NEW p \in Pages, syscallMunmap(d, p) PROVE PagingInv'
  <2>1. PICK m : m = virtual_mapL(Machine, d, "user", p, 0, TRUE)
    BY Zenon
  <2>2. Install(m) /\ live' = live /\ d \in live
    BY <1>5, <2>1 DEF syscallMunmap
  <2>3. 0 \in Frames /\ 0 \in {} \cup {0} /\ {} \ {0} = {}
    BY PagingConstants
  <2>4. Safe(m, live, {} \ {0})
    BY <1>1, <2>1, <2>2, <2>3, MapSafe, Zenon
  <2>5. Safe(m, live, {})
    BY <2>3, <2>4
  <2>6. Safe(Machine, live, {})'
    BY <2>2, <2>5, InstallSafe
  <2> QED
    BY <1>1, <2>2, <2>6 DEF PagingInv
<1>6. ASSUME NEW d \in Dirs, NEW e \in Dirs, taskInfoPdClone(d, e) PROVE PagingInv'
  <2>1. PICK n : n = page_directory_allocate(Machine, e)
    BY Zenon
  <2>2. PICK m : m = page_directory_user_duplicate(n, d, e)
    BY Zenon
  <2>3. Install(m) /\ live' = live \cup {e} /\ e \notin live
    BY <1>6, <2>1, <2>2 DEF taskInfoPdClone
  <2>4. Safe(n, live \cup {e}, {}) /\ e \in live \cup {e}
    BY <1>1, <2>1, <2>3, NewDirSafe, Zenon
  <2>5. Safe(m, live \cup {e}, {})
    BY <2>2, <2>4, DuplicateSafe, Zenon
  <2>6. Safe(Machine, live \cup {e}, {})'
    BY <2>3, <2>5, InstallSafe
  <2> QED
    BY <1>1, <2>3, <2>6 DEF PagingInv
<1>7. CASE UNCHANGED pagingVars
  <2>1. live' = live /\ Machine' = Machine
    BY <1>7 DEF pagingVars, Machine
  <2> QED
    BY <1>1, <2>1 DEF PagingInv
<1> QED
  BY <1>2, <1>3, <1>4, <1>5, <1>6, <1>7, Zenon DEF PagingStep

\* The invariant accounts for the pages.
LEMMA PagingEnough == PagingInv => PagesAccounted
<1> SUFFICES ASSUME PagingInv PROVE PagesAccounted
  BY Zenon
<1>1. live \in SUBSET Dirs /\ Safe(Machine, live, {}) /\ Machine \in MachineType
  BY Zenon DEF PagingInv, Safe
<1>2. /\ bitmap \in SUBSET Frames /\ dir \in DirType /\ made \in SUBSET Frames
      /\ ran_out \in BOOLEAN
  BY <1>1, MachineFields DEF MachineType
<1>3. PagingTypeOK
  BY <1>1, <1>2, Zenon DEF PagingTypeOK, DirType
<1>4. SUFFICES ASSUME ~ ran_out
               PROVE  /\ \A x, y \in Mapped : FrameOf(x) = FrameOf(y) => x = y
                      /\ {FrameOf(x) : x \in Mapped} \cap (made \cup Reserved) = {}
                      /\ bitmap \ {0} = (Reserved \ {0}) \cup made \cup {FrameOf(x) : x \in Mapped}
  BY <1>3, Zenon DEF PagesAccounted
<1>5. PICK F : F = Maps(dir, table)
  BY Zenon
<1>6. Shape(dir, table, made, live) /\ Owned(bitmap, F, made, {})
  BY <1>1, <1>4, <1>5, MachineFields DEF Safe
<1>7. ASSUME NEW d \in Dirs PROVE InUserTable(Machine, d)
  BY <1>6, MachineFields, UserPages
<1>8. ASSUME NEW x \in Mapped
      PROVE  /\ x[1] \in Dirs /\ x[2][2] \in Pages /\ x = <<x[1], <<"user", x[2][2]>>>>
             /\ FrameOf(x) \in Own /\ FrameOf(x) = F[x[1]][x[2][2]]
  <2>1. /\ x \in live \X (Halves \X Pages) /\ x[2] \in UserEntries(Machine, x[1])
        /\ FrameOf(x) # 0
    BY Zenon DEF Mapped
  <2>2. x[1] \in Dirs /\ x = <<x[1], x[2]>>
    BY <1>1, <2>1
  <2>3. /\ x[2][2] \in Pages /\ x[2] = <<"user", x[2][2]>>
        /\ FrameOf(x) \in Frames /\ FrameOf(x) = Maps(Machine.dir, Machine.table)[x[1]][x[2][2]]
    <3>1. InUserTable(Machine, x[1])
      BY <1>7, <2>2, Zenon
    <3> QED
      BY <2>1, <3>1, Zenon DEF InUserTable, FrameOf
  <2>4. FrameOf(x) = F[x[1]][x[2][2]]
    BY <1>5, <2>3, MachineFields
  <2> QED
    BY <2>1, <2>2, <2>3, <2>4 DEF Own
<1>9. ASSUME NEW x \in Mapped, NEW y \in Mapped, FrameOf(x) = FrameOf(y) PROVE x = y
  <2>1. /\ x[1] \in Dirs /\ x[2][2] \in Pages /\ x = <<x[1], <<"user", x[2][2]>>>>
        /\ FrameOf(x) \in Own /\ FrameOf(x) = F[x[1]][x[2][2]]
    BY <1>8, Zenon
  <2>2. /\ y[1] \in Dirs /\ y[2][2] \in Pages /\ y = <<y[1], <<"user", y[2][2]>>>>
        /\ FrameOf(y) = F[y[1]][y[2][2]]
    BY <1>8, Zenon
  <2>3. F[x[1]][x[2][2]] \in Own /\ F[x[1]][x[2][2]] = F[y[1]][y[2][2]]
    BY <1>9, <2>1, <2>2
  <2>4. x[1] = y[1] /\ x[2][2] = y[2][2]
    BY <1>6, <2>1, <2>2, <2>3, OwnedOnce
  <2> QED
    BY <2>1, <2>2, <2>4
<1>10. ASSUME NEW x \in Mapped PROVE FrameOf(x) \notin made /\ FrameOf(x) \notin Reserved
  <2>1. /\ x[1] \in Dirs /\ x[2][2] \in Pages
        /\ FrameOf(x) \in Own /\ FrameOf(x) = F[x[1]][x[2][2]]
    BY <1>8, Zenon
  <2> QED
    BY <1>6, <2>1 DEF Owned
<1>11. \A f \in made : f \in Own
  BY <1>6, Zenon DEF Shape
<1>12. ASSUME NEW f \in Own
       PROVE  (\E d \in Dirs, p \in Pages : F[d][p] = f) <=> \E x \in Mapped : FrameOf(x) = f
  <2>1. ASSUME NEW x \in Mapped, FrameOf(x) = f PROVE \E d \in Dirs, p \in Pages : F[d][p] = f
    <3>1. x[1] \in Dirs /\ x[2][2] \in Pages /\ FrameOf(x) = F[x[1]][x[2][2]]
      BY <1>8, Zenon
    <3> QED
      BY <2>1, <3>1
  <2>2. ASSUME NEW d \in Dirs, NEW p \in Pages, F[d][p] = f
        PROVE  \E x \in Mapped : FrameOf(x) = f
    <3>1. PICK x : x = <<d, <<"user", p>>>>
      BY Zenon
    <3>2. f \in Frames /\ f # None /\ f # 0
      BY PagingConstants, Zenon DEF Own
    <3>3. d \in live
      <4>1. PhysOf(dir, table, d, p) = f
        BY <1>5, <2>2, MapsAt
      <4>2. dir[d]["user"] # None
        BY <3>2, <4>1, Zenon DEF PhysOf
      <4> QED
        BY <1>6, <4>2, Zenon DEF Shape
    <3>4. Maps(Machine.dir, Machine.table)[d][p] = f
      BY <1>5, <2>2, MachineFields
    <3>5. <<"user", p>> \in UserEntries(Machine, d) /\ Entry(Machine, d, <<"user", p>>).phys = f
      <4>1. InUserTable(Machine, d) /\ Maps(Machine.dir, Machine.table)[d][p] \in Frames
        BY <1>7, <3>2, <3>4
      <4>2. /\ <<"user", p>> \in UserEntries(Machine, d)
            /\ Entry(Machine, d, <<"user", p>>).phys = Maps(Machine.dir, Machine.table)[d][p]
        BY <4>1, Zenon DEF InUserTable
      <4> QED
        BY <3>4, <4>2
    <3>6. x[1] = d /\ x[2] = <<"user", p>> /\ x \in live \X (Halves \X Pages)
      BY <3>1, <3>3 DEF Halves
    <3>7. FrameOf(x) = f
      BY <3>5, <3>6 DEF FrameOf
    <3>8. x \in Mapped
      BY <3>2, <3>5, <3>6, <3>7 DEF Mapped
    <3> QED
      BY <3>7, <3>8, Zenon
  <2> QED
    BY <2>1, <2>2, Zenon
<1>13. bitmap \ {0} = (Reserved \ {0}) \cup made \cup {FrameOf(x) : x \in Mapped}
  <2>1. \A f \in Own : f \in bitmap <=> \/ f \in Reserved \/ f \in made
                                      \/ \E x \in Mapped : FrameOf(x) = f
    <3>1. \A f \in Own : f \in bitmap <=> \/ f \in Reserved \/ f \in made \/ f \in {}
                                        \/ \E d \in Dirs, p \in Pages : F[d][p] = f
      BY <1>6, Zenon DEF Owned
    <3> QED
      BY <1>12, <3>1, Zenon
  <2>2. \A f \in bitmap \ {0} : f \in Own
    BY <1>2, Zenon DEF Own
  <2>3. \A f \in Reserved \ {0} : f \in Own
    BY PagingConstants, Zenon DEF Own
  <2>4. \A f \in {FrameOf(x) : x \in Mapped} : f \in Own
    BY <1>8, Zenon
  <2>5. 0 \notin Own
    BY Zenon DEF Own
  <2> QED
    BY <1>11, <2>1, <2>2, <2>3, <2>4, <2>5
<1>14. {FrameOf(x) : x \in Mapped} \cap (made \cup Reserved) = {}
  BY <1>10
<1> QED
  BY <1>9, <1>13, <1>14, Zenon

(***************************************************************************)
(* For any number of frames, directories and pages: over any mix of exec,  *)
(* fork, mmap, munmap and exit no two pages of programs share a frame,     *)
(* none of them is a table or a frame of the kernel, and the bitmap of     *)
(* physical frames has exactly the frames that are in use.                 *)
(***************************************************************************)
THEOREM PagesAlwaysAccounted == PagingSpec => []PagesAccounted
BY PagingStart, PagingKept, PagingEnough, PTL DEF PagingSpec
=============================================================================
