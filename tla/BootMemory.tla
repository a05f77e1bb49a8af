---------------------------- MODULE BootMemory ----------------------------
(***************************************************************************)
(* How bootloader.cpp sums up the memory map Limine hands over: mmTotal is *)
(* the size handed to the physical allocator, mmPhysExtent the end of the  *)
(* highest entry.                                                          *)
(***************************************************************************)
EXTENDS Integers, Sequences, SequencesExt, FiniteSetsExt

CONSTANT mmEntries    \* sequence of [base, length, type]

Counted(e) == e.type \in {"USABLE", "BOOTLOADER_RECLAIMABLE"}

mmTotal == FoldSeq(LAMBDA e, sum : IF Counted(e) THEN sum + e.length ELSE sum,
                   0, mmEntries)

mmPhysExtent == Max({0} \cup {mmEntries[i].base + mmEntries[i].length :
                                  i \in DOMAIN mmEntries})

(***************************************************************************)
(* What physical_memory_manager_initialize looks at of an entry.           *)
(***************************************************************************)
memory_map == [i \in DOMAIN mmEntries |->
                  [base   |-> mmEntries[i].base,
                   length |-> mmEntries[i].length,
                   usable |-> mmEntries[i].type = "USABLE"]]
============================================================================
