----------------------------- MODULE MCPhysMem -----------------------------
(***************************************************************************)
(* A small machine for PhysMem: blocks of 4 bytes, a memory map with a     *)
(* reserved first block, a reserved hole whose length is no multiple of    *)
(* the block size, and a reclaimable entry behind the last managed block.  *)
(***************************************************************************)
EXTENDS PhysMem

MCmmEntries == <<
    [base |->  0, length |->  3, type |-> "RESERVED"],
    [base |->  4, length |-> 16, type |-> "USABLE"],
    [base |-> 20, length |->  5, type |-> "KERNEL_AND_MODULES"],
    [base |-> 28, length |-> 20, type |-> "USABLE"],
    [base |-> 48, length |->  8, type |-> "BOOTLOADER_RECLAIMABLE"]>>

Boot == INSTANCE BootMemory WITH mmEntries <- MCmmEntries

MCTotal   == Boot!mmTotal
MCEntries == Boot!memory_map
============================================================================
