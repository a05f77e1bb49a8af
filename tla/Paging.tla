------------------------------- MODULE Paging -------------------------------
(***************************************************************************)
(* Page directories: memory/paging.cpp as exec, fork, mmap, munmap and the *)
(* end of a task use it.  The four levels of tables work alike, so there   *)
(* are two here: a directory with one entry per table, and tables with one *)
(* entry per page.  A frame is a number; allocate_frame and free_frame are *)
(* physical_allocate and physical_free (PhysMem) for one page.  A system   *)
(* call runs to its end before another begins (WLOCK_PAGING, see Spinlock).*)
(***************************************************************************)
EXTENDS Integers

CONSTANTS Frames,   \* bound: 0 .. n, the frames of the machine
          Dirs,     \* bound: the page directories that are ever made
          Pages     \* 0 .. n, page indices within a table

ASSUME PagingAssumption ==
  /\ Frames \subseteq Nat /\ \E n \in Frames : n >= 2 /\ Frames = 0 .. n
  /\ Pages \subseteq Nat /\ \E n \in Pages : Pages = 0 .. n

\* The page that elfProcessLoad maps, and where the area of mmap starts.
Image == 0
mmap_start == 1

LastPage == CHOOSE n \in Pages : Pages = 0 .. n

None == -1

\* Frame 0 is reserved, 1 and 2 are a kernel page and its table.
KernelPage == 1
KernelTable == 2
Reserved == {0, KernelPage, KernelTable}

\* A virtual address: which entry of the directory, which of the table.
Halves == {"user", "kernel"}
NoEntry == [phys |-> None, user |-> FALSE]
Empty == [p \in Pages |-> NoEntry]

VARIABLES bitmap,  \* the frames whose bit is set in the bitmap
          dir,     \* directory -> half -> frame of its table, or None
          table,   \* frame of a table -> page -> entry
          live,    \* directories of running tasks
          mmap_end, \* directory -> end of the area of mmap
          made,    \* history: frames taken for directories and tables
          ran_out  \* physical_allocate has halted the kernel

pagingVars == <<bitmap, dir, table, live, mmap_end, made, ran_out>>

(***************************************************************************)
(* The functions of paging.cpp, on a record m of the variables; m.got is   *)
(* the frame the last physical_allocate returned.                          *)
(***************************************************************************)
Machine == [used |-> bitmap, dir |-> dir, table |-> table, made |-> made,
            halted |-> ran_out, got |-> None]

\* The lowest free frame (PhysMem); address 0 is taken for a failure.
allocate_frame(m) ==
  LET free == Frames \ m.used
      f == CHOOSE x \in free : \A y \in free : x <= y
  IN  IF m.halted THEN m
      ELSE IF free = {} THEN [m EXCEPT !.halted = TRUE]
      ELSE IF f = 0 THEN [m EXCEPT !.used = @ \cup {0}, !.halted = TRUE]
      ELSE [m EXCEPT !.used = @ \cup {f}, !.got = f]

free_frame(m, f) == [m EXCEPT !.used = @ \ {f}]

\* A frame for a directory or, cleared, for a table.
paging_physical_allocate(m) ==
  LET n == allocate_frame(m)
  IN  IF n.halted THEN n
      ELSE [n EXCEPT !.table[n.got] = Empty, !.made = @ \cup {n.got}]

\* The table of a half is made when it is missing.
EnsureTable(m, d, h) ==
  IF m.halted \/ m.dir[d][h] # None THEN m
  ELSE LET n == paging_physical_allocate(m)
       IN  IF n.halted THEN n ELSE [n EXCEPT !.dir[d][h] = n.got]

\* Maps page p of a half to f; what was mapped there is freed.
virtual_mapL(m, d, h, p, f, user) ==
  LET n == EnsureTable(m, d, h)
  IN  IF n.halted THEN n
      ELSE LET t == n.dir[d][h]
               old == n.table[t][p]
               o == IF old = NoEntry THEN n ELSE free_frame(n, old.phys)
           IN  [o EXCEPT !.table[t][p] = [phys |-> f, user |-> user]]

\* A fresh frame at page p of the user half.
MapFresh(m, d, p) ==
  LET n == allocate_frame(m)
  IN  IF n.halted THEN n ELSE virtual_mapL(n, d, "user", p, n.got, TRUE)

\* The new directory starts as a copy of the kernel's.
page_directory_allocate(m, d) ==
  LET n == allocate_frame(m)
  IN  IF n.halted THEN n
      ELSE [n EXCEPT !.made = @ \cup {n.got},
                     !.dir[d] = [user |-> None, kernel |-> KernelTable]]

Entry(m, d, e) == m.table[m.dir[d][e[1]]][e[2]]

Present(m, d) ==
  {e \in Halves \X Pages : m.dir[d][e[1]] # None /\ Entry(m, d, e) # NoEntry}

UserEntries(m, d) == {e \in Present(m, d) : Entry(m, d, e).user}

\* Kernel pages, which all directories map, are freed as well.
MutantFree(m, d) ==
  [m EXCEPT !.used = @ \ {Entry(m, d, e).phys : e \in Present(m, d)}]

(***************************************************************************)
(* Gives back the frames of the user's pages, not those of the directory   *)
(* and its tables, which nobody reads again: they are forgotten.           *)
(***************************************************************************)
page_directory_free(m, d) ==
  [m EXCEPT !.used = @ \ {Entry(m, d, e).phys : e \in UserEntries(m, d)},
            !.table = [f \in Frames |-> IF f = m.dir[d]["user"] THEN Empty ELSE @[f]],
            !.dir[d] = [h \in Halves |-> None]]

\* Page p of d, when it is a user page, is copied to a frame of its own in e.
CopyPage(m, d, e, n, p) ==
  IF <<"user", p>> \notin UserEntries(m, d) THEN n
  ELSE LET o == paging_physical_allocate(n)
       IN  IF o.halted THEN o
           ELSE virtual_mapL([o EXCEPT !.made = n.made], e, "user", p, o.got, TRUE)

\* Every user page of d is copied, in order.
page_directory_user_duplicate(m, d, e) ==
  LET copies[i \in 0 .. LastPage + 1] ==
        IF i = 0 THEN m ELSE CopyPage(m, d, e, copies[i - 1], i - 1)
  IN  copies[LastPage + 1]

Install(m) ==
  /\ bitmap' = m.used
  /\ dir' = m.dir
  /\ table' = m.table
  /\ made' = m.made
  /\ ran_out' = m.halted

-----------------------------------------------------------------------------

PagingInit ==
  /\ bitmap = Reserved
  /\ dir = [d \in Dirs |-> [h \in Halves |-> None]]
  /\ table = [f \in Frames |->
                IF f = KernelTable THEN [p \in Pages |-> [phys |-> KernelPage, user |-> FALSE]]
                                   ELSE Empty]
  /\ live = {}
  /\ mmap_end = [d \in Dirs |-> mmap_start]
  /\ made = {}
  /\ ran_out = FALSE

\* elfExecute: a new directory with the pages of the program and its stack.
elfExecute(d) ==
  /\ ~ran_out
  /\ d \notin live
  /\ Install(MapFresh(page_directory_allocate(Machine, d), d, Image))
  /\ live' = live \cup {d}
  /\ mmap_end' = [mmap_end EXCEPT ![d] = mmap_start]

\* mmap with MAP_FIXED and MAP_ANONYMOUS, over anything.
syscallMmap(d, p) ==
  /\ ~ran_out
  /\ d \in live
  /\ Install(MapFresh(Machine, d, p))
  /\ mmap_end' = [mmap_end EXCEPT ![d] = IF p + 1 > @ THEN p + 1 ELSE @]
  /\ UNCHANGED live

(***************************************************************************)
(* munmap maps frame 0 within the area of mmap, whatever is there: its     *)
(* test for a page that is not mapped, virtual_to_physical, subtracts      *)
(* hhdmOffset and is never 0.                                              *)
(***************************************************************************)
syscallMunmap(d, p) ==
  /\ ~ran_out
  /\ d \in live
  /\ p \in mmap_start .. mmap_end[d] - 1
  /\ Install(virtual_mapL(Machine, d, "user", p, 0, TRUE))
  /\ UNCHANGED <<live, mmap_end>>

\* fork: taskInfoPdClone.
taskInfoPdClone(d, e) ==
  /\ ~ran_out
  /\ d \in live
  /\ e \notin live
  /\ Install(page_directory_user_duplicate(page_directory_allocate(Machine, e), d, e))
  /\ live' = live \cup {e}
  /\ mmap_end' = [mmap_end EXCEPT ![e] = mmap_end[d]]

\* The last task that uses a directory ends or executes another program.
taskInfoPdDiscard(d) ==
  /\ ~ran_out
  /\ d \in live
  /\ Install(page_directory_free(Machine, d))
  /\ live' = live \ {d}
  /\ mmap_end' = [mmap_end EXCEPT ![d] = mmap_start]

PagingStep ==
  \/ \E d \in Dirs : elfExecute(d) \/ taskInfoPdDiscard(d)
  \/ \E d \in Dirs, p \in Pages : syscallMmap(d, p) \/ syscallMunmap(d, p)
  \/ \E d, e \in Dirs : taskInfoPdClone(d, e)

PagingSpec == PagingInit /\ [][PagingStep]_pagingVars

-----------------------------------------------------------------------------

PagingTypeOK ==
  /\ bitmap \subseteq Frames
  /\ live \subseteq Dirs
  /\ made \subseteq Frames
  /\ ran_out \in BOOLEAN
  /\ dir \in [Dirs -> [Halves -> Frames \cup {None}]]

\* The user pages of running tasks that have a frame of their own, and the frame.
FrameOf(x) == Entry(Machine, x[1], x[2]).phys

Mapped == {x \in live \X (Halves \X Pages) :
             x[2] \in UserEntries(Machine, x[1]) /\ FrameOf(x) # 0}

(***************************************************************************)
(* Over any mix of exec, fork, mmap, munmap and exit no two pages of user  *)
(* programs share a frame, none of them is a table or a frame of the       *)
(* kernel, and the allocated frames are exactly those that are mapped and  *)
(* those that were once taken for tables, which page_directory_free leaves *)
(* ("todo: clear orphans", paging.cpp:268).  Frame 0, which munmap leaves  *)
(* mapped, is the exception.                                               *)
(***************************************************************************)
PagesAccounted ==
  /\ PagingTypeOK
  /\ ~ran_out =>
       /\ \A x, y \in Mapped : FrameOf(x) = FrameOf(y) => x = y
       /\ {FrameOf(x) : x \in Mapped} \cap (made \cup Reserved) = {}
       /\ bitmap \ {0} = (Reserved \ {0}) \cup made \cup {FrameOf(x) : x \in Mapped}

(***************************************************************************)
(* pmm.cpp:95, "Physical kernel memory ran out!": physical_allocate halts  *)
(* the kernel only when no frame is free.                                  *)
(***************************************************************************)
MemoryRanOut == ran_out => bitmap = Frames
=============================================================================
