----------------------------- MODULE FileTable -----------------------------
(***************************************************************************)
(* Descriptor tables and the objects behind descriptors: vfs_controller,   *)
(* dup, dup2, fcntl, fork, clone, execve and exit over the two ends of a   *)
(* pipe and over an eventfd.  A table has a bitmap of reserved ids and an  *)
(* AVL tree of open files (AvlTree); the object counts its descriptors and *)
(* is freed with the last.  A system call runs to its end before another   *)
(* begins: none of these calls hand_control.                               *)
(***************************************************************************)
EXTENDS Integers, FiniteSets

CONSTANTS Task,    \* bound: the tasks that are ever alive at once
          First,   \* the one that runs first
          Table,   \* bound: numbers, the TaskInfoFiles allocated at once
          Fds,     \* bound: 0 .. rlimitFdsSoft - 1
          Pipes,   \* bound: the PipeInfos that are ever allocated at once
          Events,  \* bound: the EventFds that are ever allocated at once
          Flagged, \* bound: the ids whose closeOnExec is changed
          NoTable

ASSUME FileTableAssumption ==
  /\ Fds \subseteq Nat /\ \E n \in Fds : Fds = 0 .. n
  /\ Table \subseteq Nat /\ NoTable \notin Table /\ Table # {}
  /\ IsFiniteSet(Task) /\ IsFiniteSet(Table) /\ First \in Task
  /\ Pipes \cap Events = {} /\ Flagged \subseteq Fds

Objects == Pipes \cup Events

\* What a file's dir and handlers stand for: an object, and which end of it.
Ends == (Pipes \X {"read", "write"}) \cup (Events \X {"event"})
NoFile == [end |-> <<>>, closeOnExec |-> FALSE]
File(e, c) == [end |-> e, closeOnExec |-> c]

VARIABLES infoFiles,   \* task -> its table, or NoTable for no task
          utilizedBy,  \* table -> tasks that use it; 0: not allocated
          fdBitmap,    \* table -> reserved ids
          firstFile,   \* table -> id -> open file
          fds,         \* end -> readFds, writeFds or utilizedBy of its object
          allocated,   \* objects that are allocated
          failed,      \* the assertion or the use of freed memory that ended it all
          dropped      \* history: table -> ids whose file execve did not copy

filesVars == <<infoFiles, utilizedBy, fdBitmap, firstFile, fds, allocated, failed, dropped>>

(***************************************************************************)
(* The functions, on a record m of the variables that they thread.         *)
(***************************************************************************)
Tables == [fdBitmap |-> fdBitmap, firstFile |-> firstFile, fds |-> fds,
           allocated |-> allocated, dropped |-> dropped, failed |-> failed, id |-> 0]

Fail(m, why) == [m EXCEPT !.failed = IF @ = "none" THEN why ELSE @]

Least(S) == CHOOSE x \in S : \A y \in S : x <= y

\* The lowest free id, reserved; m.id returns it.
fsIdFind(m, t) ==
  LET free == Fds \ m.fdBitmap[t]
  IN  IF free = {} THEN Fail(m, "no_id")
      ELSE [m EXCEPT !.fdBitmap[t] = @ \cup {Least(free)}, !.id = Least(free)]

\* The assertion fails when the tree already has the id.
fsRegisterNode(m, t, i, f) ==
  IF m.firstFile[t][i] # NoFile THEN Fail(m, "registered_twice")
  ELSE [m EXCEPT !.firstFile[t][i] = f]

\* fsOpenGeneric, then the object becomes what the descriptor stands for.
OpenAs(m, t, f) ==
  LET n == fsIdFind(m, t)
  IN  IF n.failed # "none" THEN n ELSE fsRegisterNode(n, t, n.id, f)

MutantDuplicate(m, e) ==
  [m EXCEPT !.fds[e] = IF e[2] = "write" THEN @ ELSE @ + 1]

\* pipe_duplicate and eventFdDuplicate.
duplicate(m, e) ==
  IF e[1] \notin m.allocated THEN Fail(m, "use_after_free")
  ELSE [m EXCEPT !.fds[e] = @ + 1]

fsUserDuplicateNode(m, t, i, f) ==
  LET n == fsRegisterNode(m, t, i, f)
  IN  IF n.failed # "none" THEN n ELSE duplicate(n, f.end)

\* pipe_close_end and eventFdClose: the last descriptor frees the object.
close_end(m, e) ==
  LET n == [m EXCEPT !.fds[e] = @ - 1]
  IN  IF e[1] \notin m.allocated THEN Fail(m, "use_after_free")
      ELSE IF \A x \in Ends : x[1] = e[1] => n.fds[x] = 0
           THEN [n EXCEPT !.allocated = @ \ {e[1]}]
           ELSE n

\* retain: VFS_CLOSE_FLAG_RETAIN_ID.
fsCloseGeneric(m, t, i, retain) ==
  LET n == close_end([m EXCEPT !.firstFile[t][i] = NoFile], m.firstFile[t][i].end)
  IN  IF retain THEN n ELSE [n EXCEPT !.fdBitmap[t] = @ \ {i}]

Registered(m, t) == {i \in Fds : m.firstFile[t][i] # NoFile}

\* The files of t that execve does not copy, as coe holds.
Skipped(m, t, coe) == {i \in Registered(m, t) : coe /\ m.firstFile[t][i].closeOnExec}

\* A step of task_files_copy_inorder: the file i of t, to u.
CopyFile(m, t, u, coe, n, i) ==
  IF i \notin Registered(m, t) \ Skipped(m, t, coe) THEN n
  ELSE fsUserDuplicateNode(n, u, i, m.firstFile[t][i])

\* The bitmap is copied as it is.
CopyIds(m, t, u, coe) ==
  [m EXCEPT !.fdBitmap[u] = m.fdBitmap[t],
            !.firstFile[u] = [i \in Fds |-> NoFile],
            !.dropped[u] = m.dropped[t] \cup Skipped(m, t, coe)]

\* Then the files, in order of their ids.
task_files_copy(m, t, u, coe) ==
  LET copies[k \in 0 .. Cardinality(Fds)] ==
        IF k = 0 THEN CopyIds(m, t, u, coe)
        ELSE CopyFile(m, t, u, coe, copies[k - 1], k - 1)
  IN  copies[Cardinality(Fds)]

CloseFile(m, t, i) ==
  IF i \notin Registered(m, t) THEN m ELSE fsCloseGeneric(m, t, i, FALSE)

\* The end of a task's use of table t, of n tasks that use it; the last one
\* closes the files until none is left.  The code takes the root of the tree
\* each time; the closes commute.
taskInfoFilesDiscard(m, t, n) ==
  LET closes[k \in 0 .. Cardinality(Fds)] ==
        IF k = 0 THEN m ELSE CloseFile(closes[k - 1], t, k - 1)
  IN  IF n > 1 THEN m
      ELSE [closes[Cardinality(Fds)] EXCEPT !.fdBitmap[t] = {}, !.dropped[t] = {}]

InstallTables(m) ==
  /\ fdBitmap' = m.fdBitmap
  /\ firstFile' = m.firstFile
  /\ fds' = m.fds
  /\ allocated' = m.allocated
  /\ dropped' = m.dropped
  /\ failed' = m.failed

-----------------------------------------------------------------------------

\* One task with an empty table.
FilesInit ==
  /\ infoFiles = [t \in Task |-> IF t = First THEN Least(Table) ELSE NoTable]
  /\ utilizedBy = [b \in Table |-> IF b = Least(Table) THEN 1 ELSE 0]
  /\ fdBitmap = [b \in Table |-> {}]
  /\ firstFile = [b \in Table |-> [i \in Fds |-> NoFile]]
  /\ fds = [e \in Ends |-> 0]
  /\ allocated = {}
  /\ failed = "none"
  /\ dropped = [b \in Table |-> {}]

\* taskInfoFilesAllocate takes any memory that is free; a call that needs a
\* table is within the bound when there is one.
FreeTables == {b \in Table : utilizedBy[b] = 0}
NewTable == Least(FreeTables)

Running(t) == failed = "none" /\ infoFiles[t] # NoTable

\* The task has file f as descriptor i.
Has(t, i) == Running(t) /\ firstFile[infoFiles[t]][i] # NoFile

pipe_open(t, o) ==
  /\ Running(t)
  /\ o \notin allocated
  /\ LET b == infoFiles[t]
         m == OpenAs(OpenAs(Tables, b, File(<<o, "read">>, FALSE)), b, File(<<o, "write">>, FALSE))
     IN  InstallTables([m EXCEPT !.allocated = @ \cup {o},
                           !.fds[<<o, "read">>] = 1, !.fds[<<o, "write">>] = 1])
  /\ UNCHANGED <<infoFiles, utilizedBy>>

eventFdOpen(t, o, cloexec) ==
  /\ Running(t)
  /\ o \notin allocated
  /\ InstallTables([OpenAs(Tables, infoFiles[t], File(<<o, "event">>, cloexec)) EXCEPT
                !.allocated = @ \cup {o}, !.fds[<<o, "event">>] = 1])
  /\ UNCHANGED <<infoFiles, utilizedBy>>

\* dup and F_DUPFD; F_DUPFD_CLOEXEC is this and then F_SETFD.
syscallDup(t, i) ==
  /\ Has(t, i)
  /\ LET b == infoFiles[t]
         n == fsIdFind(Tables, b)
     IN  InstallTables(IF n.failed # "none" THEN n
                 ELSE fsUserDuplicateNode(n, b, n.id, File(firstFile[b][i].end, FALSE)))
  /\ UNCHANGED <<infoFiles, utilizedBy>>

\* The id j is reserved, or kept when its file is closed.
syscallDup2(t, i, j) ==
  /\ Has(t, i)
  /\ i # j
  /\ LET b == infoFiles[t]
         n == IF firstFile[b][j] = NoFile
              THEN [Tables EXCEPT !.fdBitmap[b] = @ \cup {j}, !.dropped[b] = @ \ {j}]
              ELSE fsCloseGeneric(Tables, b, j, TRUE)
     IN  InstallTables(IF n.failed # "none" THEN n
                 ELSE fsUserDuplicateNode(n, b, j, File(firstFile[b][i].end, FALSE)))
  /\ UNCHANGED <<infoFiles, utilizedBy>>

\* F_SETFD flips the flag, whatever its argument.
syscallFcntl(t, i) ==
  /\ Has(t, i)
  /\ InstallTables([Tables EXCEPT !.firstFile[infoFiles[t]][i].closeOnExec = ~@])
  /\ UNCHANGED <<infoFiles, utilizedBy>>

syscallClose(t, i) ==
  /\ Has(t, i)
  /\ InstallTables(fsCloseGeneric(Tables, infoFiles[t], i, FALSE))
  /\ UNCHANGED <<infoFiles, utilizedBy>>

\* The part of task_fork that concerns files; share is CLONE_FILES.
task_fork(t, u, share) ==
  /\ Running(t)
  /\ infoFiles[u] = NoTable
  /\ \/ /\ share
        /\ infoFiles' = [infoFiles EXCEPT ![u] = infoFiles[t]]
        /\ utilizedBy' = [utilizedBy EXCEPT ![infoFiles[t]] = @ + 1]
        /\ UNCHANGED <<fdBitmap, firstFile, fds, allocated, failed, dropped>>
     \/ /\ ~share
        /\ FreeTables # {}
        /\ infoFiles' = [infoFiles EXCEPT ![u] = NewTable]
        /\ utilizedBy' = [utilizedBy EXCEPT ![NewTable] = 1]
        /\ InstallTables(task_files_copy(Tables, infoFiles[t], NewTable, FALSE))

\* The new image gets a copy of the table, then the old task is killed.
syscallExecve(t) ==
  /\ Running(t)
  /\ FreeTables # {}
  /\ LET a == infoFiles[t]
     IN  /\ infoFiles' = [infoFiles EXCEPT ![t] = NewTable]
         /\ utilizedBy' = [utilizedBy EXCEPT ![a] = @ - 1, ![NewTable] = 1]
         /\ InstallTables(taskInfoFilesDiscard(task_files_copy(Tables, a, NewTable, TRUE),
                                         a, utilizedBy[a]))

\* The part of task_kill that concerns files.
task_kill(t) ==
  /\ Running(t)
  /\ LET a == infoFiles[t]
     IN  /\ infoFiles' = [infoFiles EXCEPT ![t] = NoTable]
         /\ utilizedBy' = [utilizedBy EXCEPT ![a] = @ - 1]
         /\ InstallTables(taskInfoFilesDiscard(Tables, a, utilizedBy[a]))

FilesStep ==
  \E t \in Task :
    \/ \E o \in Pipes : pipe_open(t, o)
    \/ \E o \in Events, c \in BOOLEAN : eventFdOpen(t, o, c)
    \/ \E i, j \in Fds : syscallDup2(t, i, j)
    \/ \E i \in Fds : syscallDup(t, i) \/ syscallClose(t, i)
    \/ \E i \in Flagged : syscallFcntl(t, i)
    \/ \E u \in Task, share \in BOOLEAN : task_fork(t, u, share)
    \/ syscallExecve(t)
    \/ task_kill(t)

FilesSpec == FilesInit /\ [][FilesStep]_filesVars

-----------------------------------------------------------------------------

FilesTypeOK ==
  /\ infoFiles \in [Task -> Table \cup {NoTable}]
  /\ utilizedBy \in [Table -> Nat]
  /\ fdBitmap \in [Table -> SUBSET Fds]
  /\ fds \in [Ends -> Nat]
  /\ allocated \subseteq Objects

\* The descriptors that stand for e, in all tables.
Holders(e) == {x \in Table \X Fds : firstFile[x[1]][x[2]].end = e}

(***************************************************************************)
(* Over any mix of open, dup, dup2, F_SETFD, close, fork with and without  *)
(* CLONE_FILES, execve and exit: readFds, writeFds and utilizedBy count    *)
(* the descriptors there are, so that a reader sees the end of a pipe when *)
(* the last writer has gone and not before, and an object is freed with    *)
(* its last descriptor, never twice.  An id is reserved if and only if it  *)
(* is open, except for those whose file execve did not copy, which stay    *)
(* reserved (task.cpp:514); so fsRegisterNode never finds its id taken     *)
(* (vfs_controller.cpp:24), and fsIdFind fails (line 50) only when every   *)
(* id is open or was lost like this.                                       *)
(***************************************************************************)
EndsCounted ==
  /\ FilesTypeOK
  /\ failed \in {"none", "no_id"}
  /\ failed = "no_id" => \E b \in Table : fdBitmap[b] = Fds
  /\ failed = "none" =>
       /\ \A e \in Ends : fds[e] = Cardinality(Holders(e))
       /\ allocated = {o \in Objects : \E e \in Ends : e[1] = o /\ Holders(e) # {}}
       /\ \A b \in Table :
            /\ utilizedBy[b] = Cardinality({t \in Task : infoFiles[t] = b})
            /\ fdBitmap[b] = Registered(Tables, b) \cup dropped[b]
            /\ Registered(Tables, b) \cap dropped[b] = {}
=============================================================================
