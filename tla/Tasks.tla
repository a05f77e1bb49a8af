-------------------------------- MODULE Tasks --------------------------------
(***************************************************************************)
(* Tasks and the system calls that create, replace, end and await them:    *)
(* multitasking/task.cpp and syscalls/linux/syscalls_proc.c.  The          *)
(* scheduler and the reaper thread are not part of the repository; a task  *)
(* runs while its state is READY, and reap is what task.cpp prepares for   *)
(* the reaper.  As in Spinlock, a task inside a system call is switched    *)
(* out only in hand_control unless Preemptive.                             *)
(***************************************************************************)
EXTENDS Integers, Sequences, FiniteSets

CONSTANTS Task, dummyTask, init, NoTask, Preemptive

AnyChild == -1      \* the pid argument of wait4 for any child
NoPid == 0     \* waitingForPid when nothing is awaited, and a null KilledInfo

Shared == {"vm", "files"}    \* infoPd and infoFiles

VARIABLES
  state,       \* Task.state; UNUSED before task_list_allocate, FREED at the end
  id, parent, noInformParent,
  dsChildTerminated, childrenTerminatedAmnt, waitingForPid,
  info,        \* info[t][k]: the object of kind k that t uses
  utilizedBy,  \* utilizedBy[k][o]; an object is named after its creator
  reaperTask,
  taskIdCurr,
  pc,          \* where each task is inside its system call
  arg,         \* its pid argument, or the tail found by LinkedListAllocate
  target,      \* KilledInfo *target of wait4
  cpu,         \* the task that cannot be switched out now, or NoTask
  halted,
  reported,    \* history: pids whose end was recorded, for each parent
  collected,   \* history: pids that wait4 returned, for each parent
  orphaned,    \* history: some task with children has called execve
  vforked      \* history: the child each vfork waits for, or NoTask

proc == <<state, id, parent, noInformParent>>
wait == <<dsChildTerminated, childrenTerminatedAmnt, waitingForPid>>
share == <<info, utilizedBy>>
local == <<arg, target>>
ghost == <<reported, collected, orphaned, vforked>>
vars == <<proc, wait, share, reaperTask, taskIdCurr, pc, local, cpu, halted, ghost>>

Init ==
  /\ state = [t \in Task |-> CASE t = dummyTask -> "DUMMY"
                                [] t = init -> "READY"
                                [] OTHER -> "UNUSED"]
  /\ id = [t \in Task |-> IF t = init THEN 1 ELSE NoPid]
  /\ parent = [t \in Task |-> dummyTask]
  /\ noInformParent = [t \in Task |-> FALSE]
  /\ dsChildTerminated = [t \in Task |-> <<>>]
  /\ childrenTerminatedAmnt = [t \in Task |-> 0]
  /\ waitingForPid = [t \in Task |-> NoPid]
  /\ info = [t \in Task |-> [k \in Shared |-> t]]
  /\ utilizedBy = [k \in Shared |-> [t \in Task |-> IF t = init THEN 1 ELSE 0]]
  /\ reaperTask = NoTask
  /\ taskIdCurr = 2
  /\ pc = [t \in Task |-> "user"]
  /\ arg = [t \in Task |-> NoPid]
  /\ target = [t \in Task |-> NoPid]
  /\ cpu = NoTask
  /\ halted = FALSE
  /\ reported = [t \in Task |-> {}]
  /\ collected = [t \in Task |-> {}]
  /\ orphaned = FALSE
  /\ vforked = [t \in Task |-> NoTask]

\* t has the processor and is at point p.
At(t, p) ==
  /\ ~halted
  /\ state[t] = "READY"
  /\ pc[t] = p
  /\ cpu \in {NoTask, t}

\* t goes on at point p; in user mode and after hand_control others may run.
GoTo(t, p, handControl) ==
  /\ pc' = [pc EXCEPT ![t] = p]
  /\ cpu' = IF handControl \/ Preemptive \/ p = "user" THEN NoTask ELSE t

Alive(t) == state[t] \notin {"UNUSED", "DEAD", "FREED", "DUMMY"}

\* A parent woken when it is in one of the given states.
Wake(t, states) ==
  IF state[parent[t]] \in states THEN [state EXCEPT ![parent[t]] = "READY"] ELSE state

-----------------------------------------------------------------------------
\* Creating tasks.

\* The new element of the task list; which address it gets does not matter.
CanAllocate == \E c \in Task : state[c] = "UNUSED"
task_list_allocate == CHOOSE c \in Task : state[c] = "UNUSED"

\* task_fork and task_create_finish: c is made READY with the objects named in
\* flags shared and the others cloned.
task_fork(t, c, flags) ==
  /\ CanAllocate
  /\ state' = [state EXCEPT ![c] = "READY"]
  /\ id' = [id EXCEPT ![c] = taskIdCurr]
  /\ taskIdCurr' = taskIdCurr + 1
  /\ parent' = [parent EXCEPT ![c] = t]
  /\ info' = [info EXCEPT ![c] = [k \in Shared |-> IF k \in flags THEN info[t][k] ELSE c]]
  /\ utilizedBy' = [k \in Shared |-> [utilizedBy[k] EXCEPT ![info'[c][k]] = @ + 1]]
  /\ UNCHANGED <<noInformParent, wait, reaperTask, local, halted>>

syscallFork(t, c) ==
  /\ At(t, "user")
  /\ task_fork(t, c, {})
  /\ GoTo(t, "user", FALSE)
  /\ UNCHANGED ghost

\* CLONE_VM and CLONE_FILES, as for a thread.
syscallClone(t, c) ==
  /\ At(t, "user")
  /\ task_fork(t, c, {"vm", "files"})
  /\ GoTo(t, "user", FALSE)
  /\ UNCHANGED ghost

\* vfork, or clone with CLONE_VFORK, up to task_create_finish.
syscallVfork(t, c) ==
  /\ At(t, "user")
  /\ \E flags \in {{"vm"}, {"vm", "files"}} : task_fork(t, c, flags)
  /\ GoTo(t, "vfork", FALSE)
  /\ vforked' = [vforked EXCEPT ![t] = c]
  /\ UNCHANGED <<reported, collected, orphaned>>

MutantVforkSleep(t) ==
  /\ At(t, "vfork")
  /\ GoTo(t, "vforked", TRUE)
  /\ UNCHANGED <<proc, wait, share, reaperTask, taskIdCurr, local, halted, ghost>>

\* currentTask->state = TASK_STATE_WAITING_VFORK; hand_control()
vfork_sleep(t) ==
  /\ At(t, "vfork")
  /\ state' = [state EXCEPT ![t] = "WAITING_VFORK"]
  /\ GoTo(t, "vforked", TRUE)
  /\ UNCHANGED <<id, parent, noInformParent, wait, share, reaperTask, taskIdCurr, local, halted, ghost>>

vfork_return(t) ==
  /\ At(t, "vforked")
  /\ GoTo(t, "user", FALSE)
  /\ vforked' = [vforked EXCEPT ![t] = NoTask]
  /\ UNCHANGED <<proc, wait, share, reaperTask, taskIdCurr, local, halted, reported, collected, orphaned>>

\* c takes over the pid of t, which gets a new one.
ExecveIds(t, c) == [id EXCEPT ![c] = id[t], ![t] = taskIdCurr]

\* The new program runs in a new task c that takes over the pid and the parent.
syscallExecve(t, c) ==
  /\ At(t, "user")
  /\ CanAllocate
  /\ state' = [Wake(t, {"WAITING_VFORK"}) EXCEPT ![c] = "READY"]
  /\ id' = ExecveIds(t, c)
  /\ taskIdCurr' = taskIdCurr + 1
  /\ parent' = [parent EXCEPT ![c] = parent[t]]
  /\ utilizedBy' = [k \in Shared |-> [utilizedBy[k] EXCEPT ![c] = 1]]
  /\ noInformParent' = [noInformParent EXCEPT ![t] = TRUE]
  /\ GoTo(t, "notify", FALSE)
  /\ orphaned' = (orphaned \/ \E s \in Task : Alive(s) /\ parent[s] = t)
  /\ vforked' = [p \in Task |-> IF vforked[p] = t THEN NoTask ELSE vforked[p]]
  /\ UNCHANGED <<wait, info, reaperTask, local, halted, reported, collected>>

-----------------------------------------------------------------------------
\* Ending a task: task_kill on the task itself.

LastOrNone(s) == IF s = <<>> THEN NoPid ELSE s[Len(s)]

\* LinkedListAllocate linking x behind the tail it has found, which may have
\* got a successor or have been removed meanwhile.
LinkBehind(s, tail, x) ==
  IF tail = NoPid THEN <<x>>
  ELSE IF \E i \in DOMAIN s : s[i] = tail
    THEN Append(SubSeq(s, 1, CHOOSE i \in DOMAIN s : s[i] = tail), x)
    ELSE s

task_kill(t) ==
  /\ At(t, "user")
  /\ arg' = [arg EXCEPT ![t] = LastOrNone(dsChildTerminated[parent[t]])]
  /\ GoTo(t, "inform", FALSE)
  /\ UNCHANGED <<proc, wait, share, reaperTask, taskIdCurr, target, halted, ghost>>

MutantWakesOnlyAny(t) == {"WAITING_CHILD"}

\* The states in which the parent of t waits for its end.
WaitsFor(t) ==
  {"WAITING_CHILD"} \cup
  (IF waitingForPid[parent[t]] = id[t] THEN {"WAITING_CHILD_SPECIFIC"} ELSE {})

\* The record is linked and counted, and a parent that waits for it is woken.
inform(t) ==
  LET p == parent[t] IN
  /\ At(t, "inform")
  /\ dsChildTerminated' = [dsChildTerminated EXCEPT ![p] = LinkBehind(@, arg[t], id[t])]
  /\ childrenTerminatedAmnt' = [childrenTerminatedAmnt EXCEPT ![p] = @ + 1]
  /\ state' = Wake(t, WaitsFor(t))
  /\ reported' = [reported EXCEPT ![p] = @ \cup {id[t]}]
  /\ arg' = [arg EXCEPT ![t] = NoPid]
  /\ GoTo(t, "notify", FALSE)
  /\ UNCHANGED <<id, parent, noInformParent, waitingForPid, share, reaperTask, taskIdCurr,
                 target, halted, collected, orphaned, vforked>>

MutantDiscard(t) ==
  [utilizedBy EXCEPT !["vm"][info[t]["vm"]] = 0, !["files"][info[t]["files"]] = @ - 1]

\* taskInfoFilesDiscard and taskInfoPdDiscard
Discard(t) ==
  [k \in Shared |-> [utilizedBy[k] EXCEPT ![info[t][k]] = @ - 1]]

\* A parent in vfork is woken, files and memory are given up.
notify(t) ==
  /\ At(t, "notify")
  /\ state' = Wake(t, {"WAITING_VFORK"})
  /\ utilizedBy' = Discard(t)
  /\ vforked' = [p \in Task |-> IF vforked[p] = t THEN NoTask ELSE vforked[p]]
  /\ GoTo(t, "reap", FALSE)
  /\ UNCHANGED <<id, parent, noInformParent, wait, info, reaperTask, taskIdCurr, local,
                 halted, reported, collected, orphaned>>

MutantReaper(t) ==
  /\ At(t, "reap")
  /\ reaperTask' = t
  /\ state' = [state EXCEPT ![t] = "DEAD"]
  /\ GoTo(t, "reap", TRUE)
  /\ UNCHANGED <<id, parent, noInformParent, wait, share, taskIdCurr, local, halted, ghost>>

\* The loop of task_call_reaper finds the slot free; the task is DEAD.
task_call_reaper(t) ==
  /\ At(t, "reap")
  /\ reaperTask = NoTask
  /\ reaperTask' = t
  /\ state' = [state EXCEPT ![t] = "DEAD"]
  /\ GoTo(t, "reap", TRUE)
  /\ UNCHANGED <<id, parent, noInformParent, wait, share, taskIdCurr, local, halted, ghost>>

\* The slot is taken: hand_control.
reaper_busy(t) ==
  /\ At(t, "reap")
  /\ reaperTask # NoTask
  /\ cpu = t
  /\ cpu' = NoTask
  /\ UNCHANGED <<proc, wait, share, reaperTask, taskIdCurr, pc, local, halted, ghost>>

MutantFreeChildren(t) == parent

\* task_free_children: living children get dummyTask as parent, except those
\* of a task that was replaced by execve.
task_free_children(t) ==
  IF noInformParent[t] THEN parent
  ELSE [c \in Task |-> IF parent[c] = t /\ Alive(c) THEN dummyTask ELSE parent[c]]

\* The reaper thread: task_free_children and task_list_destroy.
reap ==
  LET t == reaperTask IN
  /\ ~halted
  /\ cpu = NoTask
  /\ t # NoTask
  /\ state[t] = "DEAD"
  /\ parent' = task_free_children(t)
  /\ state' = [state EXCEPT ![t] = "FREED"]
  /\ reaperTask' = NoTask
  /\ id' = [id EXCEPT ![t] = NoPid]
  /\ dsChildTerminated' = [dsChildTerminated EXCEPT ![t] = <<>>]
  /\ childrenTerminatedAmnt' = [childrenTerminatedAmnt EXCEPT ![t] = 0]
  /\ info' = [info EXCEPT ![t] = [k \in Shared |-> t]]
  /\ reported' = [reported EXCEPT ![t] = {}]
  /\ collected' = [collected EXCEPT ![t] = {}]
  /\ UNCHANGED <<noInformParent, waitingForPid, utilizedBy, taskIdCurr, pc, local, cpu, halted,
                 orphaned, vforked>>

-----------------------------------------------------------------------------
\* wait4.

\* The pids listed for t.
Recorded(t) == {dsChildTerminated[t][i] : i \in DOMAIN dsChildTerminated[t]}

\* Pids a program can know: its children's, and those recorded for it.
Pids(t) ==
  {AnyChild} \cup {id[c] : c \in {c \in Task : Alive(c) /\ parent[c] = t}}
        \cup Recorded(t)

ReadyChild(t) == \E c \in Task : state[c] = "READY" /\ parent[c] = t

NothingOnTheSide(t) == childrenTerminatedAmnt[t] = 0 /\ ~ReadyChild(t)

\* ECHILD
wait4_fails(t) ==
  /\ At(t, "user")
  /\ NothingOnTheSide(t)
  /\ UNCHANGED vars

syscallWait4(t, pid) ==
  /\ At(t, "user")
  /\ ~NothingOnTheSide(t)
  /\ arg' = [arg EXCEPT ![t] = pid]
  /\ GoTo(t, "look", FALSE)
  /\ UNCHANGED <<proc, wait, share, reaperTask, taskIdCurr, target, halted, ghost>>

\* The end of a call's local variables.
forget(t) ==
  /\ arg' = [arg EXCEPT ![t] = NoPid]
  /\ target' = [target EXCEPT ![t] = NoPid]

Found(t) ==
  IF arg[t] = AnyChild
    THEN IF dsChildTerminated[t] = <<>> THEN NoPid ELSE Head(dsChildTerminated[t])
    ELSE IF arg[t] \in Recorded(t) THEN arg[t] ELSE NoPid

\* Whether the call goes on without sleeping.
NoNeedToSleep(t) ==
  IF arg[t] = AnyChild THEN childrenTerminatedAmnt[t] # 0 ELSE Found(t) # NoPid

look(t) ==
  /\ At(t, "look")
  /\ target' = [target EXCEPT ![t] = IF NoNeedToSleep(t) THEN Found(t) ELSE @]
  /\ GoTo(t, IF NoNeedToSleep(t) THEN "take" ELSE "sleep", FALSE)
  /\ UNCHANGED <<proc, wait, share, reaperTask, taskIdCurr, arg, halted, ghost>>

\* options & WNOHANG
no_hang(t) ==
  /\ At(t, "sleep")
  /\ GoTo(t, "user", FALSE)
  /\ forget(t)
  /\ UNCHANGED <<proc, wait, share, reaperTask, taskIdCurr, halted, ghost>>

sleep(t) ==
  /\ At(t, "sleep")
  /\ waitingForPid' = IF arg[t] = AnyChild THEN waitingForPid ELSE [waitingForPid EXCEPT ![t] = arg[t]]
  /\ state' = [state EXCEPT ![t] = IF arg[t] = AnyChild THEN "WAITING_CHILD" ELSE "WAITING_CHILD_SPECIFIC"]
  /\ GoTo(t, "asleep", TRUE)
  /\ UNCHANGED <<id, parent, noInformParent, dsChildTerminated, childrenTerminatedAmnt, share,
                 reaperTask, taskIdCurr, local, halted, ghost>>

wake(t) ==
  /\ At(t, "asleep")
  /\ waitingForPid' = IF arg[t] = AnyChild THEN waitingForPid ELSE [waitingForPid EXCEPT ![t] = NoPid]
  /\ target' = [target EXCEPT ![t] = Found(t)]
  /\ GoTo(t, "take", FALSE)
  /\ UNCHANGED <<proc, dsChildTerminated, childrenTerminatedAmnt, share, reaperTask, taskIdCurr,
                 arg, halted, ghost>>

MutantUncount(t) == childrenTerminatedAmnt

Uncount(t) == [childrenTerminatedAmnt EXCEPT ![t] = @ - 1]

\* LinkedListUnregister: the successor of x takes its place, if x is listed.
LinkedListRemove(s, x) ==
  LET i == CHOOSE i \in DOMAIN s : s[i] = x
  IN  IF \E j \in DOMAIN s : s[j] = x THEN SubSeq(s, 1, i - 1) \o SubSeq(s, i + 1, Len(s)) ELSE s

\* "FATAL Just fatal!", or the record is removed and its pid returned.
take(t) ==
  /\ At(t, "take")
  /\ forget(t)
  /\ IF target[t] = NoPid
       THEN /\ halted' = TRUE
            /\ UNCHANGED <<dsChildTerminated, childrenTerminatedAmnt, collected, pc, cpu>>
       ELSE /\ dsChildTerminated' = [dsChildTerminated EXCEPT ![t] = LinkedListRemove(@, target[t])]
            /\ childrenTerminatedAmnt' = Uncount(t)
            /\ collected' = [collected EXCEPT ![t] = @ \cup {target[t]}]
            /\ GoTo(t, "user", FALSE)
            /\ UNCHANGED halted
  /\ UNCHANGED <<proc, waitingForPid, share, reaperTask, taskIdCurr, reported,
                 orphaned, vforked>>

-----------------------------------------------------------------------------

\* What a program asks for, and what goes on inside a system call.
Call(t) ==
  \/ syscallFork(t, task_list_allocate)
  \/ syscallClone(t, task_list_allocate)
  \/ syscallVfork(t, task_list_allocate)
  \/ syscallExecve(t, task_list_allocate)
  \/ \E pid \in Pids(t) : syscallWait4(t, pid)
  \/ wait4_fails(t)
  \/ task_kill(t)

Continue(t) ==
  \/ vfork_sleep(t) \/ vfork_return(t)
  \/ inform(t) \/ notify(t) \/ task_call_reaper(t) \/ reaper_busy(t)
  \/ look(t) \/ no_hang(t) \/ sleep(t) \/ wake(t) \/ take(t)

Next == reap \/ \E t \in Task : Call(t) \/ Continue(t)

Spec == Init /\ [][Next]_vars
FairSpec == Spec /\ SF_vars(reap) /\ \A t \in Task : SF_vars(Continue(t))

-----------------------------------------------------------------------------

States == {"UNUSED", "READY", "WAITING_CHILD", "WAITING_CHILD_SPECIFIC", "WAITING_VFORK",
           "DEAD", "FREED", "DUMMY"}
Points == {"user", "vfork", "vforked", "inform", "notify", "reap", "look", "sleep", "asleep", "take"}

TypeOK ==
  /\ state \in [Task -> States]
  /\ parent \in [Task -> Task]
  /\ \A s, t \in Task : Alive(s) /\ Alive(t) /\ id[s] = id[t] => s = t
  /\ pc \in [Task -> Points]
  /\ reaperTask \in Task \cup {NoTask}
  /\ utilizedBy \in [Shared -> [Task -> Nat]]
  /\ \A t \in Task : childrenTerminatedAmnt[t] \in Nat

(***************************************************************************)
(* wait4 and task_kill hand over every end of a child exactly once: what   *)
(* was recorded for a parent is what wait4 has returned and what is still  *)
(* listed, without duplicates, and childrenTerminatedAmnt counts the list, *)
(* so that wait4 never gets to its "FATAL Just fatal!".                    *)
(***************************************************************************)
EachEndOnce ==
  /\ TypeOK
  /\ ~halted
  /\ \A t \in Task :
       /\ reported[t] = collected[t] \cup Recorded(t)
       /\ collected[t] \cap Recorded(t) = {}
       /\ childrenTerminatedAmnt[t] = Len(dsChildTerminated[t])
       /\ \A i, j \in DOMAIN dsChildTerminated[t] :
            dsChildTerminated[t][i] = dsChildTerminated[t][j] => i = j

(***************************************************************************)
(* No wake-up is lost: a task asleep in wait4 has nothing listed that it   *)
(* waits for, and a task asleep in vfork has a child that has yet to       *)
(* notify it.                                                              *)
(***************************************************************************)
NoLostWakeUp ==
  \A t \in Task :
    /\ state[t] = "WAITING_CHILD" => dsChildTerminated[t] = <<>>
    /\ state[t] = "WAITING_CHILD_SPECIFIC" => arg[t] \notin Recorded(t)
    /\ state[t] = "WAITING_VFORK" =>
         \E c \in Task : Alive(c) /\ parent[c] = t /\ pc[c] # "reap"

(***************************************************************************)
(* infoPd and infoFiles live as long as a task uses them and no longer:    *)
(* utilizedBy counts the users that have not discarded them.               *)
(***************************************************************************)
SharedUntilLast ==
  \A k \in Shared, o \in Task :
    utilizedBy[k][o] = Cardinality({t \in Task : Alive(t) /\ pc[t] # "reap" /\ info[t][k] = o})

(***************************************************************************)
(* A task that called vfork does not return while its child still runs in  *)
(* the same memory, unless another child of it ended or called execve      *)
(* meanwhile (task_kill wakes any parent that is WAITING_VFORK).           *)
(***************************************************************************)
VforkHeld ==
  [][\A t \in Task :
       (pc[t] = "vforked" /\ pc'[t] = "user" /\ vforked[t] # NoTask)
         => \E c \in Task : c # vforked[t] /\ parent[c] = t
                            /\ (pc[c] = "reap" \/ ~Alive(c))]_vars

(***************************************************************************)
(* task_free_children leaves no living task with a parent that was freed,  *)
(* as long as no task with children calls execve (whose old task it        *)
(* skips).                                                                 *)
(***************************************************************************)
OnlyExecveOrphans ==
  orphaned \/ \A t \in Task : Alive(t) => state[parent[t]] # "FREED"

(***************************************************************************)
(* task.cpp:263: "the "reaper" thread will finish everything in a safe     *)
(* context": every task that called task_kill is freed in the end, however *)
(* many compete for the one slot of the reaper.                            *)
(***************************************************************************)
EveryoneReaped ==
  \A t \in Task : pc[t] = "inform" ~> (state[t] = "FREED" \/ halted)

(***************************************************************************)
(* task.cpp:228: "Notify that poor parent... they must've been searching   *)
(* all over the place!": a parent asleep in wait4 for any child returns    *)
(* once a child of it is ending.                                           *)
(***************************************************************************)
ParentReturns ==
  \A t \in Task :
    (state[t] = "WAITING_CHILD" /\ \E c \in Task : parent[c] = t /\ pc[c] = "inform")
      ~> pc[t] = "user"

(***************************************************************************)
(* An end is always dealt with: the task is freed and the parent returns   *)
(* (task_kill, task_call_reaper, wait4).                                   *)
(***************************************************************************)
EndsAreDealtWith == EveryoneReaped /\ ParentReturns
=============================================================================
