------------------------------ MODULE Spinlock ------------------------------
(***************************************************************************)
(* The locks of multitasking/spinlock.cpp as tasks use them.  A task that  *)
(* finds a lock taken calls hand_control, which lets the scheduler run     *)
(* another task.  The scheduler is not part of the repository.  With       *)
(* Preemptive = FALSE it switches only inside hand_control, which is all   *)
(* that the code provides; with Preemptive = TRUE it may also switch       *)
(* between any two steps, which is what syscall_handler prepares for by    *)
(* enabling interrupts.                                                    *)
(***************************************************************************)
EXTENDS Integers, FiniteSets

CONSTANTS Tasks, NoTask, Preemptive

VARIABLES
  cnt,     \* SpinlockCnt.cnt
  locked,  \* Spinlock.locked
  pc,      \* where each task is
  cpu,     \* the task that cannot be switched out now, or NoTask
  halted   \* "Something very bad is going on"

vars == <<cnt, locked, pc, cpu, halted>>

Points == {"out", "count", "reading", "mark", "writing", "holding"}

Init ==
  /\ cnt = 0
  /\ locked = FALSE
  /\ pc = [t \in Tasks |-> "out"]
  /\ cpu = NoTask
  /\ halted = FALSE

\* t has the processor.
Runs(t) == ~halted /\ cpu \in {NoTask, t}

\* t goes on at point p.  It keeps the processor unless it is switched out
\* there, by hand_control or by an interrupt.
GoTo(t, p, switch) ==
  /\ pc' = [pc EXCEPT ![t] = p]
  /\ cpu' = IF switch \/ Preemptive THEN NoTask ELSE t

\* A task outside hands control over, or reads its locks next; a task inside
\* may have to wait for something else there.
hand_control(t) ==
  /\ Runs(t)
  /\ pc[t] \in {"out", "reading", "writing", "holding"}
  /\ cpu = t
  /\ cpu' = NoTask
  /\ UNCHANGED <<cnt, locked, pc, halted>>

MutantReadAcquire(t) ==
  /\ Runs(t)
  /\ pc[t] = "out"
  /\ GoTo(t, "count", FALSE)
  /\ UNCHANGED <<cnt, locked, halted>>

\* The loop of spinlock_cnt_read_acquire is left.
read_acquire(t) ==
  /\ Runs(t)
  /\ pc[t] = "out"
  /\ cnt >= 0
  /\ GoTo(t, "count", FALSE)
  /\ UNCHANGED <<cnt, locked, halted>>

\* lock->cnt++
count(t) ==
  /\ Runs(t)
  /\ pc[t] = "count"
  /\ cnt' = cnt + 1
  /\ GoTo(t, "reading", FALSE)
  /\ UNCHANGED <<locked, halted>>

spinlock_cnt_read_release(t) ==
  /\ Runs(t)
  /\ pc[t] = "reading"
  /\ IF cnt < 0
       THEN halted' = TRUE /\ UNCHANGED <<cnt, pc, cpu>>
       ELSE cnt' = cnt - 1 /\ GoTo(t, "out", FALSE) /\ UNCHANGED halted
  /\ UNCHANGED locked

\* The loop of spinlock_cnt_write_acquire is left.
write_acquire(t) ==
  /\ Runs(t)
  /\ pc[t] = "out"
  /\ cnt = 0
  /\ GoTo(t, "mark", FALSE)
  /\ UNCHANGED <<cnt, locked, halted>>

\* lock->cnt = -1
mark(t) ==
  /\ Runs(t)
  /\ pc[t] = "mark"
  /\ cnt' = -1
  /\ GoTo(t, "writing", FALSE)
  /\ UNCHANGED <<locked, halted>>

spinlock_cnt_write_release(t) ==
  /\ Runs(t)
  /\ pc[t] = "writing"
  /\ IF cnt # -1
       THEN halted' = TRUE /\ UNCHANGED <<cnt, pc, cpu>>
       ELSE cnt' = 0 /\ GoTo(t, "out", FALSE) /\ UNCHANGED halted
  /\ UNCHANGED locked

\* The loop of spinlock_acquire is left; nothing is stored.
spinlock_acquire(t) ==
  /\ Runs(t)
  /\ pc[t] = "out"
  /\ ~locked
  /\ GoTo(t, "holding", FALSE)
  /\ UNCHANGED <<cnt, locked, halted>>

spinlock_release(t) ==
  /\ Runs(t)
  /\ pc[t] = "holding"
  /\ locked' = FALSE
  /\ GoTo(t, "out", FALSE)
  /\ UNCHANGED <<cnt, halted>>

Step(t) ==
  \/ hand_control(t)
  \/ read_acquire(t) \/ count(t) \/ spinlock_cnt_read_release(t)
  \/ write_acquire(t) \/ mark(t) \/ spinlock_cnt_write_release(t)
  \/ spinlock_acquire(t) \/ spinlock_release(t)

Next == \E t \in Tasks : Step(t)

Spec == Init /\ [][Next]_vars

-----------------------------------------------------------------------------

Readers == {t \in Tasks : pc[t] = "reading"}
Writers == {t \in Tasks : pc[t] = "writing"}

TypeOK ==
  /\ cnt \in -1 .. Cardinality(Tasks)
  /\ locked \in BOOLEAN
  /\ pc \in [Tasks -> Points]
  /\ cpu \in Tasks \cup {NoTask}
  /\ halted \in BOOLEAN

(***************************************************************************)
(* spinlock.cpp:27: a writer "waits for it to become 0 and makes it -1,    *)
(* not permitting any reads": while a task is between                      *)
(* spinlock_cnt_write_acquire and spinlock_cnt_write_release no other task *)
(* reads or writes.                                                        *)
(***************************************************************************)
WriterAlone ==
  \A w \in Writers : Writers = {w} /\ Readers = {}

(***************************************************************************)
(* cnt says who is inside: -1 for a writer, the number of readers          *)
(* otherwise, so that neither release function finds the count it halts    *)
(* on, however acquisitions and releases interleave.                       *)
(***************************************************************************)
CountIsExact ==
  /\ TypeOK
  /\ ~halted
  /\ cnt = IF Writers # {} THEN -1 ELSE Cardinality(Readers)

(***************************************************************************)
(* Both together: what the counting lock promises its users                *)
(* (spinlock_cnt_read_acquire, spinlock_cnt_write_acquire).                *)
(***************************************************************************)
LocksExclude == WriterAlone /\ CountIsExact
=============================================================================
