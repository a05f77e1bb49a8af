-------------------------------- MODULE Futex --------------------------------
(***************************************************************************)
(* futexSyscall of syscalls/futex.cpp, as programs use it to wait for a    *)
(* word of memory to change: they store a new value and then wake the      *)
(* sleepers, or wake some and move the rest to another word (a condition   *)
(* variable and its mutex).  task_kill does the same with the word at      *)
(* tidptr.  As in Spinlock, a task inside a system call is switched out    *)
(* only in hand_control unless Preemptive.  Time-outs and signals are the  *)
(* scheduler's, which makes a task READY; it is not part of the            *)
(* repository.                                                             *)
(***************************************************************************)
EXTENDS Integers, Sequences, Functions

CONSTANTS Tasks, NoTask, Addr, Values, Counts, Preemptive,
          Requeues     \* the pairs of words between which programs move sleepers

\* Programs move sleepers from a condition variable to its mutex, and from a
\* mutex they move none.
ASSUME FutexAssumption ==
  /\ NoTask \notin Tasks
  /\ Addr # {} /\ Values # {}
  /\ Counts \subseteq Nat
  /\ Requeues \subseteq Addr \X Addr
  /\ \A p, q \in Requeues : p[2] # q[1]

VARIABLES
  word,         \* the words of user memory
  firstAsleep,  \* firstAsleep[a]: the tasks of the FutexAsleep records of a
  above,        \* FutexAsleep.above of the record of each task
  awoken,       \* FutexAsleep.awoken
  state,        \* READY or FUTEX
  step,         \* "user"; "checked" and "asleep" in FUTEX_WAIT; "stored" before waking
  addr, value,  \* the arguments of FUTEX_WAIT; addr also where a task has stored
  cpu           \* the task that cannot be switched out now, or NoTask

futexVars == <<word, firstAsleep, above, awoken, state, step, addr, value, cpu>>

SomeAddr == CHOOSE a \in Addr : TRUE
SomeValue == CHOOSE v \in Values : TRUE

FutexInit ==
  /\ word = [a \in Addr |-> SomeValue]
  /\ firstAsleep = [a \in Addr |-> <<>>]
  /\ above = [t \in Tasks |-> SomeAddr]
  /\ addr = [t \in Tasks |-> SomeAddr]
  /\ awoken = [t \in Tasks |-> FALSE]
  /\ state = [t \in Tasks |-> "READY"]
  /\ step = [t \in Tasks |-> "user"]
  /\ value = [t \in Tasks |-> SomeValue]
  /\ cpu = NoTask

At(t, p) ==
  /\ state[t] = "READY"
  /\ step[t] = p
  /\ cpu \in {NoTask, t}

GoTo(t, p, keep) ==
  /\ step' = [step EXCEPT ![t] = p]
  /\ cpu' = IF keep /\ ~Preemptive THEN t ELSE NoTask

\* The end of a call and of its local variables.
Return(t) ==
  /\ GoTo(t, "user", FALSE)
  /\ addr' = [addr EXCEPT ![t] = SomeAddr]
  /\ value' = [value EXCEPT ![t] = SomeValue]

\* User code changes the word; waking comes next.
store(t, a, v) ==
  /\ At(t, "user")
  /\ word[a] # v
  /\ word' = [word EXCEPT ![a] = v]
  /\ addr' = [addr EXCEPT ![t] = a]
  /\ GoTo(t, "stored", FALSE)
  /\ UNCHANGED <<firstAsleep, above, awoken, state, value>>

\* FUTEX_WAIT finds the value it expects; otherwise it is EAGAIN.
futex_wait(t, a, v) ==
  /\ At(t, "user")
  /\ word[a] = v
  /\ addr' = [addr EXCEPT ![t] = a]
  /\ value' = [value EXCEPT ![t] = v]
  /\ GoTo(t, "checked", TRUE)
  /\ UNCHANGED <<word, firstAsleep, above, awoken, state>>

\* The record is appended and the task sleeps in hand_control.
fall_asleep(t) ==
  /\ At(t, "checked")
  /\ firstAsleep' = [firstAsleep EXCEPT ![addr[t]] = Append(@, t)]
  /\ above' = [above EXCEPT ![t] = addr[t]]
  /\ awoken' = [awoken EXCEPT ![t] = FALSE]
  /\ state' = [state EXCEPT ![t] = "FUTEX"]
  /\ GoTo(t, "asleep", FALSE)
  /\ UNCHANGED <<word, addr, value>>

\* forcefulWakeupTimeUnsafe has passed, or a signal is pending.
expire(t) ==
  /\ state[t] = "FUTEX"
  /\ cpu = NoTask
  /\ state' = [state EXCEPT ![t] = "READY"]
  /\ UNCHANGED <<word, firstAsleep, above, awoken, step, addr, value, cpu>>

\* The records of list s whose tasks are in S, in the order of s.
Keep(s, S) ==
  LET kept[i \in 0 .. Len(s)] ==
        IF i = 0 THEN <<>>
        ELSE IF s[i] \in S THEN Append(kept[i - 1], s[i]) ELSE kept[i - 1]
  IN  kept[Len(s)]

\* The rest of FUTEX_WAIT: the record is removed from the list it is in now.
wake_up(t) ==
  /\ At(t, "asleep")
  /\ firstAsleep' = [firstAsleep EXCEPT ![above[t]] = Keep(@, Tasks \ {t})]
  /\ awoken' = [awoken EXCEPT ![t] = FALSE]
  /\ above' = [above EXCEPT ![t] = SomeAddr]
  /\ Return(t)
  /\ UNCHANGED <<word, state>>

\* The records of a list that are not marked awoken; the first n of them.
Sleepers(a) == Keep(firstAsleep[a], {t \in Tasks : ~awoken[t]})
FirstN(s, n) == Range(SubSeq(s, 1, IF n < Len(s) THEN n ELSE Len(s)))

\* browse->task->state = READY, browse->awoken = true
Wake(tasks) ==
  /\ state' = [t \in Tasks |-> IF t \in tasks THEN "READY" ELSE state[t]]
  /\ awoken' = [t \in Tasks |-> awoken[t] \/ t \in tasks]

\* FUTEX_WAKE for all sleepers.
futex_wake(t) ==
  /\ At(t, "stored")
  /\ Wake(Range(Sleepers(addr[t])))
  /\ Return(t)
  /\ UNCHANGED <<word, firstAsleep, above>>

MutantRequeue(t, n, b) ==
  LET a == addr[t]
      moved == Keep(Sleepers(a), Tasks \ FirstN(Sleepers(a), n))
  IN
  /\ At(t, "stored")
  /\ <<a, b>> \in Requeues
  /\ Wake(FirstN(Sleepers(a), n))
  /\ firstAsleep' = [firstAsleep EXCEPT ![a] = Keep(@, Tasks \ Range(moved)),
                                        ![b] = @ \o moved]
  /\ Return(t)
  /\ UNCHANGED <<word, above>>

\* FUTEX_REQUEUE: n are woken and the others moved to the end of the list of b.
futex_requeue(t, n, b) ==
  LET a == addr[t]
      moved == Keep(Sleepers(a), Tasks \ FirstN(Sleepers(a), n))
  IN
  /\ At(t, "stored")
  /\ <<a, b>> \in Requeues
  /\ Wake(FirstN(Sleepers(a), n))
  /\ firstAsleep' = [firstAsleep EXCEPT ![a] = Keep(@, Tasks \ Range(moved)),
                                        ![b] = @ \o moved]
  /\ above' = [s \in Tasks |-> IF s \in Range(moved) THEN b ELSE above[s]]
  /\ Return(t)
  /\ UNCHANGED word

Continue(t) ==
  \/ fall_asleep(t)
  \/ wake_up(t)
  \/ futex_wake(t)
  \/ \E n \in Counts, b \in Addr : futex_requeue(t, n, b)

FutexStep ==
  \E t \in Tasks :
    \/ \E a \in Addr, v \in Values : store(t, a, v) \/ futex_wait(t, a, v)
    \/ expire(t)
    \/ Continue(t)

FutexSpec == FutexInit /\ [][FutexStep]_futexVars

-----------------------------------------------------------------------------

(***************************************************************************)
(* The assertion of futex.cpp:129: a record is in exactly the list that    *)
(* its above names, however often it was moved, so that a task that wakes  *)
(* up, by FUTEX_WAKE, a time-out or a signal, finds it there; and a task   *)
(* that still sleeps was not counted as woken.                             *)
(***************************************************************************)
RecordIsListed ==
  /\ \A a \in Addr : IsInjective(firstAsleep[a])
  /\ \A t \in Tasks, a \in Addr :
       t \in Range(firstAsleep[a]) <=> step[t] = "asleep" /\ above[t] = a
  /\ \A t \in Tasks : awoken[t] => step[t] = "asleep" /\ state[t] = "READY"

(***************************************************************************)
(* The check of the value at futex.cpp:92 and the record made after it     *)
(* lose no wake-up: a task asleep on a word that no longer has the value   *)
(* it waited on is about to be woken by the task that changed it.          *)
(***************************************************************************)
ChangeWakes ==
  \A t \in Tasks :
    (state[t] = "FUTEX" /\ above[t] = addr[t] /\ word[addr[t]] # value[t])
      => \E s \in Tasks : step[s] = "stored" /\ addr[s] = addr[t]

(***************************************************************************)
(* Both together: a wake finds every sleeper it is meant for, also after   *)
(* requeue has moved it, and none sleeps on past the change it waits for   *)
(* (futexSyscall).                                                         *)
(***************************************************************************)
WakesReachSleepers == RecordIsListed /\ ChangeWakes
=============================================================================
