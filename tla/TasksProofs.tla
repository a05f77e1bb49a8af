---------------------------- MODULE TasksProofs ----------------------------
(***************************************************************************)
(* What Tasks promises for every number of tasks.  As long as a system     *)
(* call is left only in hand_control, no wake-up is lost and vfork returns *)
(* when it should.  Whether or not the scheduler preempts system calls,    *)
(* shared objects live exactly as long as they are used, and only execve   *)
(* leaves tasks with a freed parent.  From both it follows that every end  *)
(* of a child is handed over once.                                         *)
(***************************************************************************)
EXTENDS Tasks, FiniteSetTheorems, TLAPS

Waiting == {"WAITING_CHILD", "WAITING_CHILD_SPECIFIC", "WAITING_VFORK"}

\* What the proofs assume of the constants.
Constants ==
  /\ IsFiniteSet(Task)
  /\ dummyTask \in Task
  /\ init \in Task
  /\ init # dummyTask
  /\ NoTask \notin Task

\* The pids in a list, and that there is no pid twice.
PidsIn(s) == {s[i] : i \in DOMAIN s}
Distinct(s) == \A i, j \in DOMAIN s : s[i] = s[j] => i = j

(***************************************************************************)
(* Without preemption a task inside a system call keeps the processor      *)
(* until it gives it up in hand_control.                                   *)
(***************************************************************************)
Inside == {"vfork", "inform", "notify", "look", "sleep", "take"}

\* A task that cannot run is where it gave up the processor.
PlaceOf(t) ==
  /\ pc[t] \in Inside => cpu = t
  /\ state[t] = "WAITING_CHILD" => pc[t] = "asleep" /\ arg[t] = AnyChild
  /\ state[t] = "WAITING_CHILD_SPECIFIC" =>
       pc[t] = "asleep" /\ arg[t] # AnyChild /\ waitingForPid[t] = arg[t]
  /\ state[t] = "WAITING_VFORK" => pc[t] = "vforked"
  /\ state[t] \in {"DEAD", "FREED"} => pc[t] = "reap"
  /\ state[t] \in {"UNUSED", "DUMMY"} => pc[t] = "user"

\* What wait4 of t waits for is listed.
Listed(t) ==
  IF arg[t] = AnyChild THEN dsChildTerminated[t] # <<>> ELSE arg[t] \in PidsIn(dsChildTerminated[t])

\* What task_kill and wait4 have found out and still rely on.
KnownTo(t) ==
  /\ pc[t] = "inform" => arg[t] = LastOrNone(dsChildTerminated[parent[t]])
  /\ pc[t] = "take" => target[t] \in PidsIn(dsChildTerminated[t])
  /\ pc[t] = "sleep" => ~Listed(t)
  /\ pc[t] = "asleep" => (state[t] = "READY" <=> Listed(t))

\* A vfork is held by a child that has yet to notify it, and ends when a child
\* has ended or called execve.
HeldBy(t, c) == Alive(c) /\ parent[c] = t /\ pc[c] # "reap"
EndedBy(t, c) == c # vforked[t] /\ parent[c] = t /\ pc[c] \in {"notify", "reap"}

VforkOf(t) ==
  /\ pc[t] = "vfork" \/ state[t] = "WAITING_VFORK" => \E c \in Task : HeldBy(t, c)
  /\ pc[t] = "vforked" /\ state[t] = "READY" /\ vforked[t] # NoTask => \E c \in Task : EndedBy(t, c)

\* Pids are used once, and not again after they were recorded.
Ids ==
  /\ taskIdCurr \in Nat \ {0}
  /\ id \in [Task -> Nat]
  /\ \A t \in Task : id[t] < taskIdCurr
  /\ \A t \in Task : Alive(t) => id[t] # NoPid
  /\ \A s, t \in Task : Alive(s) /\ Alive(t) /\ id[s] = id[t] => s = t
  /\ \A p \in Task : \A x \in reported[p] : x < taskIdCurr
  /\ \A s, p \in Task : Alive(s) /\ id[s] \in reported[p] => pc[s] \in {"notify", "reap"}

\* What was recorded for t is collected or listed.
RecordsOf(t) ==
  /\ reported[t] = collected[t] \cup PidsIn(dsChildTerminated[t])
  /\ collected[t] \cap PidsIn(dsChildTerminated[t]) = {}
  /\ childrenTerminatedAmnt[t] = Len(dsChildTerminated[t])
  /\ Distinct(dsChildTerminated[t])

StateTypes ==
  /\ state \in [Task -> States]
  /\ parent \in [Task -> Task]
  /\ pc \in [Task -> Points]
  /\ reaperTask \in Task \cup {NoTask}

LocalTypes ==
  /\ arg \in [Task -> Int]
  /\ target \in [Task -> Int]
  /\ waitingForPid \in [Task -> Int]
  /\ vforked \in [Task -> Task \cup {NoTask}]

RecordTypes ==
  /\ dsChildTerminated \in [Task -> Seq(Nat \ {NoPid})]
  /\ childrenTerminatedAmnt \in [Task -> Int]
  /\ reported \in [Task -> SUBSET Nat]
  /\ collected \in [Task -> SUBSET Nat]

Calls ==
  /\ ~halted
  /\ StateTypes
  /\ LocalTypes
  /\ RecordTypes
  /\ Ids
  /\ \A t \in Task : PlaceOf(t) /\ KnownTo(t) /\ VforkOf(t) /\ RecordsOf(t)

\* Linking a record behind the last one appends it.
LEMMA LinkFacts ==
  ASSUME NEW S, NoPid \notin S, NEW s \in Seq(S), NEW x \in S, Distinct(s), x \notin PidsIn(s)
  PROVE  LET r == LinkBehind(s, LastOrNone(s), x) IN
         /\ r \in Seq(S)
         /\ Len(r) = Len(s) + 1
         /\ PidsIn(r) = PidsIn(s) \cup {x}
         /\ Distinct(r)
         /\ r # <<>>
<1> DEFINE r == Append(s, x)
<1>1. LinkBehind(s, LastOrNone(s), x) = r
  <2>1. CASE s = <<>>
    BY <2>1 DEF LinkBehind, LastOrNone
  <2>2. CASE s # <<>>
    <3>1. Len(s) \in DOMAIN s /\ s[Len(s)] \in S
      BY <2>2
    <3>2. LastOrNone(s) = s[Len(s)] /\ LastOrNone(s) # NoPid
      BY <2>2, <3>1, Zenon DEF LastOrNone
    <3>3. (CHOOSE i \in DOMAIN s : s[i] = LastOrNone(s)) = Len(s)
      BY <3>1, <3>2, Zenon DEF Distinct
    <3>4. SubSeq(s, 1, Len(s)) = s
      OBVIOUS
    <3> QED
      BY <3>1, <3>2, <3>3, <3>4, Zenon DEF LinkBehind
  <2> QED
    BY <2>1, <2>2, Zenon
<1>2. r \in Seq(S) /\ Len(r) = Len(s) + 1 /\ r # <<>>
  <2>1. r \in Seq(S)
    OBVIOUS
  <2>2. Len(r) = Len(s) + 1
    OBVIOUS
  <2> HIDE DEF r
  <2>3. r # <<>>
    BY <2>2
  <2> QED
    BY <2>1, <2>2, <2>3, Zenon
<1>3. r[Len(s) + 1] = x /\ \A i \in 1 .. Len(s) : r[i] = s[i]
  OBVIOUS
<1> HIDE DEF r
<1>4. PidsIn(r) = PidsIn(s) \cup {x}
  BY <1>2, <1>3 DEF PidsIn
<1>5. Distinct(r)
  BY <1>2, <1>3 DEF PidsIn, Distinct
<1> QED
  BY <1>1, <1>2, <1>4, <1>5, Zenon

\* Removing a record leaves the others.
LEMMA RemoveFacts ==
  ASSUME NEW S, NEW s \in Seq(S), NEW x \in PidsIn(s), Distinct(s)
  PROVE  LET r == LinkedListRemove(s, x) IN
         /\ r \in Seq(S)
         /\ Len(r) = Len(s) - 1
         /\ PidsIn(r) = PidsIn(s) \ {x}
         /\ Distinct(r)
<1>1. PICK i \in 1 .. Len(s) : s[i] = x /\ (CHOOSE j \in DOMAIN s : s[j] = x) = i
  BY DEF PidsIn
<1> DEFINE a == SubSeq(s, 1, i - 1)
           b == SubSeq(s, i + 1, Len(s))
           r == a \o b
<1>2. LinkedListRemove(s, x) = r
  <2>1. \E j \in DOMAIN s : s[j] = x
    BY <1>1
  <2> QED
    BY <1>1, <2>1, Zenon DEF LinkedListRemove
<1>3. a \in Seq(S) /\ Len(a) = i - 1 /\ \A j \in 1 .. (i - 1) : a[j] = s[j]
  BY <1>1
<1>4. b \in Seq(S) /\ Len(b) = Len(s) - i /\ \A j \in 1 .. (Len(s) - i) : b[j] = s[i + j]
  BY <1>1
<1> HIDE DEF a, b
<1>5. /\ r \in Seq(S) /\ Len(r) = Len(s) - 1
      /\ \A j \in 1 .. (Len(s) - 1) : r[j] = s[IF j < i THEN j ELSE j + 1]
  <2>1. r \in Seq(S)
    BY <1>3, <1>4
  <2>3. Len(r) = Len(a) + Len(b)
    <3>1. a \in Seq(S) /\ b \in Seq(S)
      BY <1>3, <1>4, Zenon
    <3> QED
      BY <3>1
  <2>2. ASSUME NEW j \in 1 .. (Len(s) - 1) PROVE r[j] = s[IF j < i THEN j ELSE j + 1]
    <3>1. r[j] = IF j <= Len(a) THEN a[j] ELSE b[j - Len(a)]
      BY <1>3, <1>4
    <3>2. CASE j < i
      BY <1>3, <3>1, <3>2
    <3>3. CASE ~(j < i)
      <4>1. j - (i - 1) \in 1 .. (Len(s) - i) /\ i + (j - (i - 1)) = j + 1
        BY <3>3
      <4> QED
        BY <1>3, <1>4, <3>1, <3>3, <4>1
    <3> QED
      BY <3>2, <3>3, Zenon
  <2> QED
    BY <1>3, <1>4, <2>1, <2>2, <2>3
<1> HIDE DEF r
<1>6. Distinct(r)
  <2> SUFFICES ASSUME NEW j \in 1 .. (Len(s) - 1), NEW k \in 1 .. (Len(s) - 1), r[j] = r[k]
               PROVE  j = k
    BY <1>5 DEF Distinct
  <2> DEFINE J == IF j < i THEN j ELSE j + 1
             K == IF k < i THEN k ELSE k + 1
  <2>1. J \in DOMAIN s /\ K \in DOMAIN s /\ (J = K => j = k)
    OBVIOUS
  <2>2. s[J] = s[K]
    BY <1>5, Zenon
  <2> HIDE DEF J, K
  <2> QED
    BY <2>1, <2>2, Zenon DEF Distinct
<1>7. ASSUME NEW y \in PidsIn(s), y # x PROVE y \in PidsIn(r)
  <2>1. PICK k \in 1 .. Len(s) : s[k] = y /\ k # i
    BY <1>1, <1>7 DEF PidsIn
  <2>2. \E j \in 1 .. (Len(s) - 1) : r[j] = y
    <3>1. CASE k < i
      BY <1>5, <2>1, <3>1
    <3>2. CASE k > i
      <4>1. k - 1 \in 1 .. (Len(s) - 1) /\ ~(k - 1 < i) /\ (k - 1) + 1 = k
        BY <2>1, <3>2
      <4> QED
        BY <1>5, <2>1, <4>1, Zenon
    <3> QED
      BY <2>1, <3>1, <3>2
  <2> QED
    BY <1>5, <2>2 DEF PidsIn
<1>8. ASSUME NEW y \in PidsIn(r) PROVE y \in PidsIn(s) /\ y # x
  <2>1. PICK j \in 1 .. (Len(s) - 1) : y = r[j]
    BY <1>5 DEF PidsIn
  <2> DEFINE J == IF j < i THEN j ELSE j + 1
  <2>2. J \in DOMAIN s /\ J # i /\ i \in DOMAIN s
    OBVIOUS
  <2>3. y = s[J]
    BY <1>5, <2>1, Zenon
  <2> HIDE DEF J
  <2> QED
    BY <1>1, <2>2, <2>3, Zenon DEF PidsIn, Distinct
<1> QED
  BY <1>2, <1>5, <1>6, <1>7, <1>8, Zenon
\* A task that runs is the only one inside a system call.
LEMMA OthersOutside ==
  ASSUME Constants, Calls, NEW t \in Task, cpu \in {NoTask, t}
  PROVE  \A s \in Task : s # t => pc[s] \notin Inside
BY Zenon DEF Constants, Calls, PlaceOf

\* A step of t changes these of t alone.
OnlyOf(t) ==
  \A s \in Task \ {t} : /\ state'[s] = state[s] /\ pc'[s] = pc[s]
                        /\ arg'[s] = arg[s] /\ target'[s] = target[s]
                        /\ waitingForPid'[s] = waitingForPid[s] /\ vforked'[s] = vforked[s]

(***************************************************************************)
(* A step of t that changes nothing but where t is in its call and what it *)
(* knows there.                                                            *)
(***************************************************************************)
LEMMA MoveStep ==
  ASSUME Constants, Calls, NEW t \in Task,
         state[t] = "READY", cpu \in {NoTask, t},
         UNCHANGED <<id, parent, taskIdCurr, dsChildTerminated, childrenTerminatedAmnt,
                     reported, collected, halted>>,
         StateTypes', LocalTypes', OnlyOf(t),
         state'[t] \in Waiting \cup {"READY"},
         \/ pc[t] \notin {"notify", "reap"} /\ pc'[t] \notin {"notify", "reap"}
         \/ pc'[t] = pc[t],
         PlaceOf(t)', KnownTo(t)', VforkOf(t)'
  PROVE  Calls'
<1> USE DEF OnlyOf
<1>1. \A s \in Task : Alive(s)' <=> Alive(s)
  BY Zenon DEF Alive, Waiting
<1>2. \A s \in Task : s # t => pc[s] \notin Inside
  BY OthersOutside, Zenon
<1>3. Ids'
  BY <1>1, Zenon DEF Calls, Ids
<1>4. ASSUME NEW s \in Task, s # t PROVE PlaceOf(s)'
  <2>1. PlaceOf(s)
    BY Zenon DEF Calls
  <2> QED
    BY <1>2, <1>4, <2>1, Zenon DEF PlaceOf
<1>5. ASSUME NEW s \in Task, s # t PROVE KnownTo(s)'
  <2>1. KnownTo(s)
    BY Zenon DEF Calls
  <2> QED
    BY <1>2, <1>5, <2>1, Zenon DEF KnownTo, Listed, Inside
<1>6. ASSUME NEW s \in Task, s # t PROVE VforkOf(s)'
  <2>1. \A c \in Task : HeldBy(s, c) => HeldBy(s, c)'
    BY <1>1, Zenon DEF HeldBy
  <2>2. \A c \in Task : EndedBy(s, c) => EndedBy(s, c)'
    BY <1>6, Zenon DEF EndedBy
  <2>3. VforkOf(s)
    BY Zenon DEF Calls
  <2> QED
    BY <1>2, <1>6, <2>1, <2>2, <2>3, Zenon DEF VforkOf
<1>7. RecordTypes' /\ \A s \in Task : RecordsOf(s)'
  BY Zenon DEF Calls, RecordTypes, RecordsOf
<1> QED
  BY <1>3, <1>4, <1>5, <1>6, <1>7, Zenon DEF Calls

\* What is known of every task between two steps.
LEMMA TaskFacts ==
  ASSUME Calls, NEW t \in Task
  PROVE  /\ PlaceOf(t) /\ KnownTo(t) /\ VforkOf(t) /\ RecordsOf(t)
         /\ pc \in [Task -> Points] /\ state \in [Task -> States] /\ parent \in [Task -> Task]
         /\ StateTypes /\ LocalTypes /\ RecordTypes
BY Zenon DEF Calls, StateTypes

\* What the search of wait4 finds.
LEMMA SearchFacts ==
  ASSUME Calls, NEW t \in Task
  PROVE  /\ NoNeedToSleep(t) <=> Listed(t)
         /\ Listed(t) => Found(t) \in PidsIn(dsChildTerminated[t])
         /\ Found(t) \in Int
<1> DEFINE s == dsChildTerminated[t]
<1>1. s \in Seq(Nat \ {NoPid}) /\ childrenTerminatedAmnt[t] = Len(s) /\ arg[t] \in Int
  BY TaskFacts, Zenon DEF LocalTypes, RecordTypes, RecordsOf
<1> HIDE DEF s
<1>2. /\ \A x \in PidsIn(s) : x \in Nat \ {NoPid}
      /\ s # <<>> => Head(s) \in PidsIn(s)
      /\ s = <<>> <=> Len(s) = 0
  BY <1>1 DEF PidsIn
<1> QED
  BY <1>1, <1>2 DEF NoNeedToSleep, Listed, Found, Recorded, PidsIn, NoPid, s

\* wait4 begins.
LEMMA Wait4Moves ==
  ASSUME Constants, ~Preemptive, Calls, NEW t \in Task, NEW pid \in Pids(t), syscallWait4(t, pid)
  PROVE  Calls'
<1>0. /\ PlaceOf(t) /\ KnownTo(t) /\ VforkOf(t)
      /\ pc \in [Task -> Points] /\ state \in [Task -> States]
      /\ StateTypes /\ LocalTypes
  BY TaskFacts, Zenon
<1>a. pid \in Int
  <2>1. \A c \in Task : id[c] \in Int
    BY DEF Calls, Ids
  <2>2. dsChildTerminated[t] \in Seq(Nat \ {NoPid})
    BY TaskFacts, Zenon DEF RecordTypes
  <2>3. \A x \in PidsIn(dsChildTerminated[t]) : x \in Int
    BY <2>2 DEF PidsIn
  <2> QED
    BY <2>1, <2>3 DEF Pids, Recorded, PidsIn, AnyChild
<1>1. /\ state[t] = "READY" /\ pc[t] = "user" /\ cpu \in {NoTask, t} /\ cpu' = t
      /\ arg' = [arg EXCEPT ![t] = pid] /\ pc' = [pc EXCEPT ![t] = "look"]
      /\ UNCHANGED <<id, parent, taskIdCurr, dsChildTerminated, childrenTerminatedAmnt, reported, collected, halted,
                     reaperTask, state, target, waitingForPid, vforked>>
  BY Zenon DEF syscallWait4, At, GoTo, proc, wait, ghost
<1>2. OnlyOf(t) /\ pc'[t] = "look" /\ state'[t] = "READY"
  BY <1>0, <1>1, Zenon DEF OnlyOf, LocalTypes
<1>3. LocalTypes'
  BY <1>0, <1>1, <1>a, Zenon DEF LocalTypes, NoPid
<1>b. StateTypes'
  BY <1>0, <1>1, Zenon DEF StateTypes, States, Points
<1>4. PlaceOf(t)'
  BY <1>1, <1>2, Zenon DEF PlaceOf
<1>5. KnownTo(t)'
  BY <1>2, Zenon DEF KnownTo
<1>6. VforkOf(t)'
  BY <1>1, <1>2, Zenon DEF VforkOf
<1> QED
  BY <1>1, <1>2, <1>3, <1>b, <1>4, <1>5, <1>6, MoveStep, Zenon DEF Waiting

\* task_kill looks for the tail of the list it will extend.
LEMMA KillMoves ==
  ASSUME Constants, ~Preemptive, Calls, NEW t \in Task, task_kill(t)
  PROVE  Calls'
<1>0. /\ PlaceOf(t) /\ KnownTo(t) /\ VforkOf(t)
      /\ pc \in [Task -> Points] /\ state \in [Task -> States]
      /\ StateTypes /\ LocalTypes
  BY TaskFacts, Zenon
<1>a. LastOrNone(dsChildTerminated[parent[t]]) \in Int
  <2>1. dsChildTerminated[parent[t]] \in Seq(Nat \ {NoPid})
    BY TaskFacts, Zenon DEF RecordTypes
  <2> QED
    BY <2>1 DEF LastOrNone, NoPid
<1>1. /\ state[t] = "READY" /\ pc[t] = "user" /\ cpu \in {NoTask, t} /\ cpu' = t
      /\ arg' = [arg EXCEPT ![t] = LastOrNone(dsChildTerminated[parent[t]])]
      /\ pc' = [pc EXCEPT ![t] = "inform"]
      /\ UNCHANGED <<id, parent, taskIdCurr, dsChildTerminated, childrenTerminatedAmnt, reported, collected, halted,
                     reaperTask, state, target, waitingForPid, vforked>>
  BY Zenon DEF task_kill, At, GoTo, proc, wait, ghost
<1>2. OnlyOf(t) /\ pc'[t] = "inform" /\ state'[t] = "READY"
      /\ arg'[t] = LastOrNone(dsChildTerminated[parent[t]])
  BY <1>0, <1>1, Zenon DEF OnlyOf, LocalTypes
<1>3. LocalTypes'
  BY <1>0, <1>1, <1>a, Zenon DEF LocalTypes, NoPid
<1>b. StateTypes'
  BY <1>0, <1>1, Zenon DEF StateTypes, States, Points
<1>4. PlaceOf(t)'
  BY <1>1, <1>2, Zenon DEF PlaceOf
<1>5. KnownTo(t)'
  BY <1>1, <1>2, Zenon DEF KnownTo
<1>6. VforkOf(t)'
  BY <1>1, <1>2, Zenon DEF VforkOf
<1> QED
  BY <1>1, <1>2, <1>3, <1>b, <1>4, <1>5, <1>6, MoveStep, Zenon DEF Waiting

\* vfork gives up the processor.
LEMMA VforkSleeps ==
  ASSUME Constants, ~Preemptive, Calls, NEW t \in Task, vfork_sleep(t)
  PROVE  Calls'
<1>0. /\ PlaceOf(t) /\ KnownTo(t) /\ VforkOf(t)
      /\ pc \in [Task -> Points] /\ state \in [Task -> States]
      /\ StateTypes /\ LocalTypes
  BY TaskFacts, Zenon
<1>1. /\ state[t] = "READY" /\ pc[t] = "vfork" /\ cpu \in {NoTask, t} /\ cpu' = NoTask
      /\ state' = [state EXCEPT ![t] = "WAITING_VFORK"] /\ pc' = [pc EXCEPT ![t] = "vforked"]
      /\ UNCHANGED <<id, parent, taskIdCurr, dsChildTerminated, childrenTerminatedAmnt, reported, collected, halted,
                     reaperTask, arg, target, waitingForPid, vforked>>
  BY Zenon DEF vfork_sleep, At, GoTo, local, wait, ghost
<1>2. OnlyOf(t) /\ pc'[t] = "vforked" /\ state'[t] = "WAITING_VFORK"
  BY <1>0, <1>1, Zenon DEF OnlyOf, LocalTypes
<1>3. LocalTypes'
  BY <1>0, <1>1, Zenon DEF LocalTypes, NoPid
<1>b. StateTypes'
  BY <1>0, <1>1, Zenon DEF StateTypes, States, Points
<1>4. PlaceOf(t)'
  BY <1>2, Zenon DEF PlaceOf, Inside
<1>5. KnownTo(t)'
  BY <1>2, Zenon DEF KnownTo
<1>6. VforkOf(t)'
  <2>1. PICK c \in Task : HeldBy(t, c)
    BY <1>0, <1>1, Zenon DEF VforkOf
  <2>2. HeldBy(t, c)'
    BY <1>1, <1>2, <2>1, Zenon DEF HeldBy, Alive, OnlyOf
  <2> QED
    BY <1>2, <2>2, Zenon DEF VforkOf
<1> QED
  BY <1>1, <1>2, <1>3, <1>b, <1>4, <1>5, <1>6, MoveStep, Zenon DEF Waiting

\* vfork returns.
LEMMA VforkReturns ==
  ASSUME Constants, ~Preemptive, Calls, NEW t \in Task, vfork_return(t)
  PROVE  Calls'
<1>0. /\ PlaceOf(t) /\ KnownTo(t) /\ VforkOf(t)
      /\ pc \in [Task -> Points] /\ state \in [Task -> States]
      /\ StateTypes /\ LocalTypes
  BY TaskFacts, Zenon
<1>1. /\ state[t] = "READY" /\ pc[t] = "vforked" /\ cpu \in {NoTask, t} /\ cpu' = NoTask
      /\ vforked' = [vforked EXCEPT ![t] = NoTask] /\ pc' = [pc EXCEPT ![t] = "user"]
      /\ UNCHANGED <<id, parent, taskIdCurr, dsChildTerminated, childrenTerminatedAmnt, reported, collected, halted,
                     reaperTask, state, arg, target, waitingForPid>>
  BY Zenon DEF vfork_return, At, GoTo, proc, local, wait
<1>2. OnlyOf(t) /\ pc'[t] = "user" /\ state'[t] = "READY"
  BY <1>0, <1>1, Zenon DEF OnlyOf, LocalTypes
<1>3. LocalTypes'
  BY <1>0, <1>1, Zenon DEF LocalTypes, NoPid
<1>b. StateTypes'
  BY <1>0, <1>1, Zenon DEF StateTypes, States, Points
<1>4. PlaceOf(t)'
  BY <1>2, Zenon DEF PlaceOf, Inside
<1>5. KnownTo(t)'
  BY <1>2, Zenon DEF KnownTo
<1>6. VforkOf(t)'
  BY <1>2, Zenon DEF VforkOf
<1> QED
  BY <1>1, <1>2, <1>3, <1>b, <1>4, <1>5, <1>6, MoveStep, Zenon DEF Waiting

\* t finds the slot of the reaper taken.
LEMMA BusyMoves ==
  ASSUME Constants, ~Preemptive, Calls, NEW t \in Task, reaper_busy(t)
  PROVE  Calls'
<1>0. /\ PlaceOf(t) /\ KnownTo(t) /\ VforkOf(t)
      /\ pc \in [Task -> Points] /\ state \in [Task -> States]
      /\ StateTypes /\ LocalTypes
  BY TaskFacts, Zenon
<1>1. /\ state[t] = "READY" /\ pc[t] = "reap" /\ cpu \in {NoTask, t}
      /\ UNCHANGED <<id, parent, taskIdCurr, dsChildTerminated, childrenTerminatedAmnt, reported, collected, halted,
                     reaperTask, state, pc, arg, target, waitingForPid, vforked>>
  BY Zenon DEF reaper_busy, At, proc, local, wait, ghost
<1>2. OnlyOf(t) /\ pc'[t] = "reap" /\ state'[t] = "READY"
  BY <1>0, <1>1, Zenon DEF OnlyOf, LocalTypes
<1>3. LocalTypes'
  BY <1>0, <1>1, Zenon DEF LocalTypes, NoPid
<1>b. StateTypes'
  BY <1>0, <1>1, Zenon DEF StateTypes, States, Points
<1>4. PlaceOf(t)'
  BY <1>2, Zenon DEF PlaceOf, Inside
<1>5. KnownTo(t)'
  BY <1>2, Zenon DEF KnownTo
<1>6. VforkOf(t)'
  BY <1>2, Zenon DEF VforkOf
<1> QED
  BY <1>1, <1>2, <1>3, <1>b, <1>4, <1>5, <1>6, MoveStep, Zenon DEF Waiting

\* wait4 has searched the list.
LEMMA LookMoves ==
  ASSUME Constants, ~Preemptive, Calls, NEW t \in Task, look(t)
  PROVE  Calls'
<1>0. /\ PlaceOf(t) /\ KnownTo(t) /\ VforkOf(t)
      /\ pc \in [Task -> Points] /\ state \in [Task -> States]
      /\ StateTypes /\ LocalTypes
  BY TaskFacts, Zenon
<1>a. /\ NoNeedToSleep(t) <=> Listed(t)
      /\ Listed(t) => Found(t) \in PidsIn(dsChildTerminated[t])
      /\ Found(t) \in Int
  BY SearchFacts, Zenon
<1>1. /\ state[t] = "READY" /\ pc[t] = "look" /\ cpu \in {NoTask, t} /\ cpu' = t
      /\ target' = [target EXCEPT ![t] = IF NoNeedToSleep(t) THEN Found(t) ELSE @]
      /\ pc' = [pc EXCEPT ![t] = IF NoNeedToSleep(t) THEN "take" ELSE "sleep"]
      /\ UNCHANGED <<id, parent, taskIdCurr, dsChildTerminated, childrenTerminatedAmnt, reported, collected, halted,
                     reaperTask, state, arg, waitingForPid, vforked>>
  BY Zenon DEF look, At, GoTo, proc, wait, ghost
<1>2. OnlyOf(t) /\ state'[t] = "READY"
      /\ IF Listed(t) THEN pc'[t] = "take" /\ target'[t] = Found(t) ELSE pc'[t] = "sleep"
  BY <1>0, <1>1, <1>a, Zenon DEF OnlyOf, LocalTypes
<1>3. LocalTypes'
  BY <1>0, <1>1, <1>a, Zenon DEF LocalTypes, NoPid
<1>b. StateTypes'
  BY <1>0, <1>1, Zenon DEF StateTypes, States, Points
<1>4. PlaceOf(t)'
  BY <1>1, <1>2, Zenon DEF PlaceOf
<1>5. KnownTo(t)'
  <2>1. Listed(t)' <=> Listed(t)
    BY <1>1, Zenon DEF Listed
  <2> QED
    BY <1>1, <1>2, <1>a, <2>1, Zenon DEF KnownTo
<1>6. VforkOf(t)'
  BY <1>1, <1>2, Zenon DEF VforkOf
<1> QED
  BY <1>1, <1>2, <1>3, <1>b, <1>4, <1>5, <1>6, MoveStep, Zenon DEF Waiting

\* wait4 with WNOHANG returns.
LEMMA NoHangMoves ==
  ASSUME Constants, ~Preemptive, Calls, NEW t \in Task, no_hang(t)
  PROVE  Calls'
<1>0. /\ PlaceOf(t) /\ KnownTo(t) /\ VforkOf(t)
      /\ pc \in [Task -> Points] /\ state \in [Task -> States]
      /\ StateTypes /\ LocalTypes
  BY TaskFacts, Zenon
<1>1. /\ state[t] = "READY" /\ pc[t] = "sleep" /\ cpu \in {NoTask, t} /\ cpu' = NoTask
      /\ arg' = [arg EXCEPT ![t] = NoPid] /\ target' = [target EXCEPT ![t] = NoPid]
      /\ pc' = [pc EXCEPT ![t] = "user"]
      /\ UNCHANGED <<id, parent, taskIdCurr, dsChildTerminated, childrenTerminatedAmnt, reported, collected, halted,
                     reaperTask, state, waitingForPid, vforked>>
  BY Zenon DEF no_hang, forget, At, GoTo, proc, wait, ghost
<1>2. OnlyOf(t) /\ pc'[t] = "user" /\ state'[t] = "READY"
  BY <1>0, <1>1, Zenon DEF OnlyOf, LocalTypes
<1>3. LocalTypes'
  BY <1>0, <1>1 DEF LocalTypes, NoPid
<1>b. StateTypes'
  BY <1>0, <1>1, Zenon DEF StateTypes, States, Points
<1>4. PlaceOf(t)'
  BY <1>2, Zenon DEF PlaceOf, Inside
<1>5. KnownTo(t)'
  BY <1>2, Zenon DEF KnownTo
<1>6. VforkOf(t)'
  BY <1>2, Zenon DEF VforkOf
<1> QED
  BY <1>1, <1>2, <1>3, <1>b, <1>4, <1>5, <1>6, MoveStep, Zenon DEF Waiting

\* wait4 gives up the processor.
LEMMA SleepMoves ==
  ASSUME Constants, ~Preemptive, Calls, NEW t \in Task, sleep(t)
  PROVE  Calls'
<1>0. /\ PlaceOf(t) /\ KnownTo(t) /\ VforkOf(t)
      /\ pc \in [Task -> Points] /\ state \in [Task -> States]
      /\ StateTypes /\ LocalTypes
  BY TaskFacts, Zenon
<1>1. /\ state[t] = "READY" /\ pc[t] = "sleep" /\ cpu \in {NoTask, t} /\ cpu' = NoTask
      /\ waitingForPid' = IF arg[t] = AnyChild THEN waitingForPid
                          ELSE [waitingForPid EXCEPT ![t] = arg[t]]
      /\ state' = [state EXCEPT ![t] = IF arg[t] = AnyChild THEN "WAITING_CHILD"
                                       ELSE "WAITING_CHILD_SPECIFIC"]
      /\ pc' = [pc EXCEPT ![t] = "asleep"]
      /\ UNCHANGED <<id, parent, taskIdCurr, dsChildTerminated, childrenTerminatedAmnt, reported, collected, halted,
                     reaperTask, arg, target, vforked>>
  BY Zenon DEF sleep, At, GoTo, local, ghost
<1>2. OnlyOf(t) /\ pc'[t] = "asleep"
      /\ IF arg[t] = AnyChild THEN state'[t] = "WAITING_CHILD"
         ELSE state'[t] = "WAITING_CHILD_SPECIFIC" /\ waitingForPid'[t] = arg[t]
  BY <1>0, <1>1, Zenon DEF OnlyOf, LocalTypes
<1>3. LocalTypes'
  BY <1>0, <1>1, Zenon DEF LocalTypes, NoPid
<1>b. StateTypes'
  BY <1>0, <1>1, Zenon DEF StateTypes, States, Points
<1>4. PlaceOf(t)'
  BY <1>1, <1>2, Zenon DEF PlaceOf, Inside
<1>5. KnownTo(t)'
  <2>1. Listed(t)' <=> Listed(t)
    BY <1>1, Zenon DEF Listed
  <2> QED
    BY <1>0, <1>1, <1>2, <2>1, Zenon DEF KnownTo
<1>6. VforkOf(t)'
  BY <1>2, Zenon DEF VforkOf
<1> QED
  BY <1>1, <1>2, <1>3, <1>b, <1>4, <1>5, <1>6, MoveStep, Zenon DEF Waiting

\* wait4 goes on after hand_control.
LEMMA WakeMoves ==
  ASSUME Constants, ~Preemptive, Calls, NEW t \in Task, wake(t)
  PROVE  Calls'
<1>0. /\ PlaceOf(t) /\ KnownTo(t) /\ VforkOf(t)
      /\ pc \in [Task -> Points] /\ state \in [Task -> States]
      /\ StateTypes /\ LocalTypes
  BY TaskFacts, Zenon
<1>a. /\ Listed(t) => Found(t) \in PidsIn(dsChildTerminated[t])
      /\ Found(t) \in Int
  BY SearchFacts, Zenon
<1>1. /\ state[t] = "READY" /\ pc[t] = "asleep" /\ cpu \in {NoTask, t} /\ cpu' = t
      /\ waitingForPid' = IF arg[t] = AnyChild THEN waitingForPid
                          ELSE [waitingForPid EXCEPT ![t] = NoPid]
      /\ target' = [target EXCEPT ![t] = Found(t)] /\ pc' = [pc EXCEPT ![t] = "take"]
      /\ UNCHANGED <<id, parent, taskIdCurr, dsChildTerminated, childrenTerminatedAmnt, reported, collected, halted,
                     reaperTask, state, arg, vforked>>
  BY Zenon DEF wake, At, GoTo, proc, ghost
<1>2. OnlyOf(t) /\ pc'[t] = "take" /\ state'[t] = "READY" /\ target'[t] = Found(t)
  BY <1>0, <1>1, Zenon DEF OnlyOf, LocalTypes
<1>3. LocalTypes'
  BY <1>0, <1>1, <1>a DEF LocalTypes, NoPid
<1>b. StateTypes'
  BY <1>0, <1>1, Zenon DEF StateTypes, States, Points
<1>4. PlaceOf(t)'
  BY <1>1, <1>2, Zenon DEF PlaceOf
<1>5. KnownTo(t)'
  BY <1>0, <1>1, <1>2, <1>a, Zenon DEF KnownTo
<1>6. VforkOf(t)'
  BY <1>1, <1>2, Zenon DEF VforkOf
<1> QED
  BY <1>1, <1>2, <1>3, <1>b, <1>4, <1>5, <1>6, MoveStep, Zenon DEF Waiting

\* wait4 removes the record it has found.
LEMMA TakeStep ==
  ASSUME Constants, ~Preemptive, Calls, NEW t \in Task, take(t)
  PROVE  Calls'
<1>0. /\ PlaceOf(t) /\ KnownTo(t) /\ VforkOf(t) /\ RecordsOf(t)
      /\ pc \in [Task -> Points] /\ StateTypes /\ LocalTypes /\ RecordTypes
  BY TaskFacts, Zenon
<1>1. state[t] = "READY" /\ pc[t] = "take" /\ cpu \in {NoTask, t}
  BY Zenon DEF take, At
<1> DEFINE s == dsChildTerminated[t]
           r == LinkedListRemove(s, target[t])
<1>2. s \in Seq(Nat \ {NoPid}) /\ target[t] \in PidsIn(s) /\ Distinct(s)
  BY <1>0, <1>1, Zenon DEF RecordTypes, RecordsOf, KnownTo
<1>3. target[t] \in Nat /\ target[t] # NoPid
  BY <1>2 DEF PidsIn
<1>4. /\ r \in Seq(Nat \ {NoPid})
      /\ Len(r) = Len(s) - 1
      /\ PidsIn(r) = PidsIn(s) \ {target[t]}
      /\ Distinct(r)
  BY <1>2, RemoveFacts, Zenon
<1>5. /\ dsChildTerminated' = [dsChildTerminated EXCEPT ![t] = r]
      /\ childrenTerminatedAmnt' = [childrenTerminatedAmnt EXCEPT ![t] = @ - 1]
      /\ collected' = [collected EXCEPT ![t] = @ \cup {target[t]}]
      /\ arg' = [arg EXCEPT ![t] = NoPid] /\ target' = [target EXCEPT ![t] = NoPid]
      /\ pc' = [pc EXCEPT ![t] = "user"] /\ cpu' = NoTask
      /\ UNCHANGED <<state, id, parent, taskIdCurr, waitingForPid, reported, halted, vforked, reaperTask>>
  BY <1>3, Zenon DEF take, forget, GoTo, Uncount, proc
<1> HIDE DEF r
<1>6. /\ dsChildTerminated'[t] = r
      /\ childrenTerminatedAmnt'[t] = childrenTerminatedAmnt[t] - 1
      /\ collected'[t] = collected[t] \cup {target[t]}
      /\ \A x \in Task \ {t} : /\ dsChildTerminated'[x] = dsChildTerminated[x]
                               /\ childrenTerminatedAmnt'[x] = childrenTerminatedAmnt[x]
                               /\ collected'[x] = collected[x]
  BY <1>0, <1>5, Zenon DEF RecordTypes
<1>7. /\ pc'[t] = "user" /\ OnlyOf(t)
  BY <1>0, <1>5, Zenon DEF LocalTypes, OnlyOf
<1>8. LocalTypes'
  BY <1>0, <1>5 DEF LocalTypes, NoPid
<1>d. StateTypes'
  BY <1>0, <1>5, Zenon DEF StateTypes, Points
<1>9. RecordTypes'
  <2>1. dsChildTerminated' \in [Task -> Seq(Nat \ {NoPid})]
    BY <1>0, <1>4, <1>5, Zenon DEF RecordTypes
  <2>2. childrenTerminatedAmnt' \in [Task -> Int]
    BY <1>0, <1>5 DEF RecordTypes
  <2>3. collected' \in [Task -> SUBSET Nat]
    BY <1>0, <1>3, <1>5, Zenon DEF RecordTypes
  <2> QED
    BY <1>0, <1>5, <2>1, <2>2, <2>3, Zenon DEF RecordTypes
<1>10. \A x \in Task : x # t => pc[x] \notin Inside
  BY <1>1, OthersOutside, Zenon
<1>11. \A x \in Task : Alive(x)' <=> Alive(x)
  BY <1>5, Zenon DEF Alive
<1>12. Ids'
  <2>1. \A x \in Task : pc[x] \in {"notify", "reap"} => pc'[x] \in {"notify", "reap"}
    BY <1>1, <1>7, Zenon DEF OnlyOf
  <2> QED
    BY <1>5, <1>11, <2>1, Zenon DEF Calls, Ids
<1>13. ASSUME NEW x \in Task PROVE PlaceOf(x)' /\ KnownTo(x)'
  <2>1. CASE x = t
    BY <1>1, <1>5, <1>7, <2>1, Zenon DEF PlaceOf, KnownTo, Inside
  <2>2. CASE x # t
    <3>1. PlaceOf(x) /\ KnownTo(x) /\ pc[x] \notin Inside
      BY <1>10, <2>2, TaskFacts, Zenon
    <3> QED
      BY <1>5, <1>6, <1>7, <2>2, <3>1 DEF PlaceOf, KnownTo, OnlyOf, Listed, Inside
  <2> QED
    BY <2>1, <2>2, Zenon
<1>14. ASSUME NEW x \in Task PROVE VforkOf(x)'
  <2>1. CASE x = t
    BY <1>1, <1>5, <1>7, <2>1, Zenon DEF VforkOf
  <2>2. CASE x # t
    <3>1. VforkOf(x)
      BY TaskFacts, Zenon
    <3>2. \A c \in Task : HeldBy(x, c) => HeldBy(x, c)'
      BY <1>5, <1>7, <1>11, Zenon DEF HeldBy, OnlyOf
    <3>3. \A c \in Task : EndedBy(x, c) => EndedBy(x, c)'
      BY <1>1, <1>5, <1>7, Zenon DEF EndedBy, OnlyOf
    <3> QED
      BY <1>5, <1>7, <2>2, <3>1, <3>2, <3>3, Zenon DEF VforkOf, OnlyOf
  <2> QED
    BY <2>1, <2>2, Zenon
<1>15. ASSUME NEW x \in Task PROVE RecordsOf(x)'
  <2>1. CASE x = t
    BY <1>0, <1>2, <1>4, <1>5, <1>6, <2>1 DEF RecordsOf
  <2>2. CASE x # t
    <3>1. RecordsOf(x)
      BY TaskFacts, Zenon
    <3> QED
      BY <1>5, <1>6, <2>2, <3>1, Zenon DEF RecordsOf
  <2> QED
    BY <2>1, <2>2, Zenon
<1> QED
  BY <1>5, <1>8, <1>d, <1>9, <1>12, <1>13, <1>14, <1>15, Zenon DEF Calls

\* Who is woken.
LEMMA WakeOne ==
  ASSUME StateTypes, NEW t \in Task, NEW W
  PROVE  /\ Wake(t, W) \in [Task -> States]
         /\ \A s \in Task : Wake(t, W)[s] = IF s = parent[t] /\ state[s] \in W THEN "READY" ELSE state[s]
<1>1. parent[t] \in Task /\ state \in [Task -> States] /\ "READY" \in States
  BY Zenon DEF StateTypes, States
<1> QED
  BY <1>1, Zenon DEF Wake

\* The first unused task.
LEMMA AllocateFacts ==
  ASSUME CanAllocate
  PROVE  task_list_allocate \in Task /\ state[task_list_allocate] = "UNUSED"
BY Zenon DEF CanAllocate, task_list_allocate

\* task_kill records the end of t and wakes a parent that waits for it.
LEMMA InformStep ==
  ASSUME Constants, ~Preemptive, Calls, NEW t \in Task, inform(t)
  PROVE  Calls'
<1>0. /\ PlaceOf(t) /\ KnownTo(t) /\ VforkOf(t)
      /\ pc \in [Task -> Points] /\ parent \in [Task -> Task] /\ state \in [Task -> States]
      /\ StateTypes /\ LocalTypes /\ RecordTypes
  BY TaskFacts, Zenon
<1>1. state[t] = "READY" /\ pc[t] = "inform" /\ cpu \in {NoTask, t} /\ Alive(t)
  BY Zenon DEF inform, At, Alive
<1>a. PICK p \in Task : p = parent[t]
  BY <1>0, Zenon
<1> DEFINE s == dsChildTerminated[p]
           r == LinkBehind(s, LastOrNone(s), id[t])
<1>2. /\ s \in Seq(Nat \ {NoPid}) /\ arg[t] = LastOrNone(s) /\ RecordsOf(p)
      /\ id[t] \in Nat \ {NoPid} /\ id[t] \notin reported[p]
  BY <1>0, <1>1, <1>a, TaskFacts, Zenon DEF RecordTypes, KnownTo, Calls, Ids
<1>3. id[t] \notin PidsIn(s) /\ id[t] \notin collected[p] /\ Distinct(s)
  BY <1>2, Zenon DEF RecordsOf
<1>4. /\ r \in Seq(Nat \ {NoPid})
      /\ Len(r) = Len(s) + 1
      /\ PidsIn(r) = PidsIn(s) \cup {id[t]}
      /\ Distinct(r)
      /\ r # <<>>
  <2>1. NoPid \notin Nat \ {NoPid}
    BY Zenon
  <2> QED
    BY <1>2, <1>3, <2>1, LinkFacts, Zenon
<1>5. /\ dsChildTerminated' = [dsChildTerminated EXCEPT ![p] = r]
      /\ childrenTerminatedAmnt' = [childrenTerminatedAmnt EXCEPT ![p] = @ + 1]
      /\ reported' = [reported EXCEPT ![p] = @ \cup {id[t]}]
      /\ arg' = [arg EXCEPT ![t] = NoPid]
      /\ pc' = [pc EXCEPT ![t] = "notify"] /\ cpu' = t
      /\ state' = Wake(t, WaitsFor(t))
      /\ UNCHANGED <<id, parent, taskIdCurr, waitingForPid, target, collected, halted, vforked, reaperTask>>
  <2>1. dsChildTerminated' = [dsChildTerminated EXCEPT ![p] = LinkBehind(@, arg[t], id[t])]
    BY <1>a, Zenon DEF inform
  <2>2. dsChildTerminated' = [dsChildTerminated EXCEPT ![p] = r]
    BY <1>2, <2>1, Zenon
  <2> QED
    BY <1>a, <2>2, Zenon DEF inform, GoTo
<1> HIDE DEF r
<1>6. /\ dsChildTerminated'[p] = r
      /\ childrenTerminatedAmnt'[p] = childrenTerminatedAmnt[p] + 1
      /\ reported'[p] = reported[p] \cup {id[t]}
      /\ \A x \in Task \ {p} : /\ dsChildTerminated'[x] = dsChildTerminated[x]
                               /\ childrenTerminatedAmnt'[x] = childrenTerminatedAmnt[x]
                               /\ reported'[x] = reported[x]
  BY <1>0, <1>5, Zenon DEF RecordTypes
<1>7. /\ pc'[t] = "notify" /\ \A x \in Task \ {t} : pc'[x] = pc[x] /\ arg'[x] = arg[x]
  BY <1>0, <1>5, Zenon DEF LocalTypes
<1>b. \A x \in Task : state'[x] = IF x = p /\ state[x] \in WaitsFor(t) THEN "READY" ELSE state[x]
  BY <1>0, <1>5, <1>a, WakeOne
<1>c. WaitsFor(t) = {"WAITING_CHILD"} \cup
        (IF waitingForPid[p] = id[t] THEN {"WAITING_CHILD_SPECIFIC"} ELSE {})
  BY <1>a, Zenon DEF WaitsFor
<1>8. LocalTypes'
  BY <1>0, <1>5 DEF LocalTypes, NoPid
<1>d. StateTypes'
  <2>1. state' \in [Task -> States]
    BY <1>0, <1>5, WakeOne, Zenon
  <2> QED
    BY <1>0, <1>5, <2>1, Zenon DEF StateTypes, Points
<1>9. RecordTypes'
  <2>1. dsChildTerminated' \in [Task -> Seq(Nat \ {NoPid})]
    BY <1>0, <1>4, <1>5, Zenon DEF RecordTypes
  <2>2. childrenTerminatedAmnt' \in [Task -> Int]
    BY <1>0, <1>5 DEF RecordTypes
  <2>3. reported' \in [Task -> SUBSET Nat]
    BY <1>0, <1>2, <1>5, Zenon DEF RecordTypes
  <2> QED
    BY <1>0, <1>5, <2>1, <2>2, <2>3, Zenon DEF RecordTypes
<1>10. \A x \in Task : x # t => pc[x] \notin Inside
  BY <1>1, OthersOutside, Zenon
<1>11. \A x \in Task : Alive(x)' <=> Alive(x)
  BY <1>b, <1>c, Zenon DEF Alive
<1>12. Ids'
  <2>1. \A q \in Task : \A x \in reported'[q] : x \in reported[q] \/ x = id[t]
    BY <1>6, Zenon
  <2>2. ASSUME NEW x \in Task, NEW q \in Task, Alive(x), id[x] \in reported'[q]
        PROVE  pc'[x] \in {"notify", "reap"}
    <3>1. CASE x = t
      BY <1>7, <3>1, Zenon
    <3>2. CASE x # t
      BY <1>1, <1>7, <2>1, <2>2, <3>2, Zenon DEF Calls, Ids
    <3> QED
      BY <3>1, <3>2, Zenon
  <2> QED
    BY <1>5, <1>11, <2>1, <2>2, Zenon DEF Calls, Ids
<1>13. ASSUME NEW x \in Task PROVE PlaceOf(x)'
  <2>1. PlaceOf(x)
    BY TaskFacts, Zenon
  <2>2. CASE x = t
    BY <1>1, <1>5, <1>7, <1>b, <1>c, <2>2, Zenon DEF PlaceOf
  <2>3. CASE x # t
    BY <1>5, <1>7, <1>10, <1>b, <2>1, <2>3, Zenon DEF PlaceOf
  <2> QED
    BY <2>2, <2>3, Zenon
<1>14. ASSUME NEW x \in Task PROVE KnownTo(x)'
  <2>1. CASE x = t
    BY <1>7, <2>1, Zenon DEF KnownTo
  <2>2. CASE x # t
    <3>1. PlaceOf(x) /\ KnownTo(x) /\ pc[x] \notin Inside /\ pc'[x] = pc[x] /\ arg'[x] = arg[x]
      BY <1>7, <1>10, <2>2, TaskFacts, Zenon
    <3> SUFFICES ASSUME pc[x] = "asleep" PROVE state'[x] = "READY" <=> Listed(x)'
      BY <3>1, Zenon DEF KnownTo, Inside
    <3>2. state[x] = "READY" <=> Listed(x)
      BY <3>1, Zenon DEF KnownTo
    <3>3. CASE x # p
      BY <1>6, <1>b, <3>1, <3>2, <3>3, Zenon DEF Listed
    <3>4. CASE x = p
      <4>1. Listed(x)' <=> (Listed(x) \/ arg[x] = AnyChild \/ arg[x] = id[t])
        BY <1>4, <1>6, <3>1, <3>4, Zenon DEF Listed
      <4>2. state[x] \in {"READY", "WAITING_CHILD", "WAITING_CHILD_SPECIFIC"}
        BY <1>0, <3>1, Zenon DEF PlaceOf, States
      <4>3. CASE state[x] = "READY"
        BY <1>b, <3>2, <4>1, <4>3, Zenon
      <4>4. CASE state[x] = "WAITING_CHILD"
        BY <1>b, <1>c, <3>1, <3>4, <4>1, <4>4, Zenon DEF PlaceOf
      <4>5. CASE state[x] = "WAITING_CHILD_SPECIFIC"
        <5>1. arg[x] # AnyChild /\ waitingForPid[x] = arg[x] /\ ~Listed(x)
          BY <3>1, <3>2, <4>5, Zenon DEF PlaceOf
        <5> QED
          BY <1>b, <1>c, <3>4, <4>1, <4>5, <5>1, Zenon
      <4> QED
        BY <4>2, <4>3, <4>4, <4>5, Zenon
    <3> QED
      BY <3>3, <3>4, Zenon
  <2> QED
    BY <2>1, <2>2, Zenon
<1>15. ASSUME NEW x \in Task PROVE VforkOf(x)'
  <2>1. CASE x = t
    BY <1>1, <1>7, <1>b, <1>c, <2>1, Zenon DEF VforkOf
  <2>2. CASE x # t
    <3>1. VforkOf(x) /\ PlaceOf(x)
      BY TaskFacts, Zenon
    <3>2. \A c \in Task : HeldBy(x, c) => HeldBy(x, c)'
      BY <1>5, <1>7, <1>11, Zenon DEF HeldBy
    <3>3. \A c \in Task : EndedBy(x, c) => EndedBy(x, c)'
      BY <1>1, <1>5, <1>7, Zenon DEF EndedBy
    <3>4. /\ state'[x] = "WAITING_VFORK" => state[x] = "WAITING_VFORK"
          /\ pc[x] = "vforked" /\ state'[x] = "READY" => state[x] = "READY"
      BY <1>b, <1>c, <3>1, Zenon DEF PlaceOf
    <3> QED
      BY <1>5, <1>7, <2>2, <3>1, <3>2, <3>3, <3>4, Zenon DEF VforkOf
  <2> QED
    BY <2>1, <2>2, Zenon
<1>16. ASSUME NEW x \in Task PROVE RecordsOf(x)'
  <2>1. CASE x = p
    BY <1>2, <1>3, <1>4, <1>5, <1>6, <2>1 DEF RecordsOf
  <2>2. CASE x # p
    <3>1. RecordsOf(x)
      BY TaskFacts, Zenon
    <3> QED
      BY <1>5, <1>6, <2>2, <3>1, Zenon DEF RecordsOf
  <2> QED
    BY <2>1, <2>2, Zenon
<1> QED
  BY <1>5, <1>8, <1>d, <1>9, <1>12, <1>13, <1>14, <1>15, <1>16, Zenon DEF Calls

\* task_kill wakes a parent in vfork and gives up the objects of t.
LEMMA NotifyCalls ==
  ASSUME Constants, ~Preemptive, Calls, NEW t \in Task, notify(t)
  PROVE  Calls'
<1>0. /\ pc \in [Task -> Points] /\ parent \in [Task -> Task] /\ state \in [Task -> States]
      /\ StateTypes /\ LocalTypes /\ RecordTypes
  BY TaskFacts, Zenon
<1>1. state[t] = "READY" /\ pc[t] = "notify" /\ cpu \in {NoTask, t}
  BY Zenon DEF notify, At
<1>2. /\ pc' = [pc EXCEPT ![t] = "reap"] /\ cpu' = t
      /\ state' = Wake(t, {"WAITING_VFORK"})
      /\ vforked' = [p \in Task |-> IF vforked[p] = t THEN NoTask ELSE vforked[p]]
      /\ UNCHANGED <<id, parent, taskIdCurr, dsChildTerminated, childrenTerminatedAmnt, reported,
                     collected, halted, arg, target, waitingForPid, reaperTask>>
  BY Zenon DEF notify, GoTo, wait, local
<1>3. \A x \in Task :
        /\ pc'[x] = IF x = t THEN "reap" ELSE pc[x]
        /\ state'[x] = IF x = parent[t] /\ state[x] = "WAITING_VFORK" THEN "READY" ELSE state[x]
        /\ vforked'[x] = IF vforked[x] = t THEN NoTask ELSE vforked[x]
  <2>1. \A x \in Task : state'[x] = IF x = parent[t] /\ state[x] \in {"WAITING_VFORK"} THEN "READY" ELSE state[x]
    BY <1>0, <1>2, WakeOne
  <2> QED
    BY <1>0, <1>2, <2>1, Zenon
<1>4. LocalTypes' /\ RecordTypes'
  BY <1>0, <1>2, Zenon DEF LocalTypes, RecordTypes
<1>d. StateTypes'
  <2>1. state' \in [Task -> States]
    BY <1>0, <1>2, WakeOne, Zenon
  <2> QED
    BY <1>0, <1>2, <2>1, Zenon DEF StateTypes, Points
<1>5. \A x \in Task : x # t => pc[x] \notin Inside
  BY <1>1, OthersOutside, Zenon
<1>6. \A x \in Task : Alive(x)' <=> Alive(x)
  BY <1>3, Zenon DEF Alive
<1>7. Ids'
  BY <1>1, <1>2, <1>3, <1>6, Zenon DEF Calls, Ids
<1>8. ASSUME NEW x \in Task PROVE PlaceOf(x)' /\ KnownTo(x)'
  <2>1. CASE x = t
    BY <1>1, <1>2, <1>3, <2>1 DEF PlaceOf, KnownTo
  <2>2. CASE x # t
    <3>1. PlaceOf(x) /\ KnownTo(x) /\ pc[x] \notin Inside /\ pc'[x] = pc[x]
      BY <1>3, <1>5, <2>2, TaskFacts, Zenon
    <3>2. PlaceOf(x)'
      BY <1>2, <1>3, <3>1, Zenon DEF PlaceOf
    <3>3. Listed(x)' <=> Listed(x)
      BY <1>2, Zenon DEF Listed
    <3>4. pc[x] = "asleep" => state'[x] = state[x]
      BY <1>3, <3>1, Zenon DEF PlaceOf
    <3> QED
      BY <3>1, <3>2, <3>3, <3>4, Zenon DEF KnownTo, Inside
  <2> QED
    BY <2>1, <2>2, Zenon
<1>9. ASSUME NEW x \in Task PROVE VforkOf(x)'
  <2>1. CASE x = t
    BY <1>1, <1>3, <2>1, Zenon DEF VforkOf
  <2>2. CASE x # t
    <3>0. VforkOf(x) /\ PlaceOf(x) /\ pc[x] # "vfork" /\ pc'[x] = pc[x]
      BY <1>3, <1>5, <2>2, TaskFacts, Zenon DEF Inside
    <3>1. ASSUME state'[x] = "WAITING_VFORK" PROVE \E c \in Task : HeldBy(x, c)'
      <4>1. state[x] = "WAITING_VFORK" /\ x # parent[t]
        BY <1>3, <3>1, Zenon
      <4>2. PICK c \in Task : HeldBy(x, c)
        BY <3>0, <4>1, Zenon DEF VforkOf
      <4>3. HeldBy(x, c)'
        BY <1>2, <1>3, <1>6, <4>1, <4>2, Zenon DEF HeldBy
      <4> QED
        BY <4>3, Zenon
    <3>2. ASSUME pc[x] = "vforked", state'[x] = "READY", vforked'[x] # NoTask
          PROVE  \E c \in Task : EndedBy(x, c)'
      <4>1. vforked'[x] = vforked[x] /\ vforked[x] # t
        BY <1>3, <3>2, Zenon
      <4>2. CASE state[x] = "READY"
        <5>1. PICK c \in Task : EndedBy(x, c)
          BY <3>0, <3>2, <4>1, <4>2, Zenon DEF VforkOf
        <5>2. EndedBy(x, c)'
          BY <1>2, <1>3, <4>1, <5>1, Zenon DEF EndedBy
        <5> QED
          BY <5>2, Zenon
      <4>3. CASE state[x] # "READY"
        <5>1. x = parent[t]
          BY <1>3, <3>2, <4>3, Zenon
        <5>2. EndedBy(x, t)'
          BY <1>2, <1>3, <4>1, <5>1, Zenon DEF EndedBy
        <5> QED
          BY <5>2, Zenon
      <4> QED
        BY <4>2, <4>3, Zenon
    <3> QED
      BY <3>0, <3>1, <3>2, Zenon DEF VforkOf
  <2> QED
    BY <2>1, <2>2, Zenon
<1>10. \A x \in Task : RecordsOf(x)'
  BY <1>2, Zenon DEF Calls, RecordsOf
<1> QED
  BY <1>2, <1>4, <1>d, <1>7, <1>8, <1>9, <1>10, Zenon DEF Calls

\* t has got the slot of the reaper and is DEAD.
LEMMA CallReaperCalls ==
  ASSUME Constants, ~Preemptive, Calls, NEW t \in Task, task_call_reaper(t)
  PROVE  Calls'
<1>0. /\ pc \in [Task -> Points] /\ parent \in [Task -> Task] /\ state \in [Task -> States]
      /\ StateTypes /\ LocalTypes /\ RecordTypes
  BY TaskFacts, Zenon
<1>1. state[t] = "READY" /\ pc[t] = "reap" /\ cpu \in {NoTask, t}
  BY Zenon DEF task_call_reaper, At
<1>2. /\ pc' = [pc EXCEPT ![t] = "reap"] /\ cpu' = NoTask
      /\ state' = [state EXCEPT ![t] = "DEAD"] /\ reaperTask' = t
      /\ UNCHANGED <<id, parent, taskIdCurr, dsChildTerminated, childrenTerminatedAmnt, reported,
                     collected, halted, arg, target, waitingForPid, vforked>>
  BY Zenon DEF task_call_reaper, GoTo, wait, local, ghost
<1>3. \A x \in Task : pc'[x] = pc[x] /\ state'[x] = IF x = t THEN "DEAD" ELSE state[x]
  BY <1>0, <1>1, <1>2, Zenon
<1>4. LocalTypes' /\ RecordTypes'
  BY <1>0, <1>2, Zenon DEF LocalTypes, RecordTypes
<1>d. StateTypes'
  BY <1>0, <1>2, Zenon DEF StateTypes, States, Points
<1>5. \A x \in Task : pc[x] \notin Inside
  BY <1>1, OthersOutside, Zenon DEF Inside
<1>6. \A x \in Task : Alive(x)' <=> Alive(x) /\ x # t
  BY <1>3, Zenon DEF Alive
<1>7. Ids'
  BY <1>2, <1>3, <1>6, Zenon DEF Calls, Ids
<1>8. ASSUME NEW x \in Task PROVE PlaceOf(x)' /\ KnownTo(x)'
  <2>1. PlaceOf(x) /\ KnownTo(x) /\ pc[x] \notin Inside
    BY <1>5, TaskFacts, Zenon
  <2>2. PlaceOf(x)'
    BY <1>1, <1>2, <1>3, <2>1 DEF PlaceOf
  <2>3. Listed(x)' <=> Listed(x)
    BY <1>2, Zenon DEF Listed
  <2> QED
    BY <1>1, <1>3, <2>1, <2>2, <2>3, Zenon DEF KnownTo, Inside
<1>9. ASSUME NEW x \in Task PROVE VforkOf(x)'
  <2>1. VforkOf(x)
    BY TaskFacts, Zenon
  <2>2. \A c \in Task : HeldBy(x, c) => HeldBy(x, c)'
    BY <1>1, <1>2, <1>3, <1>6, Zenon DEF HeldBy
  <2>3. \A c \in Task : EndedBy(x, c) => EndedBy(x, c)'
    BY <1>2, <1>3, Zenon DEF EndedBy
  <2> QED
    BY <1>1, <1>2, <1>3, <2>1, <2>2, <2>3 DEF VforkOf
<1>10. \A x \in Task : RecordsOf(x)'
  BY <1>2, Zenon DEF Calls, RecordsOf
<1> QED
  BY <1>2, <1>4, <1>d, <1>7, <1>8, <1>9, <1>10, Zenon DEF Calls

\* The reaper frees a task.
LEMMA ReapCalls ==
  ASSUME Constants, Calls, reap
  PROVE  Calls'
<1>a. PICK t \in Task : t = reaperTask
  BY Zenon DEF reap, Calls, StateTypes
<1>0. /\ pc \in [Task -> Points] /\ parent \in [Task -> Task] /\ state \in [Task -> States]
      /\ StateTypes /\ LocalTypes /\ RecordTypes /\ PlaceOf(t)
  BY TaskFacts, Zenon
<1>1. state[t] = "DEAD" /\ cpu = NoTask /\ pc[t] = "reap"
  <2>1. state[t] = "DEAD" /\ cpu = NoTask
    BY <1>a, Zenon DEF reap
  <2> QED
    BY <1>0, <2>1, Zenon DEF PlaceOf
<1>2. /\ state' = [state EXCEPT ![t] = "FREED"] /\ reaperTask' = NoTask
      /\ parent' = task_free_children(t)
      /\ id' = [id EXCEPT ![t] = NoPid]
      /\ dsChildTerminated' = [dsChildTerminated EXCEPT ![t] = <<>>]
      /\ childrenTerminatedAmnt' = [childrenTerminatedAmnt EXCEPT ![t] = 0]
      /\ reported' = [reported EXCEPT ![t] = {}]
      /\ collected' = [collected EXCEPT ![t] = {}]
      /\ UNCHANGED <<taskIdCurr, pc, cpu, halted, arg, target, waitingForPid, vforked>>
  BY <1>a, Zenon DEF reap, local
<1>3. \A x \in Task :
        /\ state'[x] = IF x = t THEN "FREED" ELSE state[x]
        /\ parent'[x] = parent[x] \/ parent[x] = t
  BY <1>0, <1>2, Zenon DEF task_free_children
<1>4. /\ \A x \in Task \ {t} : /\ dsChildTerminated'[x] = dsChildTerminated[x]
                               /\ childrenTerminatedAmnt'[x] = childrenTerminatedAmnt[x]
                               /\ reported'[x] = reported[x] /\ collected'[x] = collected[x]
      /\ dsChildTerminated'[t] = <<>> /\ childrenTerminatedAmnt'[t] = 0
      /\ reported'[t] = {} /\ collected'[t] = {}
  BY <1>0, <1>2, Zenon DEF RecordTypes
<1>5. LocalTypes'
  BY <1>0, <1>2, Zenon DEF LocalTypes
<1>d. StateTypes'
  <2>1. parent' \in [Task -> Task]
    BY <1>0, <1>2, Zenon DEF task_free_children, Constants
  <2> QED
    BY <1>0, <1>2, <2>1, Zenon DEF StateTypes, States
<1>6. RecordTypes'
  <2>1. dsChildTerminated' \in [Task -> Seq(Nat \ {NoPid})]
    BY <1>0, <1>2 DEF RecordTypes
  <2>2. childrenTerminatedAmnt' \in [Task -> Int]
    BY <1>0, <1>2 DEF RecordTypes
  <2>3. reported' \in [Task -> SUBSET Nat] /\ collected' \in [Task -> SUBSET Nat]
    BY <1>0, <1>2, Zenon DEF RecordTypes
  <2> QED
    BY <2>1, <2>2, <2>3, Zenon DEF RecordTypes
<1>7. \A x \in Task : pc[x] \notin Inside
  BY <1>1, Zenon DEF Constants, Calls, PlaceOf
<1>8. \A x \in Task : Alive(x)' <=> Alive(x)
  BY <1>1, <1>3, Zenon DEF Alive
<1>9. Ids'
  <2>1. id \in [Task -> Nat] /\ taskIdCurr \in Nat \ {0} /\ ~Alive(t)
    BY <1>1, Zenon DEF Calls, Ids, Alive
  <2>2. id' \in [Task -> Nat] /\ \A x \in Task : id'[x] = IF x = t THEN 0 ELSE id[x]
    BY <1>2, <2>1, Zenon DEF NoPid
  <2>3. \A p \in Task : reported'[p] \subseteq reported[p]
    BY <1>4, Zenon
  <2> QED
    BY <1>2, <1>8, <2>1, <2>2, <2>3 DEF Calls, Ids
<1>10. ASSUME NEW x \in Task PROVE PlaceOf(x)' /\ KnownTo(x)'
  <2>1. PlaceOf(x) /\ KnownTo(x) /\ pc[x] \notin Inside
    BY <1>7, TaskFacts, Zenon
  <2>2. PlaceOf(x)'
    BY <1>1, <1>2, <1>3, <2>1 DEF PlaceOf
  <2>3. CASE x = t
    BY <1>1, <1>2, <2>2, <2>3, Zenon DEF KnownTo
  <2>4. CASE x # t
    <3>1. Listed(x)' <=> Listed(x)
      BY <1>2, <1>4, <2>4, Zenon DEF Listed
    <3> QED
      BY <1>2, <1>3, <2>1, <2>2, <2>4, <3>1, Zenon DEF KnownTo, Inside
  <2> QED
    BY <2>3, <2>4, Zenon
<1>11. ASSUME NEW x \in Task PROVE VforkOf(x)'
  <2>1. VforkOf(x) /\ PlaceOf(x) /\ pc[x] # "vfork"
    BY <1>7, TaskFacts, Zenon DEF Inside
  <2>2. CASE x = t
    BY <1>1, <1>2, <1>3, <2>1, <2>2 DEF VforkOf
  <2>3. CASE x # t
    <3>2. \A c \in Task : HeldBy(x, c) => HeldBy(x, c)'
      BY <1>2, <1>3, <1>8, <2>3, Zenon DEF HeldBy
    <3>3. \A c \in Task : EndedBy(x, c) => EndedBy(x, c)'
      BY <1>2, <1>3, <2>3, Zenon DEF EndedBy
    <3> QED
      BY <1>2, <1>3, <2>1, <2>3, <3>2, <3>3, Zenon DEF VforkOf
  <2> QED
    BY <2>2, <2>3, Zenon
<1>12. ASSUME NEW x \in Task PROVE RecordsOf(x)'
  <2>1. CASE x = t
    BY <1>4, <2>1 DEF RecordsOf, PidsIn, Distinct
  <2>2. CASE x # t
    <3>1. RecordsOf(x)
      BY TaskFacts, Zenon
    <3> QED
      BY <1>4, <2>2, <3>1, Zenon DEF RecordsOf
  <2> QED
    BY <2>1, <2>2, Zenon
<1> QED
  BY <1>2, <1>5, <1>d, <1>6, <1>9, <1>10, <1>11, <1>12, Zenon DEF Calls

\* A new child of t, which returns to user mode or goes on in vfork.
LEMMA ForkCalls ==
  ASSUME Constants, Calls, NEW t \in Task, NEW flags, NEW p \in {"user", "vfork"},
         At(t, "user"), task_fork(t, task_list_allocate, flags),
         pc' = [pc EXCEPT ![t] = p], p = "vfork" => cpu' = t,
         vforked' \in [Task -> Task \cup {NoTask}],
         \A x \in Task \ {t} : vforked'[x] = vforked[x],
         UNCHANGED <<reported, collected>>
  PROVE  Calls'
<1>a. PICK c \in Task : c = task_list_allocate
  BY AllocateFacts, Zenon DEF task_fork
<1>0. /\ pc \in [Task -> Points] /\ parent \in [Task -> Task] /\ state \in [Task -> States]
      /\ StateTypes /\ LocalTypes /\ RecordTypes /\ PlaceOf(c)
  BY TaskFacts, Zenon
<1>1. state[t] = "READY" /\ pc[t] = "user" /\ cpu \in {NoTask, t}
  BY Zenon DEF At
<1>2. state[c] = "UNUSED" /\ c # t /\ pc[c] = "user"
  <2>1. state[c] = "UNUSED"
    BY <1>a, AllocateFacts, Zenon DEF task_fork
  <2> QED
    BY <1>0, <1>1, <2>1, Zenon DEF PlaceOf
<1>3. /\ state' = [state EXCEPT ![c] = "READY"]
      /\ id' = [id EXCEPT ![c] = taskIdCurr] /\ taskIdCurr' = taskIdCurr + 1
      /\ parent' = [parent EXCEPT ![c] = t]
      /\ UNCHANGED <<dsChildTerminated, childrenTerminatedAmnt, waitingForPid, arg, target, halted,
                     reaperTask>>
  BY <1>a, Zenon DEF task_fork, wait, local
<1>4. \A x \in Task : /\ pc'[x] = IF x = t THEN p ELSE pc[x]
                      /\ state'[x] = IF x = c THEN "READY" ELSE state[x]
                      /\ parent'[x] = IF x = c THEN t ELSE parent[x]
  BY <1>0, <1>3, Zenon
<1>5. LocalTypes' /\ RecordTypes'
  BY <1>0, <1>3, Zenon DEF LocalTypes, RecordTypes
<1>d. StateTypes'
  BY <1>0, <1>3, Zenon DEF StateTypes, States, Points
<1>6. \A x \in Task : pc[x] \notin Inside
  BY <1>1, OthersOutside, Zenon DEF Inside
<1>7. \A x \in Task : Alive(x)' <=> Alive(x) \/ x = c
  BY <1>4, Zenon DEF Alive
<1>8. Ids'
  <2>1. id \in [Task -> Nat] /\ taskIdCurr \in Nat \ {0}
    BY Zenon DEF Calls, Ids
  <2>2. id' \in [Task -> Nat] /\ \A x \in Task : id'[x] = IF x = c THEN taskIdCurr ELSE id[x]
    BY <1>3, <2>1, Zenon
  <2>3. /\ \A x \in Task : id'[x] < taskIdCurr'
        /\ \A x \in Task : Alive(x)' => id'[x] # NoPid
        /\ \A q \in Task : \A x \in reported'[q] : x < taskIdCurr'
    <3>1. \A x \in Task : id[x] < taskIdCurr
      BY Zenon DEF Calls, Ids
    <3>2. \A q \in Task : \A x \in reported[q] : x < taskIdCurr /\ x \in Nat
      BY <1>0, Zenon DEF Calls, Ids, RecordTypes
    <3>3. \A x \in Task : Alive(x) => id[x] # NoPid
      BY Zenon DEF Calls, Ids
    <3> QED
      BY <1>3, <1>7, <2>1, <2>2, <3>1, <3>2, <3>3 DEF NoPid
  <2>4. ASSUME NEW x \in Task, NEW y \in Task, Alive(x)', Alive(y)', id'[x] = id'[y] PROVE x = y
    <3>1. \A z \in Task : id[z] # taskIdCurr
      BY <2>1 DEF Calls, Ids
    <3> QED
      BY <1>7, <2>2, <2>4, <3>1, Zenon DEF Calls, Ids
  <2>5. ASSUME NEW x \in Task, NEW q \in Task, Alive(x)', id'[x] \in reported[q]
        PROVE  pc'[x] \in {"notify", "reap"}
    <3>1. x # c
      BY <1>0, <2>1, <2>2, <2>5 DEF Calls, Ids, RecordTypes
    <3>2. pc[x] \in {"notify", "reap"}
      BY <1>7, <2>2, <2>5, <3>1, Zenon DEF Calls, Ids
    <3> QED
      BY <1>1, <1>4, <3>2, Zenon
  <2> QED
    BY <1>3, <2>1, <2>2, <2>3, <2>4, <2>5 DEF Ids
<1>9. ASSUME NEW x \in Task PROVE PlaceOf(x)' /\ KnownTo(x)'
  <2>1. CASE x = t
    BY <1>1, <1>2, <1>4, <2>1, Zenon DEF PlaceOf, KnownTo, Inside
  <2>2. CASE x = c
    BY <1>2, <1>4, <2>2, Zenon DEF PlaceOf, KnownTo, Inside
  <2>3. CASE x # t /\ x # c
    <3>1. PlaceOf(x) /\ KnownTo(x) /\ pc[x] \notin Inside
      BY <1>6, TaskFacts, Zenon
    <3>2. pc'[x] = pc[x] /\ state'[x] = state[x]
      BY <1>4, <2>3, Zenon
    <3>3. Listed(x)' <=> Listed(x)
      BY <1>3, Zenon DEF Listed
    <3> QED
      BY <1>3, <3>1, <3>2, <3>3, Zenon DEF PlaceOf, KnownTo, Inside
  <2> QED
    BY <2>1, <2>2, <2>3, Zenon
<1>10. ASSUME NEW x \in Task PROVE VforkOf(x)'
  <2>1. CASE x = t
    <3>1. HeldBy(t, c)'
      BY <1>2, <1>4, <1>7, Zenon DEF HeldBy
    <3> QED
      BY <1>1, <1>2, <1>4, <2>1, <3>1, Zenon DEF VforkOf
  <2>2. CASE x = c
    BY <1>2, <1>4, <2>2, Zenon DEF VforkOf
  <2>3. CASE x # t /\ x # c
    <3>1. VforkOf(x)
      BY TaskFacts, Zenon
    <3>2. \A d \in Task : HeldBy(x, d) => HeldBy(x, d)'
      BY <1>2, <1>4, <1>7, Zenon DEF HeldBy, Alive
    <3>3. \A d \in Task : EndedBy(x, d) => EndedBy(x, d)'
      BY <1>1, <1>2, <1>4, <2>3, Zenon DEF EndedBy
    <3> QED
      BY <1>4, <2>3, <3>1, <3>2, <3>3, Zenon DEF VforkOf
  <2> QED
    BY <2>1, <2>2, <2>3, Zenon
<1>11. \A x \in Task : RecordsOf(x)'
  BY <1>3, Zenon DEF Calls, RecordsOf
<1> QED
  BY <1>3, <1>5, <1>d, <1>8, <1>9, <1>10, <1>11, Zenon DEF Calls

\* execve: c takes over the pid of t, which ends.
LEMMA ExecveCalls ==
  ASSUME Constants, ~Preemptive, Calls, NEW t \in Task, syscallExecve(t, task_list_allocate)
  PROVE  Calls'
<1>a. PICK c \in Task : c = task_list_allocate
  BY AllocateFacts, Zenon DEF syscallExecve
<1>0. /\ pc \in [Task -> Points] /\ parent \in [Task -> Task] /\ state \in [Task -> States]
      /\ StateTypes /\ LocalTypes /\ RecordTypes /\ PlaceOf(c)
  BY TaskFacts, Zenon
<1>1. state[t] = "READY" /\ pc[t] = "user" /\ cpu \in {NoTask, t} /\ Alive(t)
  BY Zenon DEF syscallExecve, At, Alive
<1>2. state[c] = "UNUSED" /\ c # t /\ pc[c] = "user" /\ ~Alive(c)
  <2>1. state[c] = "UNUSED"
    BY <1>a, AllocateFacts, Zenon DEF syscallExecve
  <2> QED
    BY <1>0, <1>1, <2>1, Zenon DEF PlaceOf, Alive
<1>3. /\ state' = [Wake(t, {"WAITING_VFORK"}) EXCEPT ![c] = "READY"]
      /\ id' = [id EXCEPT ![c] = id[t], ![t] = taskIdCurr] /\ taskIdCurr' = taskIdCurr + 1
      /\ parent' = [parent EXCEPT ![c] = parent[t]]
      /\ pc' = [pc EXCEPT ![t] = "notify"] /\ cpu' = t
      /\ vforked' = [p \in Task |-> IF vforked[p] = t THEN NoTask ELSE vforked[p]]
      /\ UNCHANGED <<dsChildTerminated, childrenTerminatedAmnt, waitingForPid, arg, target, halted,
                     reported, collected, reaperTask>>
  BY <1>a, Zenon DEF syscallExecve, ExecveIds, GoTo, wait, local
<1>4. \A x \in Task :
        /\ pc'[x] = IF x = t THEN "notify" ELSE pc[x]
        /\ parent'[x] = IF x = c THEN parent[t] ELSE parent[x]
        /\ vforked'[x] = IF vforked[x] = t THEN NoTask ELSE vforked[x]
        /\ state'[x] = IF x = c \/ (x = parent[t] /\ state[x] = "WAITING_VFORK") THEN "READY" ELSE state[x]
        /\ state'[x] \in States
  <2> DEFINE W == Wake(t, {"WAITING_VFORK"})
  <2>1. W \in [Task -> States]
    BY <1>0, WakeOne, Zenon
  <2>2. \A x \in Task : W[x] = IF x = parent[t] /\ state[x] \in {"WAITING_VFORK"} THEN "READY" ELSE state[x]
    BY <1>0, WakeOne, Zenon
  <2>3. state' = [W EXCEPT ![c] = "READY"]
    BY <1>3, Zenon
  <2> HIDE DEF W
  <2>4. \A x \in Task : state'[x] = IF x = c THEN "READY" ELSE W[x]
    BY <2>1, <2>3, Zenon
  <2>5. \A x \in Task : /\ pc'[x] = IF x = t THEN "notify" ELSE pc[x]
                        /\ parent'[x] = IF x = c THEN parent[t] ELSE parent[x]
                        /\ vforked'[x] = IF vforked[x] = t THEN NoTask ELSE vforked[x]
    BY <1>0, <1>3, Zenon
  <2> QED
    BY <2>1, <2>2, <2>4, <2>5, Zenon DEF States
<1>5. LocalTypes' /\ RecordTypes'
  BY <1>0, <1>3, Zenon DEF LocalTypes, RecordTypes
<1>d. StateTypes'
  <2>1. state' \in [Task -> States]
    BY <1>3, <1>4, WakeOne, <1>0, Zenon DEF States
  <2> QED
    BY <1>0, <1>3, <2>1, Zenon DEF StateTypes, Points
<1>6. \A x \in Task : pc[x] \notin Inside
  BY <1>1, OthersOutside, Zenon DEF Inside
<1>7. \A x \in Task : Alive(x)' <=> Alive(x) \/ x = c
  BY <1>4, Zenon DEF Alive
<1>8. Ids'
  <2>1. id \in [Task -> Nat] /\ taskIdCurr \in Nat \ {0}
    BY Zenon DEF Calls, Ids
  <2>2. /\ id' \in [Task -> Nat]
        /\ \A x \in Task : id'[x] = IF x = t THEN taskIdCurr ELSE IF x = c THEN id[t] ELSE id[x]
    BY <1>2, <1>3, <2>1, Zenon
  <2>3. /\ \A x \in Task : id'[x] < taskIdCurr'
        /\ \A x \in Task : Alive(x)' => id'[x] # NoPid
        /\ \A q \in Task : \A x \in reported'[q] : x < taskIdCurr'
    <3>1. \A x \in Task : id[x] < taskIdCurr
      BY Zenon DEF Calls, Ids
    <3>2. \A q \in Task : \A x \in reported[q] : x < taskIdCurr /\ x \in Nat
      BY <1>0, Zenon DEF Calls, Ids, RecordTypes
    <3>3. \A x \in Task : Alive(x) => id[x] # NoPid
      BY Zenon DEF Calls, Ids
    <3> QED
      BY <1>1, <1>3, <1>7, <2>1, <2>2, <3>1, <3>2, <3>3 DEF NoPid
  <2>4. ASSUME NEW x \in Task, NEW y \in Task, Alive(x)', Alive(y)', id'[x] = id'[y] PROVE x = y
    <3>1. \A z \in Task : id[z] # taskIdCurr
      BY <2>1 DEF Calls, Ids
    <3>2. \A u, v \in Task : Alive(u) /\ Alive(v) /\ id[u] = id[v] => u = v
      BY Zenon DEF Calls, Ids
    <3> QED
      BY <1>1, <1>2, <1>7, <2>2, <2>4, <3>1, <3>2, Zenon
  <2>5. ASSUME NEW x \in Task, NEW q \in Task, Alive(x)', id'[x] \in reported[q]
        PROVE  pc'[x] \in {"notify", "reap"}
    <3>1. \A z \in Task : Alive(z) /\ id[z] \in reported[q] => pc[z] \in {"notify", "reap"}
      BY Zenon DEF Calls, Ids
    <3>2. CASE x = t
      BY <1>4, <3>2, Zenon
    <3>3. CASE x = c
      BY <1>1, <1>2, <2>2, <2>5, <3>1, <3>3, Zenon
    <3>4. CASE x # t /\ x # c
      BY <1>4, <1>7, <2>2, <2>5, <3>1, <3>4, Zenon
    <3> QED
      BY <3>2, <3>3, <3>4, Zenon
  <2> QED
    BY <1>3, <2>1, <2>2, <2>3, <2>4, <2>5 DEF Ids
<1>9. ASSUME NEW x \in Task PROVE PlaceOf(x)' /\ KnownTo(x)'
  <2>1. CASE x = t
    BY <1>1, <1>2, <1>3, <1>4, <2>1 DEF PlaceOf, KnownTo
  <2>2. CASE x = c
    BY <1>2, <1>4, <2>2, Zenon DEF PlaceOf, KnownTo, Inside
  <2>3. CASE x # t /\ x # c
    <3>1. PlaceOf(x) /\ KnownTo(x) /\ pc[x] \notin Inside /\ pc'[x] = pc[x]
      BY <1>4, <1>6, <2>3, TaskFacts, Zenon
    <3>2. PlaceOf(x)'
      BY <1>3, <1>4, <2>3, <3>1 DEF PlaceOf
    <3>3. Listed(x)' <=> Listed(x)
      BY <1>3, Zenon DEF Listed
    <3>4. pc[x] = "asleep" => state'[x] = state[x]
      BY <1>4, <2>3, <3>1, Zenon DEF PlaceOf
    <3> QED
      BY <3>1, <3>2, <3>3, <3>4, Zenon DEF KnownTo, Inside
  <2> QED
    BY <2>1, <2>2, <2>3, Zenon
<1>10. ASSUME NEW x \in Task PROVE VforkOf(x)'
  <2>1. CASE x = t
    BY <1>1, <1>2, <1>4, <2>1, Zenon DEF VforkOf
  <2>2. CASE x = c
    BY <1>2, <1>4, <2>2, Zenon DEF VforkOf
  <2>3. CASE x # t /\ x # c
    <3>0. VforkOf(x) /\ pc[x] # "vfork" /\ pc'[x] = pc[x]
      BY <1>4, <1>6, <2>3, TaskFacts, Zenon DEF Inside
    <3>1. ASSUME state'[x] = "WAITING_VFORK" PROVE \E d \in Task : HeldBy(x, d)'
      <4>1. state[x] = "WAITING_VFORK" /\ x # parent[t]
        BY <1>4, <2>3, <3>1, Zenon
      <4>2. PICK d \in Task : HeldBy(x, d)
        BY <3>0, <4>1, Zenon DEF VforkOf
      <4>3. d # c /\ d # t
        BY <1>2, <4>1, <4>2, Zenon DEF HeldBy
      <4>4. HeldBy(x, d)'
        BY <1>4, <1>7, <4>2, <4>3, Zenon DEF HeldBy
      <4> QED
        BY <4>4, Zenon
    <3>2. ASSUME pc[x] = "vforked", state'[x] = "READY", vforked'[x] # NoTask
          PROVE  \E d \in Task : EndedBy(x, d)'
      <4>1. vforked'[x] = vforked[x] /\ vforked[x] # t
        BY <1>4, <3>2, Zenon
      <4>2. CASE state[x] = "READY"
        <5>1. PICK d \in Task : EndedBy(x, d)
          BY <3>0, <3>2, <4>1, <4>2, Zenon DEF VforkOf
        <5>2. EndedBy(x, d)'
          BY <1>1, <1>2, <1>4, <4>1, <5>1, Zenon DEF EndedBy
        <5> QED
          BY <5>2, Zenon
      <4>3. CASE state[x] # "READY"
        <5>1. x = parent[t]
          BY <1>4, <2>3, <3>2, <4>3, Zenon
        <5>2. EndedBy(x, t)'
          BY <1>2, <1>4, <4>1, <5>1, Zenon DEF EndedBy
        <5> QED
          BY <5>2, Zenon
      <4> QED
        BY <4>2, <4>3, Zenon
    <3> QED
      BY <3>0, <3>1, <3>2, Zenon DEF VforkOf
  <2> QED
    BY <2>1, <2>2, <2>3, Zenon
<1>11. \A x \in Task : RecordsOf(x)'
  BY <1>3, Zenon DEF Calls, RecordsOf
<1> QED
  BY <1>3, <1>5, <1>d, <1>8, <1>9, <1>10, <1>11, Zenon DEF Calls

\* Nobody has called anything yet.
LEMMA InitCalls ==
  ASSUME Constants PROVE Init => Calls
<1> SUFFICES ASSUME Init PROVE Calls
  BY Zenon
<1>0. StateTypes
  BY Zenon DEF Init, StateTypes, States, Points, Constants
<1>1. LocalTypes
  BY DEF Init, LocalTypes, NoPid
<1>2. RecordTypes
  BY DEF Init, RecordTypes
<1>3. \A t \in Task : /\ pc[t] = "user" /\ state[t] \in {"UNUSED", "READY", "DUMMY"}
                      /\ Alive(t) => t = init
                      /\ dsChildTerminated[t] = <<>> /\ childrenTerminatedAmnt[t] = 0
                      /\ reported[t] = {} /\ collected[t] = {}
                      /\ id[t] = IF t = init THEN 1 ELSE 0
  BY Zenon DEF Init, NoPid, Alive
<1>4. Ids
  BY <1>3 DEF Init, Ids, NoPid
<1>5. \A t \in Task : PlaceOf(t) /\ KnownTo(t) /\ VforkOf(t)
  BY <1>3, Zenon DEF PlaceOf, KnownTo, VforkOf, Inside
<1>6. \A t \in Task : RecordsOf(t)
  BY <1>3 DEF RecordsOf, PidsIn, Distinct
<1> QED
  BY <1>0, <1>1, <1>2, <1>4, <1>5, <1>6, Zenon DEF Calls, Init

\* Every step keeps Calls, if system calls are not preempted.
LEMMA StepCalls ==
  ASSUME Constants, ~Preemptive, Calls, [Next]_vars PROVE Calls'
<1>1. CASE UNCHANGED vars
  <2>1. UNCHANGED <<state, id, parent, taskIdCurr, dsChildTerminated, childrenTerminatedAmnt, reported,
                    collected, halted, arg, target, waitingForPid, vforked, pc, cpu, reaperTask>>
    BY <1>1, Zenon DEF vars, proc, wait, local, ghost
  <2>2. StateTypes' /\ LocalTypes' /\ RecordTypes' /\ Ids'
    BY <2>1, Zenon DEF Calls, StateTypes, LocalTypes, RecordTypes, Ids, Alive
  <2>3. ASSUME NEW t \in Task PROVE PlaceOf(t)' /\ KnownTo(t)' /\ VforkOf(t)' /\ RecordsOf(t)'
    <3>1. PlaceOf(t) /\ KnownTo(t) /\ VforkOf(t) /\ RecordsOf(t)
      BY TaskFacts, Zenon
    <3> QED
      BY <2>1, <3>1, Zenon DEF PlaceOf, KnownTo, VforkOf, RecordsOf, Listed, HeldBy, EndedBy, Alive
  <2> QED
    BY <2>1, <2>2, <2>3, Zenon DEF Calls
<1>2. CASE reap
  BY <1>2, ReapCalls, Zenon
<1>3. ASSUME NEW t \in Task, Call(t) PROVE Calls'
  <2>1. CASE syscallFork(t, task_list_allocate) \/ syscallClone(t, task_list_allocate)
    <3>1. PICK flags : task_fork(t, task_list_allocate, flags)
      BY <2>1, Zenon DEF syscallFork, syscallClone
    <3>2. At(t, "user") /\ pc' = [pc EXCEPT ![t] = "user"] /\ UNCHANGED <<reported, collected, vforked>>
      BY <2>1, Zenon DEF syscallFork, syscallClone, GoTo, ghost
    <3>3. vforked \in [Task -> Task \cup {NoTask}]
      BY Zenon DEF Calls, LocalTypes
    <3> QED
      BY <3>1, <3>2, <3>3, ForkCalls, Zenon
  <2>2. CASE syscallVfork(t, task_list_allocate)
    <3>1. PICK flags : task_fork(t, task_list_allocate, flags)
      BY <2>2, Zenon DEF syscallVfork
    <3>2. /\ At(t, "user") /\ pc' = [pc EXCEPT ![t] = "vfork"] /\ cpu' = t
          /\ vforked' = [vforked EXCEPT ![t] = task_list_allocate]
          /\ UNCHANGED <<reported, collected>>
      BY <2>2, Zenon DEF syscallVfork, GoTo
    <3>3. task_list_allocate \in Task
      BY <3>1, AllocateFacts, Zenon DEF task_fork
    <3>4. vforked' \in [Task -> Task \cup {NoTask}] /\ \A x \in Task \ {t} : vforked'[x] = vforked[x]
      BY <3>2, <3>3, Zenon DEF Calls, LocalTypes
    <3> QED
      BY <3>1, <3>2, <3>4, ForkCalls, Zenon
  <2>3. CASE syscallExecve(t, task_list_allocate)
    BY <2>3, ExecveCalls, Zenon
  <2>4. CASE wait4_fails(t)
    BY <1>1, <2>4, Zenon DEF wait4_fails
  <2>5. CASE \E pid \in Pids(t) : syscallWait4(t, pid)
    BY <2>5, Wait4Moves, Zenon
  <2>6. CASE task_kill(t)
    BY <2>6, KillMoves, Zenon
  <2> QED
    BY <1>3, <2>1, <2>2, <2>3, <2>4, <2>5, <2>6, Zenon DEF Call
<1>4. ASSUME NEW t \in Task, Continue(t) PROVE Calls'
  <2>1. CASE vfork_sleep(t) \/ vfork_return(t)
    BY <2>1, VforkSleeps, VforkReturns, Zenon
  <2>2. CASE inform(t) \/ notify(t)
    BY <2>2, InformStep, NotifyCalls, Zenon
  <2>3. CASE task_call_reaper(t) \/ reaper_busy(t)
    BY <2>3, CallReaperCalls, BusyMoves, Zenon
  <2>4. CASE look(t) \/ no_hang(t)
    BY <2>4, LookMoves, NoHangMoves, Zenon
  <2>5. CASE sleep(t) \/ wake(t) \/ take(t)
    BY <2>5, SleepMoves, WakeMoves, TakeStep, Zenon
  <2> QED
    BY <1>4, <2>1, <2>2, <2>3, <2>4, <2>5, Zenon DEF Continue
<1> QED
  BY <1>1, <1>2, <1>3, <1>4, Zenon DEF Next

\* Calls holds in every reachable state.
LEMMA CallsInvariance ==
  ASSUME Constants, ~Preemptive PROVE Spec => []Calls
<1>1. Init => Calls
  BY InitCalls, Zenon
<1>2. Calls /\ [Next]_vars => Calls'
  BY StepCalls, Zenon
<1> QED
  BY <1>1, <1>2, PTL DEF Spec

(***************************************************************************)
(* For any number of tasks a task asleep in wait4 has no record of what it *)
(* waits for, and one asleep in vfork has a child that will notify it.     *)
(***************************************************************************)
THEOREM WakeUpsArrive ==
  ASSUME Constants, ~Preemptive PROVE Spec => []NoLostWakeUp
<1>1. ASSUME Calls PROVE NoLostWakeUp
  <2> SUFFICES ASSUME NEW t \in Task
               PROVE  /\ state[t] = "WAITING_CHILD" => dsChildTerminated[t] = <<>>
                      /\ state[t] = "WAITING_CHILD_SPECIFIC" => arg[t] \notin Recorded(t)
                      /\ state[t] = "WAITING_VFORK" =>
                           \E c \in Task : Alive(c) /\ parent[c] = t /\ pc[c] # "reap"
    BY Zenon DEF NoLostWakeUp
  <2>1. PlaceOf(t) /\ KnownTo(t) /\ VforkOf(t)
    BY <1>1, TaskFacts, Zenon
  <2> QED
    BY <2>1, Zenon DEF PlaceOf, KnownTo, VforkOf, Listed, HeldBy, Recorded, PidsIn
<1> QED
  BY <1>1, CallsInvariance, PTL

(***************************************************************************)
(* For any number of tasks vfork returns only after the child has given up *)
(* the memory it shares, or after another child ended or called execve.    *)
(***************************************************************************)
THEOREM VforkReturnsLate ==
  ASSUME Constants, ~Preemptive PROVE Spec => VforkHeld
<1> DEFINE Late == \A t \in Task :
                     (pc[t] = "vforked" /\ pc'[t] = "user" /\ vforked[t] # NoTask)
                       => \E c \in Task : c # vforked[t] /\ parent[c] = t
                                          /\ (pc[c] = "reap" \/ ~Alive(c))
<1>1. ASSUME Calls, [Next]_vars PROVE [Late]_vars
  <2> SUFFICES ASSUME Next, NEW t \in Task, pc[t] = "vforked", pc'[t] = "user", vforked[t] # NoTask
               PROVE  \E c \in Task : c # vforked[t] /\ parent[c] = t
                                      /\ (pc[c] = "reap" \/ ~Alive(c))
    BY <1>1, Zenon
  <2>1. vfork_return(t)
    <3>1. PICK s \in Task : Call(s) \/ Continue(s)
      BY Zenon DEF Next, reap
    <3>2. pc' = pc \/ \E p : pc' = [pc EXCEPT ![s] = p]
      BY <3>1, Zenon
           DEF Call, Continue, GoTo, syscallFork, syscallClone, syscallVfork, syscallExecve,
           syscallWait4, wait4_fails, task_kill, vfork_sleep, vfork_return, inform, notify,
           task_call_reaper, reaper_busy, look, no_hang, sleep, wake, take, vars
    <3>3. pc \in [Task -> Points]
      BY <1>1, Zenon DEF Calls, StateTypes
    <3>4. s = t
      BY <3>2, <3>3, Zenon
    <3>5. \A p : At(t, p) => p = "vforked"
      BY Zenon DEF At
    <3>6. ~Call(t)
      BY <3>5, Zenon
           DEF Call, syscallFork, syscallClone, syscallVfork, syscallExecve, syscallWait4, wait4_fails,
           task_kill
    <3>7. Continue(t) => vfork_return(t)
      BY <3>5, Zenon
           DEF Continue, vfork_sleep, inform, notify, task_call_reaper, reaper_busy, look, no_hang,
           sleep, wake, take
    <3> QED
      BY <3>1, <3>4, <3>6, <3>7, Zenon
  <2>2. state[t] = "READY" /\ cpu \in {NoTask, t}
    BY <2>1, Zenon DEF vfork_return, At
  <2>3. PICK c \in Task : EndedBy(t, c)
    BY <1>1, <2>2, TaskFacts, Zenon DEF VforkOf
  <2>4. c # t /\ pc[c] # "notify"
    BY <1>1, <2>2, <2>3, OthersOutside, Zenon DEF EndedBy, Inside
  <2> QED
    BY <2>3, <2>4, Zenon DEF EndedBy
<1> HIDE DEF Late
<1>2. Spec => [][Late]_vars
  BY <1>1, CallsInvariance, PTL DEF Spec
<1> QED
  BY <1>2, Zenon DEF VforkHeld, Late

-----------------------------------------------------------------------------
(***************************************************************************)
(* Shared objects and parents, with preemption or without.                 *)
(***************************************************************************)
\* The tasks that use object o of kind k.
Users(k, o) == {t \in Task : Alive(t) /\ pc[t] # "reap" /\ info[t][k] = o}

Types ==
  /\ state \in [Task -> States]
  /\ state[dummyTask] = "DUMMY"
  /\ parent \in [Task -> Task]
  /\ pc \in [Task -> Points]
  /\ info \in [Task -> [Shared -> Task]]
  /\ utilizedBy \in [Shared -> [Task -> Int]]
  /\ noInformParent \in [Task -> BOOLEAN]
  /\ orphaned \in BOOLEAN
  /\ reaperTask \in Task \cup {NoTask}

\* A task that was not allocated yet has its initial values, and no other
\* task uses its objects.
Fresh ==
  \A c \in Task : state[c] = "UNUSED" =>
    /\ pc[c] = "user"
    /\ ~noInformParent[c]
    /\ \A k \in Shared : info[c][k] = c
    /\ \A k \in Shared, s \in Task : Alive(s) => info[s][k] # c

Counted == \A k \in Shared, o \in Task : utilizedBy[k][o] = Cardinality(Users(k, o))

\* A task that execve has replaced is ending, and had no children; no task
\* has dummyTask's place.
Replaced ==
  /\ ~noInformParent[dummyTask]
  /\ orphaned \/ \A t \in Task : noInformParent[t] =>
       /\ pc[t] \in {"notify", "reap"}
       /\ \A s \in Task : parent[s] = t => ~Alive(s)

Inv == Types /\ Fresh /\ Counted /\ Replaced /\ OnlyExecveOrphans

\* Init: init alone uses its objects.
LEMMA InitInv ==
  ASSUME Constants PROVE Init => Inv
<1> SUFFICES ASSUME Init PROVE Inv
  BY Zenon
<1> USE DEF Constants
<1>1. Types
  <2>1. state \in [Task -> States] /\ state[dummyTask] = "DUMMY"
    BY Zenon DEF Init, States
  <2>2. utilizedBy \in [Shared -> [Task -> Int]]
    BY DEF Init
  <2>3. noInformParent \in [Task -> BOOLEAN] /\ orphaned \in BOOLEAN
    BY Zenon DEF Init
  <2>4. parent \in [Task -> Task] /\ pc \in [Task -> Points] /\ info \in [Task -> [Shared -> Task]]
      /\ reaperTask \in Task \cup {NoTask}
    BY Zenon DEF Init, Points
  <2> QED
    BY <2>1, <2>2, <2>3, <2>4, Zenon DEF Types
<1>2. Fresh
  BY Zenon DEF Init, Fresh, Alive
<1>3. Counted
  <2> SUFFICES ASSUME NEW k \in Shared, NEW o \in Task
               PROVE  utilizedBy[k][o] = Cardinality(Users(k, o))
    BY Zenon DEF Counted
  <2>1. CASE o = init
    <3>1. Users(k, o) = {init}
      BY <2>1, Zenon DEF Init, Users, Alive
    <3>2. Cardinality({init}) = 1
      BY FS_Singleton, Zenon
    <3> QED
      BY <2>1, <3>1, <3>2, Zenon DEF Init
  <2>2. CASE o # init
    <3>1. Users(k, o) = {}
      BY <2>2, Zenon DEF Init, Users, Alive
    <3>2. Cardinality({}) = 0
      BY FS_EmptySet, Zenon
    <3> QED
      BY <2>2, <3>1, <3>2, Zenon DEF Init
  <2> QED
    BY <2>1, <2>2, Zenon
<1>4. Replaced /\ OnlyExecveOrphans
  BY Zenon DEF Init, Replaced, OnlyExecveOrphans
<1> QED
  BY <1>1, <1>2, <1>3, <1>4, Zenon DEF Inv

\* A woken parent was waiting.
LEMMA WakeFacts ==
  ASSUME Types, NEW t \in Task, NEW W \in SUBSET Waiting
  PROVE  /\ Wake(t, W) \in [Task -> States]
         /\ \A s \in Task : \/ Wake(t, W)[s] = state[s]
                            \/ state[s] \in Waiting /\ Wake(t, W)[s] = "READY"
<1>1. parent[t] \in Task
  BY Zenon DEF Types
<1> QED
  BY <1>1, Zenon DEF Wake, Types, States, Waiting

(***************************************************************************)
(* Most steps only move a task within its system call or to sleep: nobody  *)
(* begins or ends to use an object.                                        *)
(***************************************************************************)
LEMMA QuietStep ==
  ASSUME Constants, Inv,
         reaperTask' \in Task \cup {NoTask},
         state' \in [Task -> States],
         pc' \in [Task -> Points],
         \A s \in Task : \/ state'[s] = state[s]
                         \/ state[s] \in Waiting \cup {"READY"} /\ state'[s] \in Waiting \cup {"READY"},
         \A s \in Task : pc'[s] = "reap" <=> pc[s] = "reap",
         \A s \in Task : state[s] = "UNUSED" => pc'[s] = pc[s],
         orphaned \/ \A s \in Task : noInformParent[s] => pc'[s] \in {"notify", "reap"},
         UNCHANGED <<parent, noInformParent, info, utilizedBy, orphaned>>
  PROVE  Inv'
<1> USE DEF Inv
<1>1. \A s \in Task : /\ Alive(s)' <=> Alive(s)
                      /\ state'[s] = "UNUSED" <=> state[s] = "UNUSED"
                      /\ state'[s] = "FREED" <=> state[s] = "FREED"
                      /\ state'[s] = "DUMMY" <=> state[s] = "DUMMY"
  BY Zenon DEF Alive, Waiting
<1>2. Types'
  <2>1. state'[dummyTask] = "DUMMY"
    BY <1>1, Zenon DEF Types, Constants
  <2> QED
    BY <2>1, Zenon DEF Types
<1>3. Fresh'
  BY <1>1 DEF Fresh, Types
<1>4. \A k \in Shared, o \in Task : Users(k, o)' = Users(k, o)
  BY <1>1, Zenon DEF Users
<1>5. Counted'
  BY <1>4, Zenon DEF Counted
<1>6. Replaced'
  BY <1>1, Zenon DEF Replaced
<1>7. OnlyExecveOrphans'
  BY <1>1, Zenon DEF OnlyExecveOrphans, Types
<1> QED
  BY <1>2, <1>3, <1>5, <1>6, <1>7, Zenon

(***************************************************************************)
(* A new task c that uses, of each kind, its own object or that of a       *)
(* living task t, and counts as one more user of it.                       *)
(***************************************************************************)
LEMMA NewTaskCounts ==
  ASSUME Constants, Inv, NEW c \in Task, state[c] = "UNUSED",
         \A s \in Task \ {c} : Alive(s)' <=> Alive(s),
         Alive(c)',
         \A s \in Task : pc'[s] = "reap" <=> pc[s] = "reap",
         \A s \in Task \ {c} : info'[s] = info[s],
         info' \in [Task -> [Shared -> Task]],
         \A k \in Shared, o \in Task :
           utilizedBy'[k][o] = IF o = info'[c][k] THEN utilizedBy[k][o] + 1 ELSE utilizedBy[k][o]
  PROVE  Counted'
<1> SUFFICES ASSUME NEW k \in Shared, NEW o \in Task
             PROVE  utilizedBy'[k][o] = Cardinality(Users(k, o)')
  BY Zenon DEF Counted
<1>1. IsFiniteSet(Users(k, o)) /\ utilizedBy[k][o] = Cardinality(Users(k, o))
  <2>1. Users(k, o) \subseteq Task
    BY Zenon DEF Users
  <2> QED
    BY <2>1, FS_Subset, Zenon DEF Constants, Inv, Counted
<1>2. ~Alive(c) /\ c \notin Users(k, o)
  BY Zenon DEF Alive, Users
<1>3. pc'[c] # "reap"
  BY Zenon DEF Inv, Fresh
<1>4. CASE o = info'[c][k]
  <2>1. Users(k, o)' = Users(k, o) \cup {c}
    BY <1>2, <1>3, <1>4 DEF Users
  <2>2. Cardinality(Users(k, o) \cup {c}) = Cardinality(Users(k, o)) + 1
    BY <1>1, <1>2, FS_AddElement, Zenon
  <2> QED
    BY <1>1, <1>4, <2>1, <2>2
<1>5. CASE o # info'[c][k]
  <2>1. Users(k, o)' = Users(k, o)
    BY <1>2, <1>5 DEF Users
  <2> QED
    BY <1>1, <1>5, <2>1, Zenon
<1> QED
  BY <1>4, <1>5, Zenon

\* A new child c of t, with the objects named in flags shared.
LEMMA ForkStep ==
  ASSUME Constants, Inv, NEW t \in Task, NEW flags, NEW p \in {"user", "vfork"},
         At(t, "user"), task_fork(t, task_list_allocate, flags),
         pc' = [pc EXCEPT ![t] = p], orphaned' = orphaned
  PROVE  Inv'
<1>0. PICK c \in Task : c = task_list_allocate
  BY AllocateFacts, Zenon DEF task_fork
<1>1. c \in Task /\ state[c] = "UNUSED" /\ c # t /\ c # dummyTask
  BY <1>0, AllocateFacts, Zenon DEF task_fork, At, Inv, Types
<1>2. /\ state' = [state EXCEPT ![c] = "READY"]
      /\ parent' = [parent EXCEPT ![c] = t]
      /\ info' = [info EXCEPT ![c] = [k \in Shared |-> IF k \in flags THEN info[t][k] ELSE c]]
      /\ utilizedBy' = [k \in Shared |-> [utilizedBy[k] EXCEPT ![info'[c][k]] = @ + 1]]
      /\ noInformParent' = noInformParent
      /\ reaperTask' = reaperTask
  BY <1>0 DEF task_fork
<1>3. state[t] = "READY" /\ pc[t] = "user" /\ Alive(t)
  BY Zenon DEF At, Alive
<1>4. Types'
  <2>1. state' \in [Task -> States] /\ state'[dummyTask] = "DUMMY"
    BY <1>1, <1>2, Zenon DEF Inv, Types, States, Constants
  <2>2. parent' \in [Task -> Task] /\ info' \in [Task -> [Shared -> Task]]
    BY <1>1, <1>2 DEF Inv, Types
  <2>3. utilizedBy' \in [Shared -> [Task -> Int]]
    BY <1>1, <1>2 DEF Inv, Types
  <2>4. pc' \in [Task -> Points]
    BY Zenon DEF Inv, Types, Points
  <2> QED
    BY <1>2, <2>1, <2>2, <2>3, <2>4, Zenon DEF Inv, Types
<1>5. /\ \A s \in Task \ {c} : (Alive(s)' <=> Alive(s)) /\ info'[s] = info[s] /\ state'[s] = state[s]
      /\ Alive(c)' /\ state'[c] = "READY"
      /\ \A s \in Task : pc'[s] = "reap" <=> pc[s] = "reap"
      /\ \A k \in Shared : info'[c][k] \in {c, info[t][k]}
  BY <1>1, <1>2, <1>3, Zenon DEF Inv, Types, Alive
<1>6. Counted'
  <2>1. \A k \in Shared, o \in Task :
          utilizedBy'[k][o] = IF o = info'[c][k] THEN utilizedBy[k][o] + 1 ELSE utilizedBy[k][o]
    BY <1>1, <1>2, Zenon DEF Inv, Types
  <2>2. info' \in [Task -> [Shared -> Task]]
    BY <1>4, Zenon DEF Types
  <2> QED
    BY <1>1, <1>5, <2>1, <2>2, NewTaskCounts, Zenon
<1>7. Fresh'
  <2> SUFFICES ASSUME NEW u \in Task, state'[u] = "UNUSED"
               PROVE  /\ pc'[u] = "user"
                      /\ ~noInformParent'[u]
                      /\ \A k \in Shared : info'[u][k] = u
                      /\ \A k \in Shared, s \in Task : Alive(s)' => info'[s][k] # u
    BY Zenon DEF Fresh
  <2>1. u # c /\ u # t /\ state[u] = "UNUSED"
    BY <1>1, <1>3, <1>5
  <2>2. /\ pc[u] = "user"
        /\ ~noInformParent[u]
        /\ \A k \in Shared : info[u][k] = u
        /\ \A k \in Shared, s \in Task : Alive(s) => info[s][k] # u
    BY <2>1, Zenon DEF Inv, Fresh
  <2>3. pc'[u] = "user" /\ ~noInformParent'[u]
    BY <1>2, <2>1, <2>2, Zenon DEF Inv, Types
  <2>4. \A k \in Shared : info'[u][k] = u
    BY <1>5, <2>1, <2>2, Zenon
  <2>5. ASSUME NEW k \in Shared, NEW s \in Task, Alive(s)' PROVE info'[s][k] # u
    <3>1. CASE s = c
      BY <1>3, <1>5, <2>1, <2>2, <3>1
    <3>2. CASE s # c
      BY <1>5, <2>2, <2>5, <3>2
    <3> QED
      BY <3>1, <3>2, Zenon
  <2> QED
    BY <2>3, <2>4, <2>5, Zenon
<1>8. Replaced'
  <2>1. CASE orphaned
    BY <1>2, <2>1, Zenon DEF Inv, Replaced
  <2>2. CASE ~orphaned
    <3>1. ~noInformParent[t] /\ ~noInformParent[c]
      BY <1>1, <1>3, <2>2, Zenon DEF Inv, Replaced, Fresh
    <3>2. ASSUME NEW u \in Task, noInformParent[u]
          PROVE  pc'[u] \in {"notify", "reap"} /\ \A s \in Task : parent'[s] = u => ~Alive(s)'
      <4>1. u # t /\ u # c
        BY <3>1, <3>2, Zenon
      <4>2. pc[u] \in {"notify", "reap"} /\ \A s \in Task : parent[s] = u => ~Alive(s)
        BY <2>2, <3>2, Zenon DEF Inv, Replaced
      <4> QED
        BY <1>1, <1>2, <1>5, <4>1, <4>2 DEF Inv, Types
    <3> QED
      BY <1>2, <3>2, Zenon DEF Inv, Replaced
  <2> QED
    BY <2>1, <2>2, Zenon
<1>9. OnlyExecveOrphans'
  <2>1. CASE orphaned
    BY <2>1, Zenon DEF OnlyExecveOrphans
  <2>2. CASE ~orphaned
    <3> SUFFICES ASSUME NEW s \in Task, Alive(s)' PROVE state'[parent'[s]] # "FREED"
      BY Zenon DEF OnlyExecveOrphans
    <3>1. CASE s = c
      BY <1>1, <1>2, <1>3, <1>5, <3>1, Zenon DEF Inv, Types
    <3>2. CASE s # c
      <4>1. parent'[s] = parent[s] /\ parent[s] \in Task /\ Alive(s)
        BY <1>1, <1>2, <1>5, <3>2, Zenon DEF Inv, Types
      <4>2. state[parent[s]] # "FREED"
        BY <2>2, <4>1, Zenon DEF Inv, OnlyExecveOrphans
      <4> QED
        BY <1>1, <1>5, <4>1, <4>2
    <3> QED
      BY <3>1, <3>2, Zenon
  <2> QED
    BY <2>1, <2>2, Zenon
<1> QED
  BY <1>4, <1>6, <1>7, <1>8, <1>9, Zenon DEF Inv

\* t is replaced by a new task c with objects of its own.
LEMMA ExecveStep ==
  ASSUME Constants, Inv, NEW t \in Task, syscallExecve(t, task_list_allocate)
  PROVE  Inv'
<1>0. PICK c \in Task : c = task_list_allocate
  BY AllocateFacts, Zenon DEF syscallExecve
<1>1. c \in Task /\ state[c] = "UNUSED" /\ c # t /\ c # dummyTask /\ t # dummyTask
  BY <1>0, AllocateFacts, Zenon DEF syscallExecve, At, Inv, Types
<1>2. /\ state' = [Wake(t, {"WAITING_VFORK"}) EXCEPT ![c] = "READY"]
      /\ parent' = [parent EXCEPT ![c] = parent[t]]
      /\ info' = info
      /\ utilizedBy' = [k \in Shared |-> [utilizedBy[k] EXCEPT ![c] = 1]]
      /\ noInformParent' = [noInformParent EXCEPT ![t] = TRUE]
      /\ pc' = [pc EXCEPT ![t] = "notify"]
      /\ reaperTask' = reaperTask
  BY <1>0, Zenon DEF syscallExecve, GoTo
<1>3. orphaned' = (orphaned \/ \E s \in Task : Alive(s) /\ parent[s] = t)
  BY Zenon DEF syscallExecve
<1>4. state[t] = "READY" /\ pc[t] = "user" /\ Alive(t)
  BY Zenon DEF syscallExecve, At, Alive
<1>5. /\ \A s \in Task \ {c} : \/ state'[s] = state[s]
                               \/ state[s] \in Waiting /\ state'[s] = "READY"
      /\ state'[c] = "READY"
      /\ state' \in [Task -> States]
  <2>1. {"WAITING_VFORK"} \in SUBSET Waiting
    BY Zenon DEF Waiting
  <2>2. /\ Wake(t, {"WAITING_VFORK"}) \in [Task -> States]
        /\ \A s \in Task : \/ Wake(t, {"WAITING_VFORK"})[s] = state[s]
                           \/ state[s] \in Waiting /\ Wake(t, {"WAITING_VFORK"})[s] = "READY"
    BY <2>1, WakeFacts, Zenon DEF Inv
  <2> DEFINE W == Wake(t, {"WAITING_VFORK"})
  <2>3. state' = [W EXCEPT ![c] = "READY"] /\ W \in [Task -> States]
    BY <1>2, <2>2, Zenon
  <2>4. \A s \in Task : W[s] = state[s] \/ (state[s] \in Waiting /\ W[s] = "READY")
    BY <2>2, Zenon
  <2>5. "READY" \in States
    BY Zenon DEF States
  <2> HIDE DEF W
  <2>6. state' \in [Task -> States] /\ \A s \in Task : state'[s] = IF s = c THEN "READY" ELSE W[s]
    BY <2>3, <2>5, Zenon
  <2> QED
    BY <2>4, <2>6, Zenon
<1>6. \A s \in Task \ {c} : /\ Alive(s)' <=> Alive(s)
                            /\ state'[s] = "UNUSED" <=> state[s] = "UNUSED"
                            /\ state'[s] = "FREED" <=> state[s] = "FREED"
                            /\ state'[s] = "DUMMY" <=> state[s] = "DUMMY"
  BY <1>5, Zenon DEF Alive, Waiting
<1>7. Alive(c)'
  BY <1>5, Zenon DEF Alive
<1>8. Types'
  <2>1. state'[dummyTask] = "DUMMY"
    BY <1>1, <1>6, Zenon DEF Inv, Types, Constants
  <2>2. parent' \in [Task -> Task] /\ info' \in [Task -> [Shared -> Task]]
    BY <1>1, <1>2, Zenon DEF Inv, Types
  <2>3. utilizedBy' \in [Shared -> [Task -> Int]]
    BY <1>1, <1>2 DEF Inv, Types
  <2>4. pc' \in [Task -> Points]
    BY <1>2, Zenon DEF Inv, Types, Points
  <2>5. noInformParent' \in [Task -> BOOLEAN]
    <3>1. noInformParent \in [Task -> BOOLEAN]
      BY Zenon DEF Inv, Types
    <3> QED
      BY <1>2, <3>1, Zenon
  <2>6. orphaned' \in BOOLEAN
    BY <1>3, Zenon
  <2>7. reaperTask' \in Task \cup {NoTask}
    BY <1>2, Zenon DEF Inv, Types
  <2> QED
    BY <1>5, <2>1, <2>2, <2>3, <2>4, <2>5, <2>6, <2>7, Zenon DEF Types
<1>9. Counted'
  <2>1. \A k \in Shared : info[c][k] = c /\ Users(k, c) = {}
    BY <1>1 DEF Inv, Fresh, Users
  <2>2. \A k \in Shared : utilizedBy[k][c] = 0
    BY <1>1, <2>1, FS_EmptySet, Zenon DEF Inv, Counted
  <2>3. \A k \in Shared, o \in Task :
          utilizedBy'[k][o] = IF o = info'[c][k] THEN utilizedBy[k][o] + 1 ELSE utilizedBy[k][o]
    BY <1>1, <1>2, <2>1, <2>2 DEF Inv, Types
  <2>4. /\ \A s \in Task : pc'[s] = "reap" <=> pc[s] = "reap"
        /\ \A s \in Task \ {c} : info'[s] = info[s]
        /\ info' \in [Task -> [Shared -> Task]]
    BY <1>2, <1>4, Zenon DEF Inv, Types
  <2> QED
    BY <1>1, <1>6, <1>7, <2>3, <2>4, NewTaskCounts, Zenon
<1>10. Fresh'
  <2> SUFFICES ASSUME NEW u \in Task, state'[u] = "UNUSED"
               PROVE  /\ pc'[u] = "user"
                      /\ ~noInformParent'[u]
                      /\ \A k \in Shared : info'[u][k] = u
                      /\ \A k \in Shared, s \in Task : Alive(s)' => info'[s][k] # u
    BY Zenon DEF Fresh
  <2>1. u # c /\ u # t /\ state[u] = "UNUSED"
    BY <1>4, <1>5, <1>6, Zenon
  <2>2. /\ pc[u] = "user"
        /\ ~noInformParent[u]
        /\ \A k \in Shared : info[u][k] = u
        /\ \A k \in Shared, s \in Task : Alive(s) => info[s][k] # u
    BY <2>1, Zenon DEF Inv, Fresh
  <2>3. pc'[u] = "user" /\ ~noInformParent'[u]
    BY <1>2, <2>1, <2>2, Zenon DEF Inv, Types
  <2>4. \A k \in Shared : info[c][k] = c
    BY <1>1, Zenon DEF Inv, Fresh
  <2>5. ASSUME NEW k \in Shared, NEW s \in Task, Alive(s)' PROVE info'[s][k] # u
    BY <1>2, <1>6, <2>1, <2>2, <2>4, <2>5, Zenon
  <2> QED
    BY <1>2, <2>2, <2>3, <2>5, Zenon
<1>11. ASSUME ~orphaned'
       PROVE  /\ ~orphaned
              /\ \A s \in Task : parent[s] = t => ~Alive(s)
              /\ parent[t] \in Task /\ parent[t] # t /\ ~noInformParent[parent[t]]
              /\ state[parent[t]] # "FREED"
  <2>1. ~orphaned /\ \A s \in Task : parent[s] = t => ~Alive(s)
    BY <1>3, <1>11, Zenon
  <2>2. parent[t] \in Task /\ parent[t] # t
    BY <1>4, <2>1, Zenon DEF Inv, Types
  <2>3. ~noInformParent[parent[t]] /\ state[parent[t]] # "FREED"
    BY <1>4, <2>1, <2>2, Zenon DEF Inv, Replaced, OnlyExecveOrphans
  <2> QED
    BY <2>1, <2>2, <2>3, Zenon
<1>12. Replaced'
  <2>1. ~noInformParent'[dummyTask]
    BY <1>1, <1>2, Zenon DEF Inv, Types, Replaced, Constants
  <2>2. CASE orphaned'
    BY <2>1, <2>2, Zenon DEF Replaced
  <2>3. CASE ~orphaned'
    <3>1. ASSUME NEW u \in Task, noInformParent'[u]
          PROVE  pc'[u] \in {"notify", "reap"} /\ \A s \in Task : parent'[s] = u => ~Alive(s)'
      <4>1. u # parent[t]
        BY <1>2, <1>11, <2>3, <3>1, Zenon DEF Inv, Types
      <4>2. \A s \in Task : parent[s] = u => ~Alive(s)
        BY <1>2, <1>11, <2>3, <3>1, Zenon DEF Inv, Types, Replaced
      <4>3. pc'[u] \in {"notify", "reap"}
        BY <1>2, <1>11, <2>3, <3>1, Zenon DEF Inv, Types, Replaced
      <4> QED
        BY <1>1, <1>2, <1>6, <4>1, <4>2, <4>3, Zenon DEF Inv, Types
    <3> QED
      BY <2>1, <3>1, Zenon DEF Replaced
  <2> QED
    BY <2>2, <2>3, Zenon
<1>13. OnlyExecveOrphans'
  <2>1. CASE orphaned'
    BY <2>1, Zenon DEF OnlyExecveOrphans
  <2>2. CASE ~orphaned'
    <3> SUFFICES ASSUME NEW s \in Task, Alive(s)' PROVE state'[parent'[s]] # "FREED"
      BY Zenon DEF OnlyExecveOrphans
    <3>1. CASE s = c
      <4>1. parent'[s] = parent[t]
        BY <1>1, <1>2, <3>1, Zenon DEF Inv, Types
      <4> QED
        BY <1>5, <1>6, <1>11, <2>2, <4>1, Zenon
    <3>2. CASE s # c
      <4>1. parent'[s] = parent[s] /\ parent[s] \in Task /\ Alive(s)
        BY <1>1, <1>2, <1>6, <3>2, Zenon DEF Inv, Types
      <4>2. state[parent[s]] # "FREED"
        BY <1>11, <2>2, <4>1, Zenon DEF Inv, OnlyExecveOrphans
      <4> QED
        BY <1>5, <1>6, <4>1, <4>2, Zenon
    <3> QED
      BY <3>1, <3>2, Zenon
  <2> QED
    BY <2>1, <2>2, Zenon
<1> QED
  BY <1>8, <1>9, <1>10, <1>12, <1>13, Zenon DEF Inv

\* t gives up its objects.
LEMMA NotifyStep ==
  ASSUME Constants, Inv, NEW t \in Task, notify(t)
  PROVE  Inv'
<1>1. /\ state' = Wake(t, {"WAITING_VFORK"})
      /\ utilizedBy' = [k \in Shared |-> [utilizedBy[k] EXCEPT ![info[t][k]] = @ - 1]]
      /\ pc' = [pc EXCEPT ![t] = "reap"]
      /\ UNCHANGED <<parent, noInformParent, info, orphaned, reaperTask>>
  BY Zenon DEF notify, GoTo, Discard
<1>2. state[t] = "READY" /\ pc[t] = "notify" /\ Alive(t)
  BY Zenon DEF notify, At, Alive
<1>3. /\ state' \in [Task -> States]
      /\ \A s \in Task : \/ state'[s] = state[s]
                         \/ state[s] \in Waiting /\ state'[s] = "READY"
  <2>1. {"WAITING_VFORK"} \in SUBSET Waiting
    BY Zenon DEF Waiting
  <2> QED
    BY <1>1, <2>1, WakeFacts, Zenon DEF Inv
<1>4. \A s \in Task : /\ Alive(s)' <=> Alive(s)
                      /\ state'[s] = "UNUSED" <=> state[s] = "UNUSED"
                      /\ state'[s] = "FREED" <=> state[s] = "FREED"
                      /\ state'[s] = "DUMMY" <=> state[s] = "DUMMY"
  BY <1>3, Zenon DEF Alive, Waiting
<1>5. Types'
  <2>1. state'[dummyTask] = "DUMMY"
    BY <1>4, Zenon DEF Inv, Types, Constants
  <2>2. pc' \in [Task -> Points]
    BY <1>1, Zenon DEF Inv, Types, Points
  <2>3. utilizedBy' \in [Shared -> [Task -> Int]]
    BY <1>1 DEF Inv, Types
  <2> QED
    BY <1>1, <1>3, <2>1, <2>2, <2>3, Zenon DEF Inv, Types
<1>6. Fresh'
  BY <1>1, <1>2, <1>4 DEF Inv, Fresh, Types
<1>7. Counted'
  <2> SUFFICES ASSUME NEW k \in Shared, NEW o \in Task
               PROVE  utilizedBy'[k][o] = Cardinality(Users(k, o)')
    BY Zenon DEF Counted
  <2>1. IsFiniteSet(Users(k, o)) /\ utilizedBy[k][o] = Cardinality(Users(k, o))
    <3>1. Users(k, o) \subseteq Task
      BY Zenon DEF Users
    <3> QED
      BY <3>1, FS_Subset, Zenon DEF Constants, Inv, Counted
  <2>2. utilizedBy'[k][o] = IF o = info[t][k] THEN utilizedBy[k][o] - 1 ELSE utilizedBy[k][o]
    BY <1>1, Zenon DEF Inv, Types
  <2>3. \A s \in Task : pc'[s] = IF s = t THEN "reap" ELSE pc[s]
    BY <1>1, Zenon DEF Inv, Types
  <2>4. CASE o = info[t][k]
    <3>1. t \in Users(k, o) /\ Users(k, o)' = Users(k, o) \ {t}
      BY <1>1, <1>2, <1>4, <2>3, <2>4 DEF Users
    <3>2. Cardinality(Users(k, o) \ {t}) = Cardinality(Users(k, o)) - 1
      BY <2>1, <3>1, FS_RemoveElement, Zenon
    <3> QED
      BY <2>1, <2>2, <2>4, <3>1, <3>2, Zenon
  <2>5. CASE o # info[t][k]
    <3>1. Users(k, o)' = Users(k, o)
      BY <1>1, <1>2, <1>4, <2>3, <2>5 DEF Users
    <3> QED
      BY <2>1, <2>2, <2>5, <3>1, Zenon
  <2> QED
    BY <2>4, <2>5, Zenon
<1>8. Replaced'
  BY <1>1, <1>4 DEF Inv, Replaced, Types
<1>9. OnlyExecveOrphans'
  BY <1>1, <1>4, Zenon DEF Inv, OnlyExecveOrphans, Types
<1> QED
  BY <1>5, <1>6, <1>7, <1>8, <1>9, Zenon DEF Inv

\* t waits for the reaper, which frees it later.
LEMMA ReaperSteps ==
  ASSUME Constants, Inv,
         \/ \E t \in Task : task_call_reaper(t)
         \/ reap
  PROVE  Inv'
<1>1. ASSUME NEW t \in Task, task_call_reaper(t) PROVE Inv'
  <2>1. /\ state' = [state EXCEPT ![t] = "DEAD"] /\ reaperTask' = t
        /\ pc' = [pc EXCEPT ![t] = "reap"]
        /\ UNCHANGED <<parent, noInformParent, info, utilizedBy, orphaned>>
        /\ state[t] = "READY" /\ pc[t] = "reap"
    BY <1>1, Zenon DEF task_call_reaper, At, GoTo, proc, share, ghost
  <2>2. pc' = pc
    BY <2>1, Zenon DEF Inv, Types
  <2>3. Types'
    BY <2>1, <2>2, Zenon DEF Inv, Types, States, Constants
  <2>4. \A s \in Task : state'[s] = IF s = t THEN "DEAD" ELSE state[s]
    BY <2>1, Zenon DEF Inv, Types
  <2>5. Fresh'
    BY <2>1, <2>2, <2>4 DEF Inv, Fresh, Alive
  <2>6. \A k \in Shared, o \in Task : Users(k, o)' = Users(k, o)
    BY <2>1, <2>2, <2>4 DEF Users, Alive
  <2>7. Counted'
    BY <2>1, <2>6, Zenon DEF Inv, Counted
  <2>8. Replaced'
    BY <2>1, <2>2, <2>4 DEF Inv, Replaced, Alive
  <2>9. OnlyExecveOrphans'
    BY <2>1, <2>4, Zenon DEF Inv, OnlyExecveOrphans, Alive, Types
  <2> QED
    BY <2>3, <2>5, <2>7, <2>8, <2>9, Zenon DEF Inv
<1>2. ASSUME reap PROVE Inv'
  <2>0. PICK t \in Task : t = reaperTask
    BY <1>2, Zenon DEF reap, Inv, Types
  <2>1. /\ state' = [state EXCEPT ![t] = "FREED"] /\ reaperTask' = NoTask
        /\ parent' = task_free_children(t)
        /\ info' = [info EXCEPT ![t] = [k \in Shared |-> t]]
        /\ UNCHANGED <<pc, noInformParent, utilizedBy, orphaned>>
        /\ state[t] = "DEAD"
    BY <1>2, <2>0, Zenon DEF reap
  <2>2. \A s \in Task : parent'[s] = IF ~noInformParent[t] /\ parent[s] = t /\ Alive(s)
                                      THEN dummyTask ELSE parent[s]
    BY <2>1, Zenon DEF task_free_children
  <2>3. Types'
    <3>1. parent' \in [Task -> Task]
      BY <2>1, Zenon DEF task_free_children, Inv, Types, Constants
    <3>2. info' \in [Task -> [Shared -> Task]]
      BY <2>1, Zenon DEF Inv, Types
    <3> QED
      BY <2>1, <3>1, <3>2, Zenon DEF Inv, Types, States, Constants
  <2>4. \A s \in Task : /\ state'[s] = IF s = t THEN "FREED" ELSE state[s]
                        /\ s # t => info'[s] = info[s]
    BY <2>1, Zenon DEF Inv, Types
  <2>5. \A s \in Task : Alive(s)' <=> Alive(s)
    BY <2>1, <2>4, Zenon DEF Alive
  <2>6. ~Alive(t)
    BY <2>1, Zenon DEF Alive
  <2>7. Fresh'
    BY <2>1, <2>4, <2>5, <2>6 DEF Inv, Fresh
  <2>8. \A k \in Shared, o \in Task : Users(k, o)' = Users(k, o)
    BY <2>1, <2>4, <2>5, <2>6, Zenon DEF Users
  <2>9. Counted'
    BY <2>1, <2>8, Zenon DEF Inv, Counted
  <2>10. Replaced'
    BY <2>1, <2>2, <2>5 DEF Inv, Replaced
  <2>11. OnlyExecveOrphans'
    <3>1. CASE orphaned
      BY <2>1, <3>1, Zenon DEF OnlyExecveOrphans
    <3>2. CASE ~orphaned
      <4> SUFFICES ASSUME NEW s \in Task, Alive(s) PROVE state'[parent'[s]] # "FREED"
        BY <2>5, Zenon DEF OnlyExecveOrphans
      <4>1. state[parent[s]] # "FREED" /\ parent[s] \in Task
        BY <3>2, Zenon DEF Inv, OnlyExecveOrphans, Types
      <4>2. noInformParent[t] => parent[s] # t
        BY <3>2, Zenon DEF Inv, Replaced
      <4>3. state[dummyTask] = "DUMMY" /\ dummyTask \in Task
        BY Zenon DEF Inv, Types, Constants
      <4> QED
        BY <2>1, <2>2, <2>4, <4>1, <4>2, <4>3
    <3> QED
      BY <3>1, <3>2, Zenon
  <2> QED
    BY <2>3, <2>7, <2>9, <2>10, <2>11, Zenon DEF Inv
<1> QED
  BY <1>1, <1>2, Zenon

\* The steps of a task that leave users, parents and objects alone.
LEMMA OtherSteps ==
  ASSUME Constants, Inv, NEW t \in Task,
         \/ \E pid \in Pids(t) : syscallWait4(t, pid)
         \/ task_kill(t)
         \/ vfork_sleep(t) \/ vfork_return(t) \/ inform(t) \/ reaper_busy(t)
         \/ look(t) \/ no_hang(t) \/ sleep(t) \/ wake(t) \/ take(t)
  PROVE  Inv'
<1>1. UNCHANGED <<parent, noInformParent, info, utilizedBy, orphaned, reaperTask>>
  BY Zenon
       DEF syscallWait4, task_kill, vfork_sleep, vfork_return, inform, reaper_busy, look, no_hang,
         sleep, wake, take, proc, share, ghost
<1>2. /\ state[t] = "READY"
      /\ \/ pc' = pc
         \/ /\ pc[t] \notin {"notify", "reap"}
            /\ \E p \in Points \ {"reap"} : pc' = [pc EXCEPT ![t] = p]
  BY Zenon
       DEF syscallWait4, task_kill, vfork_sleep, vfork_return, inform, reaper_busy, look, no_hang,
         sleep, wake, take, At, GoTo, Points
<1>3. \/ state' = state
      \/ \E w \in Waiting : state' = [state EXCEPT ![t] = w]
      \/ \E W \in SUBSET Waiting : state' = Wake(t, W)
  <2>1. WaitsFor(t) \in SUBSET Waiting
    BY Zenon DEF WaitsFor, Waiting
  <2> QED
    BY <2>1, Zenon
         DEF syscallWait4, task_kill, vfork_sleep, vfork_return, inform, reaper_busy, look,
         no_hang, sleep, wake, take, proc, Waiting
<1>4. /\ state' \in [Task -> States]
      /\ \A s \in Task : \/ state'[s] = state[s]
                         \/ state[s] \in Waiting \cup {"READY"} /\ state'[s] \in Waiting \cup {"READY"}
  <2>1. CASE state' = state
    BY <2>1, Zenon DEF Inv, Types
  <2>2. CASE \E w \in Waiting : state' = [state EXCEPT ![t] = w]
    BY <1>2, <2>2 DEF Inv, Types, Waiting, States
  <2>3. CASE \E W \in SUBSET Waiting : state' = Wake(t, W)
    BY <2>3, WakeFacts DEF Inv
  <2> QED
    BY <1>3, <2>1, <2>2, <2>3, Zenon
<1>5. /\ pc' \in [Task -> Points]
      /\ \A s \in Task : pc'[s] = "reap" <=> pc[s] = "reap"
      /\ \A s \in Task : state[s] = "UNUSED" => pc'[s] = pc[s]
  <2>1. CASE pc' = pc
    BY <2>1, Zenon DEF Inv, Types
  <2>2. CASE pc[t] \notin {"notify", "reap"} /\ \E p \in Points \ {"reap"} : pc' = [pc EXCEPT ![t] = p]
    <3>1. PICK p \in Points \ {"reap"} : pc' = [pc EXCEPT ![t] = p]
      BY <2>2, Zenon
    <3>2. pc \in [Task -> Points]
      BY Zenon DEF Inv, Types
    <3>3. pc' \in [Task -> Points] /\ \A s \in Task : pc'[s] = IF s = t THEN p ELSE pc[s]
      BY <3>1, <3>2, Zenon
    <3> QED
      BY <1>2, <2>2, <3>3, Zenon
  <2> QED
    BY <1>2, <2>1, <2>2, Zenon
<1>6. orphaned \/ \A s \in Task : noInformParent[s] => pc'[s] \in {"notify", "reap"}
  BY <1>2, Zenon DEF Inv, Types, Replaced
<1>7. reaperTask' \in Task \cup {NoTask}
  BY <1>1, Zenon DEF Inv, Types
<1> QED
  BY <1>1, <1>4, <1>5, <1>6, <1>7, QuietStep, Zenon

\* Every step of Tasks keeps the invariant.
LEMMA StepInv ==
  ASSUME Constants, Inv, [Next]_vars PROVE Inv'
<1>1. CASE UNCHANGED vars
  BY <1>1 DEF vars, proc, share, ghost, Inv, Types, Fresh, Counted, Users, Replaced,
              OnlyExecveOrphans, Alive
<1>2. CASE reap
  BY <1>2, ReaperSteps, Zenon
<1>3. ASSUME NEW t \in Task, Call(t) PROVE Inv'
  <2>1. CASE syscallFork(t, task_list_allocate) \/ syscallClone(t, task_list_allocate)
    BY <2>1, ForkStep, Zenon DEF syscallFork, syscallClone, GoTo, ghost
  <2>2. CASE syscallVfork(t, task_list_allocate)
    BY <2>2, ForkStep, Zenon DEF syscallVfork, GoTo
  <2>3. CASE syscallExecve(t, task_list_allocate)
    BY <2>3, ExecveStep, Zenon
  <2>4. CASE wait4_fails(t)
    BY <1>1, <2>4, Zenon DEF wait4_fails
  <2>5. CASE (\E pid \in Pids(t) : syscallWait4(t, pid)) \/ task_kill(t)
    BY <2>5, OtherSteps, Zenon
  <2> QED
    BY <1>3, <2>1, <2>2, <2>3, <2>4, <2>5, Zenon DEF Call
<1>4. ASSUME NEW t \in Task, Continue(t) PROVE Inv'
  <2>1. CASE notify(t)
    BY <2>1, NotifyStep, Zenon
  <2>2. CASE task_call_reaper(t)
    BY <2>2, ReaperSteps, Zenon
  <2>3. CASE \/ vfork_sleep(t) \/ vfork_return(t) \/ inform(t) \/ reaper_busy(t)
             \/ look(t) \/ no_hang(t) \/ sleep(t) \/ wake(t) \/ take(t)
    BY <2>3, OtherSteps, Zenon
  <2> QED
    BY <1>4, <2>1, <2>2, <2>3, Zenon DEF Continue
<1> QED
  BY <1>1, <1>2, <1>3, <1>4, Zenon DEF Next

\* Inv holds in every reachable state.
LEMMA Invariance ==
  ASSUME Constants PROVE Spec => []Inv
<1>1. Init => Inv
  BY InitInv, Zenon
<1>2. Inv /\ [Next]_vars => Inv'
  BY StepInv, Zenon
<1> QED
  BY <1>1, <1>2, PTL DEF Spec

(***************************************************************************)
(* utilizedBy of an address space or a file table is the number of tasks   *)
(* that use it, for any number of tasks and under any scheduling, so that  *)
(* the last user and no other one frees it (taskInfoPdDiscard).            *)
(***************************************************************************)
THEOREM SharedObjectsCounted ==
  ASSUME Constants PROVE Spec => []SharedUntilLast
<1>1. Inv => SharedUntilLast
  BY Zenon DEF Inv, Counted, Users, SharedUntilLast
<1> QED
  BY <1>1, Invariance, PTL

(***************************************************************************)
(* The parent of a living task was not freed, unless a task with children  *)
(* has called execve (task_free_children skips the children of such a      *)
(* task).                                                                  *)
(***************************************************************************)
THEOREM ParentsOutlive ==
  ASSUME Constants PROVE Spec => []OnlyExecveOrphans
<1>1. Inv => OnlyExecveOrphans
  BY Zenon DEF Inv
<1> QED
  BY <1>1, Invariance, PTL

(***************************************************************************)
(* For any number of tasks wait4 and task_kill hand over every end of a    *)
(* child exactly once, and wait4 never gets to its "FATAL Just fatal!", if *)
(* a system call is left only in hand_control.                             *)
(***************************************************************************)
THEOREM EndsHandedOver ==
  ASSUME Constants, ~Preemptive PROVE Spec => []EachEndOnce
<1>1. ASSUME Inv, Calls PROVE EachEndOnce
  <2>1. utilizedBy \in [Shared -> [Task -> Nat]]
    <3>1. ASSUME NEW k \in Shared, NEW o \in Task PROVE utilizedBy[k][o] \in Nat
      <4>1. Users(k, o) \subseteq Task
        BY Zenon DEF Users
      <4>2. Cardinality(Users(k, o)) \in Nat
        BY <4>1, FS_Subset, FS_CardinalityType, Zenon DEF Constants
      <4> QED
        BY <1>1, <4>2, Zenon DEF Inv, Counted
    <3> QED
      BY <1>1, <3>1, Zenon DEF Inv, Types
  <2>2. ASSUME NEW t \in Task PROVE RecordsOf(t) /\ childrenTerminatedAmnt[t] \in Nat
    <3>1. RecordsOf(t) /\ dsChildTerminated[t] \in Seq(Nat \ {NoPid})
      BY <1>1, TaskFacts, Zenon DEF RecordTypes
    <3> QED
      BY <3>1 DEF RecordsOf
  <2>3. TypeOK
    BY <1>1, <2>1, <2>2, Zenon DEF TypeOK, Inv, Types, Calls, Ids
  <2> QED
    BY <1>1, <2>2, <2>3, Zenon DEF EachEndOnce, RecordsOf, Recorded, PidsIn, Distinct, Calls
<1> QED
  BY <1>1, Invariance, CallsInvariance, PTL
=============================================================================
