----------------------------- MODULE I2cProofs -----------------------------
(***************************************************************************)
(* Proofs about I2c, for any sizes of the FIFOs, lengths of the calls and  *)
(* limits of the counters that I2cAssumption allows:                       *)
(*                                                                         *)
(*   BlockedControllerFreed   a call of the handler that finds the         *)
(*                            controller blocked fails;                    *)
(*   ReportsStayInStep        the bytes a call hands out are its own.      *)
(*                                                                         *)
(* The inductive invariant is Wire: the types, what the phases of the      *)
(* start-up say of the two calls (Phases), what a blocked controller means *)
(* for the handler's call (Blocking), and what the FIFOs hold at every     *)
(* place of a call nothing has disturbed (Streams).                        *)
(***************************************************************************)
EXTENDS I2c, TLAPS

MaxPlace == IF Wlen > Rlen THEN Wlen ELSE Rlen

MaxAttempt == IF Dumps > RETRY_MAX THEN Dumps ELSE RETRY_MAX

Pcs == {"write", "read", "drain", "rx", "do_write", "do_read", "source", "do_rx",
        "idle", "clear", "done"}

PhaseNames == {"flush", "descriptor", "restart", "power", "reset", "sentinel", "mode",
               "ready", "sleep", "dump", "finished", "failed"}

\* Phases of the start-up in which the main program is in no call.
Between == {"flush", "restart", "ready", "sleep", "finished", "failed"}

CallRecords ==
    [pc : Pcs, i : 1 .. MaxPlace, timeout : 0 .. (CounterRange - 1), result : -1 .. Rlen,
     send : BOOLEAN, late : BOOLEAN, blocked : BOOLEAN, said : BOOLEAN]

Fifos ==
    /\ tx \in Seq(Bytes \cup {Write}) /\ Len(tx) <= TxDepth
    /\ rx \in Seq(Bytes) /\ Len(rx) <= RxDepth

Flags ==
    /\ enabled \in BOOLEAN /\ abrt \in BOOLEAN /\ in_irq \in BOOLEAN
    /\ hidI2cActive \in BOOLEAN /\ clean \in BOOLEAN

\* A call is at a byte it has to write or to read.
InRange(k) ==
    /\ k.pc \in {"write", "do_write"} => k.i <= Wlen
    /\ k.pc \in {"read", "do_read", "rx", "do_rx"} => k.i <= Rlen

Locals ==
    /\ call \in [Contexts -> CallRecords]
    /\ \A c \in Contexts : InRange(call[c])

Steps == phase \in PhaseNames /\ attempt \in 1 .. MaxAttempt

Types == Fifos /\ Flags /\ Locals /\ Steps

(***************************************************************************)
(* The timer interrupt polls only once the start-up is over; the main      *)
(* program is in a call only in a phase that makes one; an attempt is one  *)
(* of those its phase allows.                                              *)
(***************************************************************************)
Scheduled ==
    /\ hidI2cActive => phase \in {"sleep", "dump", "finished"}
    /\ phase = "ready" => attempt = 1
    /\ phase \in {"sleep", "dump"} => attempt <= Dumps
    /\ phase \notin {"sleep", "dump"} => attempt <= RETRY_MAX

Phases ==
    /\ Scheduled
    /\ in_irq => hidI2cActive
    /\ ~ in_irq => call["irq"] = Idle
    /\ phase \in Between => call["main"].pc = "idle"

(***************************************************************************)
(* While the handler's call has not cleared the abort it found, the        *)
(* controller stays blocked and takes no command, so a byte in the RX FIFO *)
(* was there before the wait for it began, and that wait has not counted.  *)
(***************************************************************************)
BlockedAt(k) ==
    /\ k.pc \notin {"clear", "done"} => abrt
    /\ k.pc = "rx" /\ rx # << >> => k.timeout = RxTries
    /\ k.pc = "do_rx" => k.timeout # 0
    /\ k.pc \in {"clear", "done"} => k.result = -1

Blocking ==
    /\ abrt => tx = << >>
    /\ call["irq"].blocked => BlockedAt(call["irq"])

(***************************************************************************)
(* The FIFOs t and r hold w writes and then the bytes lo to hi of c, in    *)
(* order, part of them still as commands.                                  *)
(***************************************************************************)
Stream(t, r, c, lo, hi) ==
    \E w \in 0 .. Len(t) :
        /\ w > 0 => r = << >>
        /\ \A j \in 1 .. w : t[j] = Write
        /\ \A j \in w + 1 .. Len(t) : t[j] = Byte(c, lo + Len(r) + j - w - 1)
        /\ \A j \in 1 .. Len(r) : r[j] = Byte(c, lo + j - 1)
        /\ lo + Len(r) + Len(t) - w = hi + 1

\* What the FIFOs t and r hold at each place of c's call k.
Own(c, k, t, r) ==
    /\ k.pc \in {"write", "do_write", "drain"} => Stream(t, r, c, 1, 0)
    /\ k.pc \in {"read", "do_read"} => Stream(t, r, c, 1, k.i - 1)
    /\ k.pc \in {"rx", "do_rx"} => Stream(t, r, c, k.i, Rlen)
    /\ k.pc \in {"source", "clear"} => t = << >> /\ r = << >>
    /\ k.pc \in {"do_write", "do_read", "do_rx"} => k.timeout # 0
    /\ k.pc \in {"do_write", "do_read"} => Len(t) < TxDepth
    /\ k.pc = "do_rx" => r # << >>

Streams ==
    clean =>
        /\ enabled /\ ~ abrt
        /\ in_irq => call["main"].pc \in {"idle", "done"}
        /\ Quiet => tx = << >> /\ (phase # "flush" => rx = << >>)
        /\ \A c \in Contexts : Own(c, call[c], tx, rx)

Wire == Types /\ Phases /\ Blocking /\ Streams

-----------------------------------------------------------------------------
(***************************************************************************)
(* The constants.                                                          *)
(***************************************************************************)
LEMMA ConstantFacts ==
    /\ TxTries \in Nat /\ TxTries > 0 /\ RxTries \in Nat /\ RxTries > 0
    /\ CounterRange \in Nat /\ TxTries < CounterRange /\ RxTries < CounterRange
    /\ TxDepth \in Nat /\ TxDepth > 0 /\ RxDepth \in Nat
    /\ Wlen \in Nat /\ Wlen > 0 /\ Rlen \in Nat /\ Rlen > 0 /\ Rlen <= RxDepth
    /\ RETRY_MAX \in Nat /\ RETRY_MAX > 0 /\ Dumps \in Nat /\ Dumps > 0
    /\ MaxPlace \in Nat /\ Wlen <= MaxPlace /\ Rlen <= MaxPlace
    /\ MaxAttempt \in Nat /\ Dumps <= MaxAttempt /\ RETRY_MAX <= MaxAttempt
BY I2cAssumption DEF MaxPlace, MaxAttempt

(***************************************************************************)
(* timeout-- stays in the range of the counter: a counter at 0 wraps round *)
(* to a value that is not 0.                                               *)
(***************************************************************************)
LEMMA CountDown ==
    ASSUME NEW n \in 0 .. (CounterRange - 1)
    PROVE  /\ (n - 1) % CounterRange \in 0 .. (CounterRange - 1)
           /\ n = 0 => (n - 1) % CounterRange # 0
<1>1. CASE n = 0
  <2>1. (n - 1) % CounterRange = CounterRange - 1
    BY <1>1, ConstantFacts, SMT
  <2> QED  BY <1>1, <2>1, ConstantFacts
<1>2. CASE n # 0
  <2>1. (n - 1) % CounterRange = n - 1
    BY <1>2, ConstantFacts, SMT
  <2> QED  BY <1>2, <2>1, ConstantFacts
<1> QED  BY <1>1, <1>2

(***************************************************************************)
(* Where a wait leads, and the counter it starts with.                     *)
(***************************************************************************)
LEMMA GoFacts ==
    /\ Go("write") = "do_write" /\ Go("read") = "do_read"
    /\ Go("drain") = "source" /\ Go("rx") = "do_rx"
    /\ Polls = {"write", "read", "drain", "rx"}
    /\ {Go(p) : p \in Polls} = {"do_write", "do_read", "source", "do_rx"}
<1>1. /\ Go("write") = "do_write" /\ Go("read") = "do_read"
      /\ Go("drain") = "source" /\ Go("rx") = "do_rx"
  BY Zenon DEF Go
<1> QED  BY <1>1 DEF Polls

\* A loop starts with a counter that is not 0.
LEMMA TriesFacts ==
    ASSUME NEW pc
    PROVE  /\ Tries(pc) \in 0 .. (CounterRange - 1) /\ Tries(pc) # 0
           /\ pc = "rx" => Tries(pc) = RxTries
BY ConstantFacts DEF Tries

(***************************************************************************)
(* A byte of a call is neither a write nor a byte nobody asked for.        *)
(***************************************************************************)
LEMMA ByteFacts ==
    ASSUME NEW c \in Contexts, NEW i \in 1 .. Rlen
    PROVE  Byte(c, i) \in Bytes /\ Byte(c, i) # Write
<1>1. Byte(c, i) \in Bytes
  BY DEF Bytes
<1>2. c # "write"
  BY Zenon DEF Contexts
<1> QED  BY <1>1, <1>2 DEF Byte, Write

\* A command that reads is not a write.
LEMMA NotWrite ==
    ASSUME NEW c \in Contexts, NEW i
    PROVE  Byte(c, i) # Write
<1>2. c # "write"
  BY Zenon DEF Contexts
<1> QED  BY <1>2 DEF Byte, Write

-----------------------------------------------------------------------------
(***************************************************************************)
(* What the FIFOs hold after a command, a transfer and a fetch.            *)
(***************************************************************************)
LEMMA StreamEmpty ==
    ASSUME NEW c
    PROVE  Stream(<< >>, << >>, c, 1, 0)
BY DEF Stream

(***************************************************************************)
(* A stream without bytes leaves the RX FIFO empty.                        *)
(***************************************************************************)
LEMMA StreamOfNone ==
    ASSUME NEW t \in Seq(Bytes \cup {Write}), NEW r \in Seq(Bytes), NEW c, Stream(t, r, c, 1, 0)
    PROVE  r = << >>
<1>1. PICK w \in 0 .. Len(t) : 1 + Len(r) + Len(t) - w = 0 + 1
  BY Zenon DEF Stream
<1>2. Len(t) \in Nat /\ Len(r) \in Nat
  OBVIOUS
<1>3. Len(r) = 0
  BY <1>1, <1>2
<1> QED  BY <1>3

(***************************************************************************)
(* A write queued behind writes.                                           *)
(***************************************************************************)
LEMMA StreamWrite ==
    ASSUME NEW t \in Seq(Bytes \cup {Write}), NEW r \in Seq(Bytes), NEW c, Stream(t, r, c, 1, 0)
    PROVE  Stream(Append(t, Write), r, c, 1, 0)
<1>1. PICK w \in 0 .. Len(t) :
         /\ \A j \in 1 .. w : t[j] = Write
         /\ 1 + Len(r) + Len(t) - w = 0 + 1
  BY Zenon DEF Stream
<1>2. r = << >>
  BY StreamOfNone, Zenon
<1>3. w = Len(t)
  BY <1>1, <1>2
<1>4. PICK s : s = Append(t, Write)
  BY Zenon
<1>5. /\ Len(s) = Len(t) + 1
      /\ \A j \in 1 .. Len(t) : s[j] = t[j]
      /\ s[Len(t) + 1] = Write
  BY <1>4
<1>6. \A j \in 1 .. Len(s) : s[j] = Write
  BY <1>1, <1>3, <1>5
<1>7. Len(s) \in 0 .. Len(s) /\ 1 + Len(r) + Len(s) - Len(s) = 0 + 1
  BY <1>2, <1>5
<1>8. \A j \in Len(s) + 1 .. Len(s) : s[j] = Byte(c, 1 + Len(r) + j - Len(s) - 1)
  BY <1>5
<1>9. \A j \in 1 .. Len(r) : r[j] = Byte(c, 1 + j - 1)
  BY <1>2
<1> QED  BY <1>2, <1>4, <1>6, <1>7, <1>8, <1>9, Zenon DEF Stream

(***************************************************************************)
(* The command that asks for byte i, queued behind those before it.        *)
(***************************************************************************)
LEMMA StreamRead ==
    ASSUME NEW t \in Seq(Bytes \cup {Write}), NEW r \in Seq(Bytes), NEW c, NEW i \in Nat,
           Byte(c, i) \in Bytes, Stream(t, r, c, 1, i - 1)
    PROVE  Stream(Append(t, Byte(c, i)), r, c, 1, i)
<1>1. PICK w \in 0 .. Len(t) :
         /\ w > 0 => r = << >>
         /\ \A j \in 1 .. w : t[j] = Write
         /\ \A j \in w + 1 .. Len(t) : t[j] = Byte(c, 1 + Len(r) + j - w - 1)
         /\ \A j \in 1 .. Len(r) : r[j] = Byte(c, 1 + j - 1)
         /\ 1 + Len(r) + Len(t) - w = (i - 1) + 1
  BY Zenon DEF Stream
<1>2. Len(t) \in Nat /\ Len(r) \in Nat
  OBVIOUS
<1>3. PICK s : s = Append(t, Byte(c, i))
  BY Zenon
<1>4. /\ Len(s) = Len(t) + 1
      /\ \A j \in 1 .. Len(t) : s[j] = t[j]
      /\ s[Len(t) + 1] = Byte(c, i)
  BY <1>3
<1>0. w \in Nat /\ w <= Len(t) /\ Len(r) + Len(t) - w = i - 1
  BY ONLY <1>1, <1>2, i \in Nat
<1>5. \A j \in 1 .. w : s[j] = Write
  <2>1. \A j \in 1 .. w : j \in 1 .. Len(t)
    BY <1>0, <1>2
  <2> QED  BY <1>1, <1>4, <2>1, Zenon
<1>6. \A j \in w + 1 .. Len(s) : s[j] = Byte(c, 1 + Len(r) + j - w - 1)
  <2>1. SUFFICES ASSUME NEW j \in w + 1 .. Len(s)
                 PROVE  s[j] = Byte(c, 1 + Len(r) + j - w - 1)
    BY Zenon
  <2>2. CASE j \in w + 1 .. Len(t)
    BY <1>1, <1>2, <1>4, <2>2
  <2>3. CASE j = Len(t) + 1
    <3>1. 1 + Len(r) + j - w - 1 = i
      BY <1>0, <1>2, <2>3
    <3> QED  BY <1>4, <2>3, <3>1
  <2> QED  BY <1>2, <1>4, <2>2, <2>3
<1>7. w \in 0 .. Len(s) /\ 1 + Len(r) + Len(s) - w = i + 1
  BY <1>0, <1>2, <1>4
<1> QED  BY <1>1, <1>3, <1>5, <1>6, <1>7, Zenon DEF Stream

(***************************************************************************)
(* A transfer moves the stream on: a write is gone, a byte finds room.     *)
(***************************************************************************)
LEMMA StreamTransfer ==
    ASSUME NEW t \in Seq(Bytes \cup {Write}), NEW r \in Seq(Bytes), t # << >>,
           NEW c \in Contexts, NEW lo \in Nat, NEW hi \in Int, lo >= 1, hi <= Rlen,
           Stream(t, r, c, lo, hi)
    PROVE  Stream(Tail(t), IF Head(t) = Write \/ Len(r) = RxDepth THEN r
                           ELSE Append(r, Head(t)), c, lo, hi)
<1>1. PICK w \in 0 .. Len(t) :
         /\ w > 0 => r = << >>
         /\ \A j \in 1 .. w : t[j] = Write
         /\ \A j \in w + 1 .. Len(t) : t[j] = Byte(c, lo + Len(r) + j - w - 1)
         /\ \A j \in 1 .. Len(r) : r[j] = Byte(c, lo + j - 1)
         /\ lo + Len(r) + Len(t) - w = hi + 1
  BY Zenon DEF Stream
<1>2. Len(t) \in Nat /\ Len(r) \in Nat /\ Len(t) > 0
  OBVIOUS
<1>3. PICK s : s = Tail(t)
  BY Zenon
<1>4. /\ Len(s) = Len(t) - 1
      /\ \A j \in 1 .. Len(s) : s[j] = t[j + 1]
      /\ Head(t) = t[1]
  BY <1>3
<1>5. CASE w > 0
  <2>1. Head(t) = Write /\ r = << >>
    BY <1>1, <1>4, <1>5
  <2>2. \A j \in 1 .. w - 1 : s[j] = Write
    <3>1. \A j \in 1 .. w - 1 : j \in 1 .. Len(s) /\ j + 1 \in 1 .. w
      BY <1>2, <1>4
    <3> QED  BY <1>1, <1>4, <3>1, Zenon
  <2>3. \A j \in (w - 1) + 1 .. Len(s) : s[j] = Byte(c, lo + Len(r) + j - (w - 1) - 1)
    <3>1. SUFFICES ASSUME NEW j \in (w - 1) + 1 .. Len(s)
                   PROVE  s[j] = Byte(c, lo + Len(r) + j - (w - 1) - 1)
      BY Zenon
    <3>2. j + 1 \in w + 1 .. Len(t) /\ j \in 1 .. Len(s)
      BY <1>2, <1>4, <1>5
    <3>3. lo + Len(r) + (j + 1) - w - 1 = lo + Len(r) + j - (w - 1) - 1
      BY <1>2
    <3>4. t[j + 1] = Byte(c, lo + Len(r) + (j + 1) - w - 1)
      BY <1>1, <3>2, Zenon
    <3> QED  BY <1>4, <3>2, <3>3, <3>4
  <2>4. w - 1 \in 0 .. Len(s) /\ lo + Len(r) + Len(s) - (w - 1) = hi + 1
    BY <1>1, <1>2, <1>4, <1>5
  <2>5. Stream(s, r, c, lo, hi)
    BY <1>1, <2>1, <2>2, <2>3, <2>4, Zenon DEF Stream
  <2> QED  BY <1>3, <2>1, <2>5
<1>6. CASE w = 0
  <2>1. Head(t) = Byte(c, lo + Len(r)) /\ Head(t) # Write
    <3>1. 1 \in w + 1 .. Len(t) /\ lo + Len(r) + 1 - w - 1 = lo + Len(r)
      BY <1>2, <1>6
    <3>2. t[1] = Byte(c, lo + Len(r) + 1 - w - 1)
      BY <1>1, <3>1, Zenon
    <3> QED  BY <1>4, <3>1, <3>2, NotWrite
  <2>2. Len(r) # RxDepth
    BY <1>1, <1>2, <1>6, ConstantFacts
  <2>3. PICK u : u = Append(r, Head(t))
    BY Zenon
  <2>4. Head(t) \in Bytes
    BY <2>1
  <2>5. /\ Len(u) = Len(r) + 1
        /\ \A j \in 1 .. Len(r) : u[j] = r[j]
        /\ u[Len(r) + 1] = Byte(c, lo + Len(r))
    BY <2>1, <2>3, <2>4
  <2>6. \A j \in 1 .. Len(u) : u[j] = Byte(c, lo + j - 1)
    <3>1. SUFFICES ASSUME NEW j \in 1 .. Len(u)
                   PROVE  u[j] = Byte(c, lo + j - 1)
      BY Zenon
    <3>2. CASE j \in 1 .. Len(r)
      BY <1>1, <2>5, <3>2, Zenon
    <3>3. CASE j = Len(r) + 1
      <4>1. lo + j - 1 = lo + Len(r)
        BY <1>2, <3>3
      <4> QED  BY <2>5, <3>3, <4>1
    <3> QED  BY <1>2, <2>5, <3>2, <3>3
  <2>7. \A j \in 0 + 1 .. Len(s) : s[j] = Byte(c, lo + Len(u) + j - 0 - 1)
    <3>1. SUFFICES ASSUME NEW j \in 0 + 1 .. Len(s)
                   PROVE  s[j] = Byte(c, lo + Len(u) + j - 0 - 1)
      BY Zenon
    <3>2. j + 1 \in w + 1 .. Len(t) /\ j \in 1 .. Len(s)
      BY <1>2, <1>4, <1>6
    <3>3. lo + Len(r) + (j + 1) - w - 1 = lo + Len(u) + j - 0 - 1
      BY <1>2, <1>6, <2>5
    <3>4. t[j + 1] = Byte(c, lo + Len(r) + (j + 1) - w - 1)
      BY <1>1, <3>2, Zenon
    <3> QED  BY <1>4, <3>2, <3>3, <3>4
  <2>8. 0 \in 0 .. Len(s) /\ lo + Len(u) + Len(s) - 0 = hi + 1
    <3>1. lo + Len(r) + Len(t) = hi + 1
      BY <1>1, <1>2, <1>6
    <3>2. Len(s) = Len(t) - 1 /\ Len(u) = Len(r) + 1
      BY <1>4, <2>5, Zenon
    <3> QED  BY ONLY <1>2, <3>1, <3>2, lo \in Nat, hi \in Int
  <2>9. ~ (0 > 0) /\ \A j \in 1 .. 0 : s[j] = Write
    OBVIOUS
  <2>10. Stream(s, u, c, lo, hi)
    BY <2>6, <2>7, <2>8, <2>9, Zenon DEF Stream
  <2> QED  BY <1>3, <2>1, <2>2, <2>3, <2>10
<1> QED  BY <1>5, <1>6

(***************************************************************************)
(* The byte fetched is the first of the stream; after the last one both    *)
(* FIFOs are empty.                                                        *)
(***************************************************************************)
LEMMA StreamFirst ==
    ASSUME NEW t, NEW r \in Seq(Bytes), r # << >>, NEW c, NEW lo \in Nat,
           Stream(t, r, c, lo, Rlen)
    PROVE  Head(r) = Byte(c, lo)
<1>1. \A j \in 1 .. Len(r) : r[j] = Byte(c, lo + j - 1)
  BY Zenon DEF Stream
<1>2. 1 \in 1 .. Len(r) /\ lo + 1 - 1 = lo /\ Head(r) = r[1]
  OBVIOUS
<1>3. r[1] = Byte(c, lo + 1 - 1)
  BY <1>1, <1>2, Zenon
<1> QED  BY <1>2, <1>3, Zenon

\* What is left of the stream once its first byte is fetched.
LEMMA StreamFetch ==
    ASSUME NEW t \in Seq(Bytes \cup {Write}), NEW r \in Seq(Bytes), r # << >>,
           NEW c, NEW lo \in Nat, Stream(t, r, c, lo, Rlen)
    PROVE  /\ Stream(t, Tail(r), c, lo + 1, Rlen)
           /\ lo = Rlen => t = << >> /\ Tail(r) = << >>
<1>1. PICK w \in 0 .. Len(t) :
         /\ w > 0 => r = << >>
         /\ \A j \in 1 .. w : t[j] = Write
         /\ \A j \in w + 1 .. Len(t) : t[j] = Byte(c, lo + Len(r) + j - w - 1)
         /\ \A j \in 1 .. Len(r) : r[j] = Byte(c, lo + j - 1)
         /\ lo + Len(r) + Len(t) - w = Rlen + 1
  BY Zenon DEF Stream
<1>2. Len(t) \in Nat /\ Len(r) \in Nat /\ Len(r) > 0
  OBVIOUS
<1>3. w = 0
  BY <1>1
<1>5. PICK u : u = Tail(r)
  BY Zenon
<1>6. Len(u) = Len(r) - 1 /\ \A j \in 1 .. Len(u) : u[j] = r[j + 1]
  BY <1>5
<1>7. \A j \in 1 .. Len(u) : u[j] = Byte(c, (lo + 1) + j - 1)
  <2>1. SUFFICES ASSUME NEW j \in 1 .. Len(u)
                 PROVE  u[j] = Byte(c, (lo + 1) + j - 1)
    BY Zenon
  <2>2. j + 1 \in 1 .. Len(r) /\ lo + (j + 1) - 1 = (lo + 1) + j - 1
    BY <1>2, <1>6
  <2>3. r[j + 1] = Byte(c, lo + (j + 1) - 1)
    BY <1>1, <2>2, Zenon
  <2> QED  BY <1>6, <2>2, <2>3
<1>8. \A j \in w + 1 .. Len(t) : t[j] = Byte(c, (lo + 1) + Len(u) + j - w - 1)
  <2>1. SUFFICES ASSUME NEW j \in w + 1 .. Len(t)
                 PROVE  t[j] = Byte(c, (lo + 1) + Len(u) + j - w - 1)
    BY Zenon
  <2>2. lo + Len(r) + j - w - 1 = (lo + 1) + Len(u) + j - w - 1
    BY <1>2, <1>6
  <2> QED  BY <1>1, <2>2
<1>9. (lo + 1) + Len(u) + Len(t) - w = Rlen + 1 /\ ~ (w > 0)
  BY <1>1, <1>2, <1>3, <1>6, ConstantFacts
<1>10. Stream(t, u, c, lo + 1, Rlen)
  BY <1>1, <1>7, <1>8, <1>9, Zenon DEF Stream
<1>11. ASSUME lo = Rlen PROVE t = << >> /\ Tail(r) = << >>
  <2>1. Len(r) = 1 /\ Len(t) = 0
    <3>1. lo + Len(r) + Len(t) = Rlen + 1
      BY <1>1, <1>2, <1>3
    <3>2. Rlen \in Nat
      BY ConstantFacts, Zenon
    <3>3. \A a, b, n \in Nat : a > 0 /\ n + a + b = n + 1 => a = 1 /\ b = 0
      OBVIOUS
    <3> QED  BY <1>2, <1>11, <3>1, <3>2, <3>3, Zenon
  <2>2. t = << >>
    BY <2>1
  <2>3. Len(u) = 0 /\ u \in Seq(Bytes)
    BY <1>5, <1>6, <2>1
  <2> QED  BY <1>5, <2>2, <2>3
<1> QED  BY <1>5, <1>10, <1>11

-----------------------------------------------------------------------------
(***************************************************************************)
(* The records of the calls: between calls, at the beginning of a loop,    *)
(* and after a step of context c, which leaves the other context's alone.  *)
(***************************************************************************)
LEMMA IdleFacts ==
    /\ Idle \in CallRecords /\ Idle.pc = "idle" /\ ~ Idle.blocked
    /\ \A send, blocked \in BOOLEAN :
          LET k == [Idle EXCEPT !.send = send, !.blocked = blocked]
          IN  k \in CallRecords /\ k.blocked = blocked
<1>1. 1 \in 1 .. MaxPlace /\ 0 \in 0 .. (CounterRange - 1) /\ 0 \in -1 .. Rlen
  BY ConstantFacts
<1>2. "idle" \in Pcs
  BY Zenon DEF Pcs
<1>3. Idle \in CallRecords
  BY <1>1, <1>2, Zenon DEF Idle, CallRecords
<1>4. Idle.pc = "idle" /\ ~ Idle.blocked
  BY Zenon DEF Idle
<1>5. ASSUME NEW send \in BOOLEAN, NEW blocked \in BOOLEAN
      PROVE  LET k == [Idle EXCEPT !.send = send, !.blocked = blocked]
             IN  k \in CallRecords /\ k.blocked = blocked
  BY <1>3, Zenon DEF CallRecords
<1> QED  BY <1>3, <1>4, <1>5, Zenon

\* Entering a loop: the counter is full, the rest of the call is kept.
LEMMA EnterFacts ==
    ASSUME NEW k \in CallRecords, NEW pc \in Pcs, NEW i \in 1 .. MaxPlace
    PROVE  /\ Enter(k, pc, i) \in CallRecords
           /\ Enter(k, pc, i).pc = pc /\ Enter(k, pc, i).i = i
           /\ Enter(k, pc, i).timeout = Tries(pc) /\ Enter(k, pc, i).blocked = k.blocked
<1>1. Tries(pc) \in 0 .. (CounterRange - 1)
  BY TriesFacts, Zenon
<1> QED  BY <1>1 DEF Enter, CallRecords

\* What a step of context c leaves alone.
Alone(c) ==
    /\ \A d \in Contexts \ {c} : call'[d] = call[d]
    /\ call' \in [Contexts -> CallRecords]

\* A step that replaces the record of one context.
LEMMA CallFacts ==
    ASSUME Locals, NEW c \in Contexts, NEW k \in CallRecords, call' = [call EXCEPT ![c] = k]
    PROVE  Alone(c) /\ call'[c] = k
BY Zenon DEF Locals, Alone

\* A call begins at its first write, and knows whether it was blocked.
LEMMA BeginFacts ==
    ASSUME Types, NEW c \in Contexts, NEW send \in BOOLEAN, Begin(c, send)
    PROVE  /\ Alone(c)
           /\ call'[c].pc = "write" /\ call'[c].i = 1 /\ call'[c].blocked = abrt
<1>1. PICK k : k = [Idle EXCEPT !.send = send, !.blocked = abrt]
  BY Zenon
<1>2. k \in CallRecords /\ k.blocked = abrt
  BY <1>1, IdleFacts, Zenon DEF Types, Flags
<1>3. "write" \in Pcs /\ 1 \in 1 .. MaxPlace
  BY ConstantFacts DEF Pcs
<1>4. call' = [call EXCEPT ![c] = Enter(k, "write", 1)]
  BY <1>1, Zenon DEF Begin
<1>5. PICK e : e = Enter(k, "write", 1)
  BY Zenon
<1>6. e \in CallRecords /\ e.pc = "write" /\ e.i = 1 /\ e.blocked = abrt
  <2>1. /\ Enter(k, "write", 1) \in CallRecords /\ Enter(k, "write", 1).pc = "write"
        /\ Enter(k, "write", 1).i = 1 /\ Enter(k, "write", 1).blocked = k.blocked
    BY <1>2, <1>3, EnterFacts
  <2> QED  BY <1>2, <1>5, <2>1, Zenon
<1>7. Alone(c) /\ call'[c] = e
  BY <1>4, <1>5, <1>6, CallFacts, Zenon DEF Types
<1> QED  BY <1>6, <1>7, Zenon

\* A call that is over leaves no trace in the record.
LEMMA EndedFacts ==
    ASSUME Types, NEW c \in Contexts, call' = Ended(c)
    PROVE  Alone(c) /\ call'[c] = Idle
BY IdleFacts, CallFacts, Zenon DEF Ended, Types

(***************************************************************************)
(* A turn of a wait (the loop conditions of i2cSend and i2cWriteRead).     *)
(***************************************************************************)
LEMMA WaitFacts ==
    ASSUME Types, NEW c \in Contexts, wait(c)
    PROVE  /\ Runs(c) /\ call[c].pc \in {"write", "read", "drain", "rx"}
           /\ UNCHANGED <<tx, rx, enabled, abrt, in_irq, phase, attempt, hidI2cActive>>
           /\ Alone(c)
           /\ call'[c].pc \in {call[c].pc, Go(call[c].pc)}
           /\ call'[c].i = call[c].i /\ call'[c].blocked = call[c].blocked
           /\ Ready(call[c].pc) => /\ call'[c].timeout = call[c].timeout
                                   /\ call'[c].pc = Go(call[c].pc)
           /\ call'[c].pc = Go(call[c].pc) /\ ~ Ready(call[c].pc) => call'[c].timeout # 0
           /\ clean' \in BOOLEAN /\ (clean' => clean)
           /\ clean' /\ call'[c].pc = Go(call[c].pc) =>
                  Ready(call[c].pc) /\ call'[c].timeout # 0
<1>1. /\ Runs(c) /\ call[c].pc \in Polls
      /\ UNCHANGED <<fifos, enabled, abrt, in_irq, program>>
  BY Zenon DEF wait
<1>2. PICK k : k = call[c]
  BY Zenon
<1>3. PICK n : n = IF Ready(k.pc) THEN k.timeout ELSE (k.timeout - 1) % CounterRange
  BY Zenon
<1>4. PICK e : e = [k EXCEPT !.pc = IF Ready(k.pc) \/ (~ Ready(k.pc) /\ k.timeout = 0)
                                    THEN Go(k.pc) ELSE k.pc,
                             !.timeout = n,
                             !.late = @ \/ ((~ Ready(k.pc) /\ k.timeout = 0) /\ k.pc # "drain")]
  BY Zenon
<1>5. /\ call' = [call EXCEPT ![c] = e]
      /\ clean' = (clean /\ ~ (~ Ready(k.pc) /\ k.timeout = 0)
                         /\ ~ (Ready(k.pc) /\ k.timeout = 0))
  BY <1>2, <1>3, <1>4, Zenon DEF wait
<1>6. k \in CallRecords /\ k.timeout \in 0 .. (CounterRange - 1)
  BY <1>2, Zenon DEF Types, Locals, CallRecords
<1>7. /\ n \in 0 .. (CounterRange - 1)
      /\ Ready(k.pc) => n = k.timeout
      /\ ~ Ready(k.pc) /\ k.timeout = 0 => n # 0
  <2>1. PICK p : p = (k.timeout - 1) % CounterRange
    BY Zenon
  <2>2. p \in 0 .. (CounterRange - 1) /\ (k.timeout = 0 => p # 0)
    BY <1>6, <2>1, CountDown, Zenon
  <2> QED  BY <1>3, <1>6, <2>1, <2>2
<1>8. k.pc \in {"write", "read", "drain", "rx"} /\ Go(k.pc) \in Pcs /\ Go(k.pc) # k.pc
  <2>1. k.pc \in {"write", "read", "drain", "rx"}
    BY <1>1, <1>2, GoFacts, Zenon
  <2> QED  BY <2>1, GoFacts DEF Pcs
<1>9. e \in CallRecords
  BY <1>4, <1>6, <1>7, <1>8 DEF CallRecords
<1>10. /\ e.i = k.i /\ e.blocked = k.blocked /\ e.timeout = n
       /\ e.pc = IF Ready(k.pc) \/ (~ Ready(k.pc) /\ k.timeout = 0) THEN Go(k.pc) ELSE k.pc
  BY <1>4, <1>6, Zenon DEF CallRecords
<1>11. Alone(c) /\ call'[c] = e
  BY <1>5, <1>9, CallFacts, Zenon DEF Types
<1>12. clean' \in BOOLEAN /\ (clean' => clean) /\ (clean' => k.timeout # 0)
  BY <1>5, Zenon DEF Types, Flags
<1>13. e.pc \in {k.pc, Go(k.pc)} /\ (Ready(k.pc) => e.pc = Go(k.pc) /\ e.timeout = k.timeout)
  BY <1>7, <1>10, Zenon
<1>14. e.pc = Go(k.pc) /\ ~ Ready(k.pc) => e.timeout # 0 /\ k.timeout = 0
  BY <1>7, <1>8, <1>10, Zenon
<1>15. clean' /\ e.pc = Go(k.pc) => Ready(k.pc) /\ e.timeout # 0
  BY <1>12, <1>13, <1>14, Zenon
<1>16. UNCHANGED <<tx, rx, enabled, abrt, in_irq, phase, attempt, hidI2cActive>>
  BY <1>1, Zenon DEF fifos, program
<1> QED  BY <1>1, <1>2, <1>8, <1>10, <1>11, <1>12, <1>13, <1>14, <1>15, <1>16, Zenon


(***************************************************************************)
(* if (!timeout) return: a write or a read gives up with -1, a fetch with  *)
(* the number of bytes it has.                                             *)
(***************************************************************************)
LEMMA GiveUpFacts ==
    ASSUME Types, NEW c \in Contexts, give_up(c)
    PROVE  /\ Runs(c) /\ call[c].pc \in {"do_write", "do_read", "do_rx"}
           /\ call[c].timeout = 0
           /\ UNCHANGED <<tx, rx, enabled, abrt, in_irq, phase, attempt, hidI2cActive, clean>>
           /\ Alone(c)
           /\ call'[c].pc = "done" /\ call'[c].blocked = call[c].blocked
           /\ call[c].pc # "do_rx" => call'[c].result = -1
<1>1. /\ Runs(c) /\ call[c].pc \in {"do_write", "do_read", "do_rx"} /\ call[c].timeout = 0
      /\ UNCHANGED <<fifos, enabled, abrt, in_irq, program, clean>>
  BY Zenon DEF give_up, Expired
<1>2. PICK k : k = call[c]
  BY Zenon
<1>3. PICK n : n = IF k.pc = "do_rx" THEN k.i - 1 ELSE -1
  BY Zenon
<1>4. PICK says : says = IF k.pc = "do_rx" THEN TRUE ELSE k.send
  BY Zenon
<1>5. PICK e : e = [k EXCEPT !.pc = "done", !.result = n, !.said = says]
  BY Zenon
<1>6. call' = [call EXCEPT ![c] = e]
  <2>1. CASE k.pc = "do_rx"
    <3>1. n = k.i - 1 /\ says = TRUE
      BY <1>3, <1>4, <2>1, Zenon
    <3>2. e = [k EXCEPT !.pc = "done", !.result = k.i - 1, !.said = TRUE]
      BY <1>5, <3>1, Zenon
    <3> QED  BY <1>2, <2>1, <3>2, Zenon DEF give_up, Return
  <2>2. CASE k.pc # "do_rx"
    <3>1. n = -1 /\ says = k.send
      BY <1>3, <1>4, <2>2, Zenon
    <3>2. e = [k EXCEPT !.pc = "done", !.result = -1, !.said = k.send]
      BY <1>5, <3>1, Zenon
    <3> QED  BY <1>2, <2>2, <3>2, Zenon DEF give_up, Return
  <2> QED  BY <2>1, <2>2
<1>7. k \in CallRecords /\ k.i \in 1 .. MaxPlace /\ k.send \in BOOLEAN
  BY <1>2, Zenon DEF Types, Locals, CallRecords
<1>8. k.pc = "do_rx" => k.i <= Rlen
  BY <1>2, Zenon DEF Types, Locals, InRange
<1>9. n \in -1 .. Rlen /\ says \in BOOLEAN
  <2>1. says \in BOOLEAN
    BY <1>4, <1>7, Zenon
  <2>2. CASE k.pc = "do_rx"
    <3>1. n = k.i - 1 /\ k.i <= Rlen
      BY <1>3, <1>8, <2>2, Zenon
    <3> QED  BY <1>7, <2>1, <3>1, ConstantFacts
  <2>3. CASE k.pc # "do_rx"
    <3>1. n = -1
      BY <1>3, <2>3, Zenon
    <3> QED  BY <2>1, <3>1, ConstantFacts
  <2> QED  BY <2>2, <2>3, Zenon
<1>10. e \in CallRecords
  BY <1>5, <1>7, <1>9, Zenon DEF CallRecords, Pcs
<1>11. e.pc = "done" /\ e.blocked = k.blocked /\ e.result = n
  BY <1>5, <1>7, Zenon DEF CallRecords
<1>12. Alone(c) /\ call'[c] = e
  BY <1>6, <1>10, CallFacts, Zenon DEF Types
<1>13. k.pc # "do_rx" => e.result = -1
  BY <1>3, <1>11, Zenon
<1> QED  BY <1>1, <1>2, <1>11, <1>12, <1>13, Zenon DEF fifos, program

(***************************************************************************)
(* A write, a read command and a fetch, and the loop each leads to.        *)
(***************************************************************************)
LEMMA DoWriteFacts ==
    ASSUME Types, NEW c \in Contexts, do_write(c)
    PROVE  /\ Runs(c) /\ call[c].pc = "do_write" /\ Queue(Write)
           /\ UNCHANGED <<rx, enabled, abrt, in_irq, phase, attempt, hidI2cActive, clean>>
           /\ Alone(c) /\ InRange(call'[c])
           /\ call'[c].pc \in {"write", "drain", "read"}
           /\ call'[c].pc = "read" => call'[c].i = 1
           /\ call'[c].blocked = call[c].blocked
<1>1. /\ Runs(c) /\ call[c].pc = "do_write" /\ Queue(Write)
      /\ UNCHANGED <<rx, enabled, abrt, in_irq, program, clean>>
  BY Zenon DEF do_write
<1>2. PICK k : k = call[c]
  BY Zenon
<1>3. k \in CallRecords /\ k.i \in 1 .. MaxPlace
  BY <1>2, Zenon DEF Types, Locals, CallRecords
<1>4. \E pc \in {"write", "drain", "read"}, i \in 1 .. MaxPlace :
         /\ call' = [call EXCEPT ![c] = Enter(k, pc, i)]
         /\ pc = "write" => i <= Wlen
         /\ pc # "write" => i = 1
  <2>1. call' = [call EXCEPT ![c] = IF k.i < Wlen THEN Enter(k, "write", k.i + 1)
                   ELSE IF k.send THEN Enter(k, "drain", 1) ELSE Enter(k, "read", 1)]
    BY <1>2, Zenon DEF do_write
  <2>2. 1 \in 1 .. MaxPlace
    BY ConstantFacts
  <2>3. CASE k.i < Wlen
    <3>1. k.i + 1 \in 1 .. MaxPlace /\ k.i + 1 <= Wlen
      BY <1>3, <2>3, ConstantFacts
    <3>2. call' = [call EXCEPT ![c] = Enter(k, "write", k.i + 1)]
      BY <2>1, <2>3, Zenon
    <3> QED  BY <3>1, <3>2, Zenon
  <2>4. CASE ~ (k.i < Wlen) /\ k.send
    <3>1. call' = [call EXCEPT ![c] = Enter(k, "drain", 1)]
      BY <2>1, <2>4, Zenon
    <3>2. "drain" # "write"
      BY Zenon
    <3> QED  BY <2>2, <3>1, <3>2, Zenon
  <2>5. CASE ~ (k.i < Wlen) /\ ~ k.send
    <3>1. call' = [call EXCEPT ![c] = Enter(k, "read", 1)]
      BY <2>1, <2>5, Zenon
    <3>2. "read" # "write"
      BY Zenon
    <3> QED  BY <2>2, <3>1, <3>2, Zenon
  <2> QED  BY <2>3, <2>4, <2>5, Zenon
<1>5. PICK pc \in {"write", "drain", "read"}, i \in 1 .. MaxPlace :
         /\ call' = [call EXCEPT ![c] = Enter(k, pc, i)]
         /\ pc = "write" => i <= Wlen
         /\ pc # "write" => i = 1
  BY <1>4, Zenon
<1>6. PICK e : e = Enter(k, pc, i)
  BY Zenon
<1>7. e \in CallRecords /\ e.pc = pc /\ e.i = i /\ e.blocked = k.blocked
  <2>1. pc \in Pcs
    BY Zenon DEF Pcs
  <2> QED  BY <1>3, <1>6, <2>1, EnterFacts
<1>8. Alone(c) /\ call'[c] = e
  BY <1>5, <1>6, <1>7, CallFacts, Zenon DEF Types
<1>9. InRange(e)
  BY <1>5, <1>7, ConstantFacts DEF InRange
<1>10. e.pc = "read" => e.i = 1
  BY <1>5, <1>7, Zenon
<1> QED  BY <1>1, <1>2, <1>7, <1>8, <1>9, <1>10, Zenon DEF program

\* A read command; behind the last one the call fetches the bytes.
LEMMA DoReadFacts ==
    ASSUME Types, NEW c \in Contexts, do_read(c)
    PROVE  /\ Runs(c) /\ call[c].pc = "do_read"
           /\ Queue(IF clean THEN Byte(c, call[c].i) ELSE Stray)
           /\ UNCHANGED <<rx, enabled, abrt, in_irq, phase, attempt, hidI2cActive, clean>>
           /\ Alone(c)
           /\ call'[c].blocked = call[c].blocked
           /\ \/ call'[c].pc = "read" /\ call'[c].i = call[c].i + 1 /\ call[c].i < Rlen
              \/ /\ call'[c].pc = "rx" /\ call'[c].i = 1 /\ call[c].i = Rlen
                 /\ call'[c].timeout = RxTries
<1>1. /\ Runs(c) /\ call[c].pc = "do_read" /\ Queue(IF clean THEN Byte(c, call[c].i) ELSE Stray)
      /\ UNCHANGED <<rx, enabled, abrt, in_irq, program, clean>>
  BY Zenon DEF do_read
<1>2. PICK k : k = call[c]
  BY Zenon
<1>3. k \in CallRecords /\ k.i \in 1 .. MaxPlace /\ k.i <= Rlen
  BY <1>1, <1>2, Zenon DEF Types, Locals, CallRecords, InRange
<1>4. PICK e : e = IF k.i < Rlen THEN Enter(k, "read", k.i + 1) ELSE Enter(k, "rx", 1)
  BY Zenon
<1>5. call' = [call EXCEPT ![c] = e]
  BY <1>2, <1>4, Zenon DEF do_read
<1>6. /\ e \in CallRecords /\ e.blocked = k.blocked
      /\ \/ e.pc = "read" /\ e.i = k.i + 1 /\ k.i < Rlen
         \/ e.pc = "rx" /\ e.i = 1 /\ k.i = Rlen /\ e.timeout = RxTries
  <2>1. CASE k.i < Rlen
    <3>1. k.i + 1 \in 1 .. MaxPlace /\ "read" \in Pcs
      BY <1>3, <2>1, ConstantFacts DEF Pcs
    <3>2. e = Enter(k, "read", k.i + 1)
      BY <1>4, <2>1, Zenon
    <3> QED  BY <1>3, <2>1, <3>1, <3>2, EnterFacts
  <2>2. CASE ~ (k.i < Rlen)
    <3>1. 1 \in 1 .. MaxPlace /\ "rx" \in Pcs /\ k.i = Rlen
      BY <1>3, <2>2, ConstantFacts DEF Pcs
    <3>2. e = Enter(k, "rx", 1)
      BY <1>4, <2>2, Zenon
    <3>3. Tries("rx") = RxTries
      BY Zenon DEF Tries
    <3> QED  BY <1>3, <3>1, <3>2, <3>3, EnterFacts
  <2> QED  BY <2>1, <2>2
<1>7. Alone(c) /\ call'[c] = e
  BY <1>5, <1>6, CallFacts, Zenon DEF Types
<1> QED  BY <1>1, <1>2, <1>6, <1>7, Zenon DEF program

\* A fetch; behind the last one the call looks for an abort.
LEMMA DoRxFacts ==
    ASSUME Types, NEW c \in Contexts, do_rx(c)
    PROVE  /\ Runs(c) /\ call[c].pc = "do_rx"
           /\ rx' = IF rx = << >> THEN rx ELSE Tail(rx)
           /\ UNCHANGED <<tx, enabled, abrt, in_irq, phase, attempt, hidI2cActive, clean>>
           /\ Alone(c)
           /\ call'[c].blocked = call[c].blocked
           /\ \/ /\ call'[c].pc = "rx" /\ call'[c].i = call[c].i + 1 /\ call[c].i < Rlen
                 /\ call'[c].timeout = RxTries
              \/ call'[c].pc = "source" /\ call[c].i = Rlen
<1>1. /\ Runs(c) /\ call[c].pc = "do_rx" /\ rx' = IF rx = << >> THEN rx ELSE Tail(rx)
      /\ UNCHANGED <<tx, enabled, abrt, in_irq, program, clean>>
  BY Zenon DEF do_rx
<1>2. PICK k : k = call[c]
  BY Zenon
<1>3. k \in CallRecords /\ k.i \in 1 .. MaxPlace /\ k.i <= Rlen
  BY <1>1, <1>2, Zenon DEF Types, Locals, CallRecords, InRange
<1>4. PICK e : e = IF k.i < Rlen THEN Enter(k, "rx", k.i + 1) ELSE [k EXCEPT !.pc = "source"]
  BY Zenon
<1>5. call' = [call EXCEPT ![c] = e]
  BY <1>2, <1>4, Zenon DEF do_rx
<1>6. /\ e \in CallRecords /\ e.blocked = k.blocked
      /\ \/ e.pc = "rx" /\ e.i = k.i + 1 /\ k.i < Rlen /\ e.timeout = RxTries
         \/ e.pc = "source" /\ k.i = Rlen
  <2>1. CASE k.i < Rlen
    <3>1. k.i + 1 \in 1 .. MaxPlace /\ "rx" \in Pcs
      BY <1>3, <2>1, ConstantFacts DEF Pcs
    <3>2. e = Enter(k, "rx", k.i + 1)
      BY <1>4, <2>1, Zenon
    <3>3. Tries("rx") = RxTries
      BY Zenon DEF Tries
    <3> QED  BY <1>3, <2>1, <3>1, <3>2, <3>3, EnterFacts
  <2>2. CASE ~ (k.i < Rlen)
    <3>1. k.i = Rlen
      BY <1>3, <2>2, ConstantFacts
    <3>2. e = [k EXCEPT !.pc = "source"]
      BY <1>4, <2>2, Zenon
    <3> QED  BY <1>3, <3>1, <3>2 DEF CallRecords, Pcs
  <2> QED  BY <2>1, <2>2
<1>7. Alone(c) /\ call'[c] = e
  BY <1>5, <1>6, CallFacts, Zenon DEF Types
<1> QED  BY <1>1, <1>2, <1>6, <1>7, Zenon DEF program

(***************************************************************************)
(* The end of a call: the abort is read, then cleared.                     *)
(***************************************************************************)
LEMMA ReadAbortFacts ==
    ASSUME Types, NEW c \in Contexts, read_abort(c)
    PROVE  /\ Runs(c) /\ call[c].pc = "source"
           /\ UNCHANGED <<tx, rx, enabled, abrt, in_irq, phase, attempt, hidI2cActive, clean>>
           /\ Alone(c)
           /\ call'[c].pc = "clear" /\ call'[c].blocked = call[c].blocked
           /\ abrt => call'[c].result = -1
<1>1. /\ Runs(c) /\ call[c].pc = "source"
      /\ UNCHANGED <<fifos, enabled, abrt, in_irq, program, clean>>
  BY Zenon DEF read_abort
<1>2. PICK k : k = call[c]
  BY Zenon
<1>3. k \in CallRecords
  BY <1>2, Zenon DEF Types, Locals
<1>4. PICK n : n = IF abrt THEN -1 ELSE IF k.send THEN 0 ELSE Rlen
  BY Zenon
<1>5. n \in -1 .. Rlen /\ (abrt => n = -1)
  BY <1>4, ConstantFacts
<1>6. PICK e : e = [k EXCEPT !.pc = "clear", !.result = n, !.said = abrt]
  BY Zenon
<1>7. call' = [call EXCEPT ![c] = e]
  BY <1>2, <1>4, <1>6, Zenon DEF read_abort, Types, Locals, CallRecords
<1>8. e \in CallRecords
  BY <1>3, <1>5, <1>6, Zenon DEF CallRecords, Pcs, Types, Flags
<1>9. e.pc = "clear" /\ e.blocked = k.blocked /\ e.result = n
  BY <1>3, <1>6, Zenon DEF CallRecords
<1>10. Alone(c) /\ call'[c] = e
  BY <1>7, <1>8, CallFacts, Zenon DEF Types
<1> QED  BY <1>1, <1>2, <1>5, <1>9, <1>10, Zenon DEF fifos, program

\* CLR_TX_ABRT: the controller is not blocked any more, the call is over.
LEMMA ClearAbortFacts ==
    ASSUME Types, NEW c \in Contexts, clear_abort(c)
    PROVE  /\ Runs(c) /\ call[c].pc = "clear" /\ abrt' = FALSE
           /\ UNCHANGED <<tx, rx, enabled, in_irq, phase, attempt, hidI2cActive, clean>>
           /\ Alone(c)
           /\ call'[c].pc = "done" /\ call'[c].blocked = call[c].blocked
           /\ call'[c].result = call[c].result
<1>1. /\ Runs(c) /\ call[c].pc = "clear" /\ abrt' = FALSE
      /\ UNCHANGED <<fifos, enabled, in_irq, program, clean>>
  BY Zenon DEF clear_abort
<1>2. PICK k : k = call[c]
  BY Zenon
<1>3. k \in CallRecords
  BY <1>2, Zenon DEF Types, Locals
<1>4. PICK e : e = [k EXCEPT !.pc = "done"]
  BY Zenon
<1>5. call' = [call EXCEPT ![c] = e]
  BY <1>2, <1>4, Zenon DEF clear_abort, Types, Locals, CallRecords
<1>6. e \in CallRecords
  BY <1>3, <1>4, Zenon DEF CallRecords, Pcs
<1>7. e.pc = "done" /\ e.blocked = k.blocked /\ e.result = k.result
  BY <1>3, <1>4, Zenon DEF CallRecords
<1>8. Alone(c) /\ call'[c] = e
  BY <1>5, <1>6, CallFacts, Zenon DEF Types
<1> QED  BY <1>1, <1>2, <1>7, <1>8, Zenon DEF fifos, program

-----------------------------------------------------------------------------
(***************************************************************************)
(* The steps of the main program outside its calls: apart from flush, the  *)
(* restart of the controller and hidI2cInit, each begins a call or ends    *)
(* the last one.                                                           *)
(***************************************************************************)
Begins ==
    /\ ~ in_irq /\ call["main"].pc \in {"idle", "done"} /\ (phase = "flush" => rx = << >>)
    /\ \E send \in BOOLEAN : Begin("main", send)
    /\ phase' \in PhaseNames \ Between
    /\ UNCHANGED <<tx, rx, enabled, abrt, in_irq, hidI2cActive, clean>>

Ends ==
    /\ ~ in_irq /\ call["main"].pc = "done"
    /\ call' = Ended("main")
    /\ phase' \in PhaseNames
    /\ UNCHANGED <<tx, rx, enabled, abrt, in_irq, hidI2cActive, clean>>

\* Start begins a call.
LEMMA StartFacts ==
    ASSUME NEW p \in PhaseNames \ Between, NEW n, NEW send \in BOOLEAN, Start(p, n, send),
           ~ in_irq, call["main"].pc \in {"idle", "done"}, phase = "flush" => rx = << >>
    PROVE  Begins /\ phase' = p /\ attempt' = n
BY Zenon DEF Start, Begins, fifos

\* Stop ends the last call.
LEMMA StopFacts ==
    ASSUME NEW p \in PhaseNames, Stop(p), ~ in_irq, call["main"].pc = "done"
    PROVE  Ends /\ phase' = p /\ attempt' = 1
BY Zenon DEF Stop, Ends, fifos

\* A call that has returned: the main program is not in the handler, and the
\* phase is one that makes calls.
LEMMA ReturnedFacts ==
    ASSUME Phases, NEW p, Returned(p)
    PROVE  ~ in_irq /\ phase = p /\ phase # "flush" /\ call["main"].pc = "done"
<1>1. "flush" \in Between /\ "idle" # "done"
  BY Zenon DEF Between
<1> QED  BY <1>1, Zenon DEF Returned, Phases

\* The phases that make calls, and those between them.
LEMMA PhaseFacts ==
    /\ {"descriptor", "power", "reset", "sentinel", "mode", "dump"} \subseteq PhaseNames \ Between
    /\ Between \subseteq PhaseNames
BY Zenon DEF PhaseNames, Between

\* A failed attempt is repeated, or the start-up goes on without it.
LEMMA RetryFacts ==
    ASSUME Types, Phases, NEW p \in {"descriptor", "power", "reset", "mode"},
           NEW send \in BOOLEAN, NEW q \in {"failed", "ready"}, retry(p, send, q)
    PROVE  (Begins \/ Ends) /\ Scheduled' /\ Steps'
<1>1. ~ in_irq /\ phase = p /\ phase # "flush" /\ call["main"].pc = "done"
  BY ReturnedFacts, Zenon DEF retry
<1>2. attempt \in 1 .. MaxAttempt /\ attempt <= RETRY_MAX /\ ~ hidI2cActive
  BY <1>1, Zenon DEF Types, Steps, Phases, Scheduled
<1>3. CASE attempt < RETRY_MAX
  <2>1. Start(p, attempt + 1, send)
    BY <1>3, Zenon DEF retry
  <2>2. p \in PhaseNames \ Between
    BY PhaseFacts, Zenon
  <2>3. Begins /\ phase' = p /\ attempt' = attempt + 1
    BY <1>1, <2>1, <2>2, StartFacts, Zenon
  <2>4. hidI2cActive' = hidI2cActive
    BY <2>3, Zenon DEF Begins
  <2> QED  BY <1>2, <1>3, <2>2, <2>3, <2>4, ConstantFacts DEF Scheduled, Steps
<1>4. CASE ~ (attempt < RETRY_MAX)
  <2>1. Stop(q)
    BY <1>4, Zenon DEF retry
  <2>2. q \in PhaseNames
    BY Zenon DEF PhaseNames
  <2>3. Ends /\ phase' = q /\ attempt' = 1
    BY <1>1, <2>1, <2>2, StopFacts, Zenon
  <2>4. hidI2cActive' = hidI2cActive
    BY <2>3, Zenon DEF Ends
  <2> QED  BY <1>2, <2>2, <2>3, <2>4, ConstantFacts DEF Scheduled, Steps
<1> QED  BY <1>3, <1>4, Zenon

\* The first attempt of the next step of the start-up.
LEMMA NextStepFacts ==
    ASSUME Types, Phases, NEW p \in {"descriptor", "power", "reset", "sentinel", "mode"},
           NEW q \in {"reset", "sentinel", "mode"}, NEW send \in BOOLEAN,
           Returned(p), Start(q, 1, send)
    PROVE  Begins /\ Scheduled' /\ Steps'
<1>1. ~ in_irq /\ phase = p /\ phase # "flush" /\ call["main"].pc = "done"
  BY ReturnedFacts, Zenon
<1>2. ~ hidI2cActive
  BY <1>1, Zenon DEF Phases, Scheduled
<1>3. q \in PhaseNames \ Between
  BY PhaseFacts, Zenon
<1>4. Begins /\ phase' = q /\ attempt' = 1
  BY <1>1, <1>3, StartFacts, Zenon
<1>5. hidI2cActive' = hidI2cActive
  BY <1>4, Zenon DEF Begins
<1> QED  BY <1>2, <1>3, <1>4, <1>5, ConstantFacts DEF Scheduled, Steps

\* The last step of hidI2cGetDescriptor and of hidI2cReset.
LEMMA LastStepFacts ==
    ASSUME Types, Phases, NEW p \in {"descriptor", "mode"}, NEW q \in {"restart", "ready"},
           Returned(p), Stop(q)
    PROVE  Ends /\ Scheduled' /\ Steps'
<1>1. ~ in_irq /\ phase = p /\ phase # "flush" /\ call["main"].pc = "done"
  BY ReturnedFacts, Zenon
<1>2. ~ hidI2cActive
  BY <1>1, Zenon DEF Phases, Scheduled
<1>3. q \in PhaseNames
  BY Zenon DEF PhaseNames
<1>4. Ends /\ phase' = q /\ attempt' = 1
  BY <1>1, <1>3, StopFacts, Zenon
<1>5. hidI2cActive' = hidI2cActive
  BY <1>4, Zenon DEF Ends
<1> QED  BY <1>2, <1>3, <1>4, <1>5, ConstantFacts DEF Scheduled, Steps

\* Reading the two bytes a reset leaves.
LEMMA SentinelFacts ==
    ASSUME Types, Phases, sentinel
    PROVE  Begins /\ Scheduled' /\ Steps'
<1>1. Returned("sentinel")
  BY Zenon DEF sentinel
<1>2. ~ in_irq /\ phase = "sentinel" /\ phase # "flush" /\ call["main"].pc = "done"
  BY <1>1, ReturnedFacts, Zenon
<1>3. CASE Start("mode", 1, TRUE)
  BY <1>1, <1>3, NextStepFacts, Zenon
<1>4. CASE attempt < RETRY_MAX /\ Start("sentinel", attempt + 1, FALSE)
  <2>1. attempt \in 1 .. MaxAttempt /\ ~ hidI2cActive
    BY <1>2, Zenon DEF Types, Steps, Phases, Scheduled
  <2>2. "sentinel" \in PhaseNames \ Between
    BY PhaseFacts, Zenon
  <2>3. Begins /\ phase' = "sentinel" /\ attempt' = attempt + 1
    BY <1>2, <1>4, <2>2, StartFacts, Zenon
  <2>4. hidI2cActive' = hidI2cActive
    BY <2>3, Zenon DEF Begins
  <2> QED  BY <1>4, <2>1, <2>2, <2>3, <2>4, ConstantFacts DEF Scheduled, Steps
<1> QED  BY <1>3, <1>4, Zenon DEF sentinel

\* hidI2cReset restarts the controller and sends the first command.
LEMMA RestartFacts ==
    ASSUME Types, Phases, restart_controller
    PROVE  /\ ~ in_irq /\ phase' = "power" /\ Alone("main")
           /\ tx' = << >> /\ rx' = << >> /\ enabled' = TRUE /\ abrt' = FALSE
           /\ call'["main"].pc = "write" /\ call'["main"].i = 1
           /\ UNCHANGED <<in_irq, hidI2cActive, clean>>
           /\ Scheduled' /\ Steps'
<1>1. /\ phase = "restart" /\ phase' = "power" /\ attempt' = 1
      /\ tx' = << >> /\ rx' = << >> /\ enabled' = TRUE /\ abrt' = FALSE
      /\ UNCHANGED <<in_irq, hidI2cActive, clean>>
  BY Zenon DEF restart_controller
<1>2. ~ hidI2cActive /\ ~ in_irq
  BY <1>1, Zenon DEF Phases, Scheduled
<1>3. PICK k : k = [Idle EXCEPT !.send = TRUE]
  BY Zenon
<1>4. k \in CallRecords
  BY <1>3, IdleFacts, Zenon DEF CallRecords
<1>5. call' = [call EXCEPT !["main"] = Enter(k, "write", 1)]
  BY <1>3, Zenon DEF restart_controller
<1>6. "write" \in Pcs /\ 1 \in 1 .. MaxPlace /\ "main" \in Contexts
  BY ConstantFacts DEF Pcs, Contexts
<1>7. PICK e : e = Enter(k, "write", 1)
  BY Zenon
<1>8. e \in CallRecords /\ e.pc = "write" /\ e.i = 1
  BY <1>4, <1>6, <1>7, EnterFacts
<1>9. Alone("main") /\ call'["main"] = e
  BY <1>5, <1>6, <1>7, <1>8, CallFacts, Zenon DEF Types
<1>10. Scheduled' /\ Steps'
  BY <1>1, <1>2, ConstantFacts DEF Scheduled, Steps, PhaseNames
<1> QED  BY <1>1, <1>2, <1>8, <1>9, <1>10, Zenon

\* A report hid_initialize reads begins or ends.
LEMMA DumpFacts ==
    ASSUME Types, Phases, dump_report
    PROVE  (Begins \/ Ends) /\ Scheduled' /\ Steps'
<1>1. CASE ~ in_irq /\ phase = "sleep" /\ Start("dump", attempt, FALSE)
  <2>1. "dump" \in PhaseNames \ Between /\ "sleep" \in Between /\ "sleep" # "flush"
    BY PhaseFacts, Zenon DEF Between
  <2>2. call["main"].pc = "idle" /\ attempt <= Dumps
    BY <1>1, <2>1, Zenon DEF Phases, Scheduled
  <2>3. Begins /\ phase' = "dump" /\ attempt' = attempt
    BY <1>1, <2>1, <2>2, StartFacts, Zenon
  <2>4. hidI2cActive' = hidI2cActive
    BY <2>3, Zenon DEF Begins
  <2> QED  BY <2>1, <2>2, <2>3, <2>4 DEF Scheduled, Steps, Types
<1>2. CASE /\ Returned("dump")
           /\ phase' = IF attempt < Dumps THEN "sleep" ELSE "finished"
           /\ attempt' = IF attempt < Dumps THEN attempt + 1 ELSE 1
           /\ call' = Ended("main")
           /\ UNCHANGED <<fifos, enabled, abrt, in_irq, hidI2cActive, clean>>
  <2>1. ~ in_irq /\ phase = "dump" /\ call["main"].pc = "done"
    BY <1>2, ReturnedFacts, Zenon
  <2>2. attempt \in 1 .. MaxAttempt
    BY Zenon DEF Types, Steps
  <2>3. phase' \in {"sleep", "finished"} /\ phase' \in PhaseNames
    BY <1>2, Zenon DEF PhaseNames
  <2>4. Ends
    BY <1>2, <2>1, <2>3, Zenon DEF Ends, fifos
  <2>5. Scheduled' /\ Steps'
    BY <1>2, <2>2, <2>3, ConstantFacts DEF Scheduled, Steps
  <2> QED  BY <2>4, <2>5
<1> QED  BY <1>1, <1>2, Zenon DEF dump_report

\* All the steps of the main program outside its calls.
LEMMA MainFacts ==
    ASSUME Types, Phases, flushed \/ hidI2cGetDescriptor \/ hidI2cReset \/ dump_report
    PROVE  ((Begins \/ Ends) /\ Scheduled' /\ Steps') \/ restart_controller
<1>1. CASE flushed
  <2>1. phase = "flush" /\ rx = << >> /\ Start("descriptor", 1, FALSE)
    BY <1>1, Zenon DEF flushed
  <2>2. "descriptor" \in PhaseNames \ Between /\ "flush" \in Between
    BY PhaseFacts, Zenon DEF Between
  <2>3. call["main"].pc = "idle" /\ ~ hidI2cActive /\ ~ in_irq
    BY <2>1, <2>2, Zenon DEF Phases, Scheduled
  <2>4. Begins /\ phase' = "descriptor" /\ attempt' = 1
    BY <2>1, <2>2, <2>3, StartFacts, Zenon
  <2>5. hidI2cActive' = hidI2cActive
    BY <2>4, Zenon DEF Begins
  <2>6. Scheduled' /\ Steps'
    BY <2>2, <2>3, <2>4, <2>5, ConstantFacts DEF Scheduled, Steps
  <2> QED  BY <2>4, <2>6
<1>2. CASE hidI2cGetDescriptor
  <2>1. CASE Returned("descriptor") /\ ~ Failed /\ Stop("restart")
    BY <2>1, LastStepFacts, Zenon
  <2>2. CASE retry("descriptor", FALSE, "failed")
    BY <2>2, RetryFacts, Zenon
  <2> QED  BY <1>2, <2>1, <2>2, Zenon DEF hidI2cGetDescriptor
<1>3. CASE hidI2cReset
  <2>1. CASE Returned("power") /\ ~ Failed /\ Start("reset", 1, TRUE)
    BY <2>1, NextStepFacts, Zenon
  <2>2. CASE retry("power", TRUE, "failed")
    BY <2>2, RetryFacts, Zenon
  <2>3. CASE Returned("reset") /\ ~ Failed /\ Start("sentinel", 1, FALSE)
    BY <2>3, NextStepFacts, Zenon
  <2>4. CASE retry("reset", TRUE, "failed")
    BY <2>4, RetryFacts, Zenon
  <2>5. CASE sentinel
    BY <2>5, SentinelFacts, Zenon
  <2>6. CASE Returned("mode") /\ ~ Failed /\ Stop("ready")
    BY <2>6, LastStepFacts, Zenon
  <2>7. CASE retry("mode", TRUE, "ready")
    BY <2>7, RetryFacts, Zenon
  <2> QED  BY <1>3, <2>1, <2>2, <2>3, <2>4, <2>5, <2>6, <2>7, Zenon DEF hidI2cReset
<1>4. CASE dump_report
  BY <1>4, DumpFacts, Zenon
<1> QED  BY <1>1, <1>2, <1>3, <1>4, Zenon

-----------------------------------------------------------------------------
(***************************************************************************)
(* The steps of the system, by who takes them.                             *)
(***************************************************************************)
LEMMA NextCases ==
    ASSUME [Next]_vars
    PROVE  \/ bus_transfer \/ bus_abort
           \/ \E c \in Contexts : transfer(c)
           \/ flush \/ hidI2cInit \/ restart_controller
           \/ flushed \/ hidI2cGetDescriptor \/ hidI2cReset \/ dump_report
           \/ hidI2cTickPoll \/ iretq
           \/ UNCHANGED vars
<1>1. "main" \in Contexts /\ "irq" \in Contexts
  BY Zenon DEF Contexts
<1> QED  BY <1>1, Zenon DEF Next, main, irq

(***************************************************************************)
(* The register DATA_CMD: a command is queued, or lost.                    *)
(***************************************************************************)
LEMMA QueueFacts ==
    ASSUME Fifos, NEW b \in Bytes \cup {Write}, Queue(b)
    PROVE  /\ tx' \in Seq(Bytes \cup {Write}) /\ Len(tx') <= TxDepth
           /\ abrt => tx' = tx
           /\ enabled /\ ~ abrt /\ Len(tx) < TxDepth => tx' = Append(tx, b)
<1>1. tx' = IF ~ enabled \/ abrt \/ Len(tx) = TxDepth THEN tx ELSE Append(tx, b)
  BY Zenon DEF Queue
<1>2. tx \in Seq(Bytes \cup {Write}) /\ Len(tx) <= TxDepth /\ Len(tx) \in Nat
  BY DEF Fifos
<1>3. CASE ~ enabled \/ abrt \/ Len(tx) = TxDepth
  <2>1. tx' = tx
    BY <1>1, <1>3, Zenon
  <2> QED  BY <1>2, <1>3, <2>1, ConstantFacts
<1>4. CASE ~ (~ enabled \/ abrt \/ Len(tx) = TxDepth)
  <2>1. tx' = Append(tx, b)
    BY <1>1, <1>4, Zenon
  <2>2. Append(tx, b) \in Seq(Bytes \cup {Write}) /\ Len(Append(tx, b)) = Len(tx) + 1
    BY <1>2
  <2>3. Len(tx) < TxDepth
    BY <1>2, <1>4, ConstantFacts
  <2>4. Len(tx) + 1 <= TxDepth
    BY <1>2, <2>3, ConstantFacts
  <2>5. ~ abrt
    BY <1>4, Zenon
  <2> QED  BY <2>1, <2>2, <2>4, <2>5, Zenon
<1> QED  BY <1>3, <1>4

\* The commands the calls queue.
LEMMA CommandFacts ==
    ASSUME Types, NEW c \in Contexts, call[c].pc = "do_read"
    PROVE  /\ call[c].i \in 1 .. Rlen
           /\ Byte(c, call[c].i) \in Bytes
           /\ (IF clean THEN Byte(c, call[c].i) ELSE Stray) \in Bytes \cup {Write}
<1>1. call[c].i \in 1 .. MaxPlace /\ call[c].i <= Rlen
  BY Zenon DEF Types, Locals, CallRecords, InRange
<1>2. call[c].i \in 1 .. Rlen
  BY <1>1, ConstantFacts
<1>3. Stray \in Bytes
  BY DEF Bytes
<1> QED  BY <1>2, <1>3, ByteFacts, Zenon

\* The records of the calls after a step of one of them.
LEMMA LocalsStep ==
    ASSUME Locals, NEW c \in Contexts, Alone(c), InRange(call'[c])
    PROVE  Locals'
BY Zenon DEF Locals, Alone

\* Every step keeps the types.
LEMMA TypesStep ==
    ASSUME Types, Phases, [Next]_vars
    PROVE  Types'
<1> USE DEF Types
<1>1. CASE bus_transfer
  <2>1. /\ tx # << >> /\ tx' = Tail(tx)
        /\ rx' = IF Head(tx) = Write \/ Len(rx) = RxDepth THEN rx ELSE Append(rx, Head(tx))
        /\ UNCHANGED <<enabled, abrt, call, in_irq, phase, attempt, hidI2cActive, clean>>
    BY <1>1, Zenon DEF bus_transfer, program
  <2>2. Flags' /\ Locals' /\ Steps'
    BY <2>1, Zenon DEF Flags, Locals, Steps
  <2>3. tx' \in Seq(Bytes \cup {Write}) /\ Len(tx') <= TxDepth /\ Head(tx) \in Bytes \cup {Write}
    BY <2>1, ConstantFacts DEF Fifos
  <2>4. rx' \in Seq(Bytes) /\ Len(rx') <= RxDepth
    <3>1. rx \in Seq(Bytes) /\ Len(rx) <= RxDepth /\ Len(rx) \in Nat
      BY DEF Fifos
    <3>2. CASE Head(tx) = Write \/ Len(rx) = RxDepth
      BY <2>1, <3>1, <3>2, Zenon
    <3>3. CASE ~ (Head(tx) = Write \/ Len(rx) = RxDepth)
      <4>1. rx' = Append(rx, Head(tx)) /\ Head(tx) \in Bytes
        BY <2>1, <2>3, <3>3, Zenon
      <4>2. rx' \in Seq(Bytes) /\ Len(rx') = Len(rx) + 1
        BY <3>1, <4>1
      <4>3. Len(rx) + 1 <= RxDepth
        BY <3>1, <3>3, ConstantFacts
      <4> QED  BY <4>2, <4>3, Zenon
    <3> QED  BY <3>2, <3>3, Zenon
  <2> QED  BY <2>2, <2>3, <2>4, Zenon DEF Fifos
<1>2. CASE bus_abort
  <2>1. /\ tx' = << >> /\ abrt' = TRUE /\ clean' = FALSE
        /\ UNCHANGED <<rx, enabled, call, in_irq, phase, attempt, hidI2cActive>>
    BY <1>2, Zenon DEF bus_abort, program
  <2>2. Flags' /\ Locals' /\ Steps'
    BY <2>1, Zenon DEF Flags, Locals, Steps
  <2>3. tx' \in Seq(Bytes \cup {Write}) /\ Len(tx') <= TxDepth
    BY <2>1, ConstantFacts
  <2> QED  BY <2>1, <2>2, <2>3, Zenon DEF Fifos
<1>3. ASSUME NEW c \in Contexts, transfer(c) PROVE Types'
  <2>1. CASE wait(c)
    <3>1. /\ UNCHANGED <<tx, rx, enabled, abrt, in_irq, phase, attempt, hidI2cActive>>
          /\ Alone(c) /\ clean' \in BOOLEAN
          /\ call[c].pc \in {"write", "read", "drain", "rx"}
          /\ call'[c].pc \in {call[c].pc, Go(call[c].pc)} /\ call'[c].i = call[c].i
      BY <2>1, WaitFacts, Zenon
    <3>2. InRange(call[c])
      BY Zenon DEF Locals
    <3>3. InRange(call'[c])
      BY <3>1, <3>2, GoFacts, Zenon DEF InRange
    <3>4. Locals'
      BY <3>1, <3>3, LocalsStep, Zenon
    <3> QED  BY <3>1, <3>4, Zenon DEF Fifos, Flags, Steps
  <2>2. CASE give_up(c)
    <3>1. /\ UNCHANGED <<tx, rx, enabled, abrt, in_irq, phase, attempt, hidI2cActive, clean>>
          /\ Alone(c) /\ call'[c].pc = "done"
      BY <2>2, GiveUpFacts, Zenon
    <3>2. InRange(call'[c])
      BY <3>1, Zenon DEF InRange
    <3>3. Locals'
      BY <3>1, <3>2, LocalsStep, Zenon
    <3> QED  BY <3>1, <3>3, Zenon DEF Fifos, Flags, Steps
  <2>3. CASE do_write(c)
    <3>1. /\ UNCHANGED <<rx, enabled, abrt, in_irq, phase, attempt, hidI2cActive, clean>>
          /\ Alone(c) /\ InRange(call'[c]) /\ Queue(Write)
      BY <2>3, DoWriteFacts, Zenon
    <3>2. tx' \in Seq(Bytes \cup {Write}) /\ Len(tx') <= TxDepth
      BY <3>1, QueueFacts, Zenon
    <3>3. Locals'
      BY <3>1, LocalsStep, Zenon
    <3> QED  BY <3>1, <3>2, <3>3, Zenon DEF Fifos, Flags, Steps
  <2>4. CASE do_read(c)
    <3>1. /\ UNCHANGED <<rx, enabled, abrt, in_irq, phase, attempt, hidI2cActive, clean>>
          /\ Alone(c) /\ call[c].pc = "do_read"
          /\ Queue(IF clean THEN Byte(c, call[c].i) ELSE Stray)
          /\ \/ call'[c].pc = "read" /\ call'[c].i = call[c].i + 1 /\ call[c].i < Rlen
             \/ call'[c].pc = "rx" /\ call'[c].i = 1
      BY <2>4, DoReadFacts, Zenon
    <3>2. tx' \in Seq(Bytes \cup {Write}) /\ Len(tx') <= TxDepth
      BY <3>1, CommandFacts, QueueFacts, Zenon
    <3>3. InRange(call'[c])
      BY <3>1, CommandFacts, ConstantFacts DEF InRange
    <3>4. Locals'
      BY <3>1, <3>3, LocalsStep, Zenon
    <3> QED  BY <3>1, <3>2, <3>4, Zenon DEF Fifos, Flags, Steps
  <2>5. CASE do_rx(c)
    <3>1. /\ UNCHANGED <<tx, enabled, abrt, in_irq, phase, attempt, hidI2cActive, clean>>
          /\ Alone(c) /\ call[c].pc = "do_rx"
          /\ rx' = IF rx = << >> THEN rx ELSE Tail(rx)
          /\ \/ call'[c].pc = "rx" /\ call'[c].i = call[c].i + 1 /\ call[c].i < Rlen
             \/ call'[c].pc = "source"
      BY <2>5, DoRxFacts, Zenon
    <3>2. rx' \in Seq(Bytes) /\ Len(rx') <= RxDepth
      BY <3>1, ConstantFacts DEF Fifos
    <3>3. call[c].i \in 1 .. MaxPlace
      BY Zenon DEF Locals, CallRecords
    <3>4. InRange(call'[c])
      BY <3>1, <3>3, ConstantFacts DEF InRange
    <3>5. Locals'
      BY <3>1, <3>4, LocalsStep, Zenon
    <3> QED  BY <3>1, <3>2, <3>5, Zenon DEF Fifos, Flags, Steps
  <2>6. CASE read_abort(c)
    <3>1. /\ UNCHANGED <<tx, rx, enabled, abrt, in_irq, phase, attempt, hidI2cActive, clean>>
          /\ Alone(c) /\ call'[c].pc = "clear"
      BY <2>6, ReadAbortFacts, Zenon
    <3>2. InRange(call'[c])
      BY <3>1, Zenon DEF InRange
    <3>3. Locals'
      BY <3>1, <3>2, LocalsStep, Zenon
    <3> QED  BY <3>1, <3>3, Zenon DEF Fifos, Flags, Steps
  <2>7. CASE clear_abort(c)
    <3>1. /\ UNCHANGED <<tx, rx, enabled, in_irq, phase, attempt, hidI2cActive, clean>>
          /\ abrt' = FALSE /\ Alone(c) /\ call'[c].pc = "done"
      BY <2>7, ClearAbortFacts, Zenon
    <3>2. InRange(call'[c])
      BY <3>1, Zenon DEF InRange
    <3>3. Locals'
      BY <3>1, <3>2, LocalsStep, Zenon
    <3> QED  BY <3>1, <3>3, Zenon DEF Fifos, Flags, Steps
  <2> QED  BY <1>3, <2>1, <2>2, <2>3, <2>4, <2>5, <2>6, <2>7, Zenon DEF transfer
<1>4. CASE flush
  <2>1. /\ rx # << >> /\ rx' = Tail(rx)
        /\ UNCHANGED <<tx, enabled, abrt, call, in_irq, phase, attempt, hidI2cActive, clean>>
    BY <1>4, Zenon DEF flush, program
  <2>2. rx' \in Seq(Bytes) /\ Len(rx') <= RxDepth
    BY <2>1, ConstantFacts DEF Fifos
  <2> QED  BY <2>1, <2>2, Zenon DEF Fifos, Flags, Locals, Steps
<1>5. CASE hidI2cInit
  <2>1. /\ hidI2cActive' = TRUE /\ phase' = "sleep"
        /\ UNCHANGED <<tx, rx, enabled, abrt, call, in_irq, attempt, clean>>
    BY <1>5, Zenon DEF hidI2cInit, fifos
  <2>2. phase' \in PhaseNames
    BY <2>1, Zenon DEF PhaseNames
  <2> QED  BY <2>1, <2>2, Zenon DEF Fifos, Flags, Locals, Steps
<1>6. "main" \in Contexts /\ "irq" \in Contexts
  BY Zenon DEF Contexts
<1>7. CASE restart_controller
  <2>1. /\ Alone("main") /\ tx' = << >> /\ rx' = << >> /\ enabled' = TRUE /\ abrt' = FALSE
        /\ call'["main"].pc = "write" /\ call'["main"].i = 1
        /\ UNCHANGED <<in_irq, hidI2cActive, clean>> /\ Steps'
    BY <1>7, RestartFacts, Zenon
  <2>2. InRange(call'["main"])
    BY <2>1, ConstantFacts DEF InRange
  <2>3. Locals'
    BY <1>6, <2>1, <2>2, LocalsStep, Zenon
  <2>4. Fifos'
    BY <2>1, ConstantFacts DEF Fifos
  <2> QED  BY <2>1, <2>3, <2>4, Zenon DEF Flags
<1>8. ASSUME Begins, Steps' PROVE Types'
  <2>1. UNCHANGED <<tx, rx, enabled, abrt, in_irq, hidI2cActive, clean>>
    BY <1>8, Zenon DEF Begins
  <2>2. Alone("main") /\ call'["main"].pc = "write" /\ call'["main"].i = 1
    BY <1>6, <1>8, BeginFacts, Zenon DEF Begins
  <2>3. InRange(call'["main"])
    BY <2>2, ConstantFacts DEF InRange
  <2>4. Locals'
    BY <1>6, <2>2, <2>3, LocalsStep, Zenon
  <2> QED  BY <1>8, <2>1, <2>4, Zenon DEF Fifos, Flags
<1>9. ASSUME Ends, Steps' PROVE Types'
  <2>1. UNCHANGED <<tx, rx, enabled, abrt, in_irq, hidI2cActive, clean>>
    BY <1>9, Zenon DEF Ends
  <2>2. Alone("main") /\ call'["main"] = Idle
    BY <1>6, <1>9, EndedFacts, Zenon DEF Ends
  <2>3. InRange(call'["main"])
    BY <2>2, IdleFacts, Zenon DEF InRange
  <2>4. Locals'
    BY <1>6, <2>2, <2>3, LocalsStep, Zenon
  <2> QED  BY <1>9, <2>1, <2>4, Zenon DEF Fifos, Flags
<1>10. CASE flushed \/ hidI2cGetDescriptor \/ hidI2cReset \/ dump_report
  BY <1>7, <1>8, <1>9, <1>10, MainFacts, Zenon
<1>11. CASE hidI2cTickPoll
  <2>1. /\ in_irq' = TRUE /\ Begin("irq", FALSE)
        /\ clean' = (clean /\ call["main"].pc \in {"idle", "done"})
        /\ UNCHANGED <<tx, rx, enabled, abrt, phase, attempt, hidI2cActive>>
    BY <1>11, Zenon DEF hidI2cTickPoll, fifos, program
  <2>2. Alone("irq") /\ call'["irq"].pc = "write" /\ call'["irq"].i = 1
    BY <1>6, <2>1, BeginFacts, Zenon
  <2>3. InRange(call'["irq"])
    BY <2>2, ConstantFacts DEF InRange
  <2>4. Locals'
    BY <1>6, <2>2, <2>3, LocalsStep, Zenon
  <2> QED  BY <2>1, <2>4, Zenon DEF Fifos, Flags, Steps
<1>12. CASE iretq
  <2>1. /\ in_irq' = FALSE /\ call' = Ended("irq")
        /\ UNCHANGED <<tx, rx, enabled, abrt, phase, attempt, hidI2cActive, clean>>
    BY <1>12, Zenon DEF iretq, fifos, program
  <2>2. Alone("irq") /\ call'["irq"] = Idle
    BY <1>6, <2>1, EndedFacts, Zenon
  <2>3. InRange(call'["irq"])
    BY <2>2, IdleFacts, Zenon DEF InRange
  <2>4. Locals'
    BY <1>6, <2>2, <2>3, LocalsStep, Zenon
  <2> QED  BY <2>1, <2>4, Zenon DEF Fifos, Flags, Steps
<1>13. CASE UNCHANGED vars
  BY <1>13, Zenon DEF vars, Fifos, Flags, Locals, Steps
<1> QED  BY <1>1, <1>2, <1>3, <1>4, <1>5, <1>7, <1>10, <1>11, <1>12, <1>13, NextCases, Zenon

\* What every step of a call has in common.
LEMMA TransferFacts ==
    ASSUME Types, NEW c \in Contexts, transfer(c)
    PROVE  /\ Runs(c) /\ Alone(c) /\ call[c].pc # "idle" /\ call'[c].blocked = call[c].blocked
           /\ UNCHANGED <<enabled, in_irq, phase, attempt, hidI2cActive>>
<1>1. CASE wait(c)
  <2>1. /\ call[c].pc \in {"write", "read", "drain", "rx"} /\ Runs(c) /\ Alone(c)
        /\ call'[c].blocked = call[c].blocked
        /\ UNCHANGED <<enabled, in_irq, phase, attempt, hidI2cActive>>
    BY <1>1, WaitFacts, Zenon
  <2> QED  BY <2>1
<1>2. CASE give_up(c)
  <2>1. /\ call[c].pc \in {"do_write", "do_read", "do_rx"} /\ Runs(c) /\ Alone(c)
        /\ call'[c].blocked = call[c].blocked
        /\ UNCHANGED <<enabled, in_irq, phase, attempt, hidI2cActive>>
    BY <1>2, GiveUpFacts, Zenon
  <2> QED  BY <2>1
<1>3. CASE do_write(c)
  <2>1. "do_write" # "idle"
    BY Zenon
  <2> QED  BY <1>3, <2>1, DoWriteFacts, Zenon
<1>4. CASE do_read(c)
  <2>1. "do_read" # "idle"
    BY Zenon
  <2> QED  BY <1>4, <2>1, DoReadFacts, Zenon
<1>5. CASE do_rx(c)
  <2>1. "do_rx" # "idle"
    BY Zenon
  <2> QED  BY <1>5, <2>1, DoRxFacts, Zenon
<1>6. CASE read_abort(c)
  <2>1. "source" # "idle"
    BY Zenon
  <2> QED  BY <1>6, <2>1, ReadAbortFacts, Zenon
<1>7. CASE clear_abort(c)
  <2>1. "clear" # "idle"
    BY Zenon
  <2> QED  BY <1>7, <2>1, ClearAbortFacts, Zenon
<1> QED  BY <1>1, <1>2, <1>3, <1>4, <1>5, <1>6, <1>7, Zenon DEF transfer

\* The two contexts, and which of them runs.
LEMMA ContextFacts ==
    /\ Contexts = {"main", "irq"} /\ "main" \in Contexts /\ "irq" \in Contexts /\ "main" # "irq"
    /\ (Runs("main") <=> ~ in_irq) /\ (Runs("irq") <=> in_irq)
<1>1. "main" # "irq"
  BY Zenon
<1> QED  BY <1>1, Zenon DEF Contexts, Runs

\* Every step keeps Phases.
LEMMA PhasesStep ==
    ASSUME Types, Phases, [Next]_vars
    PROVE  Phases'
<1>1. CASE UNCHANGED <<call, in_irq, phase, attempt, hidI2cActive>>
  BY <1>1, Zenon DEF Phases, Scheduled
<1>2. ASSUME NEW c \in Contexts, transfer(c) PROVE Phases'
  <2>1. /\ Runs(c) /\ Alone(c) /\ call[c].pc # "idle"
        /\ UNCHANGED <<in_irq, phase, attempt, hidI2cActive>>
    BY <1>2, TransferFacts, Zenon
  <2>2. Scheduled'
    BY <2>1, Zenon DEF Phases, Scheduled
  <2>3. CASE c = "main"
    <3>1. ~ in_irq /\ call'["irq"] = call["irq"] /\ phase \notin Between
      BY <2>1, <2>3, ContextFacts, Zenon DEF Alone, Phases
    <3> QED  BY <2>1, <2>2, <3>1, Zenon DEF Phases
  <2>4. CASE c = "irq"
    <3>1. in_irq /\ call'["main"] = call["main"]
      BY <2>1, <2>4, ContextFacts, Zenon DEF Alone, Phases
    <3> QED  BY <2>1, <2>2, <3>1, Zenon DEF Phases
  <2> QED  BY <2>3, <2>4, ContextFacts, Zenon
<1>3. CASE hidI2cInit
  <2>1. /\ phase = "ready" /\ hidI2cActive' = TRUE /\ phase' = "sleep"
        /\ UNCHANGED <<call, in_irq, attempt>>
    BY <1>3, Zenon DEF hidI2cInit, fifos
  <2>2. "ready" \in Between
    BY Zenon DEF Between
  <2>3. call["main"].pc = "idle" /\ attempt = 1
    BY <2>1, <2>2, Zenon DEF Phases, Scheduled
  <2>4. Scheduled'
    BY <2>1, <2>3, ConstantFacts DEF Scheduled
  <2> QED  BY <2>1, <2>3, <2>4, Zenon DEF Phases
<1>4. CASE restart_controller
  <2>1. /\ ~ in_irq /\ phase' = "power" /\ Alone("main") /\ Scheduled'
        /\ UNCHANGED <<in_irq, hidI2cActive>>
    BY <1>4, RestartFacts, Zenon
  <2>2. "power" \notin Between
    BY Zenon DEF Between
  <2>3. call'["irq"] = call["irq"]
    BY <2>1, ContextFacts, Zenon DEF Alone
  <2> QED  BY <2>1, <2>2, <2>3, Zenon DEF Phases
<1>5. ASSUME Begins, Scheduled' PROVE Phases'
  <2>1. ~ in_irq /\ phase' \in PhaseNames \ Between /\ UNCHANGED <<in_irq, hidI2cActive>>
    BY <1>5, Zenon DEF Begins
  <2>2. Alone("main")
    BY <1>5, ContextFacts, BeginFacts, Zenon DEF Begins
  <2>3. call'["irq"] = call["irq"]
    BY <2>2, ContextFacts, Zenon DEF Alone
  <2> QED  BY <1>5, <2>1, <2>3, Zenon DEF Phases
<1>6. ASSUME Ends, Scheduled' PROVE Phases'
  <2>1. ~ in_irq /\ UNCHANGED <<in_irq, hidI2cActive>>
    BY <1>6, Zenon DEF Ends
  <2>2. Alone("main") /\ call'["main"] = Idle
    BY <1>6, ContextFacts, EndedFacts, Zenon DEF Ends
  <2>3. call'["irq"] = call["irq"]
    BY <2>2, ContextFacts, Zenon DEF Alone
  <2> QED  BY <1>6, <2>1, <2>2, <2>3, IdleFacts, Zenon DEF Phases
<1>7. CASE flushed \/ hidI2cGetDescriptor \/ hidI2cReset \/ dump_report
  BY <1>4, <1>5, <1>6, <1>7, MainFacts, Zenon
<1>8. CASE hidI2cTickPoll
  <2>1. /\ hidI2cActive /\ in_irq' = TRUE /\ Begin("irq", FALSE)
        /\ UNCHANGED <<phase, attempt, hidI2cActive>>
    BY <1>8, Zenon DEF hidI2cTickPoll, program
  <2>2. Alone("irq")
    BY <2>1, ContextFacts, BeginFacts, Zenon
  <2>3. call'["main"] = call["main"]
    BY <2>2, ContextFacts, Zenon DEF Alone
  <2> QED  BY <2>1, <2>3, Zenon DEF Phases, Scheduled
<1>9. CASE iretq
  <2>1. /\ in_irq' = FALSE /\ call' = Ended("irq")
        /\ UNCHANGED <<phase, attempt, hidI2cActive>>
    BY <1>9, Zenon DEF iretq, program
  <2>2. Alone("irq") /\ call'["irq"] = Idle
    BY <2>1, ContextFacts, EndedFacts, Zenon
  <2>3. call'["main"] = call["main"]
    BY <2>2, ContextFacts, Zenon DEF Alone
  <2> QED  BY <2>1, <2>2, <2>3, Zenon DEF Phases, Scheduled
<1>10. bus_transfer \/ bus_abort \/ flush \/ UNCHANGED vars =>
          UNCHANGED <<call, in_irq, phase, attempt, hidI2cActive>>
  BY Zenon DEF bus_transfer, bus_abort, flush, program, vars
<1> QED  BY <1>1, <1>2, <1>3, <1>4, <1>7, <1>8, <1>9, <1>10, NextCases, Zenon

-----------------------------------------------------------------------------
(***************************************************************************)
(* Blocking is kept.  A step of the main program finds no call of the      *)
(* handler; the bus does nothing while the controller is blocked; so the   *)
(* handler's call alone decides what becomes of the abort it found.        *)
(***************************************************************************)
LEMMA UnblockedFacts ==
    ASSUME Phases, ~ in_irq
    PROVE  ~ call["irq"].blocked
BY IdleFacts, Zenon DEF Phases

\* A step of the handler's call keeps Blocking.
LEMMA BlockedStep ==
    ASSUME Types, Phases, Blocking, transfer("irq")
    PROVE  Blocking'
<1> DEFINE k == call["irq"]
<1>1. "irq" \in Contexts
  BY ContextFacts, Zenon
<1>2. call'["irq"].blocked = k.blocked
  BY <1>1, TransferFacts, Zenon
<1>3. CASE wait("irq")
  <2>1. /\ k.pc \in {"write", "read", "drain", "rx"} /\ UNCHANGED <<tx, rx, abrt>>
        /\ call'["irq"].pc \in {k.pc, Go(k.pc)}
        /\ Ready(k.pc) => /\ call'["irq"].timeout = k.timeout
                          /\ call'["irq"].pc = Go(k.pc)
        /\ call'["irq"].pc = Go(k.pc) /\ ~ Ready(k.pc) => call'["irq"].timeout # 0
    BY <1>1, <1>3, WaitFacts, Zenon
  <2>2. abrt' => tx' = << >>
    BY <2>1, Zenon DEF Blocking
  <2>3. ASSUME k.blocked PROVE BlockedAt(call["irq"])'
    <3>1. k.pc \notin {"clear", "done"} /\ Go(k.pc) \notin {"clear", "done", "rx"}
      BY <2>1, GoFacts, Zenon
    <3>2. abrt
      BY <2>3, <3>1, Zenon DEF Blocking, BlockedAt
    <3>3. call'["irq"].pc \notin {"clear", "done"}
      BY <2>1, <3>1, Zenon
    <3>4. ASSUME call'["irq"].pc = "rx", rx # << >> PROVE FALSE
      <4>1. k.pc = "rx"
        BY <2>1, <3>1, <3>4, Zenon
      <4>2. Ready("rx")
        BY <3>4, Zenon DEF Ready
      <4> QED  BY <2>1, <3>1, <3>4, <4>1, <4>2, Zenon
    <3>5. ASSUME call'["irq"].pc = "do_rx" PROVE call'["irq"].timeout # 0
      <4>1. k.pc = "rx" /\ call'["irq"].pc = Go(k.pc)
        BY <2>1, <3>5, GoFacts, Zenon
      <4>2. CASE Ready(k.pc)
        <5>1. rx # << >>
          BY <4>1, <4>2, Zenon DEF Ready
        <5>2. k.timeout = RxTries
          BY <2>3, <4>1, <5>1, Zenon DEF Blocking, BlockedAt
        <5> QED  BY <2>1, <4>2, <5>2, ConstantFacts
      <4>3. CASE ~ Ready(k.pc)
        BY <2>1, <4>1, <4>3, Zenon
      <4> QED  BY <4>2, <4>3
    <3> QED  BY <2>1, <3>2, <3>3, <3>4, <3>5, Zenon DEF BlockedAt
  <2> QED  BY <1>2, <2>2, <2>3, Zenon DEF Blocking
<1>4. CASE give_up("irq")
  <2>1. /\ k.pc \in {"do_write", "do_read", "do_rx"} /\ k.timeout = 0
        /\ UNCHANGED <<tx, rx, abrt>> /\ call'["irq"].pc = "done"
        /\ k.pc # "do_rx" => call'["irq"].result = -1
    BY <1>1, <1>4, GiveUpFacts, Zenon
  <2>2. ASSUME k.blocked PROVE BlockedAt(call["irq"])'
    <3>1. k.pc # "do_rx"
      BY <2>1, <2>2, Zenon DEF Blocking, BlockedAt
    <3> QED  BY <2>1, <3>1 DEF BlockedAt
  <2> QED  BY <1>2, <2>1, <2>2, Zenon DEF Blocking
<1>5. CASE do_write("irq")
  <2>1. /\ k.pc = "do_write" /\ Queue(Write) /\ UNCHANGED <<rx, abrt>>
        /\ call'["irq"].pc \in {"write", "drain", "read"}
    BY <1>1, <1>5, DoWriteFacts, Zenon
  <2>2. abrt => tx' = tx
    BY <2>1, QueueFacts, Zenon DEF Types
  <2>3. ASSUME k.blocked PROVE BlockedAt(call["irq"])'
    <3>1. abrt
      BY <2>1, <2>3, Zenon DEF Blocking, BlockedAt
    <3> QED  BY <2>1, <3>1 DEF BlockedAt
  <2> QED  BY <1>2, <2>1, <2>2, <2>3, Zenon DEF Blocking
<1>6. CASE do_read("irq")
  <2>1. /\ k.pc = "do_read" /\ Queue(IF clean THEN Byte("irq", k.i) ELSE Stray)
        /\ UNCHANGED <<rx, abrt>>
        /\ \/ call'["irq"].pc = "read"
           \/ call'["irq"].pc = "rx" /\ call'["irq"].timeout = RxTries
    BY <1>1, <1>6, DoReadFacts, Zenon
  <2>2. abrt => tx' = tx
    BY <1>1, <2>1, CommandFacts, QueueFacts, Zenon DEF Types
  <2>3. ASSUME k.blocked PROVE BlockedAt(call["irq"])'
    <3>1. abrt
      BY <2>1, <2>3, Zenon DEF Blocking, BlockedAt
    <3> QED  BY <2>1, <3>1 DEF BlockedAt
  <2> QED  BY <1>2, <2>1, <2>2, <2>3, Zenon DEF Blocking
<1>7. CASE do_rx("irq")
  <2>1. /\ k.pc = "do_rx" /\ UNCHANGED <<tx, abrt>>
        /\ \/ call'["irq"].pc = "source"
           \/ call'["irq"].pc = "rx" /\ call'["irq"].timeout = RxTries
    BY <1>1, <1>7, DoRxFacts, Zenon
  <2>2. ASSUME k.blocked PROVE BlockedAt(call["irq"])'
    <3>1. abrt
      BY <2>1, <2>2, Zenon DEF Blocking, BlockedAt
    <3> QED  BY <2>1, <3>1 DEF BlockedAt
  <2> QED  BY <1>2, <2>1, <2>2, Zenon DEF Blocking
<1>8. CASE read_abort("irq")
  <2>1. /\ k.pc = "source" /\ UNCHANGED <<tx, rx, abrt>> /\ call'["irq"].pc = "clear"
        /\ abrt => call'["irq"].result = -1
    BY <1>1, <1>8, ReadAbortFacts, Zenon
  <2>2. ASSUME k.blocked PROVE BlockedAt(call["irq"])'
    <3>1. abrt
      BY <2>1, <2>2, Zenon DEF Blocking, BlockedAt
    <3> QED  BY <2>1, <3>1 DEF BlockedAt
  <2> QED  BY <1>2, <2>1, <2>2, Zenon DEF Blocking
<1>9. CASE clear_abort("irq")
  <2>1. /\ k.pc = "clear" /\ abrt' = FALSE /\ call'["irq"].pc = "done"
        /\ call'["irq"].result = k.result
    BY <1>1, <1>9, ClearAbortFacts, Zenon
  <2>2. ASSUME k.blocked PROVE BlockedAt(call["irq"])'
    <3>1. k.result = -1
      BY <2>1, <2>2, Zenon DEF Blocking, BlockedAt
    <3> QED  BY <2>1, <3>1 DEF BlockedAt
  <2> QED  BY <1>2, <2>1, <2>2, Zenon DEF Blocking
<1> QED  BY <1>3, <1>4, <1>5, <1>6, <1>7, <1>8, <1>9, Zenon DEF transfer

\* Every step keeps Blocking.
LEMMA BlockingStep ==
    ASSUME Types, Phases, Blocking, [Next]_vars
    PROVE  Blocking'
<1>1. CASE bus_transfer
  <2>1. tx # << >> /\ UNCHANGED <<abrt, call>>
    BY <1>1, Zenon DEF bus_transfer
  <2>2. ~ abrt
    BY <2>1, Zenon DEF Blocking
  <2>3. ASSUME call["irq"].blocked PROVE BlockedAt(call["irq"])'
    <3>1. call["irq"].pc \in {"clear", "done"} /\ call["irq"].result = -1
      BY <2>2, <2>3, Zenon DEF Blocking, BlockedAt
    <3> QED  BY <2>1, <3>1 DEF BlockedAt
  <2> QED  BY <2>1, <2>2, <2>3, Zenon DEF Blocking
<1>2. CASE bus_abort
  BY <1>2, Zenon DEF bus_abort, Blocking, BlockedAt
<1>3. CASE transfer("main")
  <2>1. "main" \in Contexts
    BY ContextFacts, Zenon
  <2>2. Runs("main") /\ Alone("main")
    BY <1>3, <2>1, TransferFacts, Zenon
  <2>3. ~ call'["irq"].blocked
    BY <2>2, ContextFacts, UnblockedFacts, Zenon DEF Alone
  <2>4. abrt' => tx' = << >>
    <3>1. CASE wait("main")
      BY <2>1, <3>1, WaitFacts, Zenon DEF Blocking
    <3>2. CASE give_up("main")
      BY <2>1, <3>2, GiveUpFacts, Zenon DEF Blocking
    <3>3. CASE do_write("main")
      BY <2>1, <3>3, DoWriteFacts, QueueFacts, Zenon DEF Blocking, Types
    <3>4. CASE do_read("main")
      BY <2>1, <3>4, DoReadFacts, CommandFacts, QueueFacts, Zenon DEF Blocking, Types
    <3>5. CASE do_rx("main")
      BY <2>1, <3>5, DoRxFacts, Zenon DEF Blocking
    <3>6. CASE read_abort("main")
      BY <2>1, <3>6, ReadAbortFacts, Zenon DEF Blocking
    <3>7. CASE clear_abort("main")
      BY <2>1, <3>7, ClearAbortFacts, Zenon
    <3> QED  BY <1>3, <3>1, <3>2, <3>3, <3>4, <3>5, <3>6, <3>7, Zenon DEF transfer
  <2> QED  BY <2>3, <2>4, Zenon DEF Blocking
<1>4. CASE transfer("irq")
  BY <1>4, BlockedStep, Zenon
<1>5. CASE flush
  <2>1. phase = "flush" /\ UNCHANGED <<tx, abrt, call>>
    BY <1>5, Zenon DEF flush
  <2>2. ~ in_irq
    BY <2>1, Zenon DEF Phases, Scheduled
  <2> QED  BY <2>1, <2>2, UnblockedFacts, Zenon DEF Blocking
<1>6. CASE restart_controller
  <2>1. ~ in_irq /\ Alone("main") /\ abrt' = FALSE
    BY <1>6, RestartFacts, Zenon
  <2>2. ~ call'["irq"].blocked
    BY <2>1, ContextFacts, UnblockedFacts, Zenon DEF Alone
  <2> QED  BY <2>1, <2>2, Zenon DEF Blocking
<1>7. ASSUME Begins \/ Ends PROVE Blocking'
  <2>1. ~ in_irq /\ UNCHANGED <<tx, abrt>>
    BY <1>7, Zenon DEF Begins, Ends
  <2>2. Alone("main")
    BY <1>7, ContextFacts, BeginFacts, EndedFacts, Zenon DEF Begins, Ends
  <2>3. ~ call'["irq"].blocked
    BY <2>1, <2>2, ContextFacts, UnblockedFacts, Zenon DEF Alone
  <2> QED  BY <2>1, <2>3, Zenon DEF Blocking
<1>8. CASE flushed \/ hidI2cGetDescriptor \/ hidI2cReset \/ dump_report
  BY <1>6, <1>7, <1>8, MainFacts, Zenon
<1>9. CASE hidI2cTickPoll
  <2>1. Begin("irq", FALSE) /\ UNCHANGED <<tx, abrt>>
    BY <1>9, Zenon DEF hidI2cTickPoll, fifos
  <2>2. call'["irq"].pc = "write" /\ call'["irq"].blocked = abrt
    BY <2>1, ContextFacts, BeginFacts, Zenon
  <2>3. abrt => BlockedAt(call["irq"])'
    BY <2>1, <2>2, Zenon DEF BlockedAt
  <2> QED  BY <2>1, <2>2, <2>3, Zenon DEF Blocking
<1>10. CASE iretq
  <2>1. call' = Ended("irq") /\ UNCHANGED <<tx, abrt>>
    BY <1>10, Zenon DEF iretq, fifos
  <2>2. call'["irq"] = Idle
    BY <2>1, ContextFacts, EndedFacts, Zenon
  <2> QED  BY <2>1, <2>2, IdleFacts, Zenon DEF Blocking
<1>11. CASE hidI2cInit \/ UNCHANGED vars
  <2>1. UNCHANGED <<tx, rx, abrt, call>>
    BY <1>11, Zenon DEF hidI2cInit, vars, fifos
  <2> QED  BY <2>1, Zenon DEF Blocking, BlockedAt
<1> QED
  BY <1>1, <1>2, <1>3, <1>4, <1>5, <1>6, <1>8, <1>9, <1>10, <1>11, NextCases, ContextFacts, Zenon

-----------------------------------------------------------------------------
(***************************************************************************)
(* Streams is kept.  While clean holds at most one call is under way, and  *)
(* the FIFOs hold its commands and bytes only.                             *)
(***************************************************************************)
LEMMA OwnNone ==
    ASSUME NEW c, NEW k, NEW t, NEW r, k.pc \in {"idle", "done"}
    PROVE  Own(c, k, t, r)
BY Zenon DEF Own

\* A call that begins with empty FIFOs.
LEMMA OwnBegin ==
    ASSUME NEW c, NEW k, k.pc = "write"
    PROVE  Own(c, k, << >>, << >>)
BY StreamEmpty, Zenon DEF Own

\* While clean holds, no other context is in a call.
LEMMA OneCall ==
    ASSUME Types, Phases, Streams, clean, NEW c \in Contexts, Runs(c),
           NEW d \in Contexts \ {c}
    PROVE  call[d].pc \in {"idle", "done"}
<1>1. CASE c = "main"
  <2>1. d = "irq" /\ ~ in_irq
    BY <1>1, ContextFacts, Zenon
  <2> QED  BY <2>1, IdleFacts, Zenon DEF Phases
<1>2. CASE c = "irq"
  <2>1. d = "main" /\ in_irq
    BY <1>2, ContextFacts, Zenon
  <2> QED  BY <2>1, Zenon DEF Streams
<1> QED  BY <1>1, <1>2, ContextFacts, Zenon

\* A transfer of the bus keeps what the FIFOs hold for a call.
LEMMA OwnTransfer ==
    ASSUME NEW t \in Seq(Bytes \cup {Write}), NEW r \in Seq(Bytes), t # << >>,
           NEW c \in Contexts, NEW k \in CallRecords, InRange(k), Own(c, k, t, r)
    PROVE  Own(c, k, Tail(t), IF Head(t) = Write \/ Len(r) = RxDepth THEN r
                              ELSE Append(r, Head(t)))
<1>1. PICK u : u = IF Head(t) = Write \/ Len(r) = RxDepth THEN r ELSE Append(r, Head(t))
  BY Zenon
<1>2. PICK s : s = Tail(t)
  BY Zenon
<1>3. k.i \in 1 .. MaxPlace
  BY Zenon DEF CallRecords
<1>4. \A lo \in Nat, hi \in Int : lo >= 1 /\ hi <= Rlen /\ Stream(t, r, c, lo, hi) =>
         Stream(s, u, c, lo, hi)
  BY <1>1, <1>2, StreamTransfer, Zenon
<1>5. k.pc \in {"write", "do_write", "drain"} => Stream(s, u, c, 1, 0)
  <2>1. 1 \in Nat /\ 1 >= 1 /\ 0 \in Int /\ 0 <= Rlen
    BY ConstantFacts
  <2> QED  BY <1>4, <2>1, Zenon DEF Own
<1>6. ASSUME k.pc \in {"read", "do_read"} PROVE Stream(s, u, c, 1, k.i - 1)
  <2>1. k.i <= Rlen
    BY <1>6, Zenon DEF InRange
  <2>2. 1 \in Nat /\ 1 >= 1 /\ k.i - 1 \in Int /\ k.i - 1 <= Rlen
    BY <1>3, <2>1, ConstantFacts
  <2> QED  BY <1>4, <1>6, <2>2, Zenon DEF Own
<1>7. ASSUME k.pc \in {"rx", "do_rx"} PROVE Stream(s, u, c, k.i, Rlen)
  <2>1. k.i \in Nat /\ k.i >= 1 /\ Rlen \in Int /\ Rlen <= Rlen
    BY <1>3, ConstantFacts
  <2> QED  BY <1>4, <1>7, <2>1, Zenon DEF Own
<1>8. k.pc \notin {"source", "clear"}
  BY Zenon DEF Own
<1>9. Len(t) < TxDepth => Len(s) < TxDepth
  BY <1>2, ConstantFacts
<1>10. r # << >> => u # << >>
  <2>1. Append(r, Head(t)) # << >>
    <3>1. PICK h : h = Head(t)
      BY Zenon
    <3>2. h \in Bytes \cup {Write}
      BY <3>1
    <3>3. r \in Seq(Bytes \cup {Write})
      OBVIOUS
    <3>4. Len(Append(r, h)) = Len(r) + 1
      BY <3>2, <3>3
    <3>5. Len(r) \in Nat
      OBVIOUS
    <3>6. Len(Append(r, h)) # 0
      BY <3>4, <3>5
    <3>7. Len(<< >>) = 0
      BY Zenon
    <3> QED  BY <3>1, <3>6, <3>7, Zenon
  <2> QED  BY <1>1, <2>1, Zenon
<1>11. Own(c, k, s, u)
  BY <1>5, <1>6, <1>7, <1>8, <1>9, <1>10, Zenon DEF Own
<1> QED  BY <1>1, <1>2, <1>11, Zenon

\* A step of a call keeps what the FIFOs hold for it, and its end leaves them empty.
LEMMA OwnStep ==
    ASSUME Types, Phases, Streams, NEW c \in Contexts, transfer(c), clean'
    PROVE  /\ clean /\ ~ abrt'
           /\ Own(c, call'[c], tx', rx')
           /\ call'[c].pc \in {"idle", "done"} => tx' = << >> /\ rx' = << >>
<1> DEFINE k == call[c]
<1>1. tx \in Seq(Bytes \cup {Write}) /\ rx \in Seq(Bytes) /\ k.i \in 1 .. MaxPlace
  BY Zenon DEF Types, Fifos, Locals, CallRecords
<1>2. clean => enabled /\ ~ abrt /\ Own(c, k, tx, rx)
  BY Zenon DEF Streams
<1>3. CASE wait(c)
  <2>1. /\ k.pc \in {"write", "read", "drain", "rx"} /\ UNCHANGED <<tx, rx, abrt>>
        /\ call'[c].pc \in {k.pc, Go(k.pc)} /\ call'[c].i = k.i /\ clean
        /\ call'[c].pc = Go(k.pc) => Ready(k.pc) /\ call'[c].timeout # 0
    BY <1>3, WaitFacts, Zenon
  <2>2. Own(c, k, tx, rx) /\ ~ abrt
    BY <1>2, <2>1, Zenon
  <2>3. CASE call'[c].pc = k.pc
    <3>1. Own(c, call'[c], tx, rx)
      BY <2>1, <2>2, <2>3, Zenon DEF Own
    <3>2. call'[c].pc \notin {"idle", "done"}
      BY <2>1, <2>3, Zenon
    <3> QED  BY <2>1, <2>2, <3>1, <3>2, Zenon
  <2>4. CASE call'[c].pc = Go(k.pc)
    <3>1. Ready(k.pc) /\ call'[c].timeout # 0
      BY <2>1, <2>4, Zenon
    <3>2. CASE k.pc = "write"
      <4>1. Len(tx) < TxDepth /\ call'[c].pc = "do_write"
        BY <2>4, <3>1, <3>2, GoFacts, Zenon DEF Ready
      <4>2. Stream(tx, rx, c, 1, 0)
        BY <2>2, <3>2, Zenon DEF Own
      <4>3. Own(c, call'[c], tx, rx) /\ call'[c].pc \notin {"idle", "done"}
        BY <3>1, <4>1, <4>2, Zenon DEF Own
      <4> QED  BY <2>1, <2>2, <4>3, Zenon
    <3>3. CASE k.pc = "read"
      <4>1. Len(tx) < TxDepth /\ call'[c].pc = "do_read"
        BY <2>4, <3>1, <3>3, GoFacts, Zenon DEF Ready
      <4>2. Stream(tx, rx, c, 1, k.i - 1)
        BY <2>2, <3>3, Zenon DEF Own
      <4>3. Own(c, call'[c], tx, rx) /\ call'[c].pc \notin {"idle", "done"}
        BY <2>1, <3>1, <4>1, <4>2, Zenon DEF Own
      <4> QED  BY <2>1, <2>2, <4>3, Zenon
    <3>4. CASE k.pc = "drain"
      <4>1. tx = << >> /\ call'[c].pc = "source"
        BY <2>4, <3>1, <3>4, GoFacts, Zenon DEF Ready
      <4>2. Stream(tx, rx, c, 1, 0)
        BY <2>2, <3>4, Zenon DEF Own
      <4>3. rx = << >>
        BY <1>1, <4>2, StreamOfNone, Zenon
      <4>4. Own(c, call'[c], tx, rx) /\ call'[c].pc \notin {"idle", "done"}
        BY <4>1, <4>3, Zenon DEF Own
      <4> QED  BY <2>1, <2>2, <4>4, Zenon
    <3>5. CASE k.pc = "rx"
      <4>1. rx # << >> /\ call'[c].pc = "do_rx"
        BY <2>4, <3>1, <3>5, GoFacts, Zenon DEF Ready
      <4>2. Stream(tx, rx, c, k.i, Rlen)
        BY <2>2, <3>5, Zenon DEF Own
      <4>3. Own(c, call'[c], tx, rx) /\ call'[c].pc \notin {"idle", "done"}
        BY <2>1, <3>1, <4>1, <4>2, Zenon DEF Own
      <4> QED  BY <2>1, <2>2, <4>3, Zenon
    <3> QED  BY <2>1, <3>2, <3>3, <3>4, <3>5, Zenon
  <2> QED  BY <2>1, <2>3, <2>4, Zenon
<1>4. CASE give_up(c)
  <2>1. k.pc \in {"do_write", "do_read", "do_rx"} /\ k.timeout = 0 /\ clean
    BY <1>4, GiveUpFacts, Zenon
  <2> QED  BY <1>2, <2>1, Zenon DEF Own
<1>5. CASE do_write(c)
  <2>1. /\ k.pc = "do_write" /\ Queue(Write) /\ UNCHANGED <<rx, abrt>> /\ clean
        /\ call'[c].pc \in {"write", "drain", "read"}
        /\ call'[c].pc = "read" => call'[c].i = 1
    BY <1>5, DoWriteFacts, Zenon
  <2>2. Stream(tx, rx, c, 1, 0) /\ Len(tx) < TxDepth /\ enabled /\ ~ abrt
    BY <1>2, <2>1, Zenon DEF Own
  <2>3. tx' = Append(tx, Write)
    BY <2>1, <2>2, QueueFacts, Zenon DEF Types
  <2>4. Stream(tx', rx', c, 1, 0)
    BY <1>1, <2>1, <2>2, <2>3, StreamWrite, Zenon
  <2>5. call'[c].pc = "read" => call'[c].i - 1 = 0
    BY <2>1
  <2>6. Own(c, call'[c], tx', rx') /\ call'[c].pc \notin {"idle", "done"}
    BY <2>1, <2>4, <2>5, Zenon DEF Own
  <2> QED  BY <2>1, <2>2, <2>6, Zenon
<1>6. CASE do_read(c)
  <2>1. /\ k.pc = "do_read" /\ Queue(IF clean THEN Byte(c, k.i) ELSE Stray)
        /\ UNCHANGED <<rx, abrt>> /\ clean
        /\ \/ call'[c].pc = "read" /\ call'[c].i = k.i + 1
           \/ call'[c].pc = "rx" /\ call'[c].i = 1 /\ k.i = Rlen
    BY <1>6, DoReadFacts, Zenon
  <2>2. Stream(tx, rx, c, 1, k.i - 1) /\ Len(tx) < TxDepth /\ enabled /\ ~ abrt
    BY <1>2, <2>1, Zenon DEF Own
  <2>3. Byte(c, k.i) \in Bytes
    BY <2>1, CommandFacts, Zenon
  <2>4. Queue(Byte(c, k.i))
    BY <2>1, Zenon
  <2>5. tx' = Append(tx, Byte(c, k.i))
    BY <2>2, <2>3, <2>4, QueueFacts, Zenon DEF Types
  <2>6. k.i \in Nat
    BY <1>1
  <2>7. Stream(tx', rx', c, 1, k.i)
    BY <1>1, <2>1, <2>2, <2>3, <2>5, <2>6, StreamRead, Zenon
  <2>8. CASE call'[c].pc = "read" /\ call'[c].i = k.i + 1
    <3>1. call'[c].i - 1 = k.i
      BY <2>6, <2>8
    <3>2. Own(c, call'[c], tx', rx') /\ call'[c].pc \notin {"idle", "done"}
      BY <2>7, <2>8, <3>1, Zenon DEF Own
    <3> QED  BY <2>1, <2>2, <3>2, Zenon
  <2>9. CASE call'[c].pc = "rx" /\ call'[c].i = 1 /\ k.i = Rlen
    <3>1. Own(c, call'[c], tx', rx') /\ call'[c].pc \notin {"idle", "done"}
      BY <2>7, <2>9, Zenon DEF Own
    <3> QED  BY <2>1, <2>2, <3>1, Zenon
  <2> QED  BY <2>1, <2>8, <2>9, Zenon
<1>7. CASE do_rx(c)
  <2>1. /\ k.pc = "do_rx" /\ rx' = IF rx = << >> THEN rx ELSE Tail(rx)
        /\ UNCHANGED <<tx, abrt>> /\ clean
        /\ \/ call'[c].pc = "rx" /\ call'[c].i = k.i + 1
           \/ call'[c].pc = "source" /\ k.i = Rlen
    BY <1>7, DoRxFacts, Zenon
  <2>2. Stream(tx, rx, c, k.i, Rlen) /\ rx # << >> /\ ~ abrt
    BY <1>2, <2>1, Zenon DEF Own
  <2>3. k.i \in Nat
    BY <1>1
  <2>4. /\ Stream(tx, Tail(rx), c, k.i + 1, Rlen)
        /\ k.i = Rlen => tx = << >> /\ Tail(rx) = << >>
    BY <1>1, <2>2, <2>3, StreamFetch, Zenon
  <2>5. tx' = tx /\ rx' = Tail(rx)
    BY <2>1, <2>2, Zenon
  <2>6. CASE call'[c].pc = "rx" /\ call'[c].i = k.i + 1
    <3>1. Own(c, call'[c], tx', rx') /\ call'[c].pc \notin {"idle", "done"}
      BY <2>4, <2>5, <2>6, Zenon DEF Own
    <3> QED  BY <2>1, <2>2, <3>1, Zenon
  <2>7. CASE call'[c].pc = "source" /\ k.i = Rlen
    <3>1. Own(c, call'[c], tx', rx') /\ call'[c].pc \notin {"idle", "done"}
      BY <2>4, <2>5, <2>7, Zenon DEF Own
    <3> QED  BY <2>1, <2>2, <3>1, Zenon
  <2> QED  BY <2>1, <2>6, <2>7, Zenon
<1>8. CASE read_abort(c)
  <2>1. /\ k.pc = "source" /\ UNCHANGED <<tx, rx, abrt>> /\ clean /\ call'[c].pc = "clear"
    BY <1>8, ReadAbortFacts, Zenon
  <2>2. tx = << >> /\ rx = << >> /\ ~ abrt
    BY <1>2, <2>1, Zenon DEF Own
  <2>3. Own(c, call'[c], tx', rx')
    BY <2>1, <2>2, Zenon DEF Own
  <2> QED  BY <2>1, <2>2, <2>3, Zenon
<1>9. CASE clear_abort(c)
  <2>1. /\ k.pc = "clear" /\ UNCHANGED <<tx, rx>> /\ abrt' = FALSE /\ clean
        /\ call'[c].pc = "done"
    BY <1>9, ClearAbortFacts, Zenon
  <2>2. tx = << >> /\ rx = << >>
    BY <1>2, <2>1, Zenon DEF Own
  <2>3. Own(c, call'[c], tx', rx')
    BY <2>1, OwnNone
  <2> QED  BY <2>1, <2>2, <2>3, Zenon
<1> QED  BY <1>3, <1>4, <1>5, <1>6, <1>7, <1>8, <1>9, Zenon DEF transfer

\* Every step keeps Streams.
LEMMA StreamsStep ==
    ASSUME Types, Phases, Streams, [Next]_vars
    PROVE  Streams'
<1>1. SUFFICES ASSUME clean'
               PROVE  /\ enabled' /\ ~ abrt'
                      /\ in_irq' => call'["main"].pc \in {"idle", "done"}
                      /\ Quiet' => tx' = << >> /\ (phase' # "flush" => rx' = << >>)
                      /\ \A c \in Contexts : Own(c, call'[c], tx', rx')
  BY Zenon DEF Streams
<1>2. /\ tx \in Seq(Bytes \cup {Write}) /\ rx \in Seq(Bytes)
      /\ \A c \in Contexts : call[c] \in CallRecords /\ InRange(call[c])
  BY Zenon DEF Types, Fifos, Locals
<1>3. ASSUME clean, ~ in_irq, call["main"].pc \in {"idle", "done"}
      PROVE  tx = << >> /\ (phase # "flush" => rx = << >>)
  <2>1. Quiet
    BY <1>3, ContextFacts, IdleFacts, Zenon DEF Quiet, Phases
  <2> QED  BY <1>3, <2>1, Zenon DEF Streams
<1>4. CASE bus_transfer
  <2>1. /\ tx # << >> /\ tx' = Tail(tx)
        /\ rx' = IF Head(tx) = Write \/ Len(rx) = RxDepth THEN rx ELSE Append(rx, Head(tx))
        /\ UNCHANGED <<enabled, abrt, call, in_irq, clean>>
    BY <1>4, Zenon DEF bus_transfer
  <2>2. /\ enabled /\ ~ abrt /\ (in_irq => call["main"].pc \in {"idle", "done"}) /\ ~ Quiet
        /\ \A c \in Contexts : Own(c, call[c], tx, rx)
    BY <1>1, <2>1, Zenon DEF Streams
  <2>3. \A c \in Contexts : Own(c, call[c], tx', rx')
    BY <1>2, <2>1, <2>2, OwnTransfer, Zenon
  <2>4. ~ Quiet'
    BY <2>1, <2>2, Zenon DEF Quiet
  <2> QED  BY <2>1, <2>2, <2>3, <2>4, Zenon
<1>5. CASE bus_abort
  BY <1>1, <1>5, Zenon DEF bus_abort
<1>6. ASSUME NEW c \in Contexts, transfer(c)
      PROVE  /\ enabled' /\ ~ abrt'
             /\ in_irq' => call'["main"].pc \in {"idle", "done"}
             /\ Quiet' => tx' = << >> /\ (phase' # "flush" => rx' = << >>)
             /\ \A d \in Contexts : Own(d, call'[d], tx', rx')
  <2>1. /\ clean /\ ~ abrt' /\ Own(c, call'[c], tx', rx')
        /\ call'[c].pc \in {"idle", "done"} => tx' = << >> /\ rx' = << >>
    BY <1>1, <1>6, OwnStep, Zenon
  <2>2. Runs(c) /\ Alone(c) /\ UNCHANGED <<enabled, in_irq>>
    BY <1>6, TransferFacts, Zenon
  <2>3. ASSUME NEW d \in Contexts \ {c} PROVE call'[d].pc \in {"idle", "done"}
    BY <2>1, <2>2, <2>3, OneCall, Zenon DEF Alone
  <2>4. \A d \in Contexts : Own(d, call'[d], tx', rx')
    <3>1. \A d \in Contexts \ {c} : Own(d, call'[d], tx', rx')
      BY <2>3, OwnNone
    <3> QED  BY <2>1, <3>1, Zenon
  <2>5. in_irq' => call'["main"].pc \in {"idle", "done"}
    <3>1. CASE c = "main"
      BY <2>2, <3>1, ContextFacts, Zenon
    <3>2. CASE c # "main"
      BY <2>3, <3>2, ContextFacts, Zenon
    <3> QED  BY <3>1, <3>2, Zenon
  <2>6. Quiet' => tx' = << >> /\ rx' = << >>
    BY <2>1, Zenon DEF Quiet
  <2>7. enabled'
    BY <2>1, <2>2, Zenon DEF Streams
  <2> QED  BY <2>1, <2>4, <2>5, <2>6, <2>7, Zenon
<1>7. CASE flush
  <2>1. phase = "flush" /\ UNCHANGED <<tx, enabled, abrt, call, in_irq, phase, clean>>
    BY <1>7, Zenon DEF flush, program
  <2>2. "flush" \in Between
    BY Zenon DEF Between
  <2>3. ~ in_irq
    BY <2>1, Zenon DEF Phases, Scheduled
  <2>4. \A c \in Contexts : call[c].pc \in {"idle", "done"}
    BY <2>1, <2>2, <2>3, ContextFacts, IdleFacts, Zenon DEF Phases
  <2>5. \A c \in Contexts : Own(c, call'[c], tx', rx')
    BY <2>1, <2>4, OwnNone
  <2>6. enabled /\ ~ abrt /\ tx = << >>
    BY <1>1, <2>1, <2>4, Zenon DEF Streams, Quiet
  <2> QED  BY <2>1, <2>3, <2>5, <2>6, Zenon
<1>8. CASE hidI2cInit
  <2>1. phase = "ready" /\ UNCHANGED <<tx, rx, enabled, abrt, call, in_irq, clean>>
    BY <1>8, Zenon DEF hidI2cInit, fifos
  <2>2. "ready" # "flush"
    BY Zenon
  <2>3. Quiet' => Quiet
    BY <2>1, Zenon DEF Quiet
  <2> QED  BY <1>1, <2>1, <2>2, <2>3, Zenon DEF Streams
<1>9. CASE restart_controller
  <2>1. /\ ~ in_irq /\ Alone("main") /\ tx' = << >> /\ rx' = << >> /\ enabled' = TRUE
        /\ abrt' = FALSE /\ call'["main"].pc = "write" /\ UNCHANGED in_irq
    BY <1>9, RestartFacts, Zenon
  <2>2. call'["irq"] = Idle
    BY <2>1, ContextFacts, Zenon DEF Alone, Phases
  <2>3. Own("main", call'["main"], tx', rx') /\ Own("irq", call'["irq"], tx', rx')
    <3>1. call'["irq"].pc = "idle"
      BY <2>2, IdleFacts, Zenon
    <3> QED  BY <2>1, <3>1, OwnBegin, OwnNone
  <2> QED  BY <2>1, <2>3, ContextFacts, Zenon
<1>10. CASE Begins
  <2>1. /\ ~ in_irq /\ call["main"].pc \in {"idle", "done"} /\ (phase = "flush" => rx = << >>)
        /\ UNCHANGED <<tx, rx, enabled, abrt, in_irq, clean>>
    BY <1>10, Zenon DEF Begins
  <2>2. Alone("main") /\ call'["main"].pc = "write"
    BY <1>10, ContextFacts, BeginFacts, Zenon DEF Begins
  <2>3. tx = << >> /\ rx = << >> /\ enabled /\ ~ abrt
    BY <1>1, <1>3, <2>1, Zenon DEF Streams
  <2>4. call'["irq"] = Idle
    BY <2>1, <2>2, ContextFacts, Zenon DEF Alone, Phases
  <2>5. Own("main", call'["main"], tx', rx') /\ Own("irq", call'["irq"], tx', rx')
    <3>1. call'["irq"].pc = "idle"
      BY <2>4, IdleFacts, Zenon
    <3> QED  BY <2>1, <2>2, <2>3, <3>1, OwnBegin, OwnNone
  <2> QED  BY <2>1, <2>3, <2>5, ContextFacts, Zenon
<1>11. CASE Ends
  <2>1. /\ ~ in_irq /\ call["main"].pc = "done"
        /\ UNCHANGED <<tx, rx, enabled, abrt, in_irq, clean>>
    BY <1>11, Zenon DEF Ends
  <2>2. Alone("main") /\ call'["main"] = Idle
    BY <1>11, ContextFacts, EndedFacts, Zenon DEF Ends
  <2>3. "flush" \in Between /\ "done" # "idle"
    BY Zenon DEF Between
  <2>4. phase # "flush"
    BY <2>1, <2>3, Zenon DEF Phases
  <2>5. tx = << >> /\ rx = << >> /\ enabled /\ ~ abrt
    BY <1>1, <1>3, <2>1, <2>4, Zenon DEF Streams
  <2>6. call'["irq"] = Idle
    BY <2>1, <2>2, ContextFacts, Zenon DEF Alone, Phases
  <2>7. Own("main", call'["main"], tx', rx') /\ Own("irq", call'["irq"], tx', rx')
    <3>1. call'["main"].pc = "idle" /\ call'["irq"].pc = "idle"
      BY <2>2, <2>6, IdleFacts, Zenon
    <3> QED  BY <3>1, OwnNone
  <2> QED  BY <2>1, <2>5, <2>7, ContextFacts, Zenon
<1>12. CASE flushed \/ hidI2cGetDescriptor \/ hidI2cReset \/ dump_report
  BY <1>9, <1>10, <1>11, <1>12, MainFacts, Zenon
<1>13. CASE hidI2cTickPoll
  <2>1. /\ hidI2cActive /\ ~ in_irq /\ Begin("irq", FALSE)
        /\ clean' = (clean /\ call["main"].pc \in {"idle", "done"})
        /\ UNCHANGED <<tx, rx, enabled, abrt, phase>>
    BY <1>13, Zenon DEF hidI2cTickPoll, fifos, program
  <2>2. clean /\ call["main"].pc \in {"idle", "done"}
    BY <1>1, <2>1, Zenon
  <2>3. phase # "flush"
    BY <2>1, Zenon DEF Phases, Scheduled
  <2>4. tx = << >> /\ rx = << >> /\ enabled /\ ~ abrt
    BY <1>3, <2>1, <2>2, <2>3, Zenon DEF Streams
  <2>5. Alone("irq") /\ call'["irq"].pc = "write"
    BY <2>1, ContextFacts, BeginFacts, Zenon
  <2>6. call'["main"] = call["main"]
    BY <2>5, ContextFacts, Zenon DEF Alone
  <2>7. Own("main", call'["main"], tx', rx') /\ Own("irq", call'["irq"], tx', rx')
    BY <2>1, <2>2, <2>4, <2>5, <2>6, OwnBegin, OwnNone
  <2> QED  BY <2>1, <2>2, <2>4, <2>6, <2>7, ContextFacts, Zenon
<1>14. CASE iretq
  <2>1. /\ in_irq /\ call["irq"].pc = "done" /\ in_irq' = FALSE /\ call' = Ended("irq")
        /\ UNCHANGED <<tx, rx, enabled, abrt, phase, clean>>
    BY <1>14, Zenon DEF iretq, fifos, program
  <2>2. call["main"].pc \in {"idle", "done"} /\ enabled /\ ~ abrt
    BY <1>1, <2>1, Zenon DEF Streams
  <2>3. Quiet
    BY <2>1, <2>2, ContextFacts, Zenon DEF Quiet
  <2>4. tx = << >> /\ (phase # "flush" => rx = << >>)
    BY <1>1, <2>1, <2>3, Zenon DEF Streams
  <2>5. Alone("irq") /\ call'["irq"] = Idle
    BY <2>1, ContextFacts, EndedFacts, Zenon
  <2>6. call'["main"] = call["main"]
    BY <2>5, ContextFacts, Zenon DEF Alone
  <2>7. Own("main", call'["main"], tx', rx') /\ Own("irq", call'["irq"], tx', rx')
    <3>1. call'["irq"].pc = "idle"
      BY <2>5, IdleFacts, Zenon
    <3> QED  BY <2>2, <2>6, <3>1, OwnNone
  <2> QED  BY <2>1, <2>2, <2>4, <2>7, ContextFacts, Zenon
<1>15. CASE UNCHANGED vars
  <2>1. UNCHANGED <<tx, rx, enabled, abrt, call, in_irq, phase, clean>>
    BY <1>15, Zenon DEF vars
  <2>2. Quiet' => Quiet
    BY <2>1, Zenon DEF Quiet
  <2> QED  BY <1>1, <2>1, <2>2, Zenon DEF Streams
<1> QED
  BY <1>4, <1>5, <1>6, <1>7, <1>8, <1>9, <1>12, <1>13, <1>14, <1>15, NextCases, Zenon

-----------------------------------------------------------------------------
(***************************************************************************)
(* Wire holds at the start, is kept by every step and therefore holds      *)
(* always.                                                                 *)
(***************************************************************************)
LEMMA InitWire ==
    ASSUME Init
    PROVE  Wire
<1>1. /\ enabled \in BOOLEAN /\ tx \in {<< >>, <<Stray>>} /\ rx \in {<< >>, <<Stray>>}
      /\ abrt = FALSE /\ call = [c \in Contexts |-> Idle] /\ in_irq = FALSE
      /\ phase = "flush" /\ attempt = 1 /\ hidI2cActive = FALSE
      /\ clean = (enabled /\ tx = << >>)
  BY Zenon DEF Init
<1>2. Stray \in Bytes
  BY DEF Bytes
<1>3. Fifos
  <2>0. ASSUME NEW S, Stray \in S, NEW q \in {<< >>, <<Stray>>}
        PROVE  q \in Seq(S) /\ Len(q) <= 1
    <3>1. CASE q = << >>
      BY <3>1
    <3>2. CASE q = <<Stray>>
      BY <2>0, <3>2
    <3> QED  BY <3>1, <3>2
  <2>1. tx \in Seq(Bytes \cup {Write}) /\ Len(tx) <= 1
    BY <1>1, <1>2, <2>0, Zenon
  <2>2. rx \in Seq(Bytes) /\ Len(rx) <= 1
    BY <1>1, <1>2, <2>0, Zenon
  <2>3. 1 <= TxDepth /\ 1 <= RxDepth
    BY ConstantFacts
  <2> QED  BY <2>1, <2>2, <2>3, ConstantFacts DEF Fifos
<1>4. Flags
  BY <1>1, Zenon DEF Flags
<1>5. \A c \in Contexts : call[c] = Idle
  BY <1>1, Zenon
<1>6. InRange(Idle)
  BY IdleFacts, Zenon DEF InRange
<1>7. Locals
  BY <1>1, <1>5, <1>6, IdleFacts, Zenon DEF Locals
<1>8. Steps
  BY <1>1, ConstantFacts DEF Steps, PhaseNames
<1>9. Scheduled
  BY <1>1, ConstantFacts DEF Scheduled
<1>10. Phases
  BY <1>1, <1>5, <1>9, ContextFacts, IdleFacts, Zenon DEF Phases
<1>11. Blocking
  BY <1>1, <1>5, ContextFacts, IdleFacts, Zenon DEF Blocking
<1>12. \A c \in Contexts : Own(c, call[c], tx, rx)
  <2>1. \A c \in Contexts : call[c].pc = "idle"
    BY <1>5, IdleFacts, Zenon
  <2> QED  BY <2>1, OwnNone
<1>13. Streams
  BY <1>1, <1>5, <1>12, ContextFacts, IdleFacts, Zenon DEF Streams
<1> QED  BY <1>3, <1>4, <1>7, <1>8, <1>10, <1>11, <1>13, Zenon DEF Wire, Types

\* The four parts of Wire are kept together.
LEMMA WireStep ==
    ASSUME Wire, [Next]_vars
    PROVE  Wire'
BY TypesStep, PhasesStep, BlockingStep, StreamsStep, Zenon DEF Wire

\* Wire is an invariant of the system.
LEMMA WireInvariance == Spec => []Wire
<1>1. Init => Wire
  BY InitWire, Zenon
<1>2. Wire /\ [Next]_vars => Wire'
  BY WireStep, Zenon
<1> QED  BY <1>1, <1>2, PTL DEF Spec

(***************************************************************************)
(* A call of the handler that finds the controller blocked by an abort     *)
(* fails, for any limits of the waits and any lengths (i2cWriteRead).      *)
(***************************************************************************)
THEOREM BlockedControllerFreed == Spec => []BlockedCallFails
<1>1. Wire => BlockedCallFails
  BY Zenon DEF Wire, Blocking, BlockedAt, BlockedCallFails
<1> QED  BY <1>1, WireInvariance, PTL

(***************************************************************************)
(* As long as no call was aborted, ran into its limit or was interrupted,  *)
(* the bytes a call hands out are the ones it asked for, in order, and it  *)
(* leaves none behind, for FIFOs of any depth that hold an answer          *)
(* (i2cWriteRead, hidI2cReadReport).                                       *)
(***************************************************************************)
THEOREM ReportsStayInStep == Spec => []OwnBytes
<1>1. ASSUME Wire PROVE TypeOK
  <2>1. Types
    BY <1>1, Zenon DEF Wire
  <2>2. /\ tx \in Seq(Bytes \cup {Write}) /\ Len(tx) <= TxDepth
        /\ rx \in Seq(Bytes) /\ Len(rx) <= RxDepth
        /\ {enabled, abrt, in_irq, hidI2cActive, clean} \subseteq BOOLEAN
    BY <2>1, Zenon DEF Types, Fifos, Flags
  <2>3. phase \in PhaseNames /\ attempt \in 1 .. MaxAttempt
    BY <2>1, Zenon DEF Types, Steps
  <2>4. ASSUME NEW c \in Contexts
        PROVE  /\ call[c].pc \in Polls \cup {Go(p) : p \in Polls} \cup {"idle", "clear", "done"}
               /\ call[c].i \in 1 .. MaxPlace
               /\ call[c].timeout \in 0 .. (CounterRange - 1)
               /\ call[c].result \in -1 .. Rlen
               /\ {call[c].send, call[c].late, call[c].blocked, call[c].said} \subseteq BOOLEAN
    <3>1. /\ call[c].pc \in Pcs /\ call[c].i \in 1 .. MaxPlace
          /\ call[c].timeout \in 0 .. (CounterRange - 1) /\ call[c].result \in -1 .. Rlen
          /\ call[c].send \in BOOLEAN /\ call[c].late \in BOOLEAN
          /\ call[c].blocked \in BOOLEAN /\ call[c].said \in BOOLEAN
      BY <2>1, Zenon DEF Types, Locals, CallRecords
    <3>2. call[c].pc \in Polls \cup {Go(p) : p \in Polls} \cup {"idle", "clear", "done"}
      BY <3>1, GoFacts, Zenon DEF Pcs
    <3> QED  BY <3>1, <3>2, Zenon
  <2> QED  BY <2>2, <2>3, <2>4, Zenon DEF TypeOK, MaxPlace, MaxAttempt, PhaseNames
<1>2. ASSUME Wire, clean
      PROVE  /\ \A c \in Contexts : Runs(c) /\ call[c].pc = "do_rx" /\ ~ Expired(c) =>
                   rx # << >> /\ Head(rx) = Byte(c, call[c].i)
             /\ Quiet /\ phase # "flush" => tx = << >> /\ rx = << >>
  <2>1. ASSUME NEW c \in Contexts, call[c].pc = "do_rx"
        PROVE  rx # << >> /\ Head(rx) = Byte(c, call[c].i)
    <3>1. Own(c, call[c], tx, rx)
      BY <1>2, Zenon DEF Wire, Streams
    <3>2. rx # << >> /\ Stream(tx, rx, c, call[c].i, Rlen)
      BY <2>1, <3>1, Zenon DEF Own
    <3>3. tx \in Seq(Bytes \cup {Write}) /\ rx \in Seq(Bytes) /\ call[c].i \in Nat
      BY <1>2 DEF Wire, Types, Fifos, Locals, CallRecords
    <3> QED  BY <3>2, <3>3, StreamFirst, Zenon
  <2>2. Quiet /\ phase # "flush" => tx = << >> /\ rx = << >>
    BY <1>2, Zenon DEF Wire, Streams
  <2> QED  BY <2>1, <2>2, Zenon
<1>3. Wire => OwnBytes
  BY <1>1, <1>2, Zenon DEF OwnBytes
<1> QED  BY <1>3, WireInvariance, PTL
=============================================================================
