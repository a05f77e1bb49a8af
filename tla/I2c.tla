-------------------------------- MODULE I2c --------------------------------
(***************************************************************************)
(* The I2C controller and the touchpad behind it: i2cSend and i2cWriteRead *)
(* of drivers/i2c.cpp poll the FIFOs of the controller with a counter;     *)
(* hid_initialize and hidI2cInit of drivers/hid_i2c.cpp bring the touchpad *)
(* up from the main program; from then on the timer interrupt reads a      *)
(* report on every tick (hidI2cTickPoll), also while hid_initialize is     *)
(* still reading reports itself.                                           *)
(*                                                                         *)
(* A byte is known by the call that asked for it.  What reports contain    *)
(* and the delays between retries are left out.                            *)
(***************************************************************************)
EXTENDS Integers, Sequences

CONSTANTS TxTries, RxTries,   \* initial values of timeout (100000 and 200000)
          CounterRange,       \* timeout is a uint32_t: 2^32
          TxDepth, RxDepth,   \* commands and bytes the controller's FIFOs hold
          Wlen, Rlen,         \* bytes written and read by a call
          RETRY_MAX,          \* attempts of each step of the start-up
          Dumps               \* reports hid_initialize reads at the end

ASSUME I2cAssumption ==
    /\ {TxTries, RxTries, CounterRange, TxDepth, RxDepth, Wlen, Rlen, RETRY_MAX, Dumps} \subseteq Nat \ {0}
    /\ TxTries < CounterRange /\ RxTries < CounterRange
    /\ Rlen <= RxDepth

Contexts == {"main", "irq"}

VARIABLES tx, rx,         \* the FIFOs
          enabled,        \* DW_IC_ENABLE
          abrt,           \* TX_ABRT_SOURCE is not 0
          call,           \* per context, the call of i2cSend or i2cWriteRead
          in_irq,         \* hidI2cTickPoll is running
          phase, attempt, \* where hid_initialize is
          hidI2cActive,
          clean           \* history: no call ended a wait at its limit, was
                          \* aborted, or was interrupted by another

vars == <<tx, rx, enabled, abrt, call, in_irq, phase, attempt, hidI2cActive, clean>>

fifos   == <<tx, rx>>
program == <<phase, attempt, hidI2cActive>>

\* a byte, or the read command that asks for it: the context and the place of
\* the byte in its call; these are told apart only while clean holds
Byte(c, i) == <<c, i>>
Write == Byte("write", 0)
Stray == Byte("stray", 0)
Bytes == {Byte(c, i) : c \in Contexts, i \in 1 .. Rlen} \cup {Stray}

Idle == [pc |-> "idle", i |-> 1, timeout |-> 0, result |-> 0, send |-> FALSE,
         late |-> FALSE, blocked |-> FALSE, said |-> FALSE]

Runs(c) == IF c = "irq" THEN in_irq ELSE ~ in_irq

-----------------------------------------------------------------------------
(***************************************************************************)
(* The controller: it sends what the TX FIFO holds, in order, and the      *)
(* touchpad answers every read command, after any delay.  If the touchpad  *)
(* does not acknowledge, the TX FIFO is emptied and stays blocked until    *)
(* CLR_TX_ABRT is read.  A byte that finds the RX FIFO full is lost, and   *)
(* so is a command written while the controller is disabled.               *)
(***************************************************************************)
bus_transfer ==
    /\ tx # << >>
    /\ tx' = Tail(tx)
    /\ rx' = IF Head(tx) = Write \/ Len(rx) = RxDepth THEN rx ELSE Append(rx, Head(tx))
    /\ UNCHANGED <<enabled, abrt, call, in_irq, program, clean>>

bus_abort ==
    /\ tx # << >>
    /\ tx' = << >>
    /\ abrt' = TRUE
    /\ clean' = FALSE
    /\ UNCHANGED <<rx, enabled, call, in_irq, program>>

Queue(command) ==
    tx' = IF ~ enabled \/ abrt \/ Len(tx) = TxDepth THEN tx ELSE Append(tx, command)

-----------------------------------------------------------------------------
(***************************************************************************)
(* Beginning a call: the loops start with i = 0 and a full counter.        *)
(***************************************************************************)
Tries(pc) == IF pc \in {"write", "read"} THEN TxTries ELSE RxTries

Enter(k, pc, i) == [k EXCEPT !.pc = pc, !.i = i, !.timeout = Tries(pc)]

Begin(c, send) ==
    call' = [call EXCEPT ![c] =
        Enter([Idle EXCEPT !.send = send, !.blocked = abrt], "write", 1)]

Ended(c) == [call EXCEPT ![c] = Idle]

(***************************************************************************)
(* One turn of while (!ready && timeout--): the counter is decremented     *)
(* after it was compared with 0, also when the loop ends because of it.    *)
(***************************************************************************)
Polls == {"write", "read", "drain", "rx"}

Ready(pc) ==
    CASE pc \in {"write", "read"} -> Len(tx) < TxDepth
      [] pc = "drain"             -> tx = << >>
      [] pc = "rx"                -> rx # << >>

Go(pc) == CASE pc = "write" -> "do_write" [] pc = "read" -> "do_read"
            [] pc = "drain" -> "source"   [] pc = "rx"   -> "do_rx"

\* Planted bug: the counter is never decremented.
wait_for_ever(c) ==
    /\ Runs(c)
    /\ call[c].pc \in Polls
    /\ Ready(call[c].pc)
    /\ call' = [call EXCEPT ![c].pc = Go(@)]
    /\ UNCHANGED <<fifos, enabled, abrt, in_irq, program, clean>>

wait(c) ==
    /\ Runs(c)
    /\ call[c].pc \in Polls
    /\ LET k == call[c]
           ready == Ready(k.pc)
           last  == ~ ready /\ k.timeout = 0
           count == IF ready THEN k.timeout ELSE (k.timeout - 1) % CounterRange
       IN  /\ call' = [call EXCEPT ![c] =
                  [k EXCEPT !.pc = IF ready \/ last THEN Go(k.pc) ELSE k.pc,
                            !.timeout = count,
                            !.late = @ \/ (last /\ k.pc # "drain")]]
           /\ clean' = (clean /\ ~ last /\ ~ (ready /\ k.timeout = 0))
    /\ UNCHANGED <<fifos, enabled, abrt, in_irq, program>>

(***************************************************************************)
(* if (!timeout) return: what the code takes for an expired wait.          *)
(***************************************************************************)
Expired(c) == call[c].timeout = 0

Return(c, result, says) ==
    [call[c] EXCEPT !.pc = "done", !.result = result, !.said = says]

give_up(c) ==
    /\ Runs(c)
    /\ call[c].pc \in {"do_write", "do_read", "do_rx"}
    /\ Expired(c)
    /\ call' = [call EXCEPT ![c] =
                   IF call[c].pc = "do_rx" THEN Return(c, call[c].i - 1, TRUE)
                   ELSE Return(c, -1, call[c].send)]
    /\ UNCHANGED <<fifos, enabled, abrt, in_irq, program, clean>>

do_write(c) ==
    /\ Runs(c)
    /\ call[c].pc = "do_write"
    /\ ~ Expired(c)
    /\ Queue(Write)
    /\ LET k == call[c]
       IN  call' = [call EXCEPT ![c] =
               IF k.i < Wlen THEN Enter(k, "write", k.i + 1)
               ELSE IF k.send THEN Enter(k, "drain", 1) ELSE Enter(k, "read", 1)]
    /\ UNCHANGED <<rx, enabled, abrt, in_irq, program, clean>>

do_read(c) ==
    /\ Runs(c)
    /\ call[c].pc = "do_read"
    /\ ~ Expired(c)
    /\ LET k == call[c]
       IN  /\ Queue(IF clean THEN Byte(c, k.i) ELSE Stray)
           /\ call' = [call EXCEPT ![c] =
                  IF k.i < Rlen THEN Enter(k, "read", k.i + 1) ELSE Enter(k, "rx", 1)]
    /\ UNCHANGED <<rx, enabled, abrt, in_irq, program, clean>>

\* Planted bug: the last byte of the report is not fetched (i < rlen - 1).
do_rx_one_short(c) ==
    /\ Runs(c)
    /\ call[c].pc = "do_rx"
    /\ ~ Expired(c)
    /\ LET k == call[c]
       IN  call' = [call EXCEPT ![c] =
               IF k.i < Rlen - 1 THEN Enter(k, "rx", k.i + 1) ELSE [k EXCEPT !.pc = "source"]]
    /\ rx' = IF rx = << >> THEN rx ELSE Tail(rx)
    /\ UNCHANGED <<tx, enabled, abrt, in_irq, program, clean>>

do_rx(c) ==
    /\ Runs(c)
    /\ call[c].pc = "do_rx"
    /\ ~ Expired(c)
    /\ LET k == call[c]
       IN  call' = [call EXCEPT ![c] =
               IF k.i < Rlen THEN Enter(k, "rx", k.i + 1) ELSE [k EXCEPT !.pc = "source"]]
    /\ rx' = IF rx = << >> THEN rx ELSE Tail(rx)
    /\ UNCHANGED <<tx, enabled, abrt, in_irq, program, clean>>

(***************************************************************************)
(* The end of a call: TX_ABRT_SOURCE is read, then cleared.                *)
(***************************************************************************)
\* Planted bug: a call does not look for aborts.
read_abort_never(c) ==
    /\ Runs(c)
    /\ call[c].pc = "source"
    /\ call' = [call EXCEPT ![c].pc = "clear",
                            ![c].result = IF call[c].send THEN 0 ELSE Rlen]
    /\ UNCHANGED <<fifos, enabled, abrt, in_irq, program, clean>>

read_abort(c) ==
    /\ Runs(c)
    /\ call[c].pc = "source"
    /\ call' = [call EXCEPT ![c].pc = "clear",
                            ![c].result = IF abrt THEN -1
                                          ELSE IF call[c].send THEN 0 ELSE Rlen,
                            ![c].said = abrt]
    /\ UNCHANGED <<fifos, enabled, abrt, in_irq, program, clean>>

clear_abort(c) ==
    /\ Runs(c)
    /\ call[c].pc = "clear"
    /\ abrt' = FALSE
    /\ call' = [call EXCEPT ![c].pc = "done"]
    /\ UNCHANGED <<fifos, enabled, in_irq, program, clean>>

transfer(c) ==
    \/ wait(c) \/ give_up(c) \/ do_write(c) \/ do_read(c) \/ do_rx(c)
    \/ read_abort(c) \/ clear_abort(c)

-----------------------------------------------------------------------------
(***************************************************************************)
(* The main program: hidI2cGetDescriptor, hidI2cReset, then the reports    *)
(* hid_initialize reads while the timer interrupt already polls.           *)
(***************************************************************************)
Start(p, n, send) ==
    /\ phase' = p
    /\ attempt' = n
    /\ Begin("main", send)
    /\ UNCHANGED <<fifos, enabled, abrt, in_irq, hidI2cActive, clean>>

Stop(p) ==
    /\ phase' = p
    /\ attempt' = 1
    /\ call' = Ended("main")
    /\ UNCHANGED <<fifos, enabled, abrt, in_irq, hidI2cActive, clean>>

Returned(p) == ~ in_irq /\ phase = p /\ call["main"].pc = "done"

Failed == call["main"].result < 0

flush ==
    /\ phase = "flush"
    /\ rx # << >>
    /\ rx' = Tail(rx)
    /\ UNCHANGED <<tx, enabled, abrt, call, in_irq, program, clean>>

flushed == phase = "flush" /\ rx = << >> /\ Start("descriptor", 1, FALSE)

retry(p, send, then) ==
    /\ Returned(p)
    /\ Failed
    /\ IF attempt < RETRY_MAX THEN Start(p, attempt + 1, send) ELSE Stop(then)

hidI2cGetDescriptor ==
    \/ Returned("descriptor") /\ ~ Failed /\ Stop("restart")
    \/ retry("descriptor", FALSE, "failed")

restart_controller ==
    /\ phase = "restart"
    /\ tx' = << >>
    /\ rx' = << >>
    /\ enabled' = TRUE
    /\ abrt' = FALSE
    /\ phase' = "power"
    /\ attempt' = 1
    /\ call' = [call EXCEPT !["main"] =
                   Enter([Idle EXCEPT !.send = TRUE], "write", 1)]
    /\ UNCHANGED <<in_irq, hidI2cActive, clean>>

\* both bytes of the sentinel were read, also if an abort was seen afterwards
Filled == call["main"].result = Rlen \/ (Failed /\ call["main"].said)

\* the two bytes after a reset are zero, or they are not; then the mode is set
sentinel ==
    /\ Returned("sentinel")
    /\ \/ (attempt = RETRY_MAX \/ Filled) /\ Start("mode", 1, TRUE)
       \/ attempt < RETRY_MAX /\ Start("sentinel", attempt + 1, FALSE)

hidI2cReset ==
    \/ restart_controller
    \/ Returned("power") /\ ~ Failed /\ Start("reset", 1, TRUE)
    \/ retry("power", TRUE, "failed")
    \/ Returned("reset") /\ ~ Failed /\ Start("sentinel", 1, FALSE)
    \/ retry("reset", TRUE, "failed")
    \/ sentinel
    \/ Returned("mode") /\ ~ Failed /\ Stop("ready")
    \/ retry("mode", TRUE, "ready")

hidI2cInit ==
    /\ phase = "ready"
    /\ hidI2cActive' = TRUE
    /\ phase' = "sleep"
    /\ UNCHANGED <<fifos, enabled, abrt, call, in_irq, attempt, clean>>

dump_report ==
    \/ ~ in_irq /\ phase = "sleep" /\ Start("dump", attempt, FALSE)
    \/ /\ Returned("dump")
       /\ phase' = IF attempt < Dumps THEN "sleep" ELSE "finished"
       /\ attempt' = IF attempt < Dumps THEN attempt + 1 ELSE 1
       /\ call' = Ended("main")
       /\ UNCHANGED <<fifos, enabled, abrt, in_irq, hidI2cActive, clean>>

main ==
    \/ transfer("main") \/ flush \/ flushed \/ hidI2cGetDescriptor \/ hidI2cReset
    \/ hidI2cInit \/ dump_report

-----------------------------------------------------------------------------
(***************************************************************************)
(* The timer interrupt: it reads a report and returns.  The pointer and    *)
(* the buttons hidI2cPoll then sets, and GUI_input_loop, which looks at    *)
(* them, do not touch the controller; GUI_input_loop is in Desktop.        *)
(***************************************************************************)
hidI2cTickPoll ==
    /\ hidI2cActive
    /\ ~ in_irq
    /\ in_irq' = TRUE
    /\ Begin("irq", FALSE)
    /\ clean' = (clean /\ call["main"].pc \in {"idle", "done"})
    /\ UNCHANGED <<fifos, enabled, abrt, program>>

iretq ==
    /\ in_irq
    /\ call["irq"].pc = "done"
    /\ in_irq' = FALSE
    /\ call' = Ended("irq")
    /\ UNCHANGED <<fifos, enabled, abrt, program, clean>>

irq == transfer("irq") \/ iretq

-----------------------------------------------------------------------------
(***************************************************************************)
(* What i2cInitialize leaves: it publishes the base address before it      *)
(* probes the touchpad, and disables the controller when nothing answers.  *)
(* The read command of i2cProbeAck may still wait in the TX FIFO (its wait *)
(* is bounded too), or its byte in the RX FIFO.                            *)
(***************************************************************************)
Init ==
    /\ enabled \in BOOLEAN
    /\ tx \in {<< >>, <<Stray>>}
    /\ rx \in {<< >>, <<Stray>>}
    /\ Len(tx) + Len(rx) <= (IF enabled THEN 1 ELSE 0)
    /\ abrt = FALSE
    /\ call = [c \in Contexts |-> Idle]
    /\ in_irq = FALSE
    /\ phase = "flush"
    /\ attempt = 1
    /\ hidI2cActive = FALSE
    /\ clean = (enabled /\ tx = << >>)

Next == bus_transfer \/ bus_abort \/ main \/ hidI2cTickPoll \/ irq

(***************************************************************************)
(* The processor goes on executing the main program and, once it is in the *)
(* handler, the handler.  Nothing is assumed of the bus.                   *)
(***************************************************************************)
Spec == Init /\ [][Next]_vars /\ WF_vars(main) /\ WF_vars(irq)

-----------------------------------------------------------------------------
(***************************************************************************)
(* Types of the controller's and the drivers' state.                       *)
(***************************************************************************)
TypeOK ==
    /\ tx \in Seq(Bytes \cup {Write}) /\ Len(tx) <= TxDepth
    /\ rx \in Seq(Bytes) /\ Len(rx) <= RxDepth
    /\ {enabled, abrt, in_irq, hidI2cActive, clean} \subseteq BOOLEAN
    /\ \A c \in Contexts : LET k == call[c] IN
        /\ k.pc \in Polls \cup {Go(p) : p \in Polls} \cup {"idle", "clear", "done"}
        /\ k.i \in 1 .. (IF Wlen > Rlen THEN Wlen ELSE Rlen)
        /\ k.timeout \in 0 .. (CounterRange - 1)
        /\ k.result \in -1 .. Rlen
        /\ {k.send, k.late, k.blocked, k.said} \subseteq BOOLEAN
    /\ phase \in {"flush", "descriptor", "restart", "power", "reset", "sentinel", "mode",
                  "ready", "sleep", "dump", "finished", "failed"}
    /\ attempt \in 1 .. (IF Dumps > RETRY_MAX THEN Dumps ELSE RETRY_MAX)

(***************************************************************************)
(* The bytes a call hands out are those it asked for, in order, and no     *)
(* byte is left in the FIFOs for the next one, as long as no call was      *)
(* aborted, ended a wait at its limit or was interrupted by another: only  *)
(* these three can shift reports against the calls that read them          *)
(* (i2cWriteRead, hidI2cReadReport).                                       *)
(***************************************************************************)
Quiet == \A c \in Contexts : call[c].pc \in {"idle", "done"}

OwnBytes ==
    /\ TypeOK
    /\ clean =>
        /\ \A c \in Contexts : Runs(c) /\ call[c].pc = "do_rx" /\ ~ Expired(c) =>
              rx # << >> /\ Head(rx) = Byte(c, call[c].i)
        /\ Quiet /\ phase # "flush" => tx = << >> /\ rx = << >>

(***************************************************************************)
(* A call of the handler that finds the controller blocked by an abort an  *)
(* earlier call left behind fails and unblocks it: the touchpad is never   *)
(* lost for longer than one report (the end of i2cWriteRead).              *)
(***************************************************************************)
BlockedCallFails ==
    call["irq"].blocked /\ call["irq"].pc \in {"clear", "done"} => call["irq"].result = -1

(***************************************************************************)
(* Every tick returns, and so does every step of the start-up, although    *)
(* the touchpad may never answer: each wait is bounded, and so is the      *)
(* number of attempts (the loops of i2cWriteRead, RETRY_MAX).              *)
(***************************************************************************)
WaitsEnd ==
    /\ in_irq ~> ~ in_irq
    /\ <>(hidI2cActive \/ phase = "failed")

(***************************************************************************)
(* i2c.cpp:570, "[i2c] writeread: RX timeout at %u": a call in which the   *)
(* awaited byte or room did not come in time reports it and does not       *)
(* return as if it were complete.                                          *)
(***************************************************************************)
TimeoutReported ==
    \A c \in Contexts :
        call[c].pc = "done" /\ call[c].late =>
            call[c].result < (IF call[c].send THEN 0 ELSE Rlen)
=============================================================================
