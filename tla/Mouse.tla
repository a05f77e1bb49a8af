------------------------------- MODULE Mouse -------------------------------
(***************************************************************************)
(* The PS/2 mouse (drivers/mouse.cpp).  The device sends packets of three  *)
(* bytes; each byte raises an interrupt, and mouseIrq assembles them.  The *)
(* controller has room for one byte, so a byte is lost when its interrupt  *)
(* comes too late: mouseIrq then takes a later byte for the first of a     *)
(* packet, unless its bit 3 is clear.                                      *)
(***************************************************************************)
EXTENDS Integers

CONSTANTS Packets,       \* bound: the packets the device sends, left, right, dx and dy
          SCREEN_WIDTH,
          SCREEN_HEIGHT,
          MOUSE_BASE_DIVISOR,
          MOUSE_ACCEL_THRESHOLD,
          MOUSE_ACCEL_FACTOR

Bit(b, k) == (b \div 2^k) % 2 = 1
Num(cond, n) == IF cond THEN n ELSE 0

\* The bytes of a packet: buttons and signs with bit 3 set, dx, dy.
Byte(p, i) ==
  CASE i = 0 -> 8 + Num(p.left, 1) + Num(p.right, 2) + Num(p.dx < 0, 16) + Num(p.dy < 0, 32)
    [] i = 1 -> p.dx % 256
    [] i = 2 -> p.dy % 256

VARIABLES packet,      \* the packet the device is sending
          phase,       \* the number of its next byte
          mouseCycle, mouse1, mouse2,
          mouse_position_x, mouse_position_y, clickedLeft, clickedRight,
          whole,       \* history: no byte of the packet being sent was lost or skipped
          unmarked     \* history: bytes without bit 3 met in first place since a loss

vars == <<packet, phase, mouseCycle, mouse1, mouse2, mouse_position_x, mouse_position_y,
          clickedLeft, clickedRight, whole, unmarked>>

apply_mouse_accel(delta) ==
  LET size == IF delta < 0 THEN -delta ELSE delta
      scaled == size \div MOUSE_BASE_DIVISOR
                + Num(size > MOUSE_ACCEL_THRESHOLD,
                      ((size - MOUSE_ACCEL_THRESHOLD) * MOUSE_ACCEL_FACTOR) \div MOUSE_BASE_DIVISOR)
      step == IF scaled = 0 THEN 1 ELSE scaled
  IN  IF delta = 0 THEN 0 ELSE IF delta > 0 THEN step ELSE -step

Clamp(v, limit) == IF v < 0 THEN 0 ELSE IF v > limit - 1 THEN limit - 1 ELSE v

\* The movement of a byte whose sign is bit k of the first.
Delta(first, k, b) == IF b # 0 /\ Bit(first, k) THEN b - 256 ELSE b

MutantDesync(b) == FALSE

\* A first byte without its bit 3 is not one.
desync(b) == ~Bit(b, 3)

mouseIrq(b) ==
  \/ /\ mouseCycle = 0
     /\ mouse1' = b
     /\ mouseCycle' = IF desync(b) THEN 0 ELSE 1
     /\ UNCHANGED <<mouse2, mouse_position_x, mouse_position_y, clickedLeft, clickedRight>>
  \/ /\ mouseCycle = 1
     /\ mouse2' = b
     /\ mouseCycle' = 2
     /\ UNCHANGED <<mouse1, mouse_position_x, mouse_position_y, clickedLeft, clickedRight>>
  \/ /\ mouseCycle = 2
     /\ mouse_position_x' =
          Clamp(mouse_position_x + apply_mouse_accel(Delta(mouse1, 4, mouse2)), SCREEN_WIDTH)
     /\ mouse_position_y' =
          Clamp(mouse_position_y + apply_mouse_accel(-Delta(mouse1, 5, b)), SCREEN_HEIGHT)
     /\ clickedLeft' = Bit(mouse1, 0)
     /\ clickedRight' = Bit(mouse1, 1)
     /\ mouseCycle' = 0
     /\ UNCHANGED <<mouse1, mouse2>>

Init ==
  /\ packet \in Packets
  /\ phase = 0
  /\ mouseCycle = 0
  /\ mouse1 = 0
  /\ mouse2 = 0
  /\ mouse_position_x = 0
  /\ mouse_position_y = 0
  /\ clickedLeft = FALSE
  /\ clickedRight = TRUE
  /\ whole = TRUE
  /\ unmarked = 0

\* The device goes on to its next byte, and after the third to a new packet.
advance ==
  \/ phase < 2 /\ phase' = phase + 1 /\ UNCHANGED packet
  \/ phase = 2 /\ phase' = 0 /\ packet' \in Packets

\* A byte arrives; the handler runs.
receive ==
  LET b == Byte(packet, phase)
  IN  /\ mouseIrq(b)
      /\ advance
      /\ whole' = (phase = 2 \/ (whole /\ phase = mouseCycle))
      /\ unmarked' = IF mouseCycle = 0 /\ ~Bit(b, 3) THEN unmarked + 1 ELSE unmarked

\* A byte is overwritten by the next before the handler has read it.
lose ==
  /\ advance
  /\ whole' = (phase = 2)
  /\ unmarked' = 0
  /\ UNCHANGED <<mouseCycle, mouse1, mouse2, mouse_position_x, mouse_position_y,
                 clickedLeft, clickedRight>>

Next == receive \/ lose

Spec == Init /\ [][Next]_vars

-----------------------------------------------------------------------------

InStep == phase = mouseCycle

(***************************************************************************)
(* mouseIrq recovers from lost bytes: the second byte without bit 3 that   *)
(* it meets in first place since the last loss puts it in step, and in     *)
(* step it meets none.  A packet that arrives whole and in step has  *)
(* its effect whatever was lost before it: the buttons are the device's    *)
(* and the pointer moves as the device moved, within the screen.           *)
(***************************************************************************)
Resynchronises ==
  [][/\ mouse_position_x' \in 0 .. SCREEN_WIDTH - 1
     /\ mouse_position_y' \in 0 .. SCREEN_HEIGHT - 1
     /\ ~InStep' => unmarked' <= 1
     /\ InStep /\ receive => unmarked' = unmarked
     /\ receive /\ InStep /\ whole /\ phase = 2 =>
          /\ clickedLeft' = packet.left
          /\ clickedRight' = packet.right
          /\ mouse_position_x' = Clamp(mouse_position_x + apply_mouse_accel(packet.dx), SCREEN_WIDTH)
          /\ mouse_position_y' = Clamp(mouse_position_y + apply_mouse_accel(-packet.dy), SCREEN_HEIGHT)
    ]_vars
=============================================================================
