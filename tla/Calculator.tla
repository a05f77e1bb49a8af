----------------------------- MODULE Calculator -----------------------------
(***************************************************************************)
(* The calculator window (GUI/calculator.cpp): the automaton behind its    *)
(* keys, with integers of a fixed width, against the expression the user   *)
(* has entered.  "ERR" on the display is the flag error.                   *)
(***************************************************************************)
EXTENDS Integers, Sequences

CONSTANTS Digits,        \* bound: the digit keys that are used
          Width,         \* bits of an int
          MaxDigits,     \* cap of the display width
          MaxOps         \* bound: operators in an expression

VARIABLES calc,          \* the XPCalculator
          halted,        \* a division exception stopped the kernel
          expr           \* history: the expression entered since the last result

Ops == {"+", "-", "*", "/", "%"}
NoOp == "none"

Least == -(2 ^ (Width - 1))
Wrap(v) == ((v - Least) % 2 ^ Width) + Least

\* Division that truncates towards zero, as C does.
Abs(a) == IF a < 0 THEN -a ELSE a
Quotient(a, b) == IF (a < 0) = (b < 0) THEN Abs(a) \div Abs(b) ELSE -(Abs(a) \div Abs(b))

\* The display is the number it shows; atoi overflows on long ones.
atoi(display) == Wrap(display)

\* The processor refuses this division, the program one by zero.
Traps(op, a, b) == op \in {"/", "%"} /\ a = Least /\ b = -1
Err(op, b) == op \in {"/", "%"} /\ b = 0

apply_op(op, a, b) ==
  CASE op = "+" -> Wrap(a + b)
    [] op = "-" -> Wrap(a - b)
    [] op = "*" -> Wrap(a * b)
    [] op = "/" -> Quotient(a, b)
    [] op = "%" -> a - b * Quotient(a, b)

calc_reset ==
  [display |-> 0, accumulator |-> 0, pending_op |-> NoOp, fresh_operand |-> TRUE, error |-> FALSE]

digit(c, d) ==
  IF c.fresh_operand THEN [c EXCEPT !.display = d, !.fresh_operand = FALSE]
  ELSE IF c.display < 10 ^ (MaxDigits - 1) THEN [c EXCEPT !.display = 10 * @ + d]
  ELSE c

\* The pending operator applied to the display.
Result(c) == apply_op(c.pending_op, c.accumulator, atoi(c.display))
Fails(c) == Err(c.pending_op, atoi(c.display))

evaluate(c) ==
  IF c.pending_op = NoOp THEN c
  ELSE IF Fails(c)
  THEN [c EXCEPT !.display = 0, !.error = TRUE, !.pending_op = NoOp, !.fresh_operand = TRUE]
  ELSE [c EXCEPT !.display = Result(c), !.accumulator = Result(c), !.pending_op = NoOp,
                 !.fresh_operand = TRUE]

MutantChains(c) == c.pending_op # NoOp

\* An operator key evaluates a pending one that has got its second operand.
chains(c) == c.pending_op # NoOp /\ ~c.fresh_operand

operator(c, op) ==
  IF chains(c) /\ Fails(c)
  THEN [c EXCEPT !.display = 0, !.error = TRUE, !.pending_op = NoOp]
  ELSE LET value == IF chains(c) THEN Result(c) ELSE atoi(c.display)
       IN  [c EXCEPT !.display = IF chains(c) THEN value ELSE @,
                     !.accumulator = value, !.pending_op = op, !.fresh_operand = TRUE]

\* Does the key divide in a way the processor refuses?
Exception(c, key) ==
  /\ key = "=" \/ (key \in Ops /\ chains(c))
  /\ c.pending_op # NoOp
  /\ Traps(c.pending_op, c.accumulator, atoi(c.display))

-----------------------------------------------------------------------------
(***************************************************************************)
(* The reference: the numbers and operators entered.  open says that the   *)
(* last operator has no operand yet, closed that the number is a result.   *)
(***************************************************************************)

NoExpr == [nums |-> <<0>>, ops |-> <<>>, open |-> FALSE, closed |-> TRUE, undefined |-> FALSE]

\* The value from left to right, of the first n numbers.
RECURSIVE Value(_, _)
Value(e, n) ==
  IF n = 1 THEN Wrap(e.nums[1])
  ELSE apply_op(e.ops[n - 1], Value(e, n - 1), Wrap(e.nums[n]))

Last(e) == e.nums[Len(e.nums)]

\* The last operator is a division by zero.
ByZero(e) == Len(e.nums) > 1 /\ ~e.open /\ Err(e.ops[Len(e.ops)], Wrap(Last(e)))

Entered(e, d) ==
  IF e.closed THEN [NoExpr EXCEPT !.nums = <<d>>, !.closed = FALSE]
  ELSE IF e.open THEN [e EXCEPT !.nums = Append(@, d), !.open = FALSE]
  ELSE IF Last(e) < 10 ^ (MaxDigits - 1) THEN [e EXCEPT !.nums[Len(e.nums)] = 10 * @ + d]
  ELSE e

\* A result is the first number of what follows; an operand left out is the
\* value so far.
Closed(e) ==
  LET n == Len(e.nums)
      full == IF e.open THEN [e EXCEPT !.nums = Append(@, Value(e, n)), !.open = FALSE] ELSE e
  IN  IF e.ops = <<>> THEN e
      ELSE IF ByZero(full) THEN [NoExpr EXCEPT !.undefined = TRUE]
      ELSE [NoExpr EXCEPT !.nums = <<Value(full, Len(full.nums))>>]

\* An operator after an operator takes its place.
Continued(e, op) ==
  IF e.open THEN [e EXCEPT !.ops[Len(e.ops)] = op]
  ELSE IF ByZero(e) THEN [NoExpr EXCEPT !.undefined = TRUE]
  ELSE [e EXCEPT !.ops = Append(@, op), !.open = TRUE, !.closed = FALSE]

-----------------------------------------------------------------------------

Init ==
  /\ calc = calc_reset
  /\ halted = FALSE
  /\ expr = NoExpr

\* Each key, from the keyboard or by a click on its button.
calc_input ==
  /\ ~halted
  /\ \/ /\ calc' = calc_reset
        /\ expr' = NoExpr
        /\ UNCHANGED halted
     \/ \E d \in Digits :
          /\ ~calc.error
          /\ calc' = digit(calc, d)
          /\ expr' = Entered(expr, d)
          /\ UNCHANGED halted
     \/ /\ ~calc.error
        /\ ~Exception(calc, "=")
        /\ calc' = evaluate(calc)
        /\ expr' = Closed(expr)
        /\ UNCHANGED halted
     \/ \E op \in Ops :
          /\ ~calc.error
          /\ expr.open \/ Len(expr.ops) < MaxOps
          /\ ~Exception(calc, op)
          /\ calc' = operator(calc, op)
          /\ expr' = Continued(expr, op)
          /\ UNCHANGED halted
     \/ \E key \in Ops \cup {"="} :
          /\ ~calc.error
          /\ Exception(calc, key)
          /\ halted' = TRUE
          /\ UNCHANGED <<calc, expr>>

Next == calc_input

Spec == Init /\ [][Next]_<<calc, halted, expr>>

-----------------------------------------------------------------------------

(***************************************************************************)
(* The calculator computes from left to right: the display shows the       *)
(* number being entered, and after a second operator or = the value of     *)
(* the expression so far; it shows ERR exactly when that divides by zero.  *)
(* An operator pressed in place of another evaluates nothing, and =        *)
(* without a second operand takes the value on the display.                *)
(***************************************************************************)
ShowsExpression ==
  /\ calc.error = expr.undefined
  /\ ~calc.error =>
       calc.display = IF expr.open /\ Len(expr.nums) > 1 THEN Value(expr, Len(expr.nums))
                      ELSE Last(expr)
=============================================================================
