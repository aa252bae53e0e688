------------------------------ MODULE IntExpr ------------------------------
(***************************************************************************)
(* Integer constants and binary operators.  A value has two types: the     *)
(* static one of the compiler (bits) and that of the LLVM value (width);   *)
(* they need not agree, a comparison has one bit and the type of its left  *)
(* operand.                                                                *)
(***************************************************************************)
EXTENDS Integers

CONSTANTS
  Bits,    \* bits of an LLVM i64
  IntBits  \* bits of a C int

ASSUME BitsAssumption == Bits \in Nat /\ IntBits \in Nat /\ 1 < IntBits /\ IntBits < Bits

\* 2 ^ n, which the prover knows nothing of.
Power[n \in 0 .. Bits] == IF n = 0 THEN 1 ELSE 2 * Power[n - 1]

\* The w-bit two's complement number of n.
Wrap(n, w) == ((n + Power[w - 1]) % Power[w]) - Power[w - 1]

\* i32 and i64 are both stored in an LLVM i64, bool in an i1.
IntTypes == [i32 |-> 32, i64 |-> 64, bool |-> 1]

IntType(bits) == [kind |-> "int", bits |-> bits]

StoreWidth(bits) == IF bits = 1 THEN 1 ELSE Bits

\* A value: its static type, the bits of the LLVM value (0: a pointer) and what
\* computes it.
ConstantInt(bits, width, n) ==
  [type |-> IntType(bits), width |-> width, code |-> [op |-> "const", n |-> Wrap(n, width)]]

Undefined(bits, width) ==
  [type |-> IntType(bits), width |-> width, code |-> [op |-> "undef"]]

Const(n) == ConstantInt(64, Bits, n)

Comparisons == {"==", "<", ">", "<=", ">="}

Compare(op, a, b) ==
  CASE op = "==" -> a = b
    [] op = "<"  -> a < b
    [] op = ">"  -> a > b
    [] op = "<=" -> a <= b
    [] op = ">=" -> a >= b

Magnitude(n) == IF n < 0 THEN -n ELSE n

\* sdiv truncates.
Quotient(a, b) ==
  LET q == Magnitude(a) \div Magnitude(b) IN IF (a < 0) # (b < 0) THEN -q ELSE q

\* sdiv has no result for a zero divisor, and none for the one quotient that
\* does not fit.
Divides(a, b, width) == b # 0 /\ Wrap(Quotient(a, b), width) = Quotient(a, b)

Arithmetic(op, a, b) ==
  CASE op = "+" -> a + b
    [] op = "-" -> a - b
    [] op = "*" -> a * b
    [] op = "/" -> Quotient(a, b)

\* Slip: the result of a comparison is widened.
Binary_widened(op, x, y) ==
  IF op \in Comparisons
  THEN ConstantInt(x.type.bits, x.width, IF Compare(op, x.code.n, y.code.n) THEN 1 ELSE 0)
  ELSE IF op = "/" /\ ~Divides(x.code.n, y.code.n, x.width) THEN Undefined(x.type.bits, x.width)
       ELSE ConstantInt(x.type.bits, x.width, Arithmetic(op, x.code.n, y.code.n))

\* x op y for two integers of one width: a one-bit number is
\* 0 or -1.
Binary(op, x, y) ==
  IF op \in Comparisons
  THEN ConstantInt(x.type.bits, 1, IF Compare(op, x.code.n, y.code.n) THEN -1 ELSE 0)
  ELSE IF op = "/" /\ ~Divides(x.code.n, y.code.n, x.width) THEN Undefined(x.type.bits, x.width)
       ELSE ConstantInt(x.type.bits, x.width, Arithmetic(op, x.code.n, y.code.n))
=============================================================================
