------------------------------ MODULE Program ------------------------------
(***************************************************************************)
(* The declarations of a program, which the parser collects and codegen    *)
(* walks through: two vectors, so that the order between a class and a     *)
(* function is lost.                                                       *)
(***************************************************************************)
EXTENDS Integers, Sequences

CONSTANT None  \* no super class, no type, nothing

\* "main" is listed for the prover, which does not count literals as strings.
ASSUME NoneAssumption == None \notin Nat \cup STRING \cup {"main"}

(***************************************************************************)
(* What the parser builds.                                                 *)
(***************************************************************************)

\* The expressions of a body, each from its name on; a call is one of what the
\* nodes before it make, a child is a member of what a call returns.
ExprNodes == [kind : {"name", "child"}, name : STRING] \cup [kind : {"call"}]

Chained(nodes) ==
  \A i \in 1 .. Len(nodes) :
    /\ nodes[i].kind = "call"  => i > 1 /\ nodes[i - 1].kind \in {"name", "child"}
    /\ nodes[i].kind = "child" => i > 1 /\ nodes[i - 1].kind = "call"

\* A function, or a method.
FunctionNodes ==
  {f \in [kind : {"fn"}, name : STRING, ret : STRING, nodes : Seq(ExprNodes)] : Chained(f.nodes)}

\* A field; op says what its initialiser is: "none", "number", a binary operator
\* on two numbers, "string", "array" ([1]), "fill" ([v; n]), "name" (arg) or
\* "call" (arg()).
FieldNodes ==
  [kind : {"field"}, name : STRING, type : STRING \cup {None}, op : STRING, operands : Seq(Int),
   arg : STRING \cup {None}]

ClassNodes ==
  [kind : {"class"}, name : STRING, super : STRING \cup {None}, members : Seq(FieldNodes \cup FunctionNodes)]

\* No declaration.
Absent == [kind |-> "absent"]

VARIABLES
  classes,    \* Program::classes
  functions,  \* Program::functions
  outcome     \* of the process: "reading", "generating", "printing",
              \* "generated", "ran", "emitted", "printed", or the way it ends
              \* early: "aborted" (an assertion, a null pointer), "rejected"
              \* (a message and exit), "crashed" (no main), "undefined"

ProgramInit == classes = << >> /\ functions = << >>

addClass(c) == classes' = Append(classes, c) /\ UNCHANGED functions

addFunction(f) == functions' = Append(functions, f) /\ UNCHANGED classes

Put(f, x, v) == [y \in DOMAIN f \cup {x} |-> IF y = x THEN v ELSE f[y]]

\* The greatest of a set of numbers, 0 of none.
Latest(S) == IF S = {} THEN 0 ELSE CHOOSE i \in S : \A j \in S : j <= i

Least(S) == CHOOSE i \in S : \A j \in S : i <= j

\* The numbers of S up to n in order.
InOrder(S, n) ==
  LET upto[i \in 0 .. n] ==
        IF i = 0 THEN << >> ELSE IF i \in S THEN Append(upto[i - 1], i) ELSE upto[i - 1]
  IN upto[n]

\* The sequences of a sequence, one after the other.
Flat(ss) ==
  LET upto[n \in 0 .. Len(ss)] == IF n = 0 THEN << >> ELSE upto[n - 1] \o ss[n] IN upto[Len(ss)]
=============================================================================
