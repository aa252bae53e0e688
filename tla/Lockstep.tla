------------------------------ MODULE Lockstep ------------------------------
(***************************************************************************)
(* The blocks of ControlFlow, run beside the statements they were made of. *)
(* Both sides take steps of their own until each is about to do something  *)
(* that can be seen: call a function, pass a value, test a condition,      *)
(* return.  What is seen happens on both sides at once, with one result.   *)
(*                                                                         *)
(* The statements mean what the language's examples use them for: a name   *)
(* is what it was last declared to be in the innermost scope, the bodies   *)
(* of loops and of "on" are scopes, and a loop tests before each turn.     *)
(***************************************************************************)
EXTENDS ControlFlow, FiniteSets

CONSTANTS
  Value,  \* results of calls
  Length  \* the count of [v; n]

VARIABLES
  pc,     \* <<block, index>> of the instruction that is next
  regs,   \* results of the instructions that were executed
  mem,    \* contents of the allocas
  rest,   \* the statements that are left, and "enter", "leave" of scopes
  env     \* the scopes, the innermost last: name -> value

runVars == <<pc, regs, mem, rest, env>>
vars    == <<genVars, runVars>>

Fixed == UNCHANGED <<program, todo, contexts, blocks, placed, at>>

-----------------------------------------------------------------------------
(***************************************************************************)
(* The blocks.                                                             *)
(***************************************************************************)

Instruction == blocks[pc[1]][pc[2]]

Following == <<pc[1], pc[2] + 1>>

Visible == {"call", "use", "test", "ret"}

\* Is the instruction's operand, if any, the result of one that was executed?
Ready ==
  CASE Instruction.op = "load"             -> Instruction.from \in DOMAIN mem
    [] Instruction.op = "store"            -> Instruction.from \in DOMAIN regs
    [] Instruction.op = "use"              -> Instruction.of \in DOMAIN regs
    [] Instruction.op \in {"next", "below"} -> Instruction.of \in DOMAIN mem
    [] OTHER                               -> TRUE

Running == outcome = "running"

Executes(op) == Running /\ Instruction.op = op /\ Ready

Unseen == UNCHANGED <<rest, env, outcome>> /\ Fixed

Jump ==
  /\ Executes("br")
  /\ pc' = <<Instruction.to, 1>>
  /\ UNCHANGED <<regs, mem>> /\ Unseen

Load ==
  /\ Executes("load")
  /\ regs' = Put(regs, pc, mem[Instruction.from])
  /\ pc' = Following
  /\ UNCHANGED mem /\ Unseen

Remember(address, value) ==
  /\ mem' = Put(mem, address, value)
  /\ pc' = Following
  /\ UNCHANGED regs /\ Unseen

Store ==
  \/ Executes("store") /\ Remember(Instruction.to, regs[Instruction.from])
  \/ Executes("zero")  /\ Remember(Instruction.of, 0)
  \/ Executes("next")  /\ Remember(Instruction.of, mem[Instruction.of] + 1)

Compare ==
  /\ Executes("below")
  /\ pc' = <<IF mem[Instruction.of] < Length THEN Instruction.yes ELSE Instruction.no, 1>>
  /\ UNCHANGED <<regs, mem>> /\ Unseen

\* A register or an alloca is read that nothing was written to.
Undefined ==
  /\ Running /\ ~Ready
  /\ outcome' = "undefined"
  /\ Fixed /\ UNCHANGED runVars

-----------------------------------------------------------------------------
(***************************************************************************)
(* The statements.                                                         *)
(***************************************************************************)

\* They go on when the blocks are about to do something that is seen.
Waits == Running /\ Ready /\ Instruction.op \in Visible

Ahead(kind) == rest # << >> /\ Head(rest).kind = kind

Inside(body) == <<[kind |-> "enter"], body, [kind |-> "leave"]>>

Unfold ==
  /\ Waits
  /\ \/ Ahead("block") /\ rest' = Head(rest).stmts \o Tail(rest) /\ UNCHANGED env
     \/ Ahead("none")  /\ rest' = Tail(rest) /\ UNCHANGED env
     \/ Ahead("enter") /\ rest' = Tail(rest) /\ env' = Append(env, << >>)
     \/ Ahead("leave") /\ rest' = Tail(rest) /\ env' = SubSeq(env, 1, Len(env) - 1)
     \/ /\ Ahead("on")
        /\ rest' = <<[kind |-> "call", value |-> "NewRegion"]>> \o Inside(Head(rest).body)
                   \o <<[kind |-> "call", value |-> "DeleteRegion"]>> \o Tail(rest)
        /\ UNCHANGED env
  /\ Fixed /\ UNCHANGED <<pc, regs, mem, outcome>>

Settled == Waits /\ (rest # << >> => Head(rest).kind \notin {"block", "none", "enter", "leave", "on"})

Holding(n) == {d \in DOMAIN env : n \in DOMAIN env[d]}

\* What the statements do next, as the blocks' instructions name it.
Expected ==
  IF rest = << >> THEN [op |-> "ret"]
  ELSE LET s == Head(rest) IN
    IF s.kind \in {"use", "assign"} /\ Holding(s.name) = {} THEN [op |-> "unknown"]
    ELSE
    CASE s.kind = "use"    -> [op |-> "use", value |-> env[Latest(Holding(s.name))][s.name]]
      [] s.kind \in {"call", "let", "var", "assign"} -> [op |-> "call", value |-> s.value]
      [] s.kind = "fill"   -> [op |-> "call", value |-> "alloc"]
      [] s.kind = "for"    -> [op |-> "call", value |-> "iterable"]
      [] s.kind \in {"if", "while"} -> [op |-> "test", value |-> "condition"]
      [] s.kind = "turn"   -> [op |-> "test", value |-> "hasNext"]
      [] s.kind = "return" -> [op |-> "ret"]

\* What the blocks do next.
Offered ==
  CASE Instruction.op \in {"call", "test"} -> [op |-> Instruction.op, value |-> Instruction.value]
    [] Instruction.op = "use" -> [op |-> "use", value |-> regs[Instruction.of]]
    [] Instruction.op = "ret" -> [op |-> "ret"]

Both(op) == Settled /\ Expected = Offered /\ Offered.op = op

Declared(n, v)  == env' = [env EXCEPT ![Len(env)] = Put(@, n, v)]
Assigned(n, v)  == LET d == Latest(Holding(n)) IN env' = [env EXCEPT ![d] = Put(@, n, v)]

\* After a call that gave v.
Called(v) ==
  LET s == Head(rest) IN
  \/ s.kind = "call" /\ rest' = Tail(rest) /\ UNCHANGED env
  \/ s.kind \in {"let", "var"} /\ rest' = Tail(rest) /\ Declared(s.name, v)
  \/ s.kind = "assign" /\ rest' = Tail(rest) /\ Assigned(s.name, v)
  \/ /\ s.kind = "fill"
     /\ rest' = [i \in 1 .. Length |-> [kind |-> "call", value |-> "element"]] \o Tail(rest)
     /\ UNCHANGED env
  \/ s.kind = "for" /\ rest' = <<[s EXCEPT !.kind = "turn"]>> \o Tail(rest) /\ UNCHANGED env

Call ==
  /\ Both("call")
  /\ \E v \in Value : regs' = Put(regs, pc, v) /\ Called(v)
  /\ pc' = Following
  /\ UNCHANGED <<mem, outcome>> /\ Fixed

Use ==
  /\ Both("use")
  /\ rest' = Tail(rest) /\ pc' = Following
  /\ UNCHANGED <<regs, mem, env, outcome>> /\ Fixed

Branch(b) ==
  LET s == Head(rest) IN
  rest' = (CASE s.kind = "if"              -> <<IF b THEN s.then ELSE s.else>>
             [] s.kind = "while" /\ b      -> Inside(s.body) \o <<s>>
             [] s.kind = "turn"  /\ b      ->
                  <<[kind |-> "let", name |-> s.name, value |-> "next"]>> \o Inside(s.body) \o <<s>>
             [] OTHER                      -> << >>) \o Tail(rest)

Test ==
  /\ Both("test")
  /\ \E b \in BOOLEAN : Branch(b) /\ pc' = <<IF b THEN Instruction.yes ELSE Instruction.no, 1>>
  /\ UNCHANGED <<regs, mem, env, outcome>> /\ Fixed

Return ==
  /\ Both("ret")
  /\ outcome' = "returned"
  /\ Fixed /\ UNCHANGED runVars

\* The two are about to do different things.
Differ ==
  /\ Settled /\ Expected # Offered
  /\ outcome' = "different"
  /\ Fixed /\ UNCHANGED runVars

-----------------------------------------------------------------------------
\* The JIT runs a function once it is generated; LLVM has no use for a
\* malformed one.
Start ==
  /\ outcome = "generated"
  /\ outcome' = IF WellFormed THEN "running" ELSE "malformed"
  /\ Fixed /\ UNCHANGED runVars

Ended == {"aborted", "malformed", "undefined", "different", "returned"}

Over == outcome \in Ended /\ UNCHANGED vars

Init ==
  /\ GenInit
  /\ pc = <<1, 1>>
  /\ regs = << >> /\ mem = << >>
  /\ rest = program.stmts
  /\ env = <<<< >>>>

Generate == GenNext /\ UNCHANGED runVars

Next ==
  \/ Generate \/ Start
  \/ Jump \/ Load \/ Store \/ Compare \/ Undefined
  \/ Unfold \/ Call \/ Use \/ Test \/ Return \/ Differ
  \/ Over

Spec == Init /\ [][Next]_vars

-----------------------------------------------------------------------------
(***************************************************************************)
(* What the bodies have to keep to.                                        *)
(***************************************************************************)

RECURSIVE Returns(_), Declares(_, _), Mentions(_), Scoped(_)

\* Statements in a statement.
Parts(s) == CASE s.kind = "block" -> {s.stmts[i] : i \in DOMAIN s.stmts}
              [] s.kind = "if"    -> {s.then, s.else}
              [] s.kind \in {"while", "for", "on"} -> {s.body}
              [] OTHER            -> {}

\* Is there a return in s?
Returns(s) == s.kind = "return" \/ \E t \in Parts(s) : Returns(t)

\* A body returns with its last statement, and nowhere else.
Disciplined(p) ==
  LET n == Len(p.stmts) IN
  /\ \A i \in 1 .. n : Returns(p.stmts[i]) => i = n /\ ~p.void /\ p.stmts[i].kind = "return"
  /\ ~p.void => n > 0 /\ p.stmts[n].kind = "return"

\* The names that s gives to the context it is in, by statements of some kinds.
Declares(s, kinds) ==
  (IF s.kind \in kinds THEN {s.name} ELSE {})
    \cup (IF s.kind \in {"block", "if"} THEN UNION {Declares(t, kinds) : t \in Parts(s)} ELSE {})

Mentions(s) ==
  (IF s.kind \in {"use", "assign"} THEN {s.name} ELSE {}) \cup UNION {Mentions(t) : t \in Parts(s)}

\* The names among those that are only declared if some branch is taken.
Conditional(s) ==
  CASE s.kind = "if"    -> Declares(s, {"let", "var", "for"})
    [] s.kind = "for"   -> {s.name}
    [] s.kind = "block" -> UNION {IF t.kind \in {"if", "for"} THEN Declares(t, {"let", "var", "for"}) ELSE {}
                                  : t \in Parts(s)}
    [] OTHER            -> {}

\* Does t, in the same context as s before it, keep off what s declared?
Follows(s, t, declared) ==
  /\ declared \cap Mentions(t) = {}
  /\ Declares(s, {"var"}) \cap Declares(t, {"let", "for"}) = {}

ScopedSequence(stmts) ==
  \A i \in DOMAIN stmts :
    /\ Scoped(stmts[i])
    /\ \A j \in DOMAIN stmts : i < j => Follows(stmts[i], stmts[j], Conditional(stmts[i]))

\* A name that a branch of an if or the head of a for declares is used only
\* there, and a var is not declared anew, as a let, in the same context.
Scoped(s) ==
  CASE s.kind = "block" -> ScopedSequence(s.stmts)
    [] s.kind = "if"    -> /\ Scoped(s.then) /\ Scoped(s.else)
                           /\ Follows(s.then, s.else, Declares(s.then, {"let", "var", "for"}))
    [] OTHER            -> \A t \in Parts(s) : Scoped(t)

-----------------------------------------------------------------------------
(***************************************************************************)
(* Properties.                                                             *)
(***************************************************************************)

\* Blocks are among those created, what runs is in a block that is in the
\* function (the blocks of codegen, the interpreter of this module).
TypeOK ==
  /\ program \in Program
  /\ at \in placed /\ placed \subseteq DOMAIN blocks
  /\ outcome \in {"generating", "generated", "running"} \cup Ended
  /\ Len(contexts) > 0 /\ Len(env) > 0
  /\ pc[1] \in placed
  /\ outcome = "running" => pc[2] \in DOMAIN blocks[pc[1]]
  /\ \A p \in DOMAIN regs \cup DOMAIN mem : p[1] \in placed /\ p[2] \in DOMAIN blocks[p[1]]

\* What codegen makes of a body is a well-formed function exactly if the body
\* returns at its end and nowhere else: then every block, of whatever nesting
\* of if, while, for, on and [v; n], is closed by one branch or return, and
\* branches to blocks that were put into the function
\* (IfStatementNode::codegen, WhileStatementNode::codegen, ...).
MalformedByReturns ==
  /\ outcome = "malformed" => ~Disciplined(program)
  /\ outcome \in {"running", "returned"} => Disciplined(program)

\* The blocks do what the statements say, call for call with the same values
\* of names, test for test, and never read what was not computed, whatever is
\* returned and however tests turn out; unless the body relies on a name that
\* a branch or the head of a for declared (getValue, addValue, addVariable,
\* createAlloca and the order of the branches).
SameBehaviour ==
  outcome \in {"different", "undefined"} => ~ScopedSequence(program.stmts)
=============================================================================
