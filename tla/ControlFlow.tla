---------------------------- MODULE ControlFlow ----------------------------
(***************************************************************************)
(* How codegen turns the body of one function into basic blocks.  Each     *)
(* codegen of the syntax tree calls those of its children in between; what *)
(* it does after such a call is left on a stack (todo) of statements and   *)
(* of things to do after them.                                             *)
(*                                                                         *)
(* Statements are records: kind is one of "call" (an expression statement  *)
(* calling value), "let", "var", "assign" (of the result of a call),       *)
(* "use" (a call with a name as argument), "fill" ([v; n]), "return",      *)
(* "block" (stmts), "if" (then, else), "none" (no else branch), "while",   *)
(* "for", "on" (body).  A block is a sequence of instructions, and an      *)
(* instruction or an alloca is known by its position <<block, index>>.     *)
(***************************************************************************)
EXTENDS Integers, Sequences

CONSTANTS
  Program,  \* function bodies: [stmts, void], void functions end by themselves
  Syntax    \* the statements in them

StatementKind == {"call", "let", "var", "assign", "use", "fill", "return",
                  "block", "if", "none", "while", "for", "on"}

\* The parser builds statements of these kinds, out of such statements.
ASSUME SyntaxAssumption ==
  /\ \A p \in Program : p.stmts \in Seq(Syntax) /\ p.void \in BOOLEAN
  /\ \A s \in Syntax :
       /\ s.kind \in StatementKind
       /\ s.kind = "block" => s.stmts \in Seq(Syntax)
       /\ s.kind = "if" => s.then \in Syntax /\ s.else \in Syntax
       /\ s.kind \in {"while", "for", "on"} => s.body \in Syntax

VARIABLES
  program,   \* the body that is generated
  todo,      \* what is left to do
  contexts,  \* FunctionContext and the child contexts in it: values, variables
  blocks,    \* the basic blocks, in the order of their creation; 1 is "entry"
  placed,    \* those that are in the function's list of blocks
  at,        \* the block at whose end the builder inserts
  outcome    \* "generating", "generated", "aborted" (an assert, a null store)

genVars == <<program, todo, contexts, blocks, placed, at, outcome>>

(***************************************************************************)
(* Names, as in CodegenContext.                                            *)
(***************************************************************************)

Latest(S) == CHOOSE i \in S : \A j \in S : j <= i

NoNames == [values |-> << >>, variables |-> << >>]

Put(f, x, v) == [y \in DOMAIN f \cup {x} |-> IF y = x THEN v ELSE f[y]]

Bound(how, n, pos) ==
  [contexts EXCEPT ![Len(contexts)] =
     IF how = "let" THEN [@ EXCEPT !.values = Put(@, n, pos)]
     ELSE [@ EXCEPT !.variables = Put(@, n, pos)]]

ScopesOf(n) == {d \in DOMAIN contexts : n \in DOMAIN contexts[d].values \cup DOMAIN contexts[d].variables}

Resolved(n) == ScopesOf(n) # {}

Scope(n) == contexts[Latest(ScopesOf(n))]

IsVariable(n) == n \in DOMAIN Scope(n).variables

(***************************************************************************)
(* Emission.                                                               *)
(***************************************************************************)

Doing(kind) == outcome = "generating" /\ todo # << >> /\ Head(todo).kind = kind

Statement == Head(todo)

Then(items) == todo' = items \o Tail(todo)

\* The position of the k-th instruction from here.
Position(k) == <<at, Len(blocks[at]) + k>>

\* The builder's block is extended by code, and more are blocks created.
Emitted(code, more) == [blocks EXCEPT ![at] = @ \o code] \o more

Emit(code) == blocks' = Emitted(code, << >>) /\ UNCHANGED <<placed, at>>

CallTo(value) == [op |-> "call", value |-> value]
Br(b)         == [op |-> "br", to |-> b]
CondBr(label, yes, no) == [op |-> "test", value |-> label, yes |-> yes, no |-> no]
Ret           == [op |-> "ret"]

Abort == /\ outcome' = "aborted"
         /\ UNCHANGED <<program, todo, contexts, blocks, placed, at>>

Created(k) == Len(blocks) + k

(***************************************************************************)
(* One action per codegen.                                                 *)
(***************************************************************************)

\* expr; and functions' calls to the library.
GenCall ==
  /\ Doing("call")
  /\ Emit(<<CallTo(Statement.value)>>)
  /\ Then(<< >>)
  /\ UNCHANGED <<program, contexts, outcome>>

\* let n = value();
GenLet ==
  /\ Doing("let")
  /\ Emit(<<CallTo(Statement.value)>>)
  /\ contexts' = Bound("let", Statement.name, Position(1))
  /\ Then(<< >>)
  /\ UNCHANGED <<program, outcome>>

\* var n = value(); the alloca is made in "entry", the store here.
GenVar ==
  /\ Doing("var")
  /\ Emit(<<CallTo(Statement.value), [op |-> "store", from |-> Position(1), to |-> Position(2)]>>)
  /\ contexts' = Bound("var", Statement.name, Position(2))
  /\ Then(<< >>)
  /\ UNCHANGED <<program, outcome>>

\* f(n); an unknown name ends in an assert.
GenUse ==
  /\ Doing("use")
  /\ IF ~Resolved(Statement.name) THEN Abort
     ELSE /\ IF IsVariable(Statement.name)
             THEN Emit(<<[op |-> "load", from |-> Scope(Statement.name).variables[Statement.name]],
                         [op |-> "use", of |-> Position(1)]>>)
             ELSE Emit(<<[op |-> "use", of |-> Scope(Statement.name).values[Statement.name]]>>)
          /\ Then(<< >>)
          /\ UNCHANGED <<program, contexts, outcome>>

\* n = value(); n is loaded, too; only a variable has an address.
GenAssign ==
  /\ Doing("assign")
  /\ IF ~Resolved(Statement.name) \/ ~IsVariable(Statement.name) THEN Abort
     ELSE LET address == Scope(Statement.name).variables[Statement.name] IN
          /\ Emit(<<[op |-> "load", from |-> address], CallTo(Statement.value),
                    [op |-> "store", from |-> Position(2), to |-> address]>>)
          /\ Then(<< >>)
          /\ UNCHANGED <<program, contexts, outcome>>

\* Slip: the counter is not set to 0.
GenFill_unset ==
  LET counter == Position(2)
      cond == Created(1)  content == Created(2)  continue == Created(3)
  IN
  /\ Doing("fill")
  /\ blocks' = Emitted(<<CallTo("alloc"), Br(cond)>>,
                 <<<<[op |-> "below", of |-> counter, yes |-> content, no |-> continue]>>,
                   <<CallTo("element"), [op |-> "next", of |-> counter], Br(cond)>>, << >>>>)
  /\ placed' = placed \cup {cond, content, continue}
  /\ at' = continue
  /\ Then(<< >>)
  /\ UNCHANGED <<program, contexts, outcome>>

\* [value; count]: a loop with a counter of its own.
GenFill ==
  LET counter == Position(2)
      cond == Created(1)  content == Created(2)  continue == Created(3)
  IN
  /\ Doing("fill")
  /\ blocks' = Emitted(<<CallTo("alloc"), [op |-> "zero", of |-> counter], Br(cond)>>,
                 <<<<[op |-> "below", of |-> counter, yes |-> content, no |-> continue]>>,
                   <<CallTo("element"), [op |-> "next", of |-> counter], Br(cond)>>, << >>>>)
  /\ placed' = placed \cup {cond, content, continue}
  /\ at' = continue
  /\ Then(<< >>)
  /\ UNCHANGED <<program, contexts, outcome>>

\* return value; only the function's own context can.
GenReturn ==
  /\ Doing("return")
  /\ IF Len(contexts) > 1 THEN Abort
     ELSE Emit(<<Ret>>) /\ Then(<< >>) /\ UNCHANGED <<program, contexts, outcome>>

\* A block statement has no context of its own.
GenBlock ==
  /\ Doing("block")
  /\ Then(Statement.stmts)
  /\ UNCHANGED <<program, contexts, blocks, placed, at, outcome>>

HasElse(s) == s.else.kind # "none"

\* Slip: the end of the then branch is not connected.
GenIf_falls ==
  LET then == Created(1)  continue == Created(2)
      else == IF HasElse(Statement) THEN Created(3) ELSE continue
      goto == [kind |-> "goto", block |-> continue]
      place(b) == [kind |-> "place", block |-> b]
  IN
  /\ Doing("if")
  /\ blocks' = Emitted(<<CondBr("condition", then, else)>>,
                       IF HasElse(Statement) THEN <<<< >>, << >>, << >>>> ELSE <<<< >>, << >>>>)
  /\ placed' = placed \cup {then}
  /\ at' = then
  /\ Then(IF HasElse(Statement)
          THEN <<Statement.then, place(else), Statement.else, goto, place(continue)>>
          ELSE <<Statement.then, place(continue)>>)
  /\ UNCHANGED <<program, contexts, outcome>>

\* if (condition) then else else
GenIf ==
  LET then == Created(1)  continue == Created(2)
      else == IF HasElse(Statement) THEN Created(3) ELSE continue
      goto == [kind |-> "goto", block |-> continue]
      place(b) == [kind |-> "place", block |-> b]
  IN
  /\ Doing("if")
  /\ blocks' = Emitted(<<CondBr("condition", then, else)>>,
                       IF HasElse(Statement) THEN <<<< >>, << >>, << >>>> ELSE <<<< >>, << >>>>)
  /\ placed' = placed \cup {then}
  /\ at' = then
  /\ Then(IF HasElse(Statement)
          THEN <<Statement.then, goto, place(else), Statement.else, goto, place(continue)>>
          ELSE <<Statement.then, goto, place(continue)>>)
  /\ UNCHANGED <<program, contexts, outcome>>

\* Slip: the end of the body is not connected with the condition.
Turn_falls(body, cond, continue) ==
  <<body, [kind |-> "leave"], [kind |-> "place", block |-> continue]>>

\* The body of a loop, and what follows it.
Turn(body, cond, continue) ==
  <<body, [kind |-> "leave"], [kind |-> "goto", block |-> cond], [kind |-> "place", block |-> continue]>>

\* while (condition) body, in a child context.
GenWhile ==
  LET cond == Created(1)  content == Created(2)  continue == Created(3) IN
  /\ Doing("while")
  /\ blocks' = Emitted(<<Br(cond)>>, <<<<CondBr("condition", content, continue)>>, << >>, << >>>>)
  /\ placed' = placed \cup {cond, content}
  /\ at' = content
  /\ contexts' = Append(contexts, NoNames)
  /\ Then(Turn(Statement.body, cond, continue))
  /\ UNCHANGED <<program, outcome>>

\* for (name : iterable) body.  The name is given to the enclosing context.
GenFor ==
  LET cond == Created(1)  content == Created(2)  continue == Created(3) IN
  /\ Doing("for")
  /\ blocks' = Emitted(<<CallTo("iterable"), Br(cond)>>,
                 <<<<CondBr("hasNext", content, continue)>>, <<CallTo("next")>>, << >>>>)
  /\ placed' = placed \cup {cond, content}
  /\ at' = content
  /\ contexts' = Append(Bound("let", Statement.name, <<content, 1>>), NoNames)
  /\ Then(Turn(Statement.body, cond, continue))
  /\ UNCHANGED <<program, outcome>>

\* on name = NewRegion() body
GenOn ==
  /\ Doing("on")
  /\ Emit(<<CallTo("NewRegion")>>)
  /\ contexts' = Append(contexts, NoNames)
  /\ Then(<<Statement.body, [kind |-> "leave"], [kind |-> "call", value |-> "DeleteRegion"]>>)
  /\ UNCHANGED <<program, outcome>>

\* What codegens do after those of their children: CreateBr,
Goto ==
  /\ Doing("goto")
  /\ Emit(<<Br(Statement.block)>>)
  /\ Then(<< >>)
  /\ UNCHANGED <<program, contexts, outcome>>

\* Slip: the block is not put into the function.
Place_unlisted ==
  /\ Doing("place")
  /\ at' = Statement.block
  /\ Then(<< >>)
  /\ UNCHANGED <<program, contexts, blocks, placed, outcome>>

\* getBasicBlockList().push_back and SetInsertPoint,
Place ==
  /\ Doing("place")
  /\ placed' = placed \cup {Statement.block}
  /\ at' = Statement.block
  /\ Then(<< >>)
  /\ UNCHANGED <<program, contexts, blocks, outcome>>

\* Slip: names of the child context stay.
Leave_keeps ==
  /\ Doing("leave")
  /\ Then(<< >>)
  /\ UNCHANGED <<program, contexts, blocks, placed, at, outcome>>

\* and the end of a child context.
Leave ==
  /\ Doing("leave")
  /\ contexts' = SubSeq(contexts, 1, Len(contexts) - 1)
  /\ Then(<< >>)
  /\ UNCHANGED <<program, blocks, placed, at, outcome>>

\* The end of codegenFunction.
Finish ==
  /\ outcome = "generating" /\ todo = << >>
  /\ IF program.void THEN Emit(<<Ret>>) ELSE UNCHANGED <<blocks, placed, at>>
  /\ outcome' = "generated"
  /\ UNCHANGED <<program, todo, contexts>>

GenInit ==
  /\ program \in Program
  /\ todo = program.stmts
  /\ contexts = <<NoNames>>
  /\ blocks = <<<< >>>>
  /\ placed = {1}
  /\ at = 1
  /\ outcome = "generating"

GenNext ==
  \/ GenCall \/ GenLet \/ GenVar \/ GenUse \/ GenAssign \/ GenFill \/ GenReturn
  \/ GenBlock \/ GenIf \/ GenWhile \/ GenFor \/ GenOn \/ Goto \/ Place \/ Leave \/ Finish

GenSpec == GenInit /\ [][GenNext]_genVars

(***************************************************************************)
(* What LLVM requires of the function.                                     *)
(***************************************************************************)

Terminator == {"br", "test", "below", "ret"}

Targets(i) == CASE i.op = "br" -> {i.to}
                [] i.op \in {"test", "below"} -> {i.yes, i.no}
                [] OTHER -> {}

\* A block ends with its only terminator.
Closed(b) ==
  LET n == Len(blocks[b]) IN
  n > 0 /\ \A k \in 1 .. n : blocks[b][k].op \in Terminator <=> k = n

TargetsPlaced ==
  \A b \in placed : \A k \in DOMAIN blocks[b] : Targets(blocks[b][k]) \subseteq placed

WellFormed == TargetsPlaced /\ \A b \in placed : Closed(b)

\* The last instruction of the block that the builder ends in returns, and no
\* other instruction does.
OnlyEndReturns ==
  /\ blocks[at] # << >>
  /\ \A b \in placed : \A k \in DOMAIN blocks[b] :
       blocks[b][k].op = "ret" <=> b = at /\ k = Len(blocks[b])

\* Whatever if, while, for, on and [v; n] a body nests, every block that their
\* codegens create is put into the function, branches lead to such blocks, and
\* each block is closed once (IfStatementNode::codegen, WhileStatementNode::
\* codegen, ...): a function is malformed only by where the returns are.
OnlyReturnsMalform ==
  outcome = "generated" => placed = DOMAIN blocks /\ (WellFormed <=> OnlyEndReturns)
=============================================================================
