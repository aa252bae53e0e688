----------------------------- MODULE MCLockstep -----------------------------
(***************************************************************************)
(* Bodies with a declaration, a compound statement of two levels, and what *)
(* comes after it.  The names are x, which everything is done to, and y.   *)
(***************************************************************************)
EXTENDS Lockstep

Let(n)      == [kind |-> "let", name |-> n, value |-> "make"]
Var(n)      == [kind |-> "var", name |-> n, value |-> "make"]
Assign(n)   == [kind |-> "assign", name |-> n, value |-> "make"]
Uses(n)     == [kind |-> "use", name |-> n]
Effect      == [kind |-> "call", value |-> "effect"]
Filling     == [kind |-> "fill"]
Returning   == [kind |-> "return"]
None        == [kind |-> "none"]
Block(s)    == [kind |-> "block", stmts |-> s]
If(s, t)    == [kind |-> "if", then |-> s, else |-> t]
While(s)    == [kind |-> "while", body |-> s]
For(n, s)   == [kind |-> "for", name |-> n, body |-> s]
On(s)       == [kind |-> "on", body |-> s]

Leaf == {Uses("x"), Assign("x"), Let("x"), Returning}

Leaves == Leaf \cup {Block(<<s, t>>) : s \in {Let("x"), Var("x"), Assign("x")}, t \in {Uses("x"), Filling}}

Around(S, T) == {While(s) : s \in S} \cup {For(n, s) : n \in {"x", "y"}, s \in S} \cup {On(s) : s \in S}
               \cup {If(s, t) : s \in S, t \in T \cup {None}}

Compound == Around(Leaves, {Uses("x"), Returning})

Nested == Around({While(Filling)} \cup
                {Block(<<c, Uses("x")>>) : c \in Around({Assign("x"), Var("x"), Returning}, {Assign("x")})},
                {While(Assign("x"))})

MCProgram ==
  {[stmts |-> <<d, c, t>>, void |-> t # Returning] :
     d \in {Let("x"), Var("x"), Effect}, c \in Compound \cup Nested, t \in {Uses("x"), Returning}}

\* The statements of a body, and the four levels in them.
MCSyntax ==
  LET With(S) == S \cup UNION {Parts(s) : s \in S} IN
  With(With(With(With(UNION {{p.stmts[i] : i \in DOMAIN p.stmts} : p \in MCProgram}))))
=============================================================================
