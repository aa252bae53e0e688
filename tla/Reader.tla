------------------------------- MODULE Reader -------------------------------
(***************************************************************************)
(* lex and the loop around it.  A file is a sequence of lexemes; those     *)
(* that stand together in every program are one:                           *)
(*   [kind |-> "open", node]    class NAME : SUPER {, or a whole function  *)
(*                              up to its last brace                       *)
(*   [kind |-> "field", member] var NAME : TYPE = and the operator         *)
(*   [kind |-> "number", base, value]                                      *)
(*   [kind |-> "method", member]                                           *)
(*   [kind |-> "close"]         the last brace                             *)
(*   [kind |-> "comment", ends] ends: with a newline                       *)
(*   [kind |-> "unknown"]       a character no token begins with           *)
(* Numbers are lexemes of their own because all tokens share one yylval.   *)
(***************************************************************************)
EXTENDS Program, IntExpr

VARIABLES
  files,    \* what is to be read, as it was written
  pending,  \* what is left of it
  yylval,   \* int_value of the token value, which lives as long as one file
  partial   \* the declaration that is being parsed, or Absent

readVars == <<files, pending, yylval, partial>>

(***************************************************************************)
(* What files are made of.                                                 *)
(***************************************************************************)

Lexemes ==
  [kind : {"open"}, node : FunctionNodes \cup {c \in ClassNodes : c.members = << >>}]
  \cup [kind : {"field"}, member : {f \in FieldNodes : f.operands = << >>}]
  \cup [kind : {"number"}, base : {"decimal", "octal", "hexadecimal", "binary"}, value : Nat]
  \cup [kind : {"method"}, member : FunctionNodes]
  \cup [kind : {"close", "unknown"}]
  \cup [kind : {"comment"}, ends : BOOLEAN]

\* What is being parsed after a lexeme: nothing, a function, a class, or the
\* value of a field of it.
Opens(lexeme) ==
  CASE lexeme.kind = "open"  -> lexeme.node.kind
    [] lexeme.kind = "close" -> "absent"
    [] lexeme.kind = "field" -> "field"
    [] OTHER                 -> "class"

\* What is being parsed in front of the lexeme at i, where state is what it is at
\* the beginning.
Within(input, i, state) ==
  LET before == {j \in 1 .. i - 1 : input[j].kind \in {"open", "close", "field", "method"}} IN
  IF before = {} THEN state ELSE Opens(input[Latest(before)])

\* A file without syntax errors, also behind an unknown character, where nothing is
\* read: declarations are not in each other, members are in a class, a number is the
\* value of a field.  The last declaration may be incomplete.
Grammatical(input, state) ==
  \A i \in DOMAIN input :
    CASE input[i].kind = "open"                -> Within(input, i, state) = "absent"
      [] input[i].kind = "close"               -> Within(input, i, state) # "absent"
      [] input[i].kind \in {"field", "method"} -> Within(input, i, state) \in {"class", "field"}
      [] input[i].kind = "number"              -> Within(input, i, state) = "field"
      [] OTHER                                 -> TRUE

File(file) == file \in Seq(Lexemes) /\ Grammatical(file, "absent")

Reading == outcome = "reading" /\ pending # << >>

Input == Head(pending)

At(kind) == Reading /\ Input # << >> /\ Head(Input).kind = kind

Lexeme == Head(Input)

Consume == pending' = <<Tail(Input)>> \o Tail(pending) /\ UNCHANGED files

LexOpen ==
  /\ At("open")
  /\ partial' = Lexeme.node
  /\ Consume /\ UNCHANGED <<classes, functions, outcome, yylval>>

LexMember ==
  /\ At("field") \/ At("method")
  /\ partial' = [partial EXCEPT !.members = Append(@, Lexeme.member)]
  /\ Consume /\ UNCHANGED <<classes, functions, outcome, yylval>>

\* The value that lex leaves: decimal and octal digits are accumulated in an
\* int, the rules for binary and hexadecimal do not touch it.
IntValue(number) ==
  IF number.base \in {"decimal", "octal"} THEN Wrap(number.value, IntBits) ELSE yylval

\* atom ::= NUMBER.
LexNumber ==
  /\ At("number")
  /\ yylval' = IntValue(Lexeme)
  /\ partial' = [partial EXCEPT !.members[Len(partial.members)].operands = Append(@, yylval')]
  /\ Consume /\ UNCHANGED <<classes, functions, outcome>>

\* top_level_node ::= class, or function.
LexClose ==
  /\ At("close")
  /\ IF partial.kind = "class" THEN addClass(partial) ELSE addFunction(partial)
  /\ partial' = Absent
  /\ Consume /\ UNCHANGED <<outcome, yylval>>

\* A comment takes everything up to a newline; without one it goes on past the
\* end of the buffer.
LexComment ==
  /\ At("comment")
  /\ outcome' = IF Lexeme.ends THEN outcome ELSE "undefined"
  /\ Consume /\ UNCHANGED <<classes, functions, partial, yylval>>

\* Slip: the token value outlives the file.
LexStop_keeps ==
  /\ Reading
  /\ Input # << >> => Lexeme.kind = "unknown"
  /\ pending' = Tail(pending)
  /\ partial' = Absent
  /\ UNCHANGED <<classes, functions, outcome, files, yylval>>

\* Slip: an unknown character is skipped.
LexStop_skips ==
  /\ Reading
  /\ Input # << >> => Lexeme.kind = "unknown"
  /\ pending' = IF Input = << >> THEN Tail(pending) ELSE <<Tail(Input)>> \o Tail(pending)
  /\ partial' = IF Input = << >> THEN Absent ELSE partial
  /\ yylval' = 0
  /\ UNCHANGED <<classes, functions, outcome, files>>

\* Token 0, for the end of the buffer and for an unknown character: the file is
\* done, and a declaration that is not complete is a syntax error, which is
\* printed and has no consequence.  The next file has a new yylval.
LexStop ==
  /\ Reading
  /\ Input # << >> => Lexeme.kind = "unknown"
  /\ pending' = Tail(pending)
  /\ partial' = Absent
  /\ yylval' = 0
  /\ UNCHANGED <<classes, functions, outcome, files>>

ReadInit == ProgramInit /\ pending = files /\ yylval = 0 /\ partial = Absent

ReadNext ==
  LexOpen \/ LexMember \/ LexNumber \/ LexClose \/ LexComment \/ LexStop

(***************************************************************************)
(* Properties.                                                             *)
(***************************************************************************)

Read == pending = << >>

\* How much of a file comes before an unknown character.
Extent(file) ==
  LET unknown == {i \in DOMAIN file : file[i].kind = "unknown"} IN
  IF unknown = {} THEN Len(file) ELSE Least(unknown) - 1

\* Where the declarations of a kind begin that are complete in the file up to p.
Complete(file, kind, p) ==
  InOrder({i \in 1 .. p : /\ file[i].kind = "open" /\ file[i].node.kind = kind
                          /\ \E c \in i + 1 .. p : file[c].kind = "close"}, p)

\* The same over all files, as <<file, position>>.
Origins(kind) ==
  Flat([n \in DOMAIN files |->
          LET complete == Complete(files[n], kind, Extent(files[n]))
          IN [k \in DOMAIN complete |-> <<n, complete[k]>>]])

\* The members of the class that begins at o.
MemberSet(file, o) ==
  {i \in DOMAIN file : /\ i > o /\ file[i].kind \in {"field", "method"}
                       /\ \A j \in o + 1 .. i : file[j].kind # "close"}

\* The numbers of the field that begins at m.
NumberSet(file, m) ==
  {i \in DOMAIN file : /\ i > m /\ file[i].kind = "number"
                       /\ \A j \in m + 1 .. i : file[j].kind \in {"number", "comment"}}

\* What the program is made of is what the files declare, the library first and
\* each in its order, up to the first unknown character of a file: nothing from
\* behind such a character, no part of a broken declaration, and none missing.
ReadsFiles ==
  Read /\ outcome # "undefined" =>
    \A kind \in {"class", "fn"} :
      LET nodes == IF kind = "class" THEN classes ELSE functions IN
      [k \in DOMAIN nodes |-> nodes[k].name] =
        [k \in DOMAIN Origins(kind) |->
           files[Origins(kind)[k][1]][Origins(kind)[k][2]].node.name]

\* The decimal and octal numbers up to i.
Literals(file, i) == {j \in 1 .. i : file[j].kind = "number" /\ file[j].base \in {"decimal", "octal"}}

\* The number that the token at i stands for.
Meant(file, i) == IF Literals(file, i) = {} THEN 0 ELSE file[Latest(Literals(file, i))].value

\* The value of a decimal or octal literal is the written one if it fits an int;
\* a binary or hexadecimal one has the value of the last literal of the other
\* kind in the same file - in front of it, whatever declaration that is in -
\* and never one of another file.
LiteralsExact ==
  Read /\ outcome # "undefined" =>
    \A k \in DOMAIN classes :
      LET file   == files[Origins("class")[k][1]]
          places == InOrder(MemberSet(file, Origins("class")[k][2]), Len(file))
      IN
      /\ Len(classes[k].members) = Len(places)
      /\ \A m \in DOMAIN places : file[places[m]].kind = "field" =>
           LET numbers  == InOrder(NumberSet(file, places[m]), Len(file))
               operands == classes[k].members[m].operands
           IN /\ Len(operands) = Len(numbers)
              /\ \A j \in DOMAIN numbers : LET n == Meant(file, numbers[j]) IN
                   n = Wrap(n, IntBits) => operands[j] = n
=============================================================================
