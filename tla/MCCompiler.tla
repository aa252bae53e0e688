----------------------------- MODULE MCCompiler -----------------------------
(***************************************************************************)
(* A library of a class and a function, and files with a class of up to    *)
(* two members, with two functions, or with a character or comment where   *)
(* it does not belong.                                                     *)
(***************************************************************************)
EXTENDS Compiler, SequencesExt

Number(base, n) == [kind |-> "number", base |-> base, value |-> n]

Dec(n) == Number("decimal", n)

ClassText(name, super, members) ==
  <<[kind |-> "open", node |-> [kind |-> "class", name |-> name, super |-> super, members |-> << >>]]>>
  \o Flat(members) \o <<[kind |-> "close"]>>

Field(name, type, op, arg, numbers) ==
  <<[kind |-> "field",
     member |-> [kind |-> "field", name |-> name, type |-> type, op |-> op, arg |-> arg, operands |-> << >>]]>>
  \o numbers

Fn(name, ret, uses) == [kind |-> "fn", name |-> name, ret |-> ret, nodes |-> Flat(uses)]

Method(name, ret, uses) == <<[kind |-> "method", member |-> Fn(name, ret, uses)]>>

FunctionText(name, ret, uses) ==
  <<[kind |-> "open", node |-> Fn(name, ret, uses)], [kind |-> "close"]>>

Name(n)      == <<[kind |-> "name", name |-> n]>>
Call(n)      == Name(n) \o <<[kind |-> "call"]>>
Member(n, c) == Call(n) \o <<[kind |-> "child", name |-> c]>>
Invoke(n, c) == Member(n, c) \o <<[kind |-> "call"]>>

\* class A { var x = 1; fn m() { x; } }   fn f() -> A { A(); }
MCLibrary ==
  ClassText("A", None, <<Field("x", None, "number", None, <<Dec(1)>>), Method("m", "void", <<Name("x")>>)>>)
  \o FunctionText("f", "A", <<Call("A")>>)

FieldTexts ==
  {Field("x", None, "number", None, <<Dec(3)>>),
   Field("y", None, "number", None, <<Number("hexadecimal", 5)>>),
   Field("x", None, "number", None, <<Number("octal", 9)>>),
   Field("y", "i64", "+", None, <<Dec(7), Number("binary", 1)>>),
   Field("y", None, "<", None, <<Dec(1), Dec(2)>>),
   Field("x", None, "/", None, <<Dec(4), Number("octal", 0)>>),
   Field("x", "i32", "none", None, << >>),
   Field("printf", "bool", "none", None, << >>),
   Field("x", "A", "none", None, << >>),
   Field("y", "A", "number", None, <<Dec(2)>>),
   Field("x", "void", "string", None, << >>),
   Field("y", None, "array", None, << >>),
   Field("x", None, "fill", None, << >>),
   Field("y", None, "name", "A", << >>),
   Field("x", None, "name", "f", << >>),
   Field("y", None, "call", "A", << >>),
   Field("x", None, "call", "printf", << >>),
   Field("y", None, "call", "NewRegion", << >>)}

MethodTexts ==
  {Method("m", "void", <<Name("x"), Name("y")>>),
   Method("n", "A", <<Name("m"), Name("printf"), Member("A", "x")>>),
   Method("m", "B", <<Invoke("A", "m"), Invoke("y", "m")>>),
   Method("n", "i64", <<Call("m")>>),
   Method("x", "i32", <<Call("y"), Name("A")>>),
   Method("main", "void", <<Call("printf"), Member("A", "y")>>)}

MemberLists == {<< >>} \cup {<<a>> : a \in FieldTexts \cup MethodTexts}
               \cup {<<a, b>> : a \in FieldTexts \cup MethodTexts, b \in FieldTexts \cup MethodTexts}

MainText == FunctionText("main", "i64", <<Member("B", "x"), Invoke("A", "m")>>)

ClassFiles ==
  {ClassText(name, super, members) \o MainText :
     name \in {"A", "B"}, super \in {None, "A", "B"}, members \in MemberLists}

\* class B : A { var y = 2; fn n() -> A { m; } }
Subclass ==
  ClassText("B", "A", <<Field("y", None, "number", None, <<Dec(2)>>), Method("n", "A", <<Name("m")>>)>>)

UseLists ==
  {<< >>, <<Call("main")>>, <<Call("f"), Call("A")>>, <<Name("x")>>, <<Member("f", "x"), Member("B", "y")>>,
   <<Invoke("B", "n")>>, <<Invoke("f", "m")>>, <<Member("B", "f")>>, <<Member("NewRegion", "x")>>}

FunctionTexts ==
  {FunctionText(name, ret, uses) : name \in {"main", "f"}, ret \in {"i64", "B"}, uses \in UseLists}

FunctionFiles == {Subclass \o a \o b : a \in FunctionTexts, b \in FunctionTexts}

Strays == {[kind |-> "unknown"], [kind |-> "comment", ends |-> TRUE], [kind |-> "comment", ends |-> FALSE]}

Insert(text, i, stray) == SubSeq(text, 1, i) \o <<stray>> \o SubSeq(text, i + 1, Len(text))

StrayFiles ==
  UNION {{Insert(text, i, stray) : i \in 0 .. Len(text), stray \in Strays} :
         text \in {Subclass \o FunctionText("main", "i64", <<Call("f")>>), MCLibrary,
                   ClassText("B", None, <<Field("y", None, "+", None, <<Dec(7), Number("binary", 1)>>)>>) \o MainText}}

PrintFiles ==
  {Flat(parts) : parts \in UNION {[1 .. n -> {Subclass, MCLibrary, MainText}] : n \in 0 .. 3}} \cup StrayFiles

\* One method, and no function.
MethodFiles == {ClassText("B", None, <<a>>) : a \in MethodTexts}

ObjectFiles ==
  MethodFiles \cup {a \o b : a \in FunctionTexts, b \in FunctionTexts \cup {<< >>}}
  \cup {ClassText("B", None, <<a>>) \o MainText : a \in MethodTexts}

\* A class with the name of a built-in type: the type is not the class.
BuiltInFiles ==
  {ClassText("i64", None, <<Field("x", None, "number", None, <<Dec(1)>>), Method("n", "i64", << >>)>>)
     \o FunctionText("main", "i64", uses) : uses \in {<<Call("i64")>>, <<Member("i64", "x")>>, <<Invoke("i64", "n")>>}}

MCTexts ==
  [jit    |-> ClassFiles \cup FunctionFiles \cup MethodFiles \cup StrayFiles \cup BuiltInFiles,
   object |-> ObjectFiles, print |-> PrintFiles]
=============================================================================
