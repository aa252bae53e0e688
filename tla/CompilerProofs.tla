--------------------------- MODULE CompilerProofs ---------------------------
(***************************************************************************)
(* Proofs about Compiler, for every library and every set of files: what   *)
(* the parser that prints makes of a program, that no function of the      *)
(* module uses the region handle of another, and what main a process runs. *)
(* Then GenInv, the invariant of the tables that codegen fills, and that   *)
(* it is kept by the expressions of bodies; DeclarationsProofs goes on.    *)
(***************************************************************************)
EXTENDS Compiler, SequenceTheorems, FiniteSetTheorems, WellFoundedInduction, TLAPS

\* The elements of a program are of no particular set.
IsList(s) == \E S : s \in Seq(S)

LEMMA AppendedList ==
  ASSUME NEW s, IsList(s), NEW e
  PROVE  /\ IsList(Append(s, e)) /\ Len(Append(s, e)) = Len(s) + 1 /\ Len(s) \in Nat
         /\ \A i \in 1 .. Len(s) : Append(s, e)[i] = s[i]
         /\ Append(s, e)[Len(s) + 1] = e
<1>1. PICK S : s \in Seq(S)
  BY DEF IsList
<1>2. s \in Seq(S \cup {e}) /\ e \in S \cup {e}
  BY <1>1, SeqMonotonic
<1>3. Append(s, e) \in Seq(S \cup {e})
  BY <1>2
<1> QED BY <1>2, <1>3 DEF IsList

LEMMA ConcatenatedList ==
  ASSUME NEW s, IsList(s), NEW t, IsList(t)
  PROVE  /\ IsList(s \o t) /\ Len(s) \in Nat /\ Len(t) \in Nat
         /\ Len(s \o t) = Len(s) + Len(t) /\ DOMAIN (s \o t) = 1 .. Len(s) + Len(t)
         /\ \A i \in 1 .. Len(s) : (s \o t)[i] = s[i]
         /\ \A i \in 1 .. Len(t) : (s \o t)[Len(s) + i] = t[i]
<1>1. PICK S, T : s \in Seq(S) /\ t \in Seq(T)
  BY DEF IsList
<1>2. s \in Seq(S \cup T) /\ t \in Seq(S \cup T)
  <2>1. S \subseteq S \cup T /\ T \subseteq S \cup T
    OBVIOUS
  <2> QED BY <1>1, <2>1, SeqMonotonic
<1>3. s \o t \in Seq(S \cup T) /\ Len(s \o t) = Len(s) + Len(t)
  BY <1>2, ConcatProperties
<1>4. \A i \in 1 .. Len(s) + Len(t) : (s \o t)[i] = IF i <= Len(s) THEN s[i] ELSE t[i - Len(s)]
  BY <1>2, ConcatProperties
<1>5. Len(s) \in Nat /\ Len(t) \in Nat /\ DOMAIN (s \o t) = 1 .. Len(s) + Len(t)
  BY <1>2, <1>3, LenProperties
<1> QED BY <1>3, <1>4, <1>5 DEF IsList

LEMMA EmptyList == IsList(<< >>) /\ Len(<< >>) = 0
BY EmptySeq DEF IsList

LEMMA LengthOfList ==
  ASSUME NEW s, IsList(s)
  PROVE  Len(s) \in Nat /\ (s = << >> <=> Len(s) = 0)
BY EmptySeq, LenProperties DEF IsList

(***************************************************************************)
(* The inductive invariant of a process that prints.                       *)
(***************************************************************************)
Declared == classes \o functions

Lists == IsList(classes) /\ IsList(functions) /\ IsList(printed)

\* What is printed so far: a class and another declaration is too much.
PrintedSoFar ==
  /\ Len(printed) <= Len(Declared)
  /\ \A k \in 1 .. Len(printed) : printed[k] = Declared[k].name
  /\ classes # << >> => Len(printed) <= 1

\* When the next declaration is printed, the Printer is at the start of a line
\* if there was one before, and has an indent if that was a function.
PrinterState ==
  /\ newline <=> Len(printed) > 0
  /\ indent = None <=> Len(printed) <= Len(classes)

ManyWithClass == classes # << >> /\ Len(classes) + Len(functions) > 1

PrintInv ==
  mode = "print" =>
    /\ Lists /\ newline \in BOOLEAN
    /\ outcome \in {"reading", "printing", "printed", "undefined"}
    /\ outcome = "reading" =>
         IsList(pending) /\ printed = << >> /\ newline = FALSE /\ indent = None
    /\ outcome = "printing" => PrintedSoFar /\ PrinterState
    /\ outcome = "printed" => PrintedSoFar /\ Len(printed) = Len(Declared)
    /\ outcome = "undefined" => pending # << >> \/ ManyWithClass

LEMMA InitPrintInv == Init => PrintInv
<1> SUFFICES ASSUME Init, mode = "print" PROVE PrintInv
  BY DEF PrintInv
<1>1. /\ classes = << >> /\ functions = << >> /\ printed = << >>
      /\ outcome = "reading" /\ newline = FALSE /\ indent = None /\ pending = files
  BY DEF Init, ReadInit, PrintInit, ProgramInit
<1>2. PICK text : files = <<text>>
  BY DEF Init
<1>3. <<text>> \in Seq({text})
  OBVIOUS
<1> QED BY <1>1, <1>2, <1>3, EmptyList DEF PrintInv, Lists, IsList

\* What the reading of a lexeme leaves of the files.
LEMMA ConsumedList ==
  ASSUME IsList(pending), pending # << >>, Consume
  PROVE  IsList(pending') /\ pending' # << >>
<1>1. PICK S : pending \in Seq(S)
  BY DEF IsList
<1>2. IsList(Tail(pending)) /\ IsList(<<Tail(Input)>>)
  <2>1. Tail(pending) \in Seq(S)
    BY <1>1
  <2>2. <<Tail(Input)>> \in Seq({Tail(Input)})
    OBVIOUS
  <2> QED BY <2>1, <2>2 DEF IsList
<1>3. pending' = <<Tail(Input)>> \o Tail(pending)
  BY DEF Consume
<1>4. IsList(pending') /\ Len(pending') = 1 + Len(Tail(pending)) /\ Len(Tail(pending)) \in Nat
  BY <1>2, <1>3, ConcatenatedList
<1> QED BY <1>4, LengthOfList

LEMMA ReadPrintInv ==
  ASSUME PrintInv, mode = "print", ReadStep
  PROVE  PrintInv'
<1>1. /\ outcome = "reading" /\ pending # << >>
      /\ UNCHANGED <<printed, newline, indent, mode>>
  BY DEF ReadStep, ReadNext, LexOpen, LexMember, LexNumber, LexClose, LexComment, LexStop, At, Reading,
         printVars
<1>2. /\ Lists /\ IsList(pending) /\ printed = << >> /\ newline = FALSE /\ indent = None
  BY <1>1 DEF PrintInv
<1>3. SUFFICES /\ IsList(classes') /\ IsList(functions') /\ IsList(pending')
               /\ outcome' = "reading" \/ (outcome' = "undefined" /\ pending' # << >>)
  BY <1>1, <1>2 DEF PrintInv, Lists
<1>4. ASSUME Consume, UNCHANGED <<classes, functions, outcome>>
      PROVE  /\ IsList(classes') /\ IsList(functions') /\ IsList(pending') /\ outcome' = "reading"
  BY <1>1, <1>2, <1>4, ConsumedList DEF Lists
<1>5. CASE LexOpen \/ LexMember \/ LexNumber
  BY <1>4, <1>5 DEF LexOpen, LexMember, LexNumber
<1>6. CASE LexClose
  <2>1. IsList(pending') /\ outcome' = "reading"
    BY <1>1, <1>2, <1>6, ConsumedList DEF LexClose
  <2>2. \/ classes' = Append(classes, partial) /\ functions' = functions
        \/ functions' = Append(functions, partial) /\ classes' = classes
    BY <1>6 DEF LexClose, addClass, addFunction
  <2>3. IsList(Append(classes, partial)) /\ IsList(Append(functions, partial))
    BY <1>2, AppendedList DEF Lists
  <2> QED BY <1>2, <2>1, <2>2, <2>3 DEF Lists
<1>7. CASE LexComment
  <2>1. IsList(pending') /\ pending' # << >>
    BY <1>1, <1>2, <1>7, ConsumedList DEF LexComment
  <2> QED BY <1>1, <1>2, <1>7, <2>1 DEF LexComment, Lists
<1>8. CASE LexStop
  <2>1. pending' = Tail(pending) /\ UNCHANGED <<classes, functions, outcome>>
    BY <1>8 DEF LexStop
  <2>2. IsList(Tail(pending))
    <3>1. PICK S : pending \in Seq(S)
      BY <1>2 DEF IsList
    <3>2. Tail(pending) \in Seq(S)
      BY <1>1, <3>1
    <3> QED BY <3>2 DEF IsList
  <2> QED BY <1>1, <1>2, <2>1, <2>2 DEF Lists
<1> QED BY <1>5, <1>6, <1>7, <1>8 DEF ReadStep, ReadNext

LEMMA StartPrintInv ==
  ASSUME PrintInv, mode = "print", StartPrint
  PROVE  PrintInv'
<1>1. /\ outcome = "reading" /\ outcome' = "printing"
      /\ UNCHANGED <<classes, functions, printed, newline, indent, mode>>
  BY DEF StartPrint, AllRead, printVars
<1>2. Lists /\ printed = << >> /\ newline = FALSE /\ indent = None
  BY <1>1 DEF PrintInv
<1>3. Len(classes) \in Nat /\ Len(Declared) \in Nat /\ Len(printed) = 0
  BY <1>2, ConcatenatedList, LengthOfList DEF Lists, Declared
<1>4. PrintedSoFar /\ PrinterState
  BY <1>2, <1>3 DEF PrintedSoFar, PrinterState
<1>5. PrintedSoFar' /\ PrinterState' /\ Lists'
  BY <1>1, <1>2, <1>4 DEF PrintedSoFar, PrinterState, Lists, Declared
<1> QED BY <1>1, <1>2, <1>5 DEF PrintInv

\* Printing one more declaration, in the order of Declared.
LEMMA PrintDeclarationInv ==
  ASSUME PrintInv, mode = "print", outcome = "printing",
         Place <= Len(Declared), printed' = Append(printed, Declared[Place].name),
         outcome' = Begun, newline' = TRUE,
         indent' = IF Place <= Len(classes) THEN indent ELSE 0,
         UNCHANGED <<classes, functions, mode>>
  PROVE  PrintInv'
<1>1. Lists /\ newline \in BOOLEAN /\ PrintedSoFar /\ PrinterState
  BY DEF PrintInv
<1>2. /\ Len(classes) \in Nat /\ Len(functions) \in Nat /\ Len(printed) \in Nat
      /\ Len(Declared) = Len(classes) + Len(functions)
      /\ classes = << >> <=> Len(classes) = 0
  BY <1>1, ConcatenatedList, LengthOfList DEF Lists, Declared
<1>3. /\ IsList(printed') /\ Len(printed') = Place
      /\ \A k \in 1 .. Len(printed) : printed'[k] = printed[k]
      /\ printed'[Place] = Declared[Place].name
  BY <1>1, AppendedList DEF Lists, Place
<1>4. Lists' /\ newline' \in BOOLEAN /\ Declared' = Declared
  BY <1>1, <1>3 DEF Lists, Declared
<1>5. \A k \in 1 .. Len(printed') : printed'[k] = Declared'[k].name
  <2>1. \A k \in 1 .. Len(printed') : k \in 1 .. Len(printed) \/ k = Place
    BY <1>2, <1>3 DEF Place
  <2> QED BY <1>1, <1>3, <1>4, <2>1 DEF PrintedSoFar
<1>6. CASE newline /\ indent = None
  <2>1. Len(printed) > 0 /\ Len(printed) <= Len(classes) /\ outcome' = "undefined"
    BY <1>1, <1>6 DEF PrinterState, Begun
  <2>2. ManyWithClass'
    BY <1>2, <2>1 DEF ManyWithClass, Place
  <2> QED BY <1>4, <2>1, <2>2 DEF PrintInv
<1>7. CASE ~(newline /\ indent = None)
  <2>1. outcome' = "printing"
    BY <1>7 DEF Begun
  <2>2. classes # << >> => Len(printed) = 0
    BY <1>1, <1>2, <1>7 DEF PrinterState, PrintedSoFar
  <2>3. PrintedSoFar'
    BY <1>2, <1>3, <1>4, <1>5, <2>2 DEF PrintedSoFar, Place
  <2>4. Len(printed)' > 0 /\ (Len(printed)' <= Len(classes)' <=> Place <= Len(classes))
    BY <1>2, <1>3 DEF Place
  <2>5. indent' = None <=> Place <= Len(classes)
    BY <1>1, <1>2, NoneAssumption DEF PrinterState, Place
  <2>6. PrinterState'
    BY <2>4, <2>5 DEF PrinterState
  <2> QED BY <1>4, <2>1, <2>3, <2>6 DEF PrintInv
<1> QED BY <1>6, <1>7

LEMMA PrintStepInv ==
  ASSUME PrintInv, mode = "print", PrintStep
  PROVE  PrintInv'
<1>1. outcome = "printing" /\ UNCHANGED <<classes, functions, mode>>
  BY DEF PrintStep, PrintNext, PrintClass, PrintFunction, FinishPrint
<1>2. Lists /\ PrintedSoFar /\ PrinterState
  BY <1>1 DEF PrintInv
<1>3. /\ Len(classes) \in Nat /\ Len(functions) \in Nat /\ Len(printed) \in Nat
      /\ Len(Declared) = Len(classes) + Len(functions)
      /\ \A i \in 1 .. Len(classes) : Declared[i] = classes[i]
      /\ \A i \in 1 .. Len(functions) : Declared[Len(classes) + i] = functions[i]
  BY <1>2, ConcatenatedList, LengthOfList DEF Lists, Declared
<1>4. Place \in Nat \ {0}
  BY <1>3 DEF Place
<1>5. CASE PrintClass
  <2>1. Place <= Len(Declared) /\ classes[Place] = Declared[Place]
    BY <1>3, <1>4, <1>5 DEF PrintClass
  <2> QED BY <1>1, <1>5, <2>1, PrintDeclarationInv DEF PrintClass
<1>6. CASE PrintFunction
  <2> DEFINE i == Place - Len(classes)
  <2>1. i \in 1 .. Len(functions) /\ Place = Len(classes) + i
    BY <1>3, <1>4, <1>6 DEF PrintFunction
  <2>2. Declared[Place] = functions[i]
    <3> HIDE DEF i
    <3> QED BY <1>3, <2>1
  <2>3. Place <= Len(Declared) /\ ~(Place <= Len(classes))
    BY <1>3, <1>4, <2>1
  <2>4. printed' = Append(printed, Declared[Place].name)
    BY <1>6, <2>2 DEF PrintFunction
  <2>5. outcome' = Begun /\ newline' = TRUE /\ indent' = IF Place <= Len(classes) THEN indent ELSE 0
    BY <1>6, <2>3 DEF PrintFunction, PrintBlock
  <2> HIDE DEF i
  <2> QED BY <1>1, <2>3, <2>4, <2>5, PrintDeclarationInv
<1>7. CASE FinishPrint
  <2>1. outcome' = "printed" /\ UNCHANGED <<printed, newline>> /\ Len(printed) = Len(Declared)
    BY <1>2, <1>3, <1>7 DEF FinishPrint, Place, PrintedSoFar, printVars
  <2>2. Lists' /\ PrintedSoFar' /\ (Len(printed) = Len(Declared))'
    BY <1>1, <1>2, <2>1 DEF Lists, PrintedSoFar, Declared
  <2> QED BY <1>1, <2>1, <2>2 DEF PrintInv
<1> QED BY <1>5, <1>6, <1>7 DEF PrintStep, PrintNext

LEMMA NextPrintInv == PrintInv /\ [Next]_vars => PrintInv'
<1> SUFFICES ASSUME PrintInv, [Next]_vars PROVE PrintInv'
  OBVIOUS
<1>1. mode' = mode
  BY DEF Next, vars, ReadStep, GenStep, PrintStep, StartCodegen, StartPrint, AllRead, runProgram, makeObject
<1>2. CASE mode # "print"
  BY <1>1, <1>2 DEF PrintInv
<1>3. CASE mode = "print"
  <2>1. outcome \notin {"generating", "generated"}
    BY <1>3 DEF PrintInv
  <2>2. CASE GenStep
    BY <2>1, <2>2 DEF GenStep, GenNext, Generating, BeginClass, GenField, LayOut, BeginMethod, EndMethod, EndClass,
                      BeginFunction, EndFunction, NextNode, GenName, GenChild, GenCall, BodyDone, Finish
  <2>3. CASE StartCodegen \/ runProgram \/ makeObject
    BY <1>3, <2>1, <2>3 DEF StartCodegen, runProgram, makeObject
  <2>4. CASE UNCHANGED vars
    BY <2>4 DEF vars, readVars, printVars, PrintInv, Lists, PrintedSoFar, PrinterState, ManyWithClass, Declared
  <2> QED BY <1>3, <2>2, <2>3, <2>4, ReadPrintInv, StartPrintInv, PrintStepInv DEF Next
<1> QED BY <1>2, <1>3

\* The parser that prints ends with all declarations printed, or reads an
\* uninitialised pointer, as the shape of the program decides.
THEOREM PrintedByShape == Spec => []PrintsByShape
<1>1. PrintInv => PrintsByShape
  <2> SUFFICES ASSUME PrintInv, mode = "print" PROVE PrintsByShape
    BY DEF PrintsByShape
  <2>1. /\ Lists /\ Len(classes) \in Nat /\ Len(functions) \in Nat
        /\ Len(Declared) = Len(classes) + Len(functions) /\ DOMAIN Declared = 1 .. Len(Declared)
        /\ classes = << >> <=> Len(classes) = 0
    BY ConcatenatedList, LengthOfList DEF PrintInv, Lists, Declared
  <2>2. ASSUME outcome = "printed"
        PROVE  /\ classes = << >> \/ Len(classes) + Len(functions) = 1
               /\ printed = [k \in DOMAIN Declared |-> Declared[k].name]
    <3>1. PrintedSoFar /\ Len(printed) = Len(Declared)
      BY <2>2 DEF PrintInv
    <3>2. classes = << >> \/ Len(classes) + Len(functions) = 1
      BY <2>1, <3>1 DEF PrintedSoFar
    <3>3. PICK S : printed \in [1 .. Len(printed) -> S]
      BY <2>1, LenProperties DEF Lists, IsList
    <3> QED BY <2>1, <3>1, <3>2, <3>3 DEF PrintedSoFar
  <2>3. outcome = "undefined" /\ Read => ManyWithClass
    BY DEF PrintInv, Read
  <2> QED BY <2>2, <2>3 DEF PrintsByShape, ManyWithClass, Declared
<1> QED BY <1>1, InitPrintInv, NextPrintInv, PTL DEF Spec

LEMMA ListDomain ==
  ASSUME NEW s, IsList(s)
  PROVE  Len(s) \in Nat /\ DOMAIN s = 1 .. Len(s)
BY LenProperties DEF IsList

\* The invariant of the handles says this of each item of a function.
Own(item, id) ==
  item.op \in {"alloc", "init", "call"} => item.handle \in {id, IF item.op = "call" THEN 0 ELSE id}

IsCode(code, id) == IsList(code) /\ \A i \in 1 .. Len(code) : Own(code[i], id)

IsFunction(f, id) ==
  f = [name |-> f.name, decl |-> f.decl, code |-> f.code] /\ IsCode(f.code, id)

IsModule(m) == IsList(m) /\ \A id \in 1 .. Len(m) : IsFunction(m[id], id)

LEMMA EmptyCode == ASSUME NEW id PROVE IsCode(<< >>, id)
BY EmptyList DEF IsCode

LEMMA SingleCode ==
  ASSUME NEW id, NEW item, Own(item, id)
  PROVE  IsCode(<<item>>, id)
<1>1. <<item>> \in Seq({item}) /\ Len(<<item>>) = 1 /\ <<item>>[1] = item
  OBVIOUS
<1>2. IsList(<<item>>)
  BY <1>1 DEF IsList
<1>3. \A i \in 1 .. Len(<<item>>) : <<item>>[i] = item
  BY <1>1
<1> QED BY <1>2, <1>3 DEF IsCode

LEMMA AppendedCode ==
  ASSUME NEW id, NEW code, IsCode(code, id), NEW item, Own(item, id)
  PROVE  IsCode(Append(code, item), id)
<1>1. /\ IsList(Append(code, item)) /\ Len(Append(code, item)) = Len(code) + 1 /\ Len(code) \in Nat
      /\ \A i \in 1 .. Len(code) : Append(code, item)[i] = code[i]
      /\ Append(code, item)[Len(code) + 1] = item
  BY AppendedList DEF IsCode
<1>2. \A i \in 1 .. Len(code) + 1 : i \in 1 .. Len(code) \/ i = Len(code) + 1
  BY <1>1
<1>3. \A i \in 1 .. Len(code) + 1 : Own(Append(code, item)[i], id)
  BY <1>1, <1>2 DEF IsCode
<1> QED BY <1>1, <1>3 DEF IsCode

LEMMA ConcatenatedCode ==
  ASSUME NEW id, NEW s, IsCode(s, id), NEW t, IsCode(t, id)
  PROVE  IsCode(s \o t, id)
<1>1. /\ IsList(s \o t) /\ Len(s) \in Nat /\ Len(t) \in Nat /\ Len(s \o t) = Len(s) + Len(t)
      /\ \A i \in 1 .. Len(s) : (s \o t)[i] = s[i]
      /\ \A i \in 1 .. Len(t) : (s \o t)[Len(s) + i] = t[i]
  BY ConcatenatedList DEF IsCode
<1>2. ASSUME NEW i \in 1 .. Len(s \o t) PROVE Own((s \o t)[i], id)
  <2>1. CASE i <= Len(s)
    BY <1>1, <2>1 DEF IsCode
  <2>2. CASE ~(i <= Len(s))
    <3>1. i - Len(s) \in 1 .. Len(t) /\ i = Len(s) + (i - Len(s))
      BY <1>1, <2>2
    <3> DEFINE j == i - Len(s)
    <3>2. j \in 1 .. Len(t) /\ i = Len(s) + j
      BY <3>1
    <3> HIDE DEF j
    <3> QED BY <1>1, <3>2 DEF IsCode
  <2> QED BY <2>1, <2>2
<1> QED BY <1>1, <1>2 DEF IsCode

\* Adding a function to the module.
LEMMA GrownModule ==
  ASSUME NEW m, IsModule(m), NEW f, IsFunction(f, Len(m) + 1)
  PROVE  IsModule(Append(m, f)) /\ Len(Append(m, f)) = Len(m) + 1 /\ Len(m) \in Nat
<1>1. /\ IsList(Append(m, f)) /\ Len(Append(m, f)) = Len(m) + 1 /\ Len(m) \in Nat
      /\ \A i \in 1 .. Len(m) : Append(m, f)[i] = m[i]
      /\ Append(m, f)[Len(m) + 1] = f
  BY AppendedList DEF IsModule
<1>2. \A i \in 1 .. Len(m) + 1 : i \in 1 .. Len(m) \/ i = Len(m) + 1
  BY <1>1
<1>3. \A i \in 1 .. Len(m) + 1 : IsFunction(Append(m, f)[i], i)
  BY <1>1, <1>2 DEF IsModule
<1> QED BY <1>1, <1>3 DEF IsModule

\* Replacing one function by another.
LEMMA ChangedModule ==
  ASSUME NEW m, IsModule(m), NEW id \in 1 .. Len(m), NEW f, IsFunction(f, id)
  PROVE  IsModule([m EXCEPT ![id] = f]) /\ Len([m EXCEPT ![id] = f]) = Len(m)
<1>1. PICK S : m \in Seq(S)
  BY DEF IsModule, IsList
<1>2. m \in Seq(S \cup {f}) /\ f \in S \cup {f}
  BY <1>1, SeqMonotonic
<1>3. /\ [m EXCEPT ![id] = f] \in Seq(S \cup {f}) /\ Len([m EXCEPT ![id] = f]) = Len(m)
      /\ \A j \in 1 .. Len(m) : [m EXCEPT ![id] = f][j] = IF j = id THEN f ELSE m[j]
  BY <1>2, ExceptSeq
<1>4. \A j \in 1 .. Len(m) : IsFunction([m EXCEPT ![id] = f][j], j)
  BY <1>3 DEF IsModule
<1> QED BY <1>3, <1>4 DEF IsModule, IsList

\* Emitting code into a function.
LEMMA EmittedModule ==
  ASSUME NEW m, IsModule(m), NEW id \in 1 .. Len(m), NEW code, IsCode(code, id)
  PROVE  IsModule([m EXCEPT ![id].code = code]) /\ Len([m EXCEPT ![id].code = code]) = Len(m)
<1> DEFINE f == [m[id] EXCEPT !.code = code]
<1>1. m[id] = [name |-> m[id].name, decl |-> m[id].decl, code |-> m[id].code]
  BY DEF IsModule, IsFunction
<1>2. f = [name |-> m[id].name, decl |-> m[id].decl, code |-> code]
  BY <1>1
<1>3. IsFunction(f, id)
  BY <1>2 DEF IsFunction
<1>4. [m EXCEPT ![id].code = code] = [m EXCEPT ![id] = f]
  OBVIOUS
<1> HIDE DEF f
<1> QED BY <1>3, <1>4, ChangedModule

(***************************************************************************)
(* What the values are that code is taken from.                            *)
(***************************************************************************)

\* A map of names to functions.
AreFunctions(values) == \A name \in DOMAIN values : values[name].code.op = "fn"

\* A value whose code may be emitted into the function id.
Emittable(value, id) == ~IsNull(value) /\ ~Fails(value) => Own(value.code, id)

LEMMA FailedEmittable == \A how, id : how \in {"aborted", "rejected"} => Emittable(Failed(how), id)
BY DEF Emittable, Fails, Failed

LEMMA PutFunctions ==
  ASSUME NEW values, AreFunctions(values), NEW name, NEW value, value.code.op = "fn"
  PROVE  AreFunctions(Put(values, name, value))
BY DEF AreFunctions, Put

LEMMA FoundEmittable ==
  ASSUME NEW values, AreFunctions(values), NEW name, NEW id
  PROVE  Emittable(Find(values, name), id)
BY DEF Emittable, AreFunctions, Find, Own, IsNull, Null

LEMMA ChildEmittable ==
  ASSUME NEW value, NEW name, NEW id
  PROVE  Emittable(getChild(value, name), id)
BY DEF Emittable, getChild, Own, Failed, Fails, Pointer, IsNull, Null

LEMMA CallEmittable ==
  ASSUME NEW value, NEW region, NEW id
  PROVE  Emittable(doCall(value, region, id), id)
BY DEF Emittable, doCall, Own, Failed, Fails

(***************************************************************************)
(* The inductive invariant.                                                *)
(***************************************************************************)
LocalOK ==
  /\ local = [values |-> local.values, variables |-> local.variables, region |-> local.region,
              laidOut |-> local.laidOut, todo |-> local.todo]
  /\ AreFunctions(local.values)
  /\ IsList(local.variables)
  /\ local.region \in 1 .. Len(module)

BodyOK == body.value.code.op = "fn" /\ body.value.code.fn \in 1 .. Len(module)

GlobalOK ==
  /\ global = [values |-> global.values, types |-> global.types, region |-> global.region]
  /\ AreFunctions(global.values)

HandlesInv ==
  /\ IsModule(module)
  /\ GlobalOK
  /\ local # Absent => LocalOK
  /\ body # Absent => BodyOK

LEMMA ModuleLength == ASSUME NEW m, IsModule(m) PROVE Len(m) \in Nat /\ DOMAIN m = 1 .. Len(m)
BY ListDomain DEF IsModule

LEMMA InitHandlesInv == GenInit => HandlesInv
<1> SUFFICES ASSUME GenInit PROVE HandlesInv
  OBVIOUS
<1> DEFINE f(i) == [name |-> Natives[i], decl |-> <<0, -i>>, code |-> << >>]
<1>1. DOMAIN Natives = 1 .. 4
  BY DEF Natives
<1>2. module = [i \in 1 .. 4 |-> f(i)]
  BY <1>1 DEF GenInit
<1> HIDE DEF f
<1>3. module \in Seq({f(i) : i \in 1 .. 4}) /\ Len(module) = 4 /\ \A i \in 1 .. 4 : module[i] = f(i)
  BY <1>2
<1>4. \A i \in 1 .. 4 : IsFunction(f(i), i)
  BY EmptyCode DEF f, IsFunction
<1>5. IsModule(module)
  <2>1. IsList(module)
    BY <1>3 DEF IsList
  <2> QED BY <1>3, <1>4, <2>1 DEF IsModule
<1>6. GlobalOK
  <2> DEFINE v == [printf    |-> FunctionValue(1, IntType(32), TRUE),
                   NewRegion |-> FunctionValue(2, RegionType, FALSE)]
  <2>1. global = [values |-> v, types |-> << >>, region |-> 0]
    BY DEF GenInit
  <2>2. /\ FunctionValue(1, IntType(32), TRUE).code.op = "fn"
        /\ FunctionValue(2, RegionType, FALSE).code.op = "fn"
    BY DEF FunctionValue, Pointer
  <2>3. v["printf"] = FunctionValue(1, IntType(32), TRUE) /\ v["NewRegion"] = FunctionValue(2, RegionType, FALSE)
    OBVIOUS
  <2>4. DOMAIN v = {"printf", "NewRegion"}
    OBVIOUS
  <2>5. AreFunctions(v)
    <3> HIDE DEF v
    <3> QED BY <2>2, <2>3, <2>4 DEF AreFunctions
  <2> HIDE DEF v
  <2> QED BY <2>1, <2>5 DEF GlobalOK
<1>7. local = Absent /\ body = Absent
  BY DEF GenInit
<1> QED BY <1>5, <1>6, <1>7 DEF HandlesInv

\* A module that is sound and not shorter: what was said of the contexts holds.
LEMMA ContextsKept ==
  ASSUME HandlesInv, Len(module) <= Len(module'), Len(module') \in Nat
  PROVE  /\ UNCHANGED local => (local # Absent => LocalOK)'
         /\ UNCHANGED body => (body # Absent => BodyOK)'
         /\ UNCHANGED global => GlobalOK'
<1>1. Len(module) \in Nat
  BY ModuleLength DEF HandlesInv
<1>2. \A id : id \in 1 .. Len(module) => id \in 1 .. Len(module')
  BY <1>1
<1>3. ASSUME UNCHANGED local PROVE (local # Absent => LocalOK)'
  BY <1>2, <1>3 DEF HandlesInv, LocalOK
<1>4. ASSUME UNCHANGED body PROVE (body # Absent => BodyOK)'
  BY <1>2, <1>4 DEF HandlesInv, BodyOK
<1>5. ASSUME UNCHANGED global PROVE GlobalOK'
  BY <1>5 DEF HandlesInv, GlobalOK
<1> QED BY <1>3, <1>4, <1>5

LEMMA BeginBodyInv ==
  ASSUME HandlesInv, NEW node, NEW decl, NEW region, codegenFunction(node, decl, region)
  PROVE  HandlesInv'
<1> DEFINE f == [name |-> NewName(node.name), decl |-> decl, code |-> << >>]
           value == FunctionValue(Len(module) + 1, TypeNamed(node.ret, global.types, region), FALSE)
<1>1. UNCHANGED <<global, local>>
  BY DEF codegenFunction
<1>2. CASE UNCHANGED <<module, body>>
  BY <1>1, <1>2 DEF HandlesInv, LocalOK, BodyOK, GlobalOK
<1>3. CASE ~UNCHANGED <<module, body>>
  <2>1. /\ module' = Append(module, f)
        /\ body' = [value |-> value, region |-> region, todo |-> node.nodes, last |-> Null]
    BY <1>3 DEF codegenFunction
  <2>2. IsFunction(f, Len(module) + 1)
    BY EmptyCode DEF IsFunction
  <2>3. value.code.op = "fn" /\ value.code.fn = Len(module) + 1
    BY DEF FunctionValue, Pointer
  <2> HIDE DEF f, value
  <2>4. IsModule(module)' /\ Len(module') = Len(module) + 1 /\ Len(module) \in Nat
    BY <2>1, <2>2, GrownModule DEF HandlesInv
  <2>5. BodyOK'
    BY <2>1, <2>3, <2>4 DEF BodyOK
  <2>6. (local # Absent => LocalOK)' /\ GlobalOK'
    BY <1>1, <2>4, ContextsKept
  <2> QED BY <2>4, <2>5, <2>6 DEF HandlesInv
<1> QED BY <1>2, <1>3

\* A node emits an item into the function of the body.
LEMMA GenerateInv ==
  ASSUME HandlesInv, body # Absent, NEW value, Emittable(value, body.value.code.fn), Generate(value)
  PROVE  HandlesInv'
<1> DEFINE id == body.value.code.fn
           item == IF IsNull(value) THEN [op |-> "nothing"] ELSE value.code
           code == Append(module[id].code, item)
<1>1. UNCHANGED <<global, local>>
  BY DEF Generate
<1>2. CASE UNCHANGED <<module, body>>
  BY <1>1, <1>2 DEF HandlesInv, LocalOK, BodyOK, GlobalOK
<1>3. CASE ~UNCHANGED <<module, body>>
  <2>1. /\ ~Fails(value) /\ module' = [module EXCEPT ![id].code = code]
        /\ body' = [body EXCEPT !.todo = Tail(@), !.last = value]
    BY <1>3 DEF Generate
  <2>2. Own(item, id)
    BY <2>1 DEF Emittable, Own
  <2>3. id \in 1 .. Len(module) /\ IsModule(module)
    BY DEF HandlesInv, BodyOK
  <2>4. IsCode(module[id].code, id)
    BY <2>3 DEF IsModule, IsFunction
  <2>5. body'.value = body.value
    BY <2>1
  <2> HIDE DEF id, item
  <2>6. IsCode(code, id)
    BY <2>2, <2>4, AppendedCode
  <2> HIDE DEF code
  <2>7. IsModule(module)' /\ Len(module') = Len(module) /\ Len(module) \in Nat
    BY <2>1, <2>3, <2>6, EmittedModule, ModuleLength
  <2>8. BodyOK'
    BY <2>5, <2>7 DEF HandlesInv, BodyOK
  <2>9. (local # Absent => LocalOK)' /\ GlobalOK'
    BY <1>1, <2>7, ContextsKept
  <2> QED BY <2>7, <2>8, <2>9 DEF HandlesInv
<1> QED BY <1>2, <1>3

LEMMA NodeInv ==
  ASSUME HandlesInv, GenName \/ GenChild \/ GenCall
  PROVE  HandlesInv'
<1> DEFINE id == body.value.code.fn
<1>1. body # Absent
  BY DEF GenName, GenChild, GenCall, NextNode
<1>2. CASE GenName
  <2> DEFINE name == Head(body.todo).name
  <2>1. Emittable(GlobalValue(name), id)
    BY FoundEmittable DEF GlobalValue, HandlesInv, GlobalOK
  <2>2. local # Absent => Emittable(MethodValue(name), id)
    <3> DEFINE member == getChild(Pointer(ClassType(Class, ""), [op |-> "this"]), name)
    <3>1. Emittable(member, id)
      BY ChildEmittable
    <3>2. Emittable(Find(global.values, name), id)
      BY FoundEmittable DEF HandlesInv, GlobalOK
    <3>3. local # Absent /\ name \in DOMAIN local.values => Emittable(local.values[name], id)
      BY DEF HandlesInv, LocalOK, AreFunctions, Emittable, Own
    <3>4. MethodValue(name) = IF ~IsNull(member) THEN member
                              ELSE IF name \in DOMAIN local.values THEN local.values[name]
                              ELSE Find(global.values, name)
      BY DEF MethodValue
    <3> HIDE DEF member, name, id
    <3> QED BY <3>1, <3>2, <3>3, <3>4
  <2>3. Emittable(getValue(name), id)
    BY <2>1, <2>2 DEF getValue
  <2>4. Emittable(Resolved(getValue(name)), id)
    BY <2>3, FailedEmittable DEF Resolved
  <2> QED BY <1>1, <1>2, <2>4, GenerateInv DEF GenName
<1>3. CASE GenChild
  BY <1>1, <1>3, ChildEmittable, GenerateInv DEF GenChild
<1>4. CASE GenCall
  BY <1>1, <1>4, CallEmittable, GenerateInv DEF GenCall
<1> QED BY <1>2, <1>3, <1>4

LEMMA EndBodyInv ==
  ASSUME HandlesInv, EndFunction \/ EndMethod
  PROVE  HandlesInv'
<1>1. /\ body # Absent /\ body' = Absent /\ module' = module /\ Len(module) \in Nat
      /\ IsModule(module) /\ body.value.code.op = "fn"
  BY ModuleLength DEF EndFunction, EndMethod, BodyDone, HandlesInv, BodyOK
<1>2. CASE EndFunction
  <2>1. AreFunctions(Put(global.values, functions[Done].name, body.value))
    BY <1>1, PutFunctions DEF HandlesInv, GlobalOK
  <2>2. global' = [global EXCEPT !.values = Put(global.values, functions[Done].name, body.value)]
        /\ local' = local
    BY <1>2 DEF EndFunction
  <2>3. GlobalOK'
    BY <2>1, <2>2 DEF HandlesInv, GlobalOK
  <2>4. (local # Absent => LocalOK)'
    BY <1>1, <2>2, ContextsKept
  <2> QED BY <1>1, <2>3, <2>4 DEF HandlesInv
<1>3. CASE EndMethod
  <2> DEFINE name == Node.members[Least(local.todo)].name
             values == Put(local.values, name, body.value)
  <2>1. /\ local # Absent /\ local' = [local EXCEPT !.todo = @ \ {Least(@)}, !.values = values] /\ global' = global
    BY <1>3 DEF EndMethod
  <2>2. LocalOK
    BY <2>1 DEF HandlesInv
  <2>3. AreFunctions(values)
    BY <1>1, <2>2, PutFunctions DEF LocalOK
  <2> HIDE DEF values
  <2>4. /\ local' = [values |-> values, variables |-> local.variables, region |-> local.region,
                     laidOut |-> local.laidOut, todo |-> local.todo \ {Least(local.todo)}]
    BY <2>1, <2>2 DEF LocalOK
  <2>5. LocalOK'
    BY <1>1, <2>2, <2>3, <2>4 DEF LocalOK
  <2>6. GlobalOK'
    BY <2>1 DEF HandlesInv, GlobalOK
  <2> QED BY <1>1, <2>5, <2>6 DEF HandlesInv
<1> QED BY <1>2, <1>3

LEMMA BeginClassInv ==
  ASSUME HandlesInv, BeginClass
  PROVE  HandlesInv'
<1> DEFINE init == Len(module) + 1
           members == classes[Class + 1].members
           f == [name |-> None, decl |-> <<Class + 1, 0>>, code |-> << >>]
<1>1. UNCHANGED <<global, body>>
  BY DEF BeginClass
<1>2. CASE UNCHANGED <<module, local>>
  BY <1>1, <1>2 DEF HandlesInv, LocalOK, BodyOK, GlobalOK
<1>3. CASE ~UNCHANGED <<module, local>>
  <2>1. module' = Append(module, f) /\ local' = NewClassContext(init, members)
    BY <1>3 DEF BeginClass
  <2>2. IsFunction(f, Len(module) + 1)
    BY EmptyCode DEF IsFunction
  <2> HIDE DEF f
  <2>3. IsModule(module)' /\ Len(module') = Len(module) + 1 /\ Len(module) \in Nat
    BY <2>1, <2>2, GrownModule DEF HandlesInv
  <2>4. PICK todo : local' = [values |-> << >>, variables |-> << >>, region |-> init,
                              laidOut |-> FALSE, todo |-> todo]
    BY <2>1 DEF NewClassContext
  <2>5. AreFunctions(<< >>)
    BY DEF AreFunctions
  <2>6. LocalOK'
    BY <2>3, <2>4, <2>5, EmptyList DEF LocalOK
  <2>7. (body # Absent => BodyOK)' /\ GlobalOK'
    BY <1>1, <2>3, ContextsKept
  <2> QED BY <2>3, <2>6, <2>7 DEF HandlesInv
<1> QED BY <1>2, <1>3

\* A value that is certainly one, not nothing.
Solid(value, id) == ~Fails(value) => Own(value.code, id)

LEMMA ConstantSolid ==
  \A bits, width, n, id : Solid(ConstantInt(bits, width, n), id) /\ Solid(Undefined(bits, width), id)
BY DEF ConstantInt, Undefined, Solid, Own

LEMMA FailedSolid == \A id : Solid(Failed("aborted"), id) /\ Solid(Failed("rejected"), id)
BY DEF Solid, Fails, Failed

LEMMA CallSolid ==
  ASSUME NEW value, NEW region, NEW id
  PROVE  Solid(doCall(value, region, id), id)
<1> DEFINE call == doCall(value, region, id)
<1>1. CASE Fails(value)
  BY <1>1 DEF Solid, doCall, Fails
<1>2. CASE call = Failed("aborted") \/ call = Failed("rejected")
  BY <1>2, FailedSolid
<1>3. CASE ~Fails(value) /\ call # Failed("aborted") /\ call # Failed("rejected")
  <2>1. call.code = [op |-> "call", handle |-> IF value.type.native THEN 0 ELSE id]
    BY <1>3 DEF doCall
  <2> HIDE DEF call
  <2>2. Own(call.code, id)
    BY <2>1 DEF Own
  <2> QED BY <2>2 DEF Solid, call
<1> QED BY <1>1, <1>2, <1>3

LEMMA InitialiserSolid ==
  ASSUME HandlesInv, NEW field
  PROVE  Solid(Initialiser(field), local.region)
<1> DEFINE id == local.region
           named == Resolved(Find(global.values, field.arg))
           type == TypeNamed(field.type, global.types, "")
           value == Initialiser(field)
<1>1. Solid(named, id)
  <2>1. AreFunctions(global.values)
    BY DEF HandlesInv, GlobalOK
  <2>2. CASE IsNull(Find(global.values, field.arg))
    BY <2>2, FailedSolid DEF Resolved
  <2>3. CASE ~IsNull(Find(global.values, field.arg))
    BY <2>1, <2>3 DEF Resolved, Find, AreFunctions, Solid, Own, IsNull, Null
  <2> QED BY <2>2, <2>3
<1>2. Solid(doCall(named, "", id), id)
  BY CallSolid
<1>3. Solid(Pointer(StringType, [op |-> "string"]), id)
  BY DEF Solid, Pointer, Own
<1>4. Solid(Pointer(ArrayType, [op |-> "alloc", handle |-> id]), id)
  BY DEF Solid, Pointer, Own
<1>5. \A n, m : Solid(Const(n), id) /\ Solid(Binary(field.op, Const(n), Const(m)), id)
  BY ConstantSolid DEF Const, Binary
<1>6. Solid(Failed("aborted"), id)
  BY FailedSolid
<1>7. \A bits, width, n : Solid(ConstantInt(bits, width, n), id)
  BY ConstantSolid
<1> HIDE DEF id, named, type
<1>8. Solid(value, id)
  BY <1>1, <1>2, <1>3, <1>4, <1>5, <1>6, <1>7 DEF Initialiser, id, named, type
<1> QED BY <1>8 DEF id

LEMMA GenFieldInv ==
  ASSUME HandlesInv, GenField
  PROVE  HandlesInv'
<1> DEFINE field == Node.members[Least(local.todo)]
           value == Initialiser(field)
           id == local.region
           code == Append(module[id].code, value.code)
           variables == Append(local.variables, [name |-> field.name, value |-> value, field |-> Least(local.todo)])
<1>1. UNCHANGED <<global, body>> /\ local # Absent
  BY DEF GenField
<1>2. CASE UNCHANGED <<module, local>>
  BY <1>1, <1>2 DEF HandlesInv, LocalOK, BodyOK, GlobalOK
<1>3. CASE ~UNCHANGED <<module, local>>
  <2>1. /\ ~Fails(value) /\ module' = [module EXCEPT ![id].code = code]
        /\ local' = [local EXCEPT !.todo = @ \ {Least(@)}, !.variables = variables]
    BY <1>3 DEF GenField
  <2>2. LocalOK /\ IsModule(module)
    BY <1>1 DEF HandlesInv
  <2>3. Solid(value, id)
    BY InitialiserSolid
  <2>5. Own(value.code, id)
    BY <2>1, <2>3 DEF Solid
  <2>6. id \in 1 .. Len(module) /\ IsCode(module[id].code, id)
    BY <2>2 DEF LocalOK, IsModule, IsFunction
  <2> HIDE DEF field, value, id
  <2>7. IsCode(code, id) /\ IsList(variables)
    BY <2>2, <2>5, <2>6, AppendedCode, AppendedList DEF LocalOK
  <2> HIDE DEF code, variables
  <2>8. IsModule(module)' /\ Len(module') = Len(module) /\ Len(module) \in Nat
    BY <2>1, <2>2, <2>6, <2>7, EmittedModule, ModuleLength
  <2>9. local' = [values |-> local.values, variables |-> variables, region |-> local.region,
                  laidOut |-> local.laidOut, todo |-> local.todo \ {Least(local.todo)}]
    BY <2>1, <2>2 DEF LocalOK
  <2>10. LocalOK'
    BY <2>2, <2>7, <2>8, <2>9 DEF LocalOK
  <2>11. (body # Absent => BodyOK)' /\ GlobalOK'
    BY <1>1, <2>8, ContextsKept
  <2> QED BY <2>8, <2>10, <2>11 DEF HandlesInv
<1> QED BY <1>2, <1>3

\* The stores allocate nothing and call nothing.
LEMMA StoresCode ==
  ASSUME NEW class, NEW id, IsList(local.variables)
  PROVE  IsCode(Stores(class), id)
<1> DEFINE n == Len(local.variables)
           item(k) == [op |-> "store", index |-> Offset(class) + k - 1, value |-> local.variables[k].value,
                      field |-> local.variables[k].field]
<1>1. n \in Nat /\ DOMAIN local.variables = 1 .. n
  BY ListDomain
<1>2. Stores(class) = [k \in 1 .. n |-> item(k)]
  BY <1>1 DEF Stores
<1>3. \A k : item(k).op = "store"
  OBVIOUS
<1> HIDE DEF n, item
<1>4. Stores(class) \in [1 .. n -> {item(k) : k \in 1 .. n}]
  BY <1>2
<1>5. Stores(class) \in Seq({item(k) : k \in 1 .. n}) /\ Len(Stores(class)) = n
  BY <1>1, <1>4, <1>2
<1>6. \A k \in 1 .. n : Own(Stores(class)[k], id)
  BY <1>2, <1>3 DEF Own
<1> QED BY <1>5, <1>6 DEF IsCode, IsList

LEMMA InitSuperCode == ASSUME NEW class PROVE IsCode(InitSuper(class), local.region)
<1> DEFINE item == [op |-> "init", class |-> class.super, handle |-> local.region, passed |-> FALSE]
<1>1. Own(item, local.region)
  BY DEF Own
<1> HIDE DEF item
<1>2. IsCode(<<item>>, local.region)
  BY <1>1, SingleCode
<1> QED BY <1>2, EmptyCode DEF InitSuper, item

LEMMA LayOutInv ==
  ASSUME HandlesInv, LayOut
  PROVE  HandlesInv'
<1> DEFINE id == local.region
           class == classTypes[Class]
           code == module[id].code \o InitSuper(class) \o Stores(class)
<1>1. /\ UNCHANGED <<global, body>> /\ local # Absent
      /\ module' = [module EXCEPT ![id].code = code]
  BY DEF LayOut
<1>2. PICK todo : local' = [local EXCEPT !.laidOut = TRUE, !.todo = todo]
  BY DEF LayOut
<1>3. LocalOK /\ IsModule(module)
  BY <1>1 DEF HandlesInv
<1>4. id \in 1 .. Len(module) /\ IsCode(module[id].code, id)
  BY <1>3 DEF LocalOK, IsModule, IsFunction
<1>5. IsCode(InitSuper(class), id) /\ IsCode(Stores(class), id)
  BY <1>3, InitSuperCode, StoresCode DEF LocalOK
<1> HIDE DEF id, class
<1>6. IsCode(module[id].code \o InitSuper(class), id)
  BY <1>4, <1>5, ConcatenatedCode
<1>7. IsCode(code, id)
  BY <1>5, <1>6, ConcatenatedCode
<1> HIDE DEF code
<1>8. IsModule(module)' /\ Len(module') = Len(module) /\ Len(module) \in Nat
  BY <1>1, <1>3, <1>4, <1>7, EmittedModule, ModuleLength
<1>9. local' = [values |-> local.values, variables |-> local.variables, region |-> local.region,
                laidOut |-> TRUE, todo |-> todo]
  BY <1>2, <1>3 DEF LocalOK
<1>10. LocalOK'
  BY <1>3, <1>8, <1>9 DEF LocalOK
<1>11. (body # Absent => BodyOK)' /\ GlobalOK'
  BY <1>1, <1>8, ContextsKept
<1> QED BY <1>8, <1>10, <1>11 DEF HandlesInv

LEMMA EndClassInv ==
  ASSUME HandlesInv, EndClass
  PROVE  HandlesInv'
<1> DEFINE id == Len(module) + 1
           f == [name |-> None, decl |-> <<Class, 0>>, code |-> Constructor(id)]
           value == FunctionValue(id, ClassType(Class, "fn_default"), FALSE)
           values == Put(global.values, Node.name, value)
<1>1. /\ module' = Append(module, f) /\ local' = Absent /\ UNCHANGED body
      /\ global' = [values |-> values, types |-> Put(global.types, Node.name, Class), region |-> id]
  BY DEF EndClass
<1>2. IsCode(Constructor(id), id)
  <2> DEFINE a == [op |-> "alloc", handle |-> id]
             b == [op |-> "init", class |-> Class, handle |-> id, passed |-> TRUE]
  <2>1. Own(a, id) /\ Own(b, id)
    BY DEF Own
  <2>2. Constructor(id) = <<a, b>>
    BY DEF Constructor
  <2> HIDE DEF a, b, id
  <2>3. <<a, b>> = Append(<<a>>, b)
    OBVIOUS
  <2> QED BY <2>1, <2>2, <2>3, SingleCode, AppendedCode
<1>3. IsFunction(f, id)
  BY <1>2 DEF IsFunction
<1>4. AreFunctions(values)
  <2>1. value.code.op = "fn"
    BY DEF FunctionValue, Pointer
  <2> HIDE DEF value
  <2> QED BY <2>1, PutFunctions DEF HandlesInv, GlobalOK
<1> HIDE DEF f, values
<1>5. IsModule(module)' /\ Len(module') = Len(module) + 1 /\ Len(module) \in Nat
  BY <1>1, <1>3, GrownModule DEF HandlesInv
<1>6. GlobalOK'
  BY <1>1, <1>4 DEF GlobalOK
<1>7. (body # Absent => BodyOK)'
  BY <1>1, <1>5, ContextsKept
<1> QED BY <1>1, <1>5, <1>6, <1>7 DEF HandlesInv

LEMMA MakeObjectInv ==
  ASSUME HandlesInv, makeObject
  PROVE  HandlesInv'
<1>1. UNCHANGED <<global, body, local>>
  BY DEF makeObject
<1>2. CASE Main = 0
  BY <1>1, <1>2 DEF makeObject, HandlesInv, LocalOK, BodyOK, GlobalOK
<1>3. CASE Main # 0
  <2> DEFINE id == Len(module) + 1
             fn(n) == [op |-> "fn", fn |-> n]
             call(n) == [op |-> "call", handle |-> n]
             code == <<fn(getFunction("NewRegion")), call(0), fn(Main), call(id),
                       fn(getFunction("DeleteRegion")), call(id)>>
  <2>1. IsModule(module) /\ Len(module) \in Nat /\ DOMAIN module = 1 .. Len(module)
    BY ModuleLength DEF HandlesInv
  <2>2. Main \in 1 .. Len(module)
    <3>1. Main = getFunction("main")
      BY DEF Main
    <3>2. \E i \in DOMAIN module : module[i].name = "main"
      BY <1>3, <3>1 DEF getFunction
    <3> QED BY <2>1, <3>1, <3>2 DEF getFunction
  <2>3. IsModule(Renamed) /\ Len(Renamed) = Len(module)
    <3> DEFINE g == [module[Main] EXCEPT !.name = "elism_main"]
    <3>1. IsFunction(module[Main], Main)
      BY <2>1, <2>2 DEF IsModule
    <3>2. g = [name |-> "elism_main", decl |-> module[Main].decl, code |-> module[Main].code]
      BY <3>1 DEF IsFunction
    <3>3. IsFunction(g, Main)
      BY <3>1, <3>2 DEF IsFunction
    <3>4. Renamed = [module EXCEPT ![Main] = g]
      BY DEF Renamed
    <3> HIDE DEF g
    <3> QED BY <2>1, <2>2, <3>3, <3>4, ChangedModule
  <2>4. \A n : Own(fn(n), id) /\ Own(call(0), id) /\ Own(call(id), id)
    BY DEF Own
  <2>5. PICK name : module' = Append(Renamed, [name |-> name, decl |-> <<0, 0>>, code |-> code])
    BY <1>3 DEF makeObject
  <2>6. IsCode(code, id)
    <3> DEFINE S == {fn(getFunction("NewRegion")), call(0), fn(Main), call(id),
                     fn(getFunction("DeleteRegion"))}
    <3>1. \A item \in S : Own(item, id)
      BY <2>4
    <3> HIDE DEF fn, call, id
    <3>2. code \in Seq(S) /\ Len(code) = 6
      OBVIOUS
    <3> HIDE DEF code, S
    <3>3. \A i \in 1 .. Len(code) : code[i] \in S
      BY <3>2, ElementOfSeq
    <3> QED BY <3>1, <3>2, <3>3 DEF IsCode, IsList
  <2> DEFINE f == [name |-> name, decl |-> <<0, 0>>, code |-> code]
  <2>7. IsFunction(f, Len(Renamed) + 1)
    <3>1. f.code = code
      OBVIOUS
    <3> HIDE DEF code
    <3> QED BY <2>3, <2>6, <3>1 DEF IsFunction
  <2> HIDE DEF f
  <2>8. IsModule(module)' /\ Len(module') = Len(module) + 1
    BY <2>3, <2>5, <2>7, GrownModule DEF f
  <2>9. (local # Absent => LocalOK)' /\ (body # Absent => BodyOK)' /\ GlobalOK'
    BY <1>1, <2>1, <2>8, ContextsKept
  <2> QED BY <2>8, <2>9 DEF HandlesInv
<1> QED BY <1>2, <1>3

LEMMA NextHandlesInv == HandlesInv /\ [Next]_vars => HandlesInv'
<1> SUFFICES ASSUME HandlesInv, [Next]_vars PROVE HandlesInv'
  OBVIOUS
<1>1. ASSUME UNCHANGED genVars PROVE HandlesInv'
  BY <1>1 DEF genVars, HandlesInv, GlobalOK, LocalOK, BodyOK
<1>2. CASE GenStep
  <2>1. CASE BeginFunction \/ BeginMethod
    BY <2>1, BeginBodyInv DEF BeginFunction, BeginMethod
  <2>2. CASE Finish
    BY <1>1, <2>2 DEF Finish
  <2> QED BY <1>2, <2>1, <2>2, BeginClassInv, GenFieldInv, LayOutInv, EndClassInv, EndBodyInv, NodeInv
          DEF GenStep, GenNext
<1>3. CASE ReadStep \/ PrintStep \/ StartCodegen \/ StartPrint \/ UNCHANGED vars
  BY <1>1, <1>3 DEF ReadStep, PrintStep, StartCodegen, StartPrint, AllRead, vars
<1>4. CASE runProgram
  BY <1>1, <1>4 DEF runProgram
<1> QED BY <1>2, <1>3, <1>4, MakeObjectInv DEF Next

\* A region that a function passes on, allocates in or has a class initialised
\* in is its own argument, whatever the program.
THEOREM HandlesStayOwn == Spec => []HandlesOwn
<1>1. Init => HandlesInv
  BY InitHandlesInv DEF Init
<1>2. HandlesInv => HandlesOwn
  <2> SUFFICES ASSUME HandlesInv, NEW id \in DOMAIN module, NEW i \in DOMAIN module[id].code
               PROVE  Own(module[id].code[i], id)
    BY DEF HandlesOwn, Own
  <2>1. IsFunction(module[id], id)
    BY ModuleLength DEF HandlesInv, IsModule
  <2>2. i \in 1 .. Len(module[id].code)
    BY <2>1, ListDomain DEF IsFunction, IsCode
  <2> QED BY <2>1, <2>2 DEF IsFunction, IsCode
<1> QED BY <1>1, <1>2, NextHandlesInv, PTL DEF Spec

(***************************************************************************)
(* Numbers.                                                                *)
(***************************************************************************)
LEMMA LeastIs ==
  ASSUME NEW S \in SUBSET Nat, S # {}
  PROVE  Least(S) \in S /\ \A j \in S : Least(S) <= j
<1>1. PICK R : R = OpToRel(<, Nat)
  BY Zenon
<1>2. IsWellFoundedOn(R, Nat)
  BY <1>1, NatLessThanWellFounded, Zenon
<1>3. PICK x \in S : \A y \in S : <<y, x>> \notin R
  BY <1>2, WFMin
<1>4. \A y \in S : ~(y < x)
  <2> SUFFICES ASSUME NEW y \in S, y < x PROVE FALSE
    BY Zenon
  <2>1. <<y, x>> \in Nat \X Nat /\ <<y, x>>[1] = y /\ <<y, x>>[2] = x
    OBVIOUS
  <2>2. <<y, x>> \in R
    BY <1>1, <2>1, Zenon DEF OpToRel
  <2> QED BY <1>3, <2>2
<1>5. \A y \in S : x <= y
  BY <1>4
<1> QED BY <1>5 DEF Least

LEMMA LatestIs ==
  ASSUME NEW n \in Nat, NEW S \in SUBSET (1 .. n)
  PROVE  /\ S = {} => Latest(S) = 0
         /\ S # {} => Latest(S) \in S /\ \A j \in S : j <= Latest(S)
<1>1. S = {} => Latest(S) = 0
  BY DEF Latest
<1>2. ASSUME S # {} PROVE Latest(S) \in S /\ \A j \in S : j <= Latest(S)
  <2>1. PICK T : T = {n - i : i \in S}
    OBVIOUS
  <2>2. T \in SUBSET Nat /\ T # {}
    <3>1. \A i \in S : n - i \in Nat
      OBVIOUS
    <3> QED BY <1>2, <2>1, <3>1
  <2>3. PICK m : m \in T /\ \A t \in T : m <= t
    BY <2>2, LeastIs
  <2>4. PICK i \in S : m = n - i
    BY <2>1, <2>3
  <2>5. \A j \in S : j <= i
    <3> SUFFICES ASSUME NEW j \in S PROVE j <= i
      OBVIOUS
    <3>1. n - i <= n - j
      BY <2>1, <2>3, <2>4
    <3> QED BY <3>1
  <2> QED BY <1>2, <2>5 DEF Latest
<1> QED BY <1>1, <1>2

(***************************************************************************)
(* The functions and methods of a module.                                  *)
(***************************************************************************)
Bears(m, id) == m[id].decl[2] > 0 /\ Written(m[id].decl).name = "main"

FunctionIds(m) == {id \in DOMAIN m : m[id].decl[1] = 0 /\ m[id].decl[2] > 0}

IsDecl(decl) == decl = <<decl[1], decl[2]>> /\ decl[1] \in Nat /\ decl[2] \in Int

\* Who bears the name main: the first function or method that was given it.
Named(m) ==
  /\ \A id \in 1 .. Len(m) : IsDecl(m[id].decl)
  /\ \A id \in 1 .. Len(m) : m[id].name = "main" => Bears(m, id)
  /\ \A id \in 1 .. Len(m) : Bears(m, id) => \E k \in 1 .. id : m[k].name = "main"
  /\ \A i, j \in 1 .. Len(m) : m[i].name = "main" /\ m[j].name = "main" => i = j

\* Methods come first, then the functions: as many as there are, as they are
\* written.
Sorted(m) ==
  /\ \A i \in FunctionIds(m), j \in 1 .. Len(m) : m[j].decl[1] > 0 => j < i
  /\ \A i, j \in FunctionIds(m) : i < j => m[i].decl[2] < m[j].decl[2]
  /\ {m[i].decl[2] : i \in FunctionIds(m)} = 1 .. Cardinality(FunctionIds(m))

\* Code may have been added.
SameHeads(m, k) ==
  /\ Len(k) = Len(m)
  /\ \A id \in 1 .. Len(m) : k[id].name = m[id].name /\ k[id].decl = m[id].decl

LEMMA HeadsKept ==
  ASSUME NEW m, IsList(m), NEW k, IsList(k), SameHeads(m, k)
  PROVE  /\ FunctionIds(k) = FunctionIds(m)
         /\ Named(m) => Named(k)
         /\ Sorted(m) => Sorted(k)
<1>1. DOMAIN m = 1 .. Len(m) /\ DOMAIN k = 1 .. Len(m) /\ Len(k) = Len(m) /\ Len(m) \in Nat
  BY ListDomain DEF SameHeads
<1>2. FunctionIds(k) = FunctionIds(m)
  BY <1>1 DEF FunctionIds, SameHeads
<1>3. \A id \in 1 .. Len(m) : Bears(k, id) <=> Bears(m, id)
  BY DEF Bears, SameHeads
<1>4. Named(m) => Named(k)
  <2>1. \A id \in 1 .. Len(m) : 1 .. id \subseteq 1 .. Len(m)
    BY <1>1
  <2> QED BY <1>1, <1>3, <2>1 DEF Named, SameHeads
<1>5. Sorted(m) => Sorted(k)
  <2>1. \A id \in FunctionIds(m) : k[id].decl = m[id].decl
    BY <1>1 DEF FunctionIds, SameHeads
  <2>2. {k[i].decl[2] : i \in FunctionIds(m)} = {m[i].decl[2] : i \in FunctionIds(m)}
    BY <2>1
  <2> QED BY <1>1, <1>2, <2>1, <2>2 DEF Sorted, SameHeads
<1> QED BY <1>2, <1>4, <1>5

LEMMA NamedAppended ==
  ASSUME NEW m, IsList(m), Named(m), NEW f, IsDecl(f.decl),
         f.name = "main" <=> /\ f.decl[2] > 0 /\ Written(f.decl).name = "main"
                             /\ \A id \in 1 .. Len(m) : m[id].name # "main"
  PROVE  Named(Append(m, f))
<1>1. PICK k : k = Append(m, f)
  OBVIOUS
<1>2. PICK n : n = Len(m)
  OBVIOUS
<1>3. /\ n \in Nat /\ Len(k) = n + 1 /\ k[n + 1] = f /\ \A i \in 1 .. n : k[i] = m[i]
  BY <1>1, <1>2, AppendedList
<1>4. \A i \in 1 .. n + 1 : i \in 1 .. n \/ i = n + 1
  BY <1>3
<1>5. /\ \A i \in 1 .. n : Bears(k, i) <=> Bears(m, i)
      /\ Bears(k, n + 1) <=> f.decl[2] > 0 /\ Written(f.decl).name = "main"
  BY <1>3 DEF Bears
<1>6. \A id \in 1 .. n + 1 : IsDecl(k[id].decl)
  BY <1>2, <1>3, <1>4 DEF Named
<1>7. \A id \in 1 .. n + 1 : k[id].name = "main" => Bears(k, id)
  BY <1>2, <1>3, <1>4, <1>5 DEF Named
<1>8. \A i \in 1 .. n : 1 .. i \subseteq 1 .. n
  BY <1>3
<1>9. ASSUME NEW id \in 1 .. n + 1, Bears(k, id) PROVE \E i \in 1 .. id : k[i].name = "main"
  <2>1. CASE id \in 1 .. n
    BY <1>2, <1>3, <1>5, <1>8, <1>9, <2>1 DEF Named
  <2>2. CASE id = n + 1
    <3>1. CASE \E i \in 1 .. n : m[i].name = "main"
      <4>1. 1 .. n \subseteq 1 .. id
        BY <1>3, <2>2
      <4> QED BY <1>3, <3>1, <4>1
    <3>2. CASE \A i \in 1 .. n : m[i].name # "main"
      <4>1. f.name = "main" /\ id \in 1 .. id
        BY <1>2, <1>3, <1>5, <1>9, <2>2, <3>2
      <4> QED BY <1>3, <2>2, <4>1
    <3> QED BY <3>1, <3>2
  <2> QED BY <1>4, <2>1, <2>2
<1>10. \A i, j \in 1 .. n + 1 : k[i].name = "main" /\ k[j].name = "main" => i = j
  BY <1>2, <1>3, <1>4 DEF Named
<1> QED BY <1>1, <1>3, <1>6, <1>7, <1>9, <1>10 DEF Named

\* What is not a function is added while there is none.
LEMMA SortedAppended ==
  ASSUME NEW m, IsList(m), Sorted(m), NEW f, IsDecl(f.decl),
         f.decl[1] > 0 => Cardinality(FunctionIds(m)) = 0,
         f.decl[1] = 0 => f.decl[2] = Cardinality(FunctionIds(m)) + 1
  PROVE  /\ Sorted(Append(m, f)) /\ Cardinality(FunctionIds(m)) \in Nat
         /\ Cardinality(FunctionIds(Append(m, f))) = IF f.decl[1] = 0 THEN f.decl[2] ELSE 0
<1>1. PICK k : k = Append(m, f)
  OBVIOUS
<1>2. PICK n : n = Len(m)
  OBVIOUS
<1>3. /\ n \in Nat /\ Len(k) = n + 1 /\ k[n + 1] = f /\ \A i \in 1 .. n : k[i] = m[i]
      /\ DOMAIN m = 1 .. n /\ DOMAIN k = 1 .. n + 1
  BY <1>1, <1>2, AppendedList, ListDomain
<1>4. \A i \in 1 .. n + 1 : i \in 1 .. n \/ i = n + 1
  BY <1>3
<1>5. PICK F : F = FunctionIds(m)
  OBVIOUS
<1>6. PICK c : c = Cardinality(F)
  OBVIOUS
<1>7. F \subseteq 1 .. n /\ IsFiniteSet(F) /\ c \in Nat /\ n + 1 \notin F
  <2>1. F \subseteq 1 .. n
    BY <1>3, <1>5 DEF FunctionIds
  <2>2. IsFiniteSet(1 .. n)
    BY <1>3, FS_Interval
  <2>3. IsFiniteSet(F)
    BY <2>1, <2>2, FS_Subset
  <2>4. c \in Nat
    BY <1>6, <2>3, FS_CardinalityType
  <2> QED BY <1>3, <2>1, <2>3, <2>4
<1>8. /\ \A i \in F, j \in 1 .. n : m[j].decl[1] > 0 => j < i
      /\ \A i, j \in F : i < j => m[i].decl[2] < m[j].decl[2]
      /\ {m[i].decl[2] : i \in F} = 1 .. c
  BY <1>2, <1>5, <1>6 DEF Sorted
<1>9. CASE f.decl[1] > 0
  <2>1. c = 0 /\ F = {}
    BY <1>5, <1>6, <1>7, <1>9, FS_EmptySet
  <2>2. FunctionIds(k) = {}
    <3>1. \A i \in 1 .. n : ~(m[i].decl[1] = 0 /\ m[i].decl[2] > 0)
      BY <1>3, <1>5, <2>1 DEF FunctionIds
    <3> QED BY <1>3, <1>4, <1>9, <3>1 DEF FunctionIds, IsDecl
  <2>3. Sorted(k) /\ Cardinality(FunctionIds(k)) = 0
    BY <2>2, FS_EmptySet DEF Sorted
  <2> QED BY <1>1, <1>5, <1>6, <1>7, <1>9, <2>3 DEF IsDecl
<1>10. CASE f.decl[1] = 0
  <2>1. f.decl[2] = c + 1
    BY <1>5, <1>6, <1>10
  <2>2. FunctionIds(k) = F \cup {n + 1}
    BY <1>3, <1>4, <1>5, <1>7, <1>10, <2>1 DEF FunctionIds
  <2>3. Cardinality(F \cup {n + 1}) = c + 1
    BY <1>6, <1>7, FS_AddElement
  <2>4. \A i \in F : k[i].decl = m[i].decl /\ i \in 1 .. n
    BY <1>3, <1>7
  <2>5. ASSUME NEW i \in F \cup {n + 1}, NEW j \in 1 .. n + 1, k[j].decl[1] > 0 PROVE j < i
    <3>1. j \in 1 .. n
      BY <1>3, <1>4, <1>10, <2>5
    <3> QED BY <1>3, <1>7, <1>8, <2>5, <3>1
  <2>6. ASSUME NEW i \in F \cup {n + 1}, NEW j \in F \cup {n + 1}, i < j
        PROVE  k[i].decl[2] < k[j].decl[2]
    <3>1. i \in F /\ i \in 1 .. n
      BY <1>3, <1>7, <2>6
    <3>2. CASE j \in F
      BY <1>8, <2>4, <2>6, <3>1, <3>2
    <3>3. CASE j = n + 1
      <4>1. m[i].decl[2] \in 1 .. c
        BY <1>8, <3>1
      <4> QED BY <1>3, <1>7, <2>1, <2>4, <3>1, <3>3, <4>1
    <3> QED BY <3>2, <3>3
  <2>7. {k[i].decl[2] : i \in F \cup {n + 1}} = 1 .. c + 1
    <3>1. {k[i].decl[2] : i \in F} = 1 .. c
      BY <1>8, <2>4
    <3>2. {k[i].decl[2] : i \in F \cup {n + 1}} = {k[i].decl[2] : i \in F} \cup {c + 1}
      BY <1>3, <2>1
    <3>3. 1 .. c + 1 = (1 .. c) \cup {c + 1}
      BY <1>7
    <3> QED BY <3>1, <3>2, <3>3
  <2>8. Sorted(k)
    BY <1>3, <2>2, <2>3, <2>5, <2>6, <2>7 DEF Sorted
  <2> QED BY <1>1, <1>5, <1>6, <1>7, <1>10, <2>1, <2>2, <2>3, <2>8
<1> QED BY <1>9, <1>10 DEF IsDecl

(***************************************************************************)
(* The inductive invariant of what main is.                                *)
(***************************************************************************)
\* No function is generated before the last class is complete.
Phase ==
  /\ IsList(classTypes)
  /\ Done > 0 => local = Absent /\ Class = Len(classes)
  /\ local # Absent => Class > 0 /\ local.todo \in SUBSET (Nat \ {0})

ModuleInv == Named(module) /\ Sorted(module) /\ Phase

Early == {"reading", "printing", "printed", "undefined"}

MainInv ==
  \/ /\ entry = 0 /\ outcome \in Early \cup {"generating", "generated", "aborted", "rejected"}
     /\ ModuleInv
     /\ outcome \in Early => GenInit
     /\ outcome = "generated" => Done = Len(functions)
  \/ outcome \in {"ran", "emitted", "crashed"} /\ RunsMain

LEMMA CountIs ==
  ASSUME IsModule(module)
  PROVE  Done = Cardinality(FunctionIds(module)) /\ Done \in Nat /\ (Done = 0 <=> FunctionIds(module) = {})
<1>1. Done = Cardinality(FunctionIds(module))
  BY DEF Done, FunctionIds
<1>2. FunctionIds(module) \subseteq 1 .. Len(module) /\ Len(module) \in Nat
  BY ModuleLength DEF FunctionIds
<1>3. IsFiniteSet(FunctionIds(module))
  <2>1. IsFiniteSet(1 .. Len(module))
    BY <1>2, FS_Interval
  <2> QED BY <1>2, <2>1, FS_Subset
<1> QED BY <1>1, <1>3, FS_CardinalityType, FS_EmptySet

\* The same module, or one to which code is added.
LEMMA DeclaredKept ==
  ASSUME IsModule(module), IsModule(module)', Named(module), Sorted(module),
         SameHeads(module, module'), UNCHANGED <<classes, functions>>
  PROVE  Named(module)' /\ Sorted(module)' /\ Done' = Done
<1>1. PICK m : m = module
  OBVIOUS
<1>2. PICK k : k = module'
  OBVIOUS
<1>3. IsList(m) /\ IsList(k) /\ SameHeads(m, k) /\ Named(m) /\ Sorted(m)
  BY <1>1, <1>2 DEF IsModule
<1>4. FunctionIds(k) = FunctionIds(m) /\ Named(k) /\ Sorted(k)
  BY <1>3, HeadsKept
<1>5. Done = Cardinality(FunctionIds(m)) /\ Done' = Cardinality(FunctionIds(k))
  BY <1>1, <1>2 DEF Done, FunctionIds
<1>6. Named(module)'
  BY <1>2, <1>4 DEF Named, Bears, Written
<1>7. Sorted(module)'
  BY <1>2, <1>4 DEF Sorted, FunctionIds
<1> QED BY <1>4, <1>5, <1>6, <1>7

\* A module with another function.
LEMMA DeclaredAppended ==
  ASSUME IsModule(module), Named(module), Sorted(module), UNCHANGED <<classes, functions>>,
         NEW f, module' = Append(module, f), IsDecl(f.decl),
         f.decl[1] > 0 => Done = 0,
         f.decl[1] = 0 => f.decl[2] = Done + 1,
         f.name = "main" <=> /\ f.decl[2] > 0 /\ Written(f.decl).name = "main"
                             /\ \A id \in 1 .. Len(module) : module[id].name # "main"
  PROVE  Named(module)' /\ Sorted(module)' /\ Done' = IF f.decl[1] = 0 THEN Done + 1 ELSE 0
<1>1. PICK m : m = module
  OBVIOUS
<1>2. PICK k : k = Append(m, f)
  OBVIOUS
<1>3. Done = Cardinality(FunctionIds(m)) /\ Done' = Cardinality(FunctionIds(k))
  BY <1>1, <1>2 DEF Done, FunctionIds
<1>4. IsList(m) /\ Named(m) /\ Sorted(m)
  BY <1>1 DEF IsModule
<1>5. Named(k)
  BY <1>1, <1>2, <1>4, NamedAppended
<1>6. Sorted(k) /\ Cardinality(FunctionIds(k)) = IF f.decl[1] = 0 THEN f.decl[2] ELSE 0
  BY <1>2, <1>3, <1>4, SortedAppended
<1>7. Named(module)'
  <2>1. module' = k
    BY <1>1, <1>2
  <2>2. \A id : Bears(module, id)' <=> Bears(k, id)
    BY <2>1 DEF Bears, Written
  <2> QED BY <1>5, <2>1, <2>2 DEF Named
<1>8. Sorted(module)'
  BY <1>1, <1>2, <1>6 DEF Sorted, FunctionIds
<1> QED BY <1>3, <1>6, <1>7, <1>8

LEMMA EmittedHeads ==
  ASSUME NEW m, IsModule(m), NEW id \in 1 .. Len(m), NEW code
  PROVE  SameHeads(m, [m EXCEPT ![id].code = code])
<1>1. PICK k : k = [m EXCEPT ![id].code = code]
  OBVIOUS
<1>2. DOMAIN m = 1 .. Len(m) /\ Len(m) \in Nat
  BY ModuleLength
<1>3. m[id] = [name |-> m[id].name, decl |-> m[id].decl, code |-> m[id].code]
  BY DEF IsModule, IsFunction
<1>4. k[id] = [name |-> m[id].name, decl |-> m[id].decl, code |-> code]
  BY <1>1, <1>2, <1>3
<1>5. k = [m EXCEPT ![id] = k[id]]
  BY <1>1, <1>2, <1>4
<1>6. Len(k) = Len(m)
  <2>1. PICK S : m \in Seq(S)
    BY DEF IsModule, IsList
  <2>2. m \in Seq(S \cup {k[id]}) /\ k[id] \in S \cup {k[id]}
    BY <2>1, SeqMonotonic
  <2> QED BY <1>5, <2>2, ExceptSeq
<1>7. \A i \in 1 .. Len(m) : i # id => k[i] = m[i]
  BY <1>1, <1>2
<1>8. k[id].name = m[id].name /\ k[id].decl = m[id].decl
  BY <1>4
<1>9. SameHeads(m, k)
  BY <1>6, <1>7, <1>8 DEF SameHeads
<1> QED BY <1>1, <1>9

LEMMA NoMain ==
  ASSUME IsModule(module)
  PROVE  /\ getFunction("main") = 0 <=> \A id \in 1 .. Len(module) : module[id].name # "main"
         /\ getFunction("main") # 0 =>
              getFunction("main") \in 1 .. Len(module) /\ module[getFunction("main")].name = "main"
<1>1. DOMAIN module = 1 .. Len(module)
  BY ModuleLength
<1> QED BY <1>1 DEF getFunction

LEMMA InitModuleInv ==
  ASSUME GenInit
  PROVE  ModuleInv
<1>1. DOMAIN Natives = 1 .. 4
  BY DEF Natives
<1>2. PICK m : m = [i \in 1 .. 4 |-> [name |-> Natives[i], decl |-> <<0, -i>>, code |-> << >>]]
  OBVIOUS
<1>3. module = m
  BY <1>1, <1>2 DEF GenInit
<1>4. Len(m) = 4 /\ DOMAIN m = 1 .. 4 /\ \A i \in 1 .. 4 : m[i].name = Natives[i] /\ m[i].decl = <<0, -i>>
  BY <1>2
<1>5. \A i \in 1 .. 4 : Natives[i] # "main"
  BY DEF Natives
<1>6. \A i \in 1 .. 4 : ~(m[i].decl[2] > 0) /\ ~(m[i].decl[1] > 0) /\ IsDecl(m[i].decl)
  BY <1>4 DEF IsDecl
<1>7. Named(m)
  BY <1>4, <1>5, <1>6 DEF Named, Bears
<1>8. FunctionIds(m) = {}
  BY <1>4, <1>6 DEF FunctionIds
<1>9. Sorted(m) /\ Cardinality(FunctionIds(m)) = 0
  BY <1>8, FS_EmptySet DEF Sorted
<1>10. Done = 0
  BY <1>3, <1>9 DEF Done, FunctionIds
<1>11. Phase
  BY <1>10, EmptyList DEF Phase, GenInit
<1> QED BY <1>3, <1>7, <1>9, <1>11 DEF ModuleInv

(***************************************************************************)
(* The steps of codegen.                                                   *)
(***************************************************************************)

\* Only code is added to the module.
LEMMA EmittedStep ==
  ASSUME HandlesInv, HandlesInv', ModuleInv, UNCHANGED <<classes, functions>>,
         NEW id \in 1 .. Len(module), NEW code, module' = [module EXCEPT ![id].code = code]
  PROVE  Named(module)' /\ Sorted(module)' /\ Done' = Done
<1>1. SameHeads(module, module')
  BY EmittedHeads DEF HandlesInv
<1> QED BY <1>1, DeclaredKept DEF HandlesInv, ModuleInv

\* The same module.
LEMMA IdleStep ==
  ASSUME HandlesInv, HandlesInv', ModuleInv, UNCHANGED <<classes, functions, module>>
  PROVE  Named(module)' /\ Sorted(module)' /\ Done' = Done
<1>1. SameHeads(module, module')
  BY DEF SameHeads
<1> QED BY <1>1, DeclaredKept DEF HandlesInv, ModuleInv

LEMMA PhaseKept ==
  ASSUME Phase, UNCHANGED <<classes, classTypes, local>>, Done' = Done
  PROVE  Phase'
BY DEF Phase, Class

LEMMA BegunBody ==
  ASSUME HandlesInv, HandlesInv', ModuleInv,
         NEW node, NEW decl, NEW region, codegenFunction(node, decl, region),
         IsDecl(decl), decl[2] > 0, Written(decl) = node,
         decl[1] > 0 => Done = 0,
         decl[1] = 0 => decl[2] = Done + 1 /\ local = Absent /\ Class = Len(classes)
  PROVE  ModuleInv' /\ outcome' \in {outcome, "aborted"}
<1> DEFINE f == [name |-> NewName(node.name), decl |-> decl, code |-> << >>]
<1>1. UNCHANGED <<classes, functions, classTypes, local>> /\ outcome' \in {outcome, "aborted"}
  BY DEF codegenFunction
<1>2. CASE UNCHANGED module
  BY <1>1, <1>2, IdleStep, PhaseKept DEF ModuleInv
<1>3. CASE ~UNCHANGED module
  <2>1. module' = Append(module, f)
    BY <1>3 DEF codegenFunction
  <2>2. f.name = "main" <=> node.name = "main" /\ \A id \in 1 .. Len(module) : module[id].name # "main"
    <3>1. "main" # None
      BY NoneAssumption
    <3>2. f.name = "main" <=> node.name = "main" /\ getFunction("main") = 0
      BY <3>1 DEF NewName
    <3> HIDE DEF f
    <3> QED BY <3>2, NoMain DEF HandlesInv
  <2>3. f.decl = decl
    OBVIOUS
  <2> HIDE DEF f
  <2>4. Named(module)' /\ Sorted(module)' /\ Done' = IF decl[1] = 0 THEN Done + 1 ELSE 0
    BY <1>1, <2>1, <2>2, <2>3, DeclaredAppended DEF HandlesInv, ModuleInv
  <2>5. Phase'
    BY <1>1, <2>4 DEF ModuleInv, Phase, Class
  <2> QED BY <1>1, <2>4, <2>5 DEF ModuleInv
<1> QED BY <1>2, <1>3

LEMMA BeginFunctionStep ==
  ASSUME HandlesInv, HandlesInv', ModuleInv, BeginFunction
  PROVE  ModuleInv' /\ outcome' \in {outcome, "aborted"}
<1>1. PICK decl : decl = <<0, Done + 1>>
  OBVIOUS
<1>2. Done \in Nat
  BY CountIs DEF HandlesInv
<1>3. IsDecl(decl) /\ decl[1] = 0 /\ decl[2] = Done + 1 /\ decl[2] > 0 /\ Written(decl) = functions[Done + 1]
  BY <1>1, <1>2 DEF IsDecl, Written
<1>4. codegenFunction(functions[Done + 1], decl, "fn_default") /\ local = Absent /\ Class = Len(classes)
  BY <1>1 DEF BeginFunction, Class
<1> QED BY <1>3, <1>4, BegunBody

LEMMA BeginMethodStep ==
  ASSUME HandlesInv, HandlesInv', ModuleInv, BeginMethod
  PROVE  ModuleInv' /\ outcome' \in {outcome, "aborted"}
<1>1. local # Absent /\ local.todo # {}
  BY DEF BeginMethod
<1>2. PICK j : j = Least(local.todo)
  OBVIOUS
<1>3. Class \in Nat /\ Class > 0 /\ local.todo \in SUBSET (Nat \ {0})
  BY <1>1, LengthOfList DEF ModuleInv, Phase, Class
<1>4. j \in Nat \ {0}
  BY <1>1, <1>2, <1>3, LeastIs
<1>5. Done = 0
  BY <1>1, CountIs DEF ModuleInv, Phase, HandlesInv
<1>6. PICK decl : decl = <<Class, j>>
  OBVIOUS
<1>7. IsDecl(decl) /\ decl[1] > 0 /\ decl[2] > 0 /\ Written(decl) = Node.members[j]
  BY <1>3, <1>4, <1>6 DEF IsDecl, Written, Node
<1>8. codegenFunction(Node.members[j], decl, "this")
  BY <1>2, <1>6 DEF BeginMethod
<1> QED BY <1>3, <1>5, <1>7, <1>8, BegunBody

LEMMA PlacesAre ==
  ASSUME NEW members, NEW kind
  PROVE  Places(members, kind) \in SUBSET (Nat \ {0})
BY DEF Places

LEMMA BeginClassStep ==
  ASSUME HandlesInv, HandlesInv', ModuleInv, BeginClass
  PROVE  ModuleInv' /\ outcome' \in {outcome, "aborted"}
<1> DEFINE f == [name |-> None, decl |-> <<Class + 1, 0>>, code |-> << >>]
<1>1. UNCHANGED <<classes, functions>> /\ outcome' \in {outcome, "aborted"} /\ Class < Len(classes)
  BY DEF BeginClass
<1>2. CASE UNCHANGED <<module, classTypes, local>>
  BY <1>1, <1>2, IdleStep, PhaseKept DEF ModuleInv
<1>3. CASE ~UNCHANGED <<module, classTypes, local>>
  <2>1. Class \in Nat /\ Done = 0
    <3>1. Class \in Nat /\ Done \in Nat
      BY LengthOfList, CountIs DEF ModuleInv, Phase, Class, HandlesInv
    <3> QED BY <1>1, <3>1 DEF ModuleInv, Phase
  <2>2. PICK class : classTypes' = Append(classTypes, class)
    BY <1>3 DEF BeginClass
  <2>3. module' = Append(module, f)
        /\ local' = NewClassContext(Len(module) + 1, classes[Class + 1].members)
    BY <1>3 DEF BeginClass
  <2>4. f.name # "main" /\ IsDecl(f.decl) /\ f.decl[1] > 0 /\ ~(f.decl[2] > 0)
    BY <2>1, NoneAssumption DEF IsDecl
  <2> HIDE DEF f
  <2>5. Named(module)' /\ Sorted(module)' /\ Done' = 0
    BY <1>1, <2>1, <2>3, <2>4, DeclaredAppended DEF HandlesInv, ModuleInv
  <2>6. IsList(classTypes)' /\ Class' = Class + 1
    BY <2>2, AppendedList DEF ModuleInv, Phase, Class
  <2>7. local'.todo \in SUBSET (Nat \ {0})
    BY <2>3, PlacesAre DEF NewClassContext
  <2>8. Phase'
    BY <2>1, <2>5, <2>6, <2>7 DEF Phase
  <2> QED BY <1>1, <2>5, <2>8 DEF ModuleInv
<1> QED BY <1>2, <1>3

LEMMA EndClassStep ==
  ASSUME HandlesInv, HandlesInv', ModuleInv, EndClass
  PROVE  ModuleInv' /\ outcome' = outcome
<1> DEFINE f == [name |-> None, decl |-> <<Class, 0>>, code |-> Constructor(Len(module) + 1)]
<1>1. /\ UNCHANGED <<classes, functions, outcome, classTypes>> /\ local # Absent /\ local' = Absent
      /\ module' = Append(module, f)
  BY DEF EndClass
<1>2. Class \in Nat /\ Class > 0 /\ Done = 0
  <2>1. Class \in Nat /\ Done \in Nat
    BY LengthOfList, CountIs DEF ModuleInv, Phase, Class, HandlesInv
  <2> QED BY <1>1, <2>1 DEF ModuleInv, Phase
<1>3. f.name # "main" /\ IsDecl(f.decl) /\ f.decl[1] > 0 /\ ~(f.decl[2] > 0)
  BY <1>2, NoneAssumption DEF IsDecl
<1> HIDE DEF f
<1>4. Named(module)' /\ Sorted(module)' /\ Done' = 0
  BY <1>1, <1>2, <1>3, DeclaredAppended DEF HandlesInv, ModuleInv
<1>5. Phase'
  BY <1>1, <1>4 DEF ModuleInv, Phase
<1> QED BY <1>1, <1>4, <1>5 DEF ModuleInv

LEMMA NodeStep ==
  ASSUME HandlesInv, HandlesInv', ModuleInv, GenName \/ GenChild \/ GenCall
  PROVE  ModuleInv' /\ outcome' \in {outcome, "aborted", "rejected"}
<1>1. PICK value : Generate(value) /\ body # Absent
  BY DEF GenName, GenChild, GenCall, NextNode
<1>2. UNCHANGED <<classes, functions, classTypes, local>> /\ outcome' \in {outcome, "aborted", "rejected"}
  BY <1>1 DEF Generate, Fails
<1>3. CASE UNCHANGED module
  BY <1>2, <1>3, IdleStep, PhaseKept DEF ModuleInv
<1>4. CASE ~UNCHANGED module
  <2>1. PICK code : module' = [module EXCEPT ![body.value.code.fn].code = code]
    BY <1>1, <1>4 DEF Generate
  <2>2. body.value.code.fn \in 1 .. Len(module)
    BY <1>1 DEF HandlesInv, BodyOK
  <2> QED BY <1>2, <2>1, <2>2, EmittedStep, PhaseKept DEF ModuleInv
<1> QED BY <1>2, <1>3, <1>4

\* The context of a class goes on to the members to come.
LEMMA LocalPhase ==
  ASSUME Phase, local # Absent, NEW todo \in SUBSET (Nat \ {0}), local'.todo = todo,
         IsList(classTypes'), Class' = Class, Done' = Done, UNCHANGED classes,
         Done \in Nat
  PROVE  Phase'
<1>1. Done = 0 /\ Class > 0
  BY DEF Phase
<1> QED BY <1>1 DEF Phase

LEMMA GenFieldStep ==
  ASSUME HandlesInv, HandlesInv', ModuleInv, GenField
  PROVE  ModuleInv' /\ outcome' \in {outcome, "aborted", "rejected"}
<1>1. UNCHANGED <<classes, functions, classTypes>> /\ outcome' \in {outcome, "aborted", "rejected"}
      /\ local # Absent
  BY DEF GenField, Fails
<1>2. CASE UNCHANGED <<module, local>>
  BY <1>1, <1>2, IdleStep, PhaseKept DEF ModuleInv
<1>3. CASE ~UNCHANGED <<module, local>>
  <2>1. PICK code, variables :
          /\ module' = [module EXCEPT ![local.region].code = code]
          /\ local' = [local EXCEPT !.todo = @ \ {Least(@)}, !.variables = variables]
    BY <1>3 DEF GenField
  <2>2. LocalOK
    BY <1>1 DEF HandlesInv
  <2>3. Named(module)' /\ Sorted(module)' /\ Done' = Done
    BY <1>1, <2>1, <2>2, EmittedStep DEF LocalOK
  <2>4. local'.todo = local.todo \ {Least(local.todo)}
    BY <2>1, <2>2 DEF LocalOK
  <2>5. local.todo \ {Least(local.todo)} \in SUBSET (Nat \ {0}) /\ IsList(classTypes') /\ Class' = Class
    BY <1>1 DEF ModuleInv, Phase, Class
  <2>6. Done \in Nat
    BY CountIs DEF HandlesInv
  <2> QED BY <1>1, <2>3, <2>4, <2>5, <2>6, LocalPhase DEF ModuleInv
<1> QED BY <1>2, <1>3

LEMMA ChangedList ==
  ASSUME NEW s, IsList(s), NEW k \in 1 .. Len(s), NEW e
  PROVE  IsList([s EXCEPT ![k] = e]) /\ Len([s EXCEPT ![k] = e]) = Len(s)
<1>1. PICK S : s \in Seq(S)
  BY DEF IsList
<1>2. s \in Seq(S \cup {e}) /\ e \in S \cup {e}
  BY <1>1, SeqMonotonic
<1> QED BY <1>2, ExceptSeq DEF IsList

LEMMA LayOutStep ==
  ASSUME HandlesInv, HandlesInv', ModuleInv, LayOut
  PROVE  ModuleInv' /\ outcome' = outcome
<1>1. UNCHANGED <<classes, functions, outcome>> /\ local # Absent
  BY DEF LayOut
<1>2. PICK code, children, slots :
        /\ module' = [module EXCEPT ![local.region].code = code]
        /\ classTypes' = [classTypes EXCEPT ![Class].children = children, ![Class].slots = slots]
        /\ local' = [local EXCEPT !.laidOut = TRUE, !.todo = Places(Node.members, "fn")]
  BY DEF LayOut
<1>3. LocalOK
  BY <1>1 DEF HandlesInv
<1>4. Named(module)' /\ Sorted(module)' /\ Done' = Done
  BY <1>1, <1>2, <1>3, EmittedStep DEF LocalOK
<1>5. IsList(classTypes') /\ Class' = Class
  <2>1. IsList(classTypes) /\ Class \in 1 .. Len(classTypes)
    BY <1>1, LengthOfList DEF ModuleInv, Phase, Class
  <2>2. PICK e : e = [classTypes[Class] EXCEPT !.children = children, !.slots = slots]
    OBVIOUS
  <2>3. classTypes' = [classTypes EXCEPT ![Class] = e]
    BY <1>2, <2>2
  <2> QED BY <2>1, <2>3, ChangedList DEF Class
<1>6. local'.todo = Places(Node.members, "fn")
  BY <1>2, <1>3 DEF LocalOK
<1>7. Done \in Nat
  BY CountIs DEF HandlesInv
<1> QED BY <1>1, <1>4, <1>5, <1>6, <1>7, PlacesAre, LocalPhase DEF ModuleInv

LEMMA EndMethodStep ==
  ASSUME HandlesInv, HandlesInv', ModuleInv, EndMethod
  PROVE  ModuleInv' /\ outcome' = outcome
<1>1. UNCHANGED <<classes, functions, outcome, module>> /\ local # Absent
  BY DEF EndMethod
<1>2. PICK table, values :
        /\ classTypes' = [classTypes EXCEPT ![Class].functions = table]
        /\ local' = [local EXCEPT !.todo = @ \ {Least(@)}, !.values = values]
  BY DEF EndMethod
<1>3. Named(module)' /\ Sorted(module)' /\ Done' = Done
  BY <1>1, IdleStep
<1>4. IsList(classTypes') /\ Class' = Class
  <2>1. IsList(classTypes) /\ Class \in 1 .. Len(classTypes)
    BY <1>1, LengthOfList DEF ModuleInv, Phase, Class
  <2>2. PICK e : e = [classTypes[Class] EXCEPT !.functions = table]
    OBVIOUS
  <2>3. classTypes' = [classTypes EXCEPT ![Class] = e]
    BY <1>2, <2>2
  <2> QED BY <2>1, <2>3, ChangedList DEF Class
<1>5. local'.todo = local.todo \ {Least(local.todo)}
  BY <1>1, <1>2 DEF HandlesInv, LocalOK
<1>6. local.todo \ {Least(local.todo)} \in SUBSET (Nat \ {0})
  BY <1>1 DEF ModuleInv, Phase
<1>7. Done \in Nat
  BY CountIs DEF HandlesInv
<1> QED BY <1>1, <1>3, <1>4, <1>5, <1>6, <1>7, LocalPhase DEF ModuleInv

LEMMA EndFunctionStep ==
  ASSUME HandlesInv, HandlesInv', ModuleInv, EndFunction
  PROVE  ModuleInv' /\ outcome' = outcome
<1>1. UNCHANGED <<classes, functions, outcome, module, classTypes, local>>
  BY DEF EndFunction
<1> QED BY <1>1, IdleStep, PhaseKept DEF ModuleInv

(***************************************************************************)
(* What main is when everything is generated.                              *)
(***************************************************************************)
LEMMA MainFound ==
  ASSUME IsModule(module), Named(module), Sorted(module), Done = Len(functions),
         NEW e, e = getFunction("main")
  PROVE  /\ e = 0 => Bearers("main") = {}
         /\ e # 0 => (module[e].decl = Globally("main", Len(classes), Len(functions))
              <=> \E i \in 1 .. Len(functions) : {module[id].decl : id \in Bearers("main")} = {<<0, i>>})
<1>1. PICK n : n = Len(functions)
  OBVIOUS
<1>2. PICK F : F = FunctionIds(module)
  OBVIOUS
<1>3. n \in Nat /\ {module[i].decl[2] : i \in F} = 1 .. n
  BY <1>1, <1>2, CountIs DEF Sorted
<1>4. DOMAIN module = 1 .. Len(module) /\ Len(module) \in Nat
  BY ModuleLength
<1>5. Bearers("main") = {id \in 1 .. Len(module) : Bears(module, id)}
  BY <1>4 DEF Bearers, Bodies, Bears
<1>6. e = 0 => Bearers("main") = {}
  BY <1>5, NoMain DEF Named
<1>7. SUFFICES ASSUME e # 0
               PROVE  module[e].decl = Globally("main", Len(classes), n)
                        <=> \E i \in 1 .. n : {module[id].decl : id \in Bearers("main")} = {<<0, i>>}
  BY <1>1, <1>6
<1>8. e \in 1 .. Len(module) /\ module[e].name = "main" /\ e \in Bearers("main")
  BY <1>5, <1>7, NoMain DEF Named
<1>9. PICK S : S = {i \in 1 .. n : functions[i].name = "main"}
  OBVIOUS
<1>10. ASSUME NEW id \in Bearers("main")
       PROVE  /\ id \in 1 .. Len(module) /\ IsDecl(module[id].decl) /\ module[id].decl[2] > 0
              /\ module[id].decl[1] = 0 => id \in F /\ module[id].decl[2] \in S
  <2>1. id \in 1 .. Len(module) /\ IsDecl(module[id].decl) /\ Bears(module, id)
    BY <1>5 DEF Named
  <2>2. ASSUME module[id].decl[1] = 0 PROVE id \in F /\ module[id].decl[2] \in S
    <3>1. id \in F
      BY <1>2, <1>4, <2>1, <2>2 DEF FunctionIds, Bears
    <3>2. module[id].decl[2] \in 1 .. n
      BY <1>3, <3>1
    <3>3. functions[module[id].decl[2]].name = "main"
      BY <2>1, <2>2 DEF Bears, Written
    <3> QED BY <1>9, <3>1, <3>2, <3>3
  <2> QED BY <2>1, <2>2 DEF Bears
<1>11. ASSUME NEW i \in S PROVE \E id \in Bearers("main") : module[id].decl = <<0, i>>
  <2>1. i \in 1 .. n /\ functions[i].name = "main"
    BY <1>9
  <2>2. PICK id \in F : module[id].decl[2] = i
    BY <1>3, <2>1
  <2>3. id \in 1 .. Len(module) /\ module[id].decl[1] = 0 /\ module[id].decl[2] > 0
    BY <1>2, <1>4 DEF FunctionIds
  <2>4. module[id].decl = <<0, i>>
    BY <2>2, <2>3 DEF Named, IsDecl
  <2>5. Bears(module, id)
    BY <2>1, <2>2, <2>3 DEF Bears, Written
  <2> QED BY <1>5, <2>3, <2>4, <2>5
<1>12. CASE S = {}
  <2>1. PICK k : Globally("main", Len(classes), n) \in {<<k, 0>>, << >>}
    <3>1. {i \in 1 .. n : functions[i].name = "main"} = {}
      BY <1>9, <1>12
    <3>2. Latest({i \in 1 .. n : functions[i].name = "main"}) = 0
      BY <3>1 DEF Latest
    <3>3. PICK k : k = Latest({j \in 1 .. Len(classes) : classes[j].name = "main"})
      OBVIOUS
    <3>4. Globally("main", Len(classes), n) = IF k # 0 THEN <<k, 0>> ELSE << >>
      BY <3>2, <3>3 DEF Globally
    <3> QED BY <3>4
  <2>2. PICK a, b : module[e].decl = <<a, b>> /\ b > 0 /\ b \in Int
    BY <1>8, <1>10 DEF IsDecl
  <2>3. <<a, b>> # <<k, 0>> /\ <<a, b>> # << >>
    BY <2>2
  <2>4. ASSUME NEW i \in 1 .. n, {module[id].decl : id \in Bearers("main")} = {<<0, i>>} PROVE FALSE
    <3>1. module[e].decl = <<0, i>>
      BY <1>8, <2>4
    <3> QED BY <1>8, <1>10, <1>12, <3>1
  <2> QED BY <2>1, <2>2, <2>3, <2>4
<1>13. CASE S # {}
  <2>1. PICK L : L = Latest(S)
    OBVIOUS
  <2>2. L \in S /\ (\A j \in S : j <= L) /\ S \subseteq 1 .. n
    BY <1>3, <1>9, <1>13, <2>1, LatestIs
  <2>3. L \in 1 .. n
    BY <2>2
  <2>4. Globally("main", Len(classes), n) = <<0, L>>
    <3>1. L = Latest({i \in 1 .. n : functions[i].name = "main"}) /\ L # 0
      BY <1>3, <1>9, <2>1, <2>3
    <3>2. PICK k : k = Latest({j \in 1 .. Len(classes) : classes[j].name = "main"})
      OBVIOUS
    <3> QED BY <3>1, <3>2 DEF Globally
  <2>5. ASSUME module[e].decl = <<0, L>> PROVE {module[id].decl : id \in Bearers("main")} = {<<0, L>>}
    <3>1. module[e].decl[1] = 0 /\ module[e].decl[2] = L
      BY <2>5
    <3>2. e \in F
      BY <1>8, <1>10, <3>1
    <3>3. ASSUME NEW id \in Bearers("main") PROVE id = e
      <4>1. id \in 1 .. Len(module) /\ Bears(module, id) /\ 1 .. id \subseteq 1 .. Len(module)
        BY <1>4, <1>5
      <4>2. PICK k \in 1 .. id : module[k].name = "main"
        BY <4>1 DEF Named
      <4>3. e <= id
        BY <1>8, <4>1, <4>2 DEF Named
      <4>4. CASE module[id].decl[1] = 0
        <5>1. id \in F /\ module[id].decl[2] \in S
          BY <1>10, <4>4
        <5>2. module[id].decl[2] <= L
          BY <2>2, <5>1
        <5>3. e < id => L < module[id].decl[2]
          BY <1>2, <3>1, <3>2, <5>1 DEF Sorted
        <5>4. module[id].decl[2] \in Int
          BY <1>10 DEF IsDecl
        <5> QED BY <1>8, <2>3, <4>1, <4>3, <5>2, <5>3, <5>4
      <4>5. CASE module[id].decl[1] # 0
        <5>1. module[id].decl[1] > 0
          BY <1>10, <4>5 DEF IsDecl
        <5>2. id < e
          BY <1>2, <3>2, <4>1, <5>1 DEF Sorted
        <5> QED BY <1>8, <4>1, <4>3, <5>2
      <4> QED BY <4>4, <4>5
    <3> QED BY <1>8, <2>5, <3>3
  <2>6. ASSUME NEW i \in 1 .. n, {module[id].decl : id \in Bearers("main")} = {<<0, i>>}
        PROVE  module[e].decl = <<0, L>>
    <3>1. module[e].decl = <<0, i>>
      BY <1>8, <2>6
    <3>2. PICK id \in Bearers("main") : module[id].decl = <<0, L>>
      BY <1>11, <2>2
    <3> QED BY <2>6, <3>1, <3>2
  <2> QED BY <2>3, <2>4, <2>5, <2>6
<1> QED BY <1>12, <1>13

LEMMA RunProgramMain ==
  ASSUME IsModule(module), Named(module), Sorted(module), Done = Len(functions), runProgram
  PROVE  RunsMain' /\ outcome' \in {"ran", "crashed"}
<1>1. PICK e : e = getFunction("main")
  OBVIOUS
<1>2. /\ entry' = e /\ outcome' = IF e = 0 THEN "crashed" ELSE "ran"
      /\ UNCHANGED <<classes, functions, module>>
  BY <1>1 DEF runProgram, Main, genVars
<1>3. /\ e = 0 => Bearers("main") = {}
      /\ e # 0 => (module[e].decl = Globally("main", Len(classes), Len(functions))
           <=> \E i \in 1 .. Len(functions) : {module[id].decl : id \in Bearers("main")} = {<<0, i>>})
  BY <1>1, MainFound
<1>4. /\ Bearers("main")' = Bearers("main")
      /\ Globally("main", Len(classes), Len(functions))' = Globally("main", Len(classes), Len(functions))
  BY <1>2 DEF Bearers, Bodies, Written, Globally
<1> QED BY <1>2, <1>3, <1>4 DEF RunsMain

LEMMA MakeObjectMain ==
  ASSUME IsModule(module), Named(module), Sorted(module), Done = Len(functions), makeObject
  PROVE  RunsMain' /\ outcome' \in {"emitted", "crashed"}
<1>1. PICK e : e = getFunction("main")
  OBVIOUS
<1>2. /\ entry' = e /\ outcome' = IF e = 0 THEN "crashed" ELSE "emitted"
      /\ UNCHANGED <<classes, functions>> /\ Main = e
  BY <1>1 DEF makeObject, Main
<1>3. /\ e = 0 => Bearers("main") = {}
      /\ e # 0 => (module[e].decl = Globally("main", Len(classes), Len(functions))
           <=> \E i \in 1 .. Len(functions) : {module[id].decl : id \in Bearers("main")} = {<<0, i>>})
  BY <1>1, MainFound
<1>4. Globally("main", Len(classes), Len(functions))' = Globally("main", Len(classes), Len(functions))
  BY <1>2 DEF Globally
<1>5. CASE e = 0
  <2>1. module' = module
    BY <1>2, <1>5 DEF makeObject
  <2>2. Bearers("main")' = Bearers("main")
    BY <1>2, <2>1 DEF Bearers, Bodies, Written
  <2> QED BY <1>2, <1>3, <1>5, <2>2 DEF RunsMain
<1>6. CASE e # 0
  <2>1. DOMAIN module = 1 .. Len(module) /\ Len(module) \in Nat
    BY ModuleLength
  <2>2. e \in 1 .. Len(module) /\ module[e].name = "main"
    BY <1>1, <1>6, NoMain
  <2>3. PICK r : r = Renamed
    OBVIOUS
  <2>4. /\ IsList(r) /\ Len(r) = Len(module)
        /\ \A id \in 1 .. Len(module) : r[id].decl = module[id].decl
        /\ \A id \in 1 .. Len(module) : r[id].name # "main"
    <3>1. PICK g : g = [module[e] EXCEPT !.name = "elism_main"]
      OBVIOUS
    <3>2. r = [module EXCEPT ![e] = g]
      BY <1>2, <2>3, <3>1 DEF Renamed
    <3>3. module[e] = [name |-> module[e].name, decl |-> module[e].decl, code |-> module[e].code]
      BY <2>2 DEF IsModule, IsFunction
    <3>4. g.name = "elism_main" /\ g.decl = module[e].decl
      BY <3>1, <3>3
    <3>5. IsList(r) /\ Len(r) = Len(module)
      BY <2>2, <3>2, ChangedList DEF IsModule
    <3>6. \A id \in 1 .. Len(module) : r[id] = IF id = e THEN g ELSE module[id]
      BY <2>1, <3>2
    <3>7. \A id \in 1 .. Len(module) : id # e => module[id].name # "main"
      BY <2>2 DEF Named
    <3> QED BY <3>4, <3>5, <3>6, <3>7
  <2>5. PICK fn, region, drop, code :
          /\ code = <<fn, region, [op |-> "fn", fn |-> e], drop[1], drop[2], drop[3]>>
          /\ module' = Append(r, [name |-> IF \E id \in DOMAIN r : r[id].name = "main" THEN None ELSE "main",
                                  decl |-> <<0, 0>>, code |-> code])
    <3>1. PICK new, del, in, out :
            /\ new = [op |-> "fn", fn |-> getFunction("NewRegion")]
            /\ del = [op |-> "fn", fn |-> getFunction("DeleteRegion")]
            /\ in = [op |-> "call", handle |-> 0] /\ out = [op |-> "call", handle |-> Len(module) + 1]
      OBVIOUS
    <3>2. PICK code : code = <<new, in, [op |-> "fn", fn |-> e], out, del, out>>
      OBVIOUS
    <3>3. module' = Append(r, [name |-> IF \E id \in DOMAIN r : r[id].name = "main" THEN None ELSE "main",
                               decl |-> <<0, 0>>, code |-> code])
      BY <1>2, <1>6, <2>3, <3>1, <3>2 DEF makeObject
    <3>4. PICK drop : drop = <<out, del, out>>
      OBVIOUS
    <3>5. drop[1] = out /\ drop[2] = del /\ drop[3] = out
      BY <3>4
    <3> QED BY <3>2, <3>3, <3>5
  <2>6. PICK f : f = [name |-> "main", decl |-> <<0, 0>>, code |-> code]
    OBVIOUS
  <2>7. module' = Append(r, f)
    <3>1. DOMAIN r = 1 .. Len(module)
      BY <2>4, ListDomain
    <3> QED BY <2>4, <2>5, <2>6, <3>1
  <2>8. f.name = "main" /\ f.decl = <<0, 0>> /\ f.code[3] = [op |-> "fn", fn |-> e]
    BY <2>5, <2>6
  <2>9. PICK n : n = Len(module)
    OBVIOUS
  <2>10. /\ Len(module') = n + 1 /\ DOMAIN module' = 1 .. n + 1 /\ module'[n + 1] = f
         /\ \A id \in 1 .. n : module'[id] = r[id]
    BY <2>4, <2>7, <2>9, AppendedList, ListDomain
  <2>11. \A id \in 1 .. n + 1 : id \in 1 .. n \/ id = n + 1
    BY <2>1, <2>9
  <2>12. \A id \in 1 .. n : module'[id].decl = module[id].decl
    BY <2>4, <2>9, <2>10
  <2>13. Bodies' = Bodies
    BY <2>1, <2>8, <2>9, <2>10, <2>11, <2>12 DEF Bodies
  <2>14. Bodies \subseteq 1 .. n
    BY <2>1, <2>9 DEF Bodies
  <2>15. Bearers("main")' = Bearers("main")
    BY <1>2, <2>12, <2>13, <2>14 DEF Bearers, Written
  <2>16. {module[id].decl : id \in Bearers("main")}' = {module[id].decl : id \in Bearers("main")}
    BY <2>12, <2>14, <2>15 DEF Bearers
  <2>17. getFunction("main")' = n + 1
    <3>1. \A id \in DOMAIN module' : module'[id].name = "main" <=> id = n + 1
      BY <2>1, <2>4, <2>8, <2>9, <2>10, <2>11
    <3>2. n + 1 \in DOMAIN module'
      BY <2>1, <2>9, <2>10
    <3> QED BY <3>1, <3>2 DEF getFunction
  <2>18. module'[e].decl = module[e].decl
    BY <2>2, <2>9, <2>12
  <2> QED BY <1>2, <1>3, <1>4, <1>6, <2>8, <2>10, <2>15, <2>16, <2>17, <2>18 DEF RunsMain
<1> QED BY <1>2, <1>5, <1>6

LEMMA RunsMainKept == ASSUME RunsMain, UNCHANGED vars PROVE RunsMain'
<1>1. UNCHANGED <<classes, functions, outcome, module, entry>>
  BY DEF vars, genVars
<1>2. /\ Bearers("main")' = Bearers("main") /\ getFunction("main")' = getFunction("main")
      /\ Globally("main", Len(classes), Len(functions))' = Globally("main", Len(classes), Len(functions))
  BY <1>1 DEF Bearers, Bodies, Written, Globally, getFunction
<1>3. {module[id].decl : id \in Bearers("main")}' = {module[id].decl : id \in Bearers("main")}
  BY <1>1, <1>2
<1> QED BY <1>1, <1>2, <1>3 DEF RunsMain

LEMMA NextMainInv == HandlesInv /\ HandlesInv' /\ MainInv /\ [Next]_vars => MainInv'
<1> SUFFICES ASSUME HandlesInv, HandlesInv', MainInv, [Next]_vars PROVE MainInv'
  OBVIOUS
<1>1. CASE UNCHANGED vars
  <2>1. CASE outcome \in {"ran", "emitted", "crashed"} /\ RunsMain
    BY <1>1, <2>1, RunsMainKept DEF MainInv, vars
  <2>2. CASE /\ entry = 0 /\ outcome \in Early \cup {"generating", "generated", "aborted", "rejected"}
             /\ ModuleInv
             /\ outcome \in Early => GenInit
             /\ outcome = "generated" => Done = Len(functions)
    <3>1. ModuleInv'
      BY <1>1, <2>2, IdleStep, PhaseKept DEF ModuleInv, vars, genVars
    <3>2. Done' = Done
      BY <1>1, <2>2, IdleStep DEF vars, genVars
    <3>3. GenInit => GenInit'
      BY <1>1 DEF vars, genVars, GenInit
    <3> QED BY <1>1, <2>2, <3>1, <3>2, <3>3 DEF MainInv, vars
  <2> QED BY <2>1, <2>2 DEF MainInv
<1>2. CASE Next
  <2>1. outcome \in Early \cup {"generating", "generated"}
    BY <1>2 DEF Next, Early, ReadStep, ReadNext, LexOpen, LexMember, LexNumber, LexClose, LexComment, LexStop, At,
                Reading, StartCodegen, StartPrint, AllRead, PrintStep, PrintNext, PrintClass, PrintFunction,
                FinishPrint, GenStep, GenNext, Generating, BeginClass, GenField, LayOut, BeginMethod, EndMethod,
                EndClass, BeginFunction, EndFunction, NextNode, GenName, GenChild, GenCall, BodyDone, Finish,
                runProgram, makeObject
  <2>2. /\ entry = 0 /\ ModuleInv
        /\ outcome \in Early => GenInit
        /\ outcome = "generated" => Done = Len(functions)
    BY <2>1 DEF MainInv, Early
  <2>3. ASSUME GenInit, UNCHANGED genVars, entry' = 0, outcome' \in Early \cup {"generating"}
        PROVE  MainInv'
    <3>1. GenInit'
      BY <2>3 DEF GenInit, genVars
    <3>2. ModuleInv'
      BY <3>1, InitModuleInv, PTL
    <3> QED BY <2>3, <3>1, <3>2 DEF MainInv, Early
  <2>4. CASE ReadStep \/ PrintStep
    <3>1. UNCHANGED genVars /\ entry' = 0 /\ outcome \in Early /\ outcome' \in Early
      BY <2>2, <2>4 DEF Early, ReadStep, ReadNext, LexOpen, LexMember, LexNumber, LexClose, LexComment, LexStop,
                        At, Reading, PrintStep, PrintNext, PrintClass, PrintFunction, FinishPrint, PrintBlock, Begun
    <3> QED BY <2>2, <2>3, <3>1
  <2>5. CASE StartCodegen \/ StartPrint
    <3>1. UNCHANGED genVars /\ entry' = 0 /\ outcome \in Early /\ outcome' \in Early \cup {"generating"}
      BY <2>2, <2>5 DEF Early, StartCodegen, StartPrint, AllRead
    <3> QED BY <2>2, <2>3, <3>1
  <2>6. CASE GenStep
    <3>1. outcome = "generating" /\ entry' = 0
      BY <2>2, <2>6 DEF GenStep, GenNext, Generating, BeginClass, GenField, LayOut, BeginMethod, EndMethod, EndClass,
                   BeginFunction, EndFunction, NextNode, GenName, GenChild, GenCall, BodyDone, Finish
    <3>2. CASE Finish
      <4>1. outcome' = "generated" /\ UNCHANGED <<classes, functions, genVars>> /\ Done = Len(functions)
        BY <3>2 DEF Finish
      <4>2. ModuleInv' /\ Done' = Done
        BY <2>2, <4>1, IdleStep, PhaseKept DEF ModuleInv, genVars
      <4> QED BY <3>1, <4>1, <4>2 DEF MainInv, Early
    <3>3. CASE ~Finish
      <4>1. ModuleInv' /\ outcome' \in {"generating", "aborted", "rejected"}
        BY <2>2, <2>6, <3>1, <3>3, BeginClassStep, GenFieldStep, LayOutStep, BeginMethodStep, EndMethodStep,
           EndClassStep, BeginFunctionStep, EndFunctionStep, NodeStep DEF GenStep, GenNext
      <4> QED BY <3>1, <4>1 DEF MainInv, Early
    <3> QED BY <3>2, <3>3
  <2>7. CASE runProgram
    BY <2>2, <2>7, RunProgramMain DEF MainInv, ModuleInv, HandlesInv, runProgram
  <2>8. CASE makeObject
    BY <2>2, <2>8, MakeObjectMain DEF MainInv, ModuleInv, HandlesInv, makeObject
  <2> QED BY <1>2, <2>4, <2>5, <2>6, <2>7, <2>8 DEF Next
<1> QED BY <1>1, <1>2

\* What a program runs, or an object calls, is what main means at the end of the
\* source exactly if that is the name of one function and no method, whatever
\* the files; without any the compiler crashes.
THEOREM MainRun == Spec => []RunsMain
<1>1. Init => HandlesInv /\ MainInv
  BY InitHandlesInv, InitModuleInv DEF Init, MainInv, Early
<1>2. MainInv => RunsMain
  BY DEF MainInv, RunsMain, Early
<1> QED BY <1>1, <1>2, NextHandlesInv, NextMainInv, PTL DEF Spec

(***************************************************************************)
(* Counting up, and what the recursive functions are.                      *)
(***************************************************************************)
LEMMA Upwards ==
  ASSUME NEW S, 0 \in S, \A n \in Nat : n \in S => n + 1 \in S
  PROVE  Nat \subseteq S
<1> SUFFICES ASSUME Nat \ S # {} PROVE FALSE
  OBVIOUS
<1>1. PICK m : m \in Nat \ S /\ \A j \in Nat \ S : m <= j
  BY LeastIs
<1>2. m - 1 \in Nat /\ m - 1 \in S
  BY <1>1
<1> QED BY <1>1, <1>2

ProgramOK == classes \in Seq(ClassNodes) /\ functions \in Seq(FunctionNodes)

\* The last class of a name among the first ones.
LEMMA ClassNamedIs ==
  ASSUME NEW name, NEW c \in Nat
  PROVE  LET k == ClassNamed(name, c) IN
         /\ k \in 0 .. c
         /\ k # 0 => classes[k].name = name
         /\ \A j \in 1 .. c : classes[j].name = name => j <= k /\ k # 0
<1> DEFINE S == {k \in 1 .. c : classes[k].name = name}
<1>1. S \in SUBSET (1 .. c)
  OBVIOUS
<1>2. ClassNamed(name, c) = Latest(S)
  BY DEF ClassNamed
<1> HIDE DEF S
<1>3. /\ S = {} => Latest(S) = 0
      /\ S # {} => Latest(S) \in S /\ \A j \in S : j <= Latest(S)
  BY <1>1, LatestIs
<1>4. CASE S = {}
  BY <1>2, <1>3, <1>4 DEF S
<1>5. CASE S # {}
  BY <1>2, <1>3, <1>5 DEF S
<1> QED BY <1>4, <1>5

SuperOf(k) == ClassNamed(classes[k].super, k - 1)

\* A class inherits from an earlier one, or from none.
LEMMA SuperIs == ASSUME NEW k \in Nat \ {0} PROVE SuperOf(k) \in 0 .. k - 1
BY ClassNamedIs DEF SuperOf

\* The body of the two recursive functions that go from a class to what it
\* inherits from.
LineStep(f, k) == IF k = 0 THEN << >> ELSE <<k>> \o f[SuperOf(k)]

LineTo(f, n) == f = [k \in 0 .. n |-> LineStep(f, k)]

\* The lineage of a class is defined by that of an earlier one: there is such a
\* function.
LEMMA LineExists ==
  ASSUME NEW N \in Nat
  PROVE  \E f : LineTo(f, N)
<1>1. PICK S : S = {n \in Nat : \E f : LineTo(f, n)}
  OBVIOUS
<1>2. 0 \in S
  <2>1. PICK f : f = [k \in 0 .. 0 |-> << >>]
    OBVIOUS
  <2>2. LineTo(f, 0)
    BY <2>1 DEF LineTo, LineStep
  <2> QED BY <1>1, <2>2
<1>3. ASSUME NEW n \in Nat, n \in S PROVE n + 1 \in S
  <2>1. PICK h : LineTo(h, n)
    BY <1>1, <1>3
  <2>2. PICK f : f = [k \in 0 .. n + 1 |-> IF k = n + 1 THEN LineStep(h, k) ELSE h[k]]
    OBVIOUS
  <2>3. \A k \in 1 .. n + 1 : SuperOf(k) \in 0 .. n
    BY SuperIs
  <2>4. \A k \in 0 .. n : f[k] = h[k] /\ h[k] = LineStep(h, k)
    BY <2>1, <2>2, SMTT(30) DEF LineTo
  <2>5. \A k \in 0 .. n + 1 : LineStep(f, k) = LineStep(h, k)
    <3> SUFFICES ASSUME NEW k \in 0 .. n + 1, k # 0 PROVE f[SuperOf(k)] = h[SuperOf(k)]
      BY DEF LineStep
    <3>1. k \in 1 .. n + 1
      OBVIOUS
    <3> QED BY <2>3, <2>4, <3>1
  <2>6. \A k \in 0 .. n + 1 : k \in 0 .. n \/ k = n + 1
    OBVIOUS
  <2>7. f[n + 1] = LineStep(h, n + 1)
    BY <2>2
  <2>8. \A k \in 0 .. n + 1 : f[k] = LineStep(f, k)
    BY <2>4, <2>5, <2>6, <2>7
  <2>9. f = [k \in 0 .. n + 1 |-> f[k]]
    BY <2>2
  <2>10. LineTo(f, n + 1)
    BY <2>8, <2>9 DEF LineTo
  <2> QED BY <1>1, <2>10
<1> QED BY <1>1, <1>2, <1>3, Upwards

\* They agree as far as both go.
LEMMA LineUnique ==
  ASSUME NEW f, NEW g, NEW m \in Nat, NEW n \in Nat, LineTo(f, m), LineTo(g, n), m <= n
  PROVE  \A k \in 0 .. m : f[k] = g[k]
<1> SUFFICES ASSUME NEW x \in 0 .. m, f[x] # g[x] PROVE FALSE
  OBVIOUS
<1>1. PICK S : S = {k \in 0 .. m : f[k] # g[k]}
  OBVIOUS
<1>2. S \in SUBSET Nat /\ S # {}
  BY <1>1
<1>3. PICK k : k \in S /\ \A j \in S : k <= j
  BY <1>2, LeastIs
<1>4. k \in 0 .. m /\ k \in 0 .. n
  BY <1>1, <1>3
<1>5. f[k] = LineStep(f, k) /\ g[k] = LineStep(g, k)
  BY <1>4 DEF LineTo
<1>6. CASE k = 0
  BY <1>1, <1>3, <1>5, <1>6 DEF LineStep
<1>7. CASE k # 0
  <2>1. SuperOf(k) \in 0 .. k - 1
    BY <1>4, <1>7, SuperIs
  <2>2. SuperOf(k) \in 0 .. m /\ SuperOf(k) \notin S
    BY <1>3, <1>4, <2>1
  <2>3. f[SuperOf(k)] = g[SuperOf(k)]
    BY <1>1, <2>2
  <2> QED BY <1>1, <1>3, <1>5, <2>3 DEF LineStep
<1> QED BY <1>6, <1>7

\* Lineage is what its definition says.
LEMMA LineageIs ==
  ASSUME Len(classes) \in Nat
  PROVE  LineTo(Lineage, Len(classes))
<1>1. \E f : LineTo(f, Len(classes))
  BY LineExists
<1> QED BY <1>1, Zenon DEF Lineage, LineTo, LineStep, SuperOf

\* A class with what it inherits from: itself first, then earlier ones.
IsLine(line, k) ==
  /\ IsList(line)
  /\ \A d \in 1 .. Len(line) : line[d] \in 1 .. k /\ (d > 1 => line[d] < k)
  /\ k > 0 => Len(line) > 0 /\ line[1] = k

\* A lineage begins with the class and goes on to earlier ones.
LEMMA LineageLists ==
  ASSUME Len(classes) \in Nat
  PROVE  \A k \in 0 .. Len(classes) : IsLine(Lineage[k], k)
<1> SUFFICES ASSUME NEW x \in 0 .. Len(classes), ~IsLine(Lineage[x], x) PROVE FALSE
  OBVIOUS
<1>1. PICK S : S = {k \in 0 .. Len(classes) : ~IsLine(Lineage[k], k)}
  OBVIOUS
<1>2. S \in SUBSET Nat /\ S # {}
  BY <1>1
<1>3. PICK k : k \in S /\ \A j \in S : k <= j
  BY <1>2, LeastIs
<1>4. k \in 0 .. Len(classes) /\ ~IsLine(Lineage[k], k)
  BY <1>1, <1>3
<1>5. Lineage[k] = LineStep(Lineage, k)
  BY <1>4, LineageIs DEF LineTo
<1>6. CASE k = 0
  BY <1>4, <1>5, <1>6, EmptyList DEF LineStep, IsLine
<1>7. CASE k # 0
  <2>1. PICK s : s = SuperOf(k)
    OBVIOUS
  <2>2. s \in 0 .. k - 1
    BY <1>4, <1>7, <2>1, SuperIs
  <2>3. IsLine(Lineage[s], s)
    BY <1>1, <1>3, <1>4, <2>2
  <2>4. PICK t : t = Lineage[s]
    OBVIOUS
  <2>5. <<k>> \in Seq({k}) /\ Len(<<k>>) = 1 /\ <<k>>[1] = k
    OBVIOUS
  <2>6. PICK h : h = <<k>>
    OBVIOUS
  <2>7. IsList(h) /\ Len(h) = 1 /\ h[1] = k
    BY <2>5, <2>6 DEF IsList
  <2>8. Lineage[k] = h \o t
    BY <1>5, <1>7, <2>1, <2>4, <2>6 DEF LineStep
  <2>9. /\ IsList(h \o t) /\ Len(t) \in Nat /\ Len(h \o t) = 1 + Len(t)
        /\ (h \o t)[1] = k /\ \A d \in 1 .. Len(t) : (h \o t)[1 + d] = t[d]
    <3>1. IsList(t) /\ 1 \in 1 .. Len(h)
      BY <2>3, <2>4, <2>7 DEF IsLine
    <3>2. /\ IsList(h \o t) /\ Len(t) \in Nat /\ Len(h \o t) = Len(h) + Len(t)
          /\ \A d \in 1 .. Len(h) : (h \o t)[d] = h[d]
          /\ \A d \in 1 .. Len(t) : (h \o t)[Len(h) + d] = t[d]
      <4>1. IsList(h) /\ IsList(t)
        BY <2>7, <3>1
      <4> QED BY <4>1, ConcatenatedList
    <3> QED BY <2>7, <3>1, <3>2
  <2>10. \A d \in 1 .. 1 + Len(t) : d = 1 \/ (d - 1 \in 1 .. Len(t) /\ d = 1 + (d - 1))
    BY <2>9
  <2>11. \A d \in 1 .. Len(t) : t[d] \in 1 .. k /\ t[d] < k
    BY <1>4, <2>2, <2>3, <2>4 DEF IsLine
  <2>12. \A d \in 1 .. 1 + Len(t) : (h \o t)[d] \in 1 .. k /\ (d > 1 => (h \o t)[d] < k)
    BY <1>4, <1>7, <2>9, <2>10, <2>11
  <2>13. IsLine(h \o t, k)
    BY <2>9, <2>12 DEF IsLine
  <2> QED BY <1>4, <2>8, <2>13
<1> QED BY <1>6, <1>7

\* What is generated follows the source.
LEMMA ChainIsLineage ==
  ASSUME Len(classes) \in Nat, Class \in Nat, Class <= Len(classes),
         \A k \in 1 .. Class : classTypes[k].super = SuperOf(k)
  PROVE  \A k \in 0 .. Class : Chain[k] = Lineage[k]
<1>1. \E f : LineTo(f, Class)
  BY LineExists
<1>2. \A f : LineTo(f, Class) <=>
        f = [k \in 0 .. Len(classTypes) |-> IF k = 0 THEN << >> ELSE <<k>> \o f[classTypes[k].super]]
  <2> SUFFICES ASSUME NEW f
               PROVE  LineTo(f, Class) <=>
                        f = [k \in 0 .. Class |-> IF k = 0 THEN << >> ELSE <<k>> \o f[classTypes[k].super]]
    BY DEF Class
  <2>1. \A k \in 0 .. Class : LineStep(f, k) = IF k = 0 THEN << >> ELSE <<k>> \o f[classTypes[k].super]
    BY DEF LineStep
  <2>2. [k \in 0 .. Class |-> LineStep(f, k)]
         = [k \in 0 .. Class |-> IF k = 0 THEN << >> ELSE <<k>> \o f[classTypes[k].super]]
    BY <2>1
  <2> QED BY <2>2 DEF LineTo
<1>3. LineTo(Chain, Class)
  <2>1. Chain = [k \in 0 .. Len(classTypes) |-> IF k = 0 THEN << >> ELSE <<k>> \o Chain[classTypes[k].super]]
    BY <1>1, <1>2, Zenon DEF Chain
  <2> QED BY <1>2, <2>1
<1> QED BY <1>3, LineageIs, LineUnique

(***************************************************************************)
(* What the nodes of a program are.                                        *)
(***************************************************************************)
IsSite(site) ==
  \/ \E i \in 1 .. Len(functions) : site = <<0, i>>
  \/ \E k \in 1 .. Len(classes) : \E j \in Places(classes[k].members, "fn") : site = <<k, j>>

\* The lengths of a program are numbers.
LEMMA ProgramLengths == ASSUME ProgramOK PROVE Len(classes) \in Nat /\ Len(functions) \in Nat
BY DEF ProgramOK

\* What a class node is made of.
LEMMA ClassNode ==
  ASSUME ProgramOK, NEW k \in 1 .. Len(classes)
  PROVE  /\ classes[k].name \in STRING /\ classes[k].super \in STRING \cup {None}
         /\ classes[k].members \in Seq(FieldNodes \cup FunctionNodes)
<1>1. classes[k] \in ClassNodes
  BY DEF ProgramOK
<1> QED BY <1>1 DEF ClassNodes

\* A member is a field or a function.
LEMMA MemberNode ==
  ASSUME ProgramOK, NEW k \in 1 .. Len(classes)
  PROVE  /\ Len(classes[k].members) \in Nat
         /\ DOMAIN classes[k].members = 1 .. Len(classes[k].members)
         /\ \A j \in Places(classes[k].members, "field") : classes[k].members[j] \in FieldNodes
         /\ \A j \in Places(classes[k].members, "fn") : classes[k].members[j] \in FunctionNodes
         /\ \A j \in 1 .. Len(classes[k].members) :
              j \in Places(classes[k].members, "field") <=> j \notin Places(classes[k].members, "fn")
<1>1. PICK m : m = classes[k].members
  OBVIOUS
<1>2. m \in Seq(FieldNodes \cup FunctionNodes)
  BY <1>1, ClassNode
<1>3. Len(m) \in Nat /\ DOMAIN m = 1 .. Len(m) /\ \A j \in 1 .. Len(m) : m[j] \in FieldNodes \cup FunctionNodes
  BY <1>2
<1>4. /\ \A x \in FieldNodes : x.kind = "field"
      /\ \A x \in FunctionNodes : x.kind = "fn"
  BY DEF FieldNodes, FunctionNodes
<1> QED BY <1>1, <1>3, <1>4 DEF Places

\* Where a body stands there is a function node.
LEMMA SiteNode ==
  ASSUME ProgramOK, NEW site, IsSite(site)
  PROVE  Written(site) \in FunctionNodes
<1>1. ASSUME NEW i \in 1 .. Len(functions), site = <<0, i>> PROVE Written(site) \in FunctionNodes
  BY <1>1 DEF Written, ProgramOK
<1>2. ASSUME NEW k \in 1 .. Len(classes), NEW j \in Places(classes[k].members, "fn"), site = <<k, j>>
      PROVE  Written(site) \in FunctionNodes
  <2>1. classes[k].members[j] \in FunctionNodes
    BY MemberNode
  <2>2. site[1] = k /\ site[2] = j /\ k # 0
    BY <1>2
  <2> QED BY <2>1, <2>2 DEF Written
<1> QED BY <1>1, <1>2 DEF IsSite

\* Functions and methods are sites, fields are not.
LEMMA WrittenNodes ==
  ASSUME ProgramOK
  PROVE  /\ \A i \in DOMAIN functions : IsSite(<<0, i>>) /\ Written(<<0, i>>) \in FunctionNodes
         /\ \A k \in DOMAIN classes : \A j \in DOMAIN classes[k].members :
              /\ ~IsField(<<k, j>>) <=> j \in Places(classes[k].members, "fn")
              /\ ~IsField(<<k, j>>) => IsSite(<<k, j>>) /\ Written(<<k, j>>) \in FunctionNodes
<1>1. DOMAIN functions = 1 .. Len(functions) /\ DOMAIN classes = 1 .. Len(classes)
  BY DEF ProgramOK
<1>2. \A i \in DOMAIN functions : IsSite(<<0, i>>) /\ Written(<<0, i>>) \in FunctionNodes
  BY <1>1, SiteNode DEF IsSite
<1>3. ASSUME NEW k \in DOMAIN classes, NEW j \in DOMAIN classes[k].members
      PROVE  /\ ~IsField(<<k, j>>) <=> j \in Places(classes[k].members, "fn")
             /\ ~IsField(<<k, j>>) => IsSite(<<k, j>>) /\ Written(<<k, j>>) \in FunctionNodes
  <2>1. k \in 1 .. Len(classes) /\ j \in 1 .. Len(classes[k].members)
    BY <1>1, MemberNode
  <2>2. j \in Places(classes[k].members, "field") <=> j \notin Places(classes[k].members, "fn")
    BY <2>1, MemberNode
  <2>3. IsMethod(<<k, j>>) /\ Written(<<k, j>>) = classes[k].members[j]
    <3>1. k \in Nat \ {0} /\ j \in Nat \ {0}
      BY <2>1, ProgramLengths, MemberNode
    <3> QED BY <3>1 DEF IsMethod, Written
  <2>4. IsField(<<k, j>>) <=> j \in Places(classes[k].members, "field")
    BY <2>1, <2>3 DEF IsField, Places
  <2>5. j \in Places(classes[k].members, "fn") => IsSite(<<k, j>>)
    BY <2>1 DEF IsSite
  <2>6. ~IsField(<<k, j>>) <=> j \in Places(classes[k].members, "fn")
    BY <2>2, <2>4
  <2>7. IsSite(<<k, j>>) => Written(<<k, j>>) \in FunctionNodes
    BY SiteNode
  <2> QED BY <2>5, <2>6, <2>7
<1> QED BY <1>2, <1>3

\* What a function node is made of.
LEMMA FunctionNode ==
  ASSUME NEW f \in FunctionNodes
  PROVE  /\ f.kind = "fn" /\ f.name \in STRING /\ f.ret \in STRING
         /\ IsList(f.nodes) /\ Len(f.nodes) \in Nat /\ DOMAIN f.nodes = 1 .. Len(f.nodes)
         /\ \A i \in 1 .. Len(f.nodes) : f.nodes[i].kind \in {"name", "child", "call"}
         /\ Chained(f.nodes)
<1>1. /\ f.kind = "fn" /\ f.name \in STRING /\ f.ret \in STRING /\ f.nodes \in Seq(ExprNodes)
      /\ Chained(f.nodes)
  BY DEF FunctionNodes
<1>2. \A e \in ExprNodes : e.kind \in {"name", "child", "call"}
  BY DEF ExprNodes
<1>3. /\ Len(f.nodes) \in Nat /\ DOMAIN f.nodes = 1 .. Len(f.nodes)
      /\ \A i \in 1 .. Len(f.nodes) : f.nodes[i] \in ExprNodes
  BY <1>1
<1> QED BY <1>1, <1>2, <1>3 DEF IsList

(***************************************************************************)
(* What the nodes of a body refer to, one after the other.                 *)
(***************************************************************************)
RefersTo(site, f, n) == f = [i \in 1 .. n |-> Reference(site, f, i)]

\* A node looks at an earlier one only.
LEMMA ReferenceLocal ==
  ASSUME NEW site, Written(site) \in FunctionNodes, NEW i \in 1 .. Len(Written(site).nodes), NEW f, NEW g,
         \A j \in 1 .. i - 1 : f[j] = g[j]
  PROVE  Reference(site, f, i) = Reference(site, g, i)
<1>1. PICK nodes : nodes = Written(site).nodes
  OBVIOUS
<1>2. Len(nodes) \in Nat /\ nodes[i].kind \in {"name", "child", "call"} /\ Chained(nodes)
  BY <1>1, FunctionNode
<1>3. ASSUME nodes[i].kind = "child" PROVE f[i - 2] = g[i - 2]
  <2>1. i > 1 /\ nodes[i - 1].kind = "call"
    BY <1>1, <1>2, <1>3 DEF Chained
  <2>2. i - 1 \in 1 .. Len(nodes)
    BY <1>1, <1>2, <2>1
  <2>3. i - 1 > 1
    BY <1>2, <2>1, <2>2 DEF Chained
  <2> QED BY <1>2, <2>3
<1>4. nodes[i].kind = "name" => Reference(site, f, i) = Reference(site, g, i)
  BY <1>1 DEF Reference
<1>5. nodes[i].kind = "call" => Reference(site, f, i) = Reference(site, g, i)
  BY <1>1 DEF Reference
<1>6. nodes[i].kind = "child" => Reference(site, f, i) = Reference(site, g, i)
  BY <1>1, <1>3 DEF Reference
<1> QED BY <1>2, <1>4, <1>5, <1>6

\* Mentioned is what its definition says.
LEMMA MentionedIs ==
  ASSUME NEW site, Written(site) \in FunctionNodes
  PROVE  RefersTo(site, Mentioned(site), Len(Written(site).nodes))
<1>1. PICK N : N = Len(Written(site).nodes)
  OBVIOUS
<1>2. N \in Nat /\ DOMAIN Written(site).nodes = 1 .. N
  BY <1>1, FunctionNode
<1>3. PICK S : S = {n \in Nat : n <= N => \E f : RefersTo(site, f, n)}
  OBVIOUS
<1>4. 0 \in S
  <2>1. PICK f : f = [i \in 1 .. 0 |-> 0]
    OBVIOUS
  <2>2. RefersTo(site, f, 0)
    BY <2>1 DEF RefersTo
  <2> QED BY <1>3, <2>2
<1>5. ASSUME NEW n \in Nat, n \in S PROVE n + 1 \in S
  <2> SUFFICES ASSUME n + 1 <= N PROVE \E f : RefersTo(site, f, n + 1)
    BY <1>3
  <2>1. PICK h : RefersTo(site, h, n)
    BY <1>2, <1>3, <1>5
  <2>2. PICK f : f = [i \in 1 .. n + 1 |-> IF i = n + 1 THEN Reference(site, h, i) ELSE h[i]]
    OBVIOUS
  <2>3. \A i \in 1 .. n : f[i] = h[i] /\ h[i] = Reference(site, h, i)
    BY <2>1, <2>2, SMTT(30) DEF RefersTo
  <2>4. \A i \in 1 .. n + 1 : Reference(site, f, i) = Reference(site, h, i)
    <3> SUFFICES ASSUME NEW i \in 1 .. n + 1 PROVE Reference(site, f, i) = Reference(site, h, i)
      OBVIOUS
    <3>1. i \in 1 .. Len(Written(site).nodes) /\ \A j \in 1 .. i - 1 : f[j] = h[j]
      BY <1>1, <1>2, <2>3
    <3> QED BY <3>1, ReferenceLocal
  <2>5. f[n + 1] = Reference(site, h, n + 1)
    BY <2>2
  <2>6. \A i \in 1 .. n + 1 : i \in 1 .. n \/ i = n + 1
    OBVIOUS
  <2>7. \A i \in 1 .. n + 1 : f[i] = Reference(site, f, i)
    BY <2>3, <2>4, <2>5, <2>6
  <2>8. f = [i \in 1 .. n + 1 |-> f[i]]
    BY <2>2
  <2> QED BY <2>7, <2>8 DEF RefersTo
<1>6. N \in S
  BY <1>2, <1>4, <1>5, Upwards
<1>7. \E f : RefersTo(site, f, N)
  BY <1>2, <1>3, <1>6
<1>8. PICK D : D = DOMAIN Written(site).nodes
  OBVIOUS
<1>9. Mentioned(site) = CHOOSE f : f = [i \in D |-> Reference(site, f, i)]
  BY <1>8, Zenon DEF Mentioned
<1>10. \E f : f = [i \in D |-> Reference(site, f, i)]
  BY <1>2, <1>7, <1>8 DEF RefersTo
<1>11. Mentioned(site) = [i \in D |-> Reference(site, Mentioned(site), i)]
  BY <1>9, <1>10, Zenon
<1> QED BY <1>1, <1>2, <1>8, <1>11 DEF RefersTo

\* There is one such function.
LEMMA RefersUnique ==
  ASSUME NEW site, Written(site) \in FunctionNodes, NEW n, n = Len(Written(site).nodes),
         NEW f, NEW g, RefersTo(site, f, n), RefersTo(site, g, n)
  PROVE  f = g
<1>1. n \in Nat
  BY FunctionNode
<1>2. \A i \in 1 .. n : f[i] = Reference(site, f, i) /\ g[i] = Reference(site, g, i)
  BY DEF RefersTo
<1>3. ASSUME NEW x \in 1 .. n, f[x] # g[x] PROVE FALSE
  <2>1. PICK S : S = {i \in 1 .. n : f[i] # g[i]}
    OBVIOUS
  <2>2. S \in SUBSET Nat /\ S # {}
    BY <1>3, <2>1
  <2>3. PICK i : i \in S /\ \A j \in S : i <= j
    BY <2>2, LeastIs
  <2>4. i \in 1 .. n /\ f[i] # g[i]
    BY <2>1, <2>3
  <2>5. \A j \in 1 .. i - 1 : f[j] = g[j]
    BY <1>1, <2>1, <2>3, <2>4
  <2>6. Reference(site, f, i) = Reference(site, g, i)
    BY <2>4, <2>5, ReferenceLocal
  <2> QED BY <1>2, <2>4, <2>6
<1> QED BY <1>3 DEF RefersTo

(***************************************************************************)
(* Names.                                                                  *)
(***************************************************************************)
LEMMA GreatestIs ==
  ASSUME NEW n \in Nat, NEW S \in SUBSET (1 .. n), NEW x \in S, \A j \in S : j <= x
  PROVE  Latest(S) = x
<1>1. Latest(S) \in S /\ \A j \in S : j <= Latest(S)
  BY LatestIs
<1>2. Latest(S) \in 1 .. n /\ x \in 1 .. n
  BY <1>1
<1>3. Latest(S) <= x /\ x <= Latest(S)
  BY <1>1
<1> QED BY <1>2, <1>3

\* One class more is known.
LEMMA NextNamed ==
  ASSUME NEW name, NEW c \in Nat
  PROVE  ClassNamed(name, c + 1) = IF classes[c + 1].name = name THEN c + 1 ELSE ClassNamed(name, c)
<1>1. PICK S : S = {k \in 1 .. c + 1 : classes[k].name = name}
  OBVIOUS
<1>2. S \in SUBSET (1 .. c + 1) /\ c + 1 \in Nat /\ ClassNamed(name, c + 1) = Latest(S)
  BY <1>1 DEF ClassNamed
<1>3. CASE classes[c + 1].name = name
  <2>1. c + 1 \in S /\ \A j \in S : j <= c + 1
    BY <1>1, <1>3
  <2> QED BY <1>2, <1>3, <2>1, GreatestIs
<1>4. CASE classes[c + 1].name # name
  <2>1. \A k \in 1 .. c + 1 : k \in 1 .. c \/ k = c + 1
    OBVIOUS
  <2>2. S = {k \in 1 .. c : classes[k].name = name}
    BY <1>1, <1>4, <2>1
  <2> QED BY <1>2, <1>4, <2>2 DEF ClassNamed
<1> QED BY <1>3, <1>4

\* None is not the name of a class.
LEMMA NoneNamed ==
  ASSUME ProgramOK, NEW c \in 0 .. Len(classes)
  PROVE  ClassNamed(None, c) = 0
<1>1. c \in Nat /\ \A k \in 1 .. c : k \in 1 .. Len(classes)
  BY ProgramLengths
<1>2. \A k \in 1 .. c : classes[k].name # None
  BY <1>1, ClassNode, NoneAssumption
<1> QED BY <1>1, <1>2, ClassNamedIs

\* What a name means globally has that name, or is native.
LEMMA GloballyIs ==
  ASSUME NEW name, NEW c \in Nat, NEW f \in Nat
  PROVE  LET decl == Globally(name, c, f) IN
         \/ \E i \in 1 .. f : decl = <<0, i>> /\ functions[i].name = name
         \/ \E k \in 1 .. c : decl = <<k, 0>> /\ classes[k].name = name
         \/ decl \in {<<0, -1>>, <<0, -2>>, << >>}
<1>1. PICK S : S = {i \in 1 .. f : functions[i].name = name}
  OBVIOUS
<1>2. Latest(S) \in S \/ Latest(S) = 0
  BY <1>1, LatestIs
<1>3. ClassNamed(name, c) = 0 \/ (ClassNamed(name, c) \in 1 .. c /\ classes[ClassNamed(name, c)].name = name)
  BY ClassNamedIs
<1>4. Globally(name, c, f) =
        IF Latest(S) # 0 THEN <<0, Latest(S)>>
        ELSE IF ClassNamed(name, c) # 0 THEN <<ClassNamed(name, c), 0>>
        ELSE IF name \in {"printf", "NewRegion"} THEN <<0, IF name = "printf" THEN -1 ELSE -2>>
        ELSE << >>
  BY <1>1 DEF Globally, ClassNamed
<1> QED BY <1>1, <1>2, <1>3, <1>4

\* One function more is known.
LEMMA NextFunction ==
  ASSUME NEW name, NEW c, NEW f \in Nat
  PROVE  Globally(name, c, f + 1) = IF functions[f + 1].name = name THEN <<0, f + 1>> ELSE Globally(name, c, f)
<1>1. PICK S : S = {i \in 1 .. f + 1 : functions[i].name = name}
  OBVIOUS
<1>2. S \in SUBSET (1 .. f + 1) /\ f + 1 \in Nat
  BY <1>1
<1>3. CASE functions[f + 1].name = name
  <2>1. f + 1 \in S /\ \A j \in S : j <= f + 1
    BY <1>1, <1>3
  <2>2. Latest(S) = f + 1
    BY <1>2, <2>1, GreatestIs
  <2>3. Latest(S) # 0
    BY <2>2
  <2>4. Globally(name, c, f + 1) = <<0, Latest(S)>>
    BY <1>1, <2>3 DEF Globally
  <2> QED BY <1>3, <2>2, <2>4
<1>4. CASE functions[f + 1].name # name
  <2>1. \A i \in 1 .. f + 1 : i \in 1 .. f \/ i = f + 1
    OBVIOUS
  <2>2. S = {i \in 1 .. f : functions[i].name = name}
    BY <1>1, <1>4, <2>1
  <2> QED BY <1>1, <1>4, <2>2 DEF Globally
<1> QED BY <1>3, <1>4

\* One class more is known, and no function yet.
LEMMA NextClass ==
  ASSUME NEW name, NEW c \in Nat
  PROVE  Globally(name, c + 1, 0) = IF classes[c + 1].name = name THEN <<c + 1, 0>> ELSE Globally(name, c, 0)
<1>1. {i \in 1 .. 0 : functions[i].name = name} = {}
  OBVIOUS
<1>2. \A d : Globally(name, d, 0) =
        IF ClassNamed(name, d) # 0 THEN <<ClassNamed(name, d), 0>>
        ELSE IF name \in {"printf", "NewRegion"} THEN <<0, IF name = "printf" THEN -1 ELSE -2>>
        ELSE << >>
  BY <1>1 DEF Globally, ClassNamed, Latest
<1>3. ClassNamed(name, c + 1) = IF classes[c + 1].name = name THEN c + 1 ELSE ClassNamed(name, c)
  BY NextNamed
<1> QED BY <1>2, <1>3

(***************************************************************************)
(* How far codegen is.                                                     *)
(***************************************************************************)
InClass == local # Absent

\* The classes and functions that are complete.
ClassesDone   == IF InClass THEN Class - 1 ELSE Class
FunctionsDone == IF body # Absent /\ ~InClass THEN Done - 1 ELSE Done

LaidOut(k) == k < Class \/ ~InClass \/ local.laidOut

MembersOf(k) == classes[k].members

\* The members of a kind that codegen has not come to the end of.
Ahead(k, kind) ==
  IF ~(InClass /\ k = Class) THEN {}
  ELSE IF local.laidOut THEN IF kind = "fn" THEN local.todo ELSE {}
  ELSE IF kind = "fn" THEN Places(MembersOf(k), "fn") ELSE local.todo

Known(k, kind) == Places(MembersOf(k), kind) \ Ahead(k, kind)

KnownOf(k, kind, name) == {j \in Known(k, kind) : MembersOf(k)[j].name = name}

(***************************************************************************)
(* What describes a declaration.                                           *)
(***************************************************************************)
ReturnFits(ret, decl) ==
  IF ResultClass(decl) # 0 THEN ret = ClassType(ResultClass(decl), ret.region)
  ELSE ret.kind \in {"void", "int", "region"} /\ (decl = <<0, -1>> => ret = IntType(32)) /\ (decl = <<0, -2>> => ret.kind = "region")

\* A type of a function or of a method for a declaration.
CallFits(type, kind, decl) ==
  type.kind = kind /\ ReturnFits(type.ret, decl) /\ (type.native <=> decl = <<0, -1>>)

IsFn(code, decl) == code.op = "fn" /\ code.fn \in 1 .. Len(module) /\ module[code.fn].decl = decl

FunctionOK(v, decl) == CallFits(v.type, "function", decl) /\ v.width = 0 /\ IsFn(v.code, decl)

Plain == {"int", "string", "array", "region"}

\* The type of a field.
FieldFits(type, decl) ==
  IF Written(decl).op = "name" THEN Target(decl) # << >> /\ CallFits(type, "function", Target(decl))
  ELSE type.kind \in Plain

\* The value of a field.
FieldOK(k, j, v) ==
  LET op == MembersOf(k)[j].op IN
  /\ FieldFits(v.type, <<k, j>>)
  /\ v.type.kind = "int" => (v.width = StoreWidth(v.type.bits) <=> op \notin Comparisons \cup {"call"})
  /\ v.code.op \notin {"store", "init"}

(***************************************************************************)
(* The parts of the invariant.                                             *)
(***************************************************************************)
SupersInv ==
  /\ Class <= Len(classes)
  /\ \A k \in 1 .. Class : LET class == classTypes[k] IN
       /\ class = [super |-> class.super, children |-> class.children, functions |-> class.functions,
                   slots |-> class.slots, init |-> class.init]
       /\ class.super = SuperOf(k)
       /\ classes[k].super # None => class.super # 0
       /\ class.init \in 1 .. Len(module) /\ module[class.init].decl = <<k, 0>>
  /\ InClass => Class > 0 /\ local.region = classTypes[Class].init

TypesInv ==
  \A name : IF ClassNamed(name, ClassesDone) = 0 THEN name \notin DOMAIN global.types
            ELSE name \in DOMAIN global.types /\ global.types[name] = ClassNamed(name, ClassesDone)

ValuesInv ==
  \A name : LET decl == Globally(name, ClassesDone, FunctionsDone) IN
    IF decl = << >> THEN name \notin DOMAIN global.values
    ELSE name \in DOMAIN global.values /\ FunctionOK(global.values[name], decl)

TodoInv ==
  /\ InClass => LET kind == IF local.laidOut THEN "fn" ELSE "field" IN
       /\ Done = 0
       /\ local.laidOut \in BOOLEAN
       /\ local.todo \subseteq Places(MembersOf(Class), kind)
       /\ \A j \in Places(MembersOf(Class), kind) \ local.todo : \A i \in local.todo : j < i
  /\ body # Absent => IF InClass THEN local.laidOut /\ local.todo # {} ELSE Done > 0

MethodsInv ==
  /\ \A k \in 1 .. Class : \A name : LET known == KnownOf(k, "fn", name) IN
       IF known = {} THEN name \notin DOMAIN classTypes[k].functions
       ELSE /\ name \in DOMAIN classTypes[k].functions
            /\ FunctionOK(classTypes[k].functions[name], <<k, Latest(known)>>)
  /\ InClass => local.values = classTypes[Class].functions

VariablesInv ==
  InClass =>
    /\ \A i \in 1 .. Len(local.variables) : LET variable == local.variables[i] IN
         /\ variable = [name |-> variable.name, value |-> variable.value, field |-> variable.field]
         /\ variable.field \in Known(Class, "field") /\ variable.name = MembersOf(Class)[variable.field].name
         /\ FieldOK(Class, variable.field, variable.value)
    /\ \A i, j \in 1 .. Len(local.variables) : i < j => local.variables[i].field < local.variables[j].field
    /\ \A f \in Known(Class, "field") : \E i \in 1 .. Len(local.variables) : local.variables[i].field = f

\* The fields of a name.
FieldsOf(k, name) == {j \in Places(MembersOf(k), "field") : MembersOf(k)[j].name = name}

\* The field f of class k is stored at an index.
StoreOf(k, index, f, type) ==
  \E i \in StoresOf(k) :
    LET store == InitCode(k)[i] IN store.index = index /\ store.field = f /\ store.value.type = type

LayoutOK(k) ==
  LET class == classTypes[k]
      offset == Offset(class)
      last   == Len(class.slots) - 1
  IN
  /\ Len(class.slots) \in Nat
  /\ \A i \in StoresOf(k) : LET store == InitCode(k)[i] IN
       /\ store.index \in offset .. last /\ store.value.width = class.slots[store.index + 1]
       /\ store.field \in Places(MembersOf(k), "field") /\ FieldOK(k, store.field, store.value)
       /\ \A j \in StoresOf(k) : InitCode(k)[j].index = store.index => j = i
  /\ \A index \in offset .. last : \E i \in StoresOf(k) : InitCode(k)[i].index = index
  /\ \A name : IF FieldsOf(k, name) = {} THEN name \notin DOMAIN class.children
       ELSE /\ name \in DOMAIN class.children
            /\ class.children[name].index \in offset .. last
            /\ StoreOf(k, class.children[name].index, Latest(FieldsOf(k, name)), class.children[name].type)

LayoutInv ==
  \A k \in 1 .. Class :
    IF LaidOut(k) THEN LayoutOK(k)
    ELSE /\ classTypes[k].children = << >> /\ classTypes[k].functions = << >> /\ classTypes[k].slots = << >>
         /\ \A i \in DOMAIN InitCode(k) : InitCode(k)[i].op \notin {"store", "init"}

\* What items of a body are about exists.
ItemOK(item) ==
  \/ item.op = "fn" /\ item.fn \in 1 .. Len(module)
  \/ item.op = "field" /\ item.class \in 1 .. Class /\ LaidOut(item.class) /\ Len(item.path) \in 1 .. Len(Lineage[item.class])
  \/ item.op \in {"call", "nothing"}

Means(item, decl) == ItemOK(item) /\ Refers(item) = decl

InBody(id) == body # Absent /\ id = body.value.code.fn

\* The code of a body stands for what the nodes refer to.
BodyMeans(id) == \A i \in 1 .. Len(module[id].code) : Means(module[id].code[i], Mentioned(module[id].decl)[i])

BodiesInv ==
  \A id \in 1 .. Len(module) : module[id].decl[2] > 0 =>
    /\ IsSite(module[id].decl)
    /\ BodyMeans(id)
    /\ ~InBody(id) => Len(module[id].code) = Len(Written(module[id].decl).nodes)

Site == IF InClass THEN <<Class, Least(local.todo)>> ELSE <<0, Done>>

\* The type of the last value, for a declaration found through an instance of
\* region.
TypeMeans(type, decl, region) ==
  IF decl = << >> THEN type.kind = "null"
  ELSE IF IsField(decl) THEN FieldFits(type, decl)
  ELSE IF IsMethod(decl) THEN CallFits(type, "method", decl) /\ type.instance = region
  ELSE CallFits(type, "function", decl)

\* What a call makes.
ResultFits(type, decl, region) ==
  IF ResultClass(decl) # 0 THEN type.kind = "class" /\ type.class = ResultClass(decl) /\ type.region = region
  ELSE type.kind \in {"void", "int", "region"}

\* The type of the value of node n.
LastOK(nodes, decl, n, type, region) ==
  CASE nodes[n].kind = "call"  -> ResultFits(type, Target(decl[n - 1]), region)
    [] nodes[n].kind = "name"  -> TypeMeans(type, decl[n], "")
    [] nodes[n].kind = "child" -> TypeMeans(type, decl[n], region)

RetAccepted(site) == Written(site).ret \in BuiltIn \/ ClassNamed(Written(site).ret, KnownClasses(site)) # 0

\* A declaration that may be known where c classes are complete.
Before(decl, c) ==
  decl # << >> =>
    /\ decl = <<decl[1], decl[2]>> /\ decl[1] \in 0 .. c + 1 /\ decl[2] \in Int
    /\ decl[1] = c + 1 => decl[2] > 0
    /\ decl[1] > 0 => decl[2] >= 0
    /\ decl[1] = 0 /\ decl[2] > 0 => c = Len(classes)

BodyInv ==
  body # Absent =>
    LET id    == body.value.code.fn
        n     == Len(module[id].code)
        nodes == Written(Site).nodes
    IN /\ body = [value |-> body.value, region |-> body.region, todo |-> body.todo, last |-> body.last]
       /\ FunctionOK(body.value, Site)
       /\ body.region = IF InClass THEN "this" ELSE "fn_default"
       /\ IsList(body.todo) /\ Len(nodes) = n + Len(body.todo)
       /\ \A i \in 1 .. Len(body.todo) : body.todo[i] = nodes[n + i]
       /\ n > 0 => LastOK(nodes, Mentioned(Site), n, body.last.type, body.region)
       /\ \A i \in 1 .. n : NodeAccepted(nodes, Mentioned(Site), i) /\ Before(Mentioned(Site)[i], ClassesDone)
       /\ RetAccepted(Site)

MembersAccepted ==
  \A k \in 1 .. Class :
    /\ \A j \in Known(k, "field") : FieldAccepted(<<k, j>>)
    /\ \A j \in Known(k, "fn") : BodyAccepted(<<k, j>>)

FunctionsAccepted == \A i \in 1 .. FunctionsDone : BodyAccepted(<<0, i>>)

GenInv ==
  /\ SupersInv /\ TypesInv /\ ValuesInv /\ TodoInv /\ MethodsInv /\ VariablesInv /\ LayoutInv
  /\ BodiesInv /\ BodyInv /\ MembersAccepted /\ FunctionsAccepted

(***************************************************************************)
(* What a step leaves as it is.                                            *)
(***************************************************************************)

\* The module only grows.
Kept ==
  /\ UNCHANGED <<classes, functions>>
  /\ Len(module) \in Nat /\ Len(module') \in Nat /\ Len(module) <= Len(module')
  /\ \A id \in 1 .. Len(module) : module'[id].decl = module[id].decl

\* Classes that are laid out stay as they are.
Stable ==
  /\ Kept /\ Class \in Nat /\ Class' \in Nat /\ Class <= Class'
  /\ \A k \in 1 .. Class : LaidOut(k) =>
       /\ LaidOut(k)'
       /\ classTypes'[k].init = classTypes[k].init
       /\ classTypes'[k].super = classTypes[k].super
       /\ classTypes'[k].slots = classTypes[k].slots
       /\ classTypes'[k].children = classTypes[k].children
       /\ module'[classTypes[k].init].code = module[classTypes[k].init].code

\* What only depends on the program stays the same while code is generated.
LEMMA ProgramKept ==
  ASSUME UNCHANGED <<classes, functions>>
  PROVE  /\ \A name, c : ClassNamed(name, c)' = ClassNamed(name, c)
         /\ \A name, c, f : Globally(name, c, f)' = Globally(name, c, f)
         /\ \A k : MembersOf(k)' = MembersOf(k)
         /\ \A decl : Written(decl)' = Written(decl) /\ KnownClasses(decl)' = KnownClasses(decl)
         /\ Lineage' = Lineage
BY DEF ClassNamed, Globally, MembersOf, Written, KnownClasses, Lineage

\* So do the meanings of members.
LEMMA DeclarationsKept ==
  ASSUME UNCHANGED <<classes, functions>>
  PROVE  /\ \A decl : /\ IsField(decl)' = IsField(decl) /\ ResultClass(decl)' = ResultClass(decl)
                      /\ Target(decl)' = Target(decl)
         /\ \A name, k, u : AsMember(name, k, u)' = AsMember(name, k, u)
<1>1. \A decl : /\ IsField(decl)' = IsField(decl) /\ ResultClass(decl)' = ResultClass(decl)
                /\ Target(decl)' = Target(decl)
  BY DEF IsField, ResultClass, Target, Written, ClassNamed, Globally, KnownClasses
<1>2. \A name, k, u : OwnMember(name, k, u)' = OwnMember(name, k, u)
  BY DEF OwnMember
<1>3. Lineage' = Lineage
  BY ProgramKept
<1>4. \A name, k, u, d : MemberAt(name, k, u, d)' = MemberAt(name, k, u, d)
  BY <1>2, <1>3 DEF MemberAt
<1>5. \A name, k, u : Owners(name, k, u)' = Owners(name, k, u)
  BY <1>3, <1>4 DEF Owners
<1>6. \A name, k, u : AsMember(name, k, u)' = AsMember(name, k, u)
  BY <1>4, <1>5 DEF AsMember
<1> QED BY <1>1, <1>6

\* So does what an expression refers to, given the ones in front of it.
LEMMA ReferenceKept ==
  ASSUME UNCHANGED <<classes, functions>>
  PROVE  \A site, f, i : Reference(site, f, i)' = Reference(site, f, i)
<1>1. \A name, site : Meaning(name, site)' = Meaning(name, site)
  BY ProgramKept, DeclarationsKept DEF Meaning
<1> QED BY <1>1, ProgramKept, DeclarationsKept DEF Reference

\* So does what a body mentions.
LEMMA MentionedKept ==
  ASSUME UNCHANGED <<classes, functions>>, NEW site, Written(site) \in FunctionNodes
  PROVE  Mentioned(site)' = Mentioned(site)
<1>1. PICK n : n = Len(Written(site).nodes)
  OBVIOUS
<1>2. PICK f : f = Mentioned(site)
  OBVIOUS
<1>3. PICK g : g = Mentioned(site)'
  OBVIOUS
<1>4. Written(site)' = Written(site) /\ n \in Nat
  BY <1>1, ProgramKept, FunctionNode
<1>5. RefersTo(site, f, n)
  BY <1>1, <1>2, MentionedIs
<1>6. RefersTo(site, g, n)
  <2>1. (Written(site) \in FunctionNodes)'
    BY <1>4
  <2>2. RefersTo(site, Mentioned(site), Len(Written(site).nodes))'
    BY <2>1, MentionedIs, PTL
  <2>3. RefersTo(site, g, n)'
    BY <1>1, <1>3, <1>4, <2>2
  <2>4. \A i \in 1 .. n : Reference(site, g, i)' = Reference(site, g, i)
    BY ReferenceKept
  <2> QED BY <2>3, <2>4 DEF RefersTo
<1> QED BY <1>1, <1>2, <1>3, <1>5, <1>6, RefersUnique

\* So does what is accepted.
LEMMA AcceptedKept ==
  ASSUME ProgramOK, UNCHANGED <<classes, functions>>
  PROVE  /\ \A nodes, decl, i : NodeAccepted(nodes, decl, i)' = NodeAccepted(nodes, decl, i)
         /\ \A decl : /\ FieldAccepted(decl)' = FieldAccepted(decl)
                      /\ RetAccepted(decl)' = RetAccepted(decl)
                      /\ Written(decl) \in FunctionNodes => BodyAccepted(decl)' = BodyAccepted(decl)
         /\ Accepted' = Accepted
<1>1. \A nodes, decl, i : NodeAccepted(nodes, decl, i)' = NodeAccepted(nodes, decl, i)
  BY DEF NodeAccepted, Callable, Target, ResultClass, IsField, Written, ClassNamed, Globally, KnownClasses
<1>2. \A decl : FieldAccepted(decl)' = FieldAccepted(decl) /\ RetAccepted(decl)' = RetAccepted(decl)
  BY DEF FieldAccepted, RetAccepted, Written, ClassNamed, Globally, KnownClasses
<1>3. \A decl : Written(decl) \in FunctionNodes => BodyAccepted(decl)' = BodyAccepted(decl)
  BY <1>1, ProgramKept, MentionedKept DEF BodyAccepted
<1>4. Accepted' = Accepted
  <2>1. /\ \A i \in DOMAIN functions : Written(<<0, i>>) \in FunctionNodes
        /\ \A k \in DOMAIN classes : \A j \in DOMAIN classes[k].members :
             IsField(<<k, j>>) \/ Written(<<k, j>>) \in FunctionNodes
    BY WrittenNodes
  <2>2. /\ \A i \in DOMAIN functions : BodyAccepted(<<0, i>>)' = BodyAccepted(<<0, i>>)
        /\ \A k \in DOMAIN classes : \A j \in DOMAIN classes[k].members :
             ~IsField(<<k, j>>) => BodyAccepted(<<k, j>>)' = BodyAccepted(<<k, j>>)
    BY <1>3, <2>1
  <2> QED BY <1>2, <2>2, ProgramKept, DeclarationsKept DEF Accepted
<1> QED BY <1>1, <1>2, <1>3, <1>4

\* So does which types fit a declaration.
LEMMA ReturnKept ==
  ASSUME UNCHANGED <<classes, functions>>
  PROVE  /\ \A ret, decl : ReturnFits(ret, decl)' = ReturnFits(ret, decl)
         /\ \A type, kind, decl : CallFits(type, kind, decl)' = CallFits(type, kind, decl)
         /\ \A type, decl : FieldFits(type, decl)' = FieldFits(type, decl)
         /\ \A k, j, v : FieldOK(k, j, v)' = FieldOK(k, j, v)
         /\ \A type, decl, region : /\ TypeMeans(type, decl, region)' = TypeMeans(type, decl, region)
                                    /\ ResultFits(type, decl, region)' = ResultFits(type, decl, region)
<1>1. \A ret, decl : ReturnFits(ret, decl)' = ReturnFits(ret, decl)
  BY DeclarationsKept DEF ReturnFits
<1>2. \A type, kind, decl : CallFits(type, kind, decl)' = CallFits(type, kind, decl)
  BY <1>1 DEF CallFits
<1>3. \A type, decl : FieldFits(type, decl)' = FieldFits(type, decl)
  BY <1>2, ProgramKept, DeclarationsKept DEF FieldFits
<1>4. \A k, j, v : FieldOK(k, j, v)' = FieldOK(k, j, v)
  BY <1>3, ProgramKept DEF FieldOK
<1>5. \A type, decl, region : TypeMeans(type, decl, region)' = TypeMeans(type, decl, region)
  BY <1>2, <1>3, DeclarationsKept DEF TypeMeans
<1>6. \A type, decl, region : ResultFits(type, decl, region)' = ResultFits(type, decl, region)
  BY DeclarationsKept DEF ResultFits
<1> QED BY <1>1, <1>2, <1>3, <1>4, <1>5, <1>6

\* A value that stands for a function still does in a longer module.
LEMMA FunctionKept ==
  ASSUME Kept
  PROVE  /\ \A code, decl : IsFn(code, decl) => IsFn(code, decl)'
         /\ \A v, decl : FunctionOK(v, decl) => FunctionOK(v, decl)'
<1>1. UNCHANGED <<classes, functions>>
  BY DEF Kept
<1>2. \A code, decl : IsFn(code, decl) => IsFn(code, decl)'
  BY DEF IsFn, Kept
<1>3. \A v, decl : FunctionOK(v, decl) => FunctionOK(v, decl)'
  BY <1>1, <1>2, ReturnKept DEF FunctionOK
<1> QED BY <1>2, <1>3

\* The layout of a class stays right while the module grows.
LEMMA LayoutKept ==
  ASSUME Stable, NEW k \in 1 .. Class, LaidOut(k), LayoutOK(k)
  PROVE  LayoutOK(k)'
<1>1. /\ UNCHANGED <<classes, functions>> /\ classTypes'[k].init = classTypes[k].init
      /\ classTypes'[k].super = classTypes[k].super
      /\ classTypes'[k].slots = classTypes[k].slots
      /\ classTypes'[k].children = classTypes[k].children
      /\ module'[classTypes[k].init].code = module[classTypes[k].init].code
  BY DEF Stable, Kept
<1>2. InitCode(k)' = InitCode(k) /\ Offset(classTypes[k])' = Offset(classTypes[k])
  BY <1>1 DEF InitCode, Offset
<1>3. StoresOf(k)' = StoresOf(k) /\ MembersOf(k)' = MembersOf(k)
  BY <1>1, <1>2 DEF StoresOf, MembersOf
<1>4. \A index, f, type : StoreOf(k, index, f, type)' = StoreOf(k, index, f, type)
  BY <1>2, <1>3 DEF StoreOf
<1>5. \A name : FieldsOf(k, name)' = FieldsOf(k, name)
  BY <1>3 DEF FieldsOf
<1>6. \A j, v : FieldOK(k, j, v)' = FieldOK(k, j, v)
  BY <1>1, ReturnKept
<1>7. LayoutOK(k)' = LayoutOK(k)
  BY <1>1, <1>2, <1>3, <1>4, <1>5, <1>6 DEF LayoutOK
<1> QED BY <1>7

\* The chains of the classes that are known stay as they are.
LEMMA ChainIs ==
  ASSUME ProgramOK, Class \in Nat, SupersInv
  PROVE  \A k \in 0 .. Class : Chain[k] = Lineage[k]
<1>1. \A k \in 1 .. Class : classTypes[k].super = SuperOf(k)
  BY DEF SupersInv, SuperOf
<1>2. Class <= Len(classes) /\ Len(classes) \in Nat
  BY ProgramLengths DEF SupersInv
<1> QED BY <1>1, <1>2, ChainIsLineage

\* What an item of code means stays the same while the module grows.
LEMMA MeansKept ==
  ASSUME ProgramOK, SupersInv, SupersInv', Stable, NEW item, NEW decl, Means(item, decl)
  PROVE  Means(item, decl)'
<1>1. ItemOK(item) /\ Refers(item) = decl /\ Kept
  BY DEF Means, Stable
<1>2. ProgramOK'
  BY DEF ProgramOK, Stable, Kept
<1>3. Lineage' = Lineage
  BY <1>1, ProgramKept DEF Kept
<1>4. CASE item.op = "fn"
  BY <1>1, <1>4 DEF Means, ItemOK, Refers, Kept
<1>5. CASE item.op = "field"
  <2>1. item.class \in 1 .. Class /\ LaidOut(item.class) /\ Len(item.path) \in 1 .. Len(Lineage[item.class])
    BY <1>1, <1>5 DEF ItemOK
  <2>2. PICK c : c = item.class
    OBVIOUS
  <2>3. Class \in Nat /\ Class' \in Nat /\ Class <= Class' /\ c \in 1 .. Class'
    BY <2>1, <2>2 DEF Stable
  <2>4. ItemOK(item)'
    BY <1>3, <1>5, <2>1, <2>2, <2>3 DEF ItemOK, Stable
  <2>5. Chain[c] = Lineage[c] /\ Chain'[c] = Lineage[c]
    <3>1. \A k \in 0 .. Class : Chain[k] = Lineage[k]
      BY <2>3, ChainIs
    <3>2. (\A k \in 0 .. Class : Chain[k] = Lineage[k])'
      <4>1. (Class \in Nat)'
        BY <2>3
      <4> QED BY <1>2, <4>1, ChainIs, PTL
    <3> QED BY <1>3, <2>1, <2>2, <2>3, <3>1, <3>2
  <2>6. PICK k : k = Lineage[c][Len(item.path)]
    OBVIOUS
  <2>7. k \in 1 .. c
    <3>1. c \in 0 .. Len(classes)
      <4>1. Class <= Len(classes) /\ Len(classes) \in Nat
        BY ProgramLengths DEF SupersInv
      <4> QED BY <2>1, <2>2, <2>3, <4>1
    <3>2. IsLine(Lineage[c], c)
      BY <3>1, LineageLists, ProgramLengths
    <3> QED BY <2>1, <2>2, <2>6, <3>2 DEF IsLine
  <2>8. k \in 1 .. Class /\ LaidOut(k)
    BY <2>1, <2>2, <2>3, <2>7 DEF LaidOut
  <2>9. InitCode(k)' = InitCode(k)
    BY <2>8 DEF InitCode, Stable
  <2>10. StoresOf(k)' = StoresOf(k)
    BY <2>9 DEF StoresOf
  <2>11. StoredAt(item.class, item.path)' = StoredAt(item.class, item.path)
    BY <2>2, <2>5, <2>6, <2>9, <2>10 DEF StoredAt
  <2> QED BY <1>1, <1>5, <2>4, <2>11 DEF Means, Refers
<1>6. CASE item.op \in {"call", "nothing"}
  BY <1>1, <1>6 DEF Means, ItemOK, Refers
<1> QED BY <1>1, <1>4, <1>5, <1>6 DEF ItemOK

(***************************************************************************)
(* The beginning.                                                          *)
(***************************************************************************)
LEMMA InitGenInv ==
  ASSUME GenInit, ProgramOK
  PROVE  GenInv
<1>1. /\ DOMAIN Natives = 1 .. 4 /\ local = Absent /\ body = Absent /\ Class = 0 /\ Class \in Nat
      /\ global.types = << >> /\ ~InClass
  BY EmptyList DEF Natives, GenInit, Class, InClass
<1>2. PICK m : m = [i \in 1 .. 4 |-> [name |-> Natives[i], decl |-> <<0, -i>>, code |-> << >>]]
  OBVIOUS
<1>3. module = m
  BY <1>1, <1>2 DEF GenInit
<1>4. Len(m) = 4 /\ DOMAIN m = 1 .. 4 /\ \A i \in 1 .. 4 : m[i].decl = <<0, -i>>
  BY <1>2
<1>5. Done = 0
  <2>1. HandlesInv
    BY InitHandlesInv
  <2>2. FunctionIds(module) = {}
    BY <1>3, <1>4 DEF FunctionIds
  <2> QED BY <2>1, <2>2, CountIs DEF HandlesInv
<1>6. ClassesDone = 0 /\ FunctionsDone = 0 /\ \A name : ClassNamed(name, 0) = 0
  <2>1. \A name : ClassNamed(name, 0) \in 0 .. 0
    BY ClassNamedIs
  <2> QED BY <1>1, <1>5, <2>1 DEF ClassesDone, FunctionsDone, InClass
<1>7. SupersInv
  BY <1>1, ProgramLengths DEF SupersInv
<1>8. TypesInv
  BY <1>1, <1>6 DEF TypesInv
<1>9. ValuesInv
  <2>1. global.values = [printf    |-> FunctionValue(1, IntType(32), TRUE),
                         NewRegion |-> FunctionValue(2, RegionType, FALSE)]
    BY DEF GenInit
  <2>2. /\ DOMAIN global.values = {"printf", "NewRegion"}
        /\ global.values["printf"] = FunctionValue(1, IntType(32), TRUE)
        /\ global.values["NewRegion"] = FunctionValue(2, RegionType, FALSE)
    BY <2>1
  <2>3. PICK a, b : a = <<0, -1>> /\ b = <<0, -2>>
    OBVIOUS
  <2>4. a # b /\ a # << >> /\ b # << >> /\ a[2] = -1 /\ b[2] = -2
    BY <2>3
  <2>5. \A name : Globally(name, 0, 0) = IF name \in {"printf", "NewRegion"} THEN IF name = "printf" THEN a ELSE b
                                         ELSE << >>
    <3>1. {i \in 1 .. 0 : functions[i].name = "a"} = {} /\ \A name : {i \in 1 .. 0 : functions[i].name = name} = {}
      OBVIOUS
    <3>2. \A name : Globally(name, 0, 0) =
            IF ClassNamed(name, 0) # 0 THEN <<ClassNamed(name, 0), 0>>
            ELSE IF name \in {"printf", "NewRegion"} THEN <<0, IF name = "printf" THEN -1 ELSE -2>>
            ELSE << >>
      BY <3>1 DEF Globally, ClassNamed, Latest
    <3> QED BY <1>6, <2>3, <3>2
  <2>6. ResultClass(a) = 0 /\ ResultClass(b) = 0
    BY <2>4 DEF ResultClass
  <2>7. FunctionOK(FunctionValue(1, IntType(32), TRUE), a)
    BY <1>3, <1>4, <2>3, <2>4, <2>6 DEF FunctionOK, CallFits, ReturnFits, IsFn, FunctionValue, Pointer, IntType
  <2>8. FunctionOK(FunctionValue(2, RegionType, FALSE), b)
    BY <1>3, <1>4, <2>3, <2>4, <2>6 DEF FunctionOK, CallFits, ReturnFits, IsFn, FunctionValue, Pointer, RegionType
  <2> QED BY <1>6, <2>2, <2>4, <2>5, <2>7, <2>8 DEF ValuesInv
<1>10. TodoInv /\ MethodsInv /\ VariablesInv /\ LayoutInv /\ BodyInv /\ MembersAccepted
  BY <1>1 DEF TodoInv, MethodsInv, VariablesInv, LayoutInv, BodyInv, MembersAccepted
<1>11. BodiesInv
  BY <1>3, <1>4 DEF BodiesInv
<1>12. FunctionsAccepted
  BY <1>6 DEF FunctionsAccepted
<1> QED BY <1>7, <1>8, <1>9, <1>10, <1>11, <1>12 DEF GenInv

(***************************************************************************)
(* What getChild finds.                                                    *)
(***************************************************************************)
LEMMA FieldsAre ==
  ASSUME ProgramOK, NEW k \in 1 .. Len(classes), NEW name, FieldsOf(k, name) # {}
  PROVE  /\ Latest(FieldsOf(k, name)) \in Places(MembersOf(k), "field")
         /\ Latest(FieldsOf(k, name)) \in FieldsOf(k, name)
         /\ IsField(<<k, Latest(FieldsOf(k, name))>>)
<1>1. PICK S : S = FieldsOf(k, name)
  OBVIOUS
<1>2. S \in SUBSET (1 .. Len(MembersOf(k))) /\ Len(MembersOf(k)) \in Nat
  BY <1>1, MemberNode DEF FieldsOf, Places, MembersOf
<1>3. Latest(S) \in S
  BY <1>1, <1>2, LatestIs
<1>4. Latest(S) \in Places(MembersOf(k), "field")
  BY <1>1, <1>3 DEF FieldsOf
<1>5. k \in DOMAIN classes /\ Latest(S) \in DOMAIN classes[k].members
  BY <1>4, MemberNode DEF ProgramOK, Places, MembersOf
<1>6. IsField(<<k, Latest(S)>>)
  BY <1>4, <1>5, WrittenNodes, MemberNode DEF MembersOf
<1> QED BY <1>1, <1>3, <1>4, <1>6

\* The known method of a name is a method.
LEMMA KnownAre ==
  ASSUME ProgramOK, NEW k \in 1 .. Len(classes), NEW name, KnownOf(k, "fn", name) # {}
  PROVE  /\ Latest(KnownOf(k, "fn", name)) \in Places(MembersOf(k), "fn")
         /\ Latest(KnownOf(k, "fn", name)) \in KnownOf(k, "fn", name)
         /\ ~IsField(<<k, Latest(KnownOf(k, "fn", name))>>)
         /\ IsMethod(<<k, Latest(KnownOf(k, "fn", name))>>)
<1>1. PICK S : S = KnownOf(k, "fn", name)
  OBVIOUS
<1>2. S \in SUBSET (1 .. Len(MembersOf(k))) /\ Len(MembersOf(k)) \in Nat
  BY <1>1, MemberNode DEF KnownOf, Known, Places, MembersOf
<1>3. Latest(S) \in S
  BY <1>1, <1>2, LatestIs
<1>4. Latest(S) \in Places(MembersOf(k), "fn")
  BY <1>1, <1>3 DEF KnownOf, Known
<1>5. k \in DOMAIN classes /\ Latest(S) \in DOMAIN classes[k].members
  BY <1>4, MemberNode DEF ProgramOK, Places, MembersOf
<1>6. ~IsField(<<k, Latest(S)>>)
  BY <1>4, <1>5, WrittenNodes DEF MembersOf
<1>7. IsMethod(<<k, Latest(S)>>)
  <2>1. PICK n, l : n = Len(classes) /\ l = Latest(S) /\ n \in Nat
    BY ProgramLengths
  <2>2. PICK m : m = Len(MembersOf(k)) /\ m \in Nat
    BY <1>2
  <2>3. l \in 1 .. m
    BY <1>2, <1>3, <2>1, <2>2
  <2>4. k \in Nat /\ k > 0 /\ Latest(S) \in Nat /\ Latest(S) > 0
    BY <2>1, <2>2, <2>3
  <2> QED BY <2>4 DEF IsMethod
<1> QED BY <1>1, <1>3, <1>4, <1>6, <1>7

\* Of the methods of class k those before u are known, or all if u is 0.
KnownBefore(k, u) == \A j \in Places(MembersOf(k), "fn") : j \notin Ahead(k, "fn") <=> (u > 0 => j < u)

\* The tables of a class have what it has itself.
LEMMA OwnIs ==
  ASSUME ProgramOK, SupersInv, MethodsInv, LayoutInv,
         NEW k \in 1 .. Class, Class \in Nat, LaidOut(k), NEW name, NEW u, KnownBefore(k, u)
  PROVE  LET own == OwnMember(name, k, u) IN
         /\ Has(k, name) <=> own # << >>
         /\ name \in DOMAIN classTypes[k].children =>
              /\ own = <<k, Latest(FieldsOf(k, name))>> /\ FieldsOf(k, name) # {}
         /\ own # << >> /\ name \notin DOMAIN classTypes[k].children =>
              /\ own = <<k, Latest(KnownOf(k, "fn", name))>> /\ KnownOf(k, "fn", name) # {}
              /\ FunctionOK(classTypes[k].functions[name], own)
<1>1. PICK own : own = OwnMember(name, k, u)
  OBVIOUS
<1>2. PICK F, M : F = FieldsOf(k, name) /\ M = KnownOf(k, "fn", name)
  OBVIOUS
<1>3. M = {j \in Places(MembersOf(k), "fn") : MembersOf(k)[j].name = name /\ (u > 0 => j < u)}
  BY <1>2 DEF KnownOf, Known, KnownBefore
<1>4. own = IF F # {} THEN <<k, Latest(F)>> ELSE IF M # {} THEN <<k, Latest(M)>> ELSE << >>
  BY <1>1, <1>2, <1>3 DEF OwnMember, FieldsOf, MembersOf
<1>5. IF F = {} THEN name \notin DOMAIN classTypes[k].children ELSE name \in DOMAIN classTypes[k].children
  BY <1>2 DEF LayoutInv, LayoutOK
<1>6. IF M = {} THEN name \notin DOMAIN classTypes[k].functions
      ELSE name \in DOMAIN classTypes[k].functions /\ FunctionOK(classTypes[k].functions[name], <<k, Latest(M)>>)
  BY <1>2 DEF MethodsInv
<1>7. \A x : <<k, x>> # << >>
  OBVIOUS
<1> QED BY <1>1, <1>2, <1>4, <1>5, <1>6, <1>7 DEF Has

\* A field is where the store is.
LEMMA StoredIs ==
  ASSUME ProgramOK, HandlesInv, SupersInv, LayoutInv, NEW k \in 1 .. Class, Class \in Nat, LaidOut(k), NEW name,
         name \in DOMAIN classTypes[k].children,
         NEW c, NEW path, Chain[c][Len(path)] = k, path[Len(path)] = classTypes[k].children[name].index
  PROVE  /\ StoredAt(c, path) = <<k, Latest(FieldsOf(k, name))>>
         /\ FieldFits(classTypes[k].children[name].type, <<k, Latest(FieldsOf(k, name))>>)
<1>1. PICK index, f, type : /\ index = classTypes[k].children[name].index
                            /\ f = Latest(FieldsOf(k, name)) /\ type = classTypes[k].children[name].type
  OBVIOUS
<1>2. LayoutOK(k)
  BY DEF LayoutInv
<1>3. StoreOf(k, index, f, type)
  BY <1>1, <1>2 DEF LayoutOK
<1>4. PICK i \in StoresOf(k) : InitCode(k)[i].index = index /\ InitCode(k)[i].field = f
                              /\ InitCode(k)[i].value.type = type
  BY <1>3 DEF StoreOf
<1>5. StoresOf(k) \in SUBSET (1 .. Len(InitCode(k))) /\ Len(InitCode(k)) \in Nat
  <2>1. classTypes[k].init \in 1 .. Len(module)
    BY DEF SupersInv
  <2>2. IsList(InitCode(k))
    BY <2>1 DEF HandlesInv, IsModule, IsFunction, IsCode, InitCode
  <2> QED BY <2>2, ListDomain DEF StoresOf
<1>6. \A j \in StoresOf(k) : InitCode(k)[j].index = index => j = i
  BY <1>2, <1>4 DEF LayoutOK
<1>7. PICK S : S = {n \in StoresOf(k) : InitCode(k)[n].index = index}
  OBVIOUS
<1>8. S \in SUBSET (1 .. Len(InitCode(k))) /\ i \in S /\ \A j \in S : j <= i
  <2>1. S = {i}
    BY <1>4, <1>6, <1>7
  <2> QED BY <1>5, <2>1
<1>9. Latest(S) = i /\ i # 0
  <2>1. PICK n : n = Len(InitCode(k)) /\ n \in Nat
    BY <1>5
  <2>2. S \in SUBSET (1 .. n)
    BY <1>8, <2>1
  <2>3. Latest(S) = i
    BY <1>8, <2>1, <2>2, GreatestIs
  <2>4. i \in 1 .. n
    BY <1>8, <2>2
  <2> QED BY <2>1, <2>3, <2>4
<1>10. StoredAt(c, path) = <<k, InitCode(k)[i].field>>
  BY <1>1, <1>7, <1>9 DEF StoredAt
<1>11. FieldOK(k, f, InitCode(k)[i].value)
  BY <1>2, <1>4 DEF LayoutOK
<1> QED BY <1>1, <1>4, <1>10, <1>11 DEF FieldOK

\* What a name or a child is, given what it should mean.
Found(r, decl, region) ==
  IF decl = << >> THEN r = Null
  ELSE ~Fails(r) /\ ~IsNull(r) /\ TypeMeans(r.type, decl, region) /\ Means(r.code, decl)

\* Types of declarations are neither errors nor null.
LEMMA TypeMeansNoFailure ==
  ASSUME NEW r, NEW decl, NEW region, decl # << >>, TypeMeans(r.type, decl, region)
  PROVE  ~Fails(r) /\ ~IsNull(r)
<1>1. r.type.kind \in {"function", "method"} \cup Plain
  BY DEF TypeMeans, FieldFits, CallFits
<1> QED BY <1>1 DEF Fails, IsNull, Plain

\* The classes that class c consists of, and what is known of them.
LEMMA LineOf ==
  ASSUME ProgramOK, SupersInv, Class \in Nat, NEW c \in 1 .. Class, LaidOut(c), NEW u, KnownBefore(c, u)
  PROVE  /\ Chain[c] = Lineage[c] /\ IsLine(Lineage[c], c)
         /\ Len(Lineage[c]) \in Nat /\ DOMAIN Lineage[c] = 1 .. Len(Lineage[c])
         /\ \A d \in 1 .. Len(Lineage[c]) :
              /\ Lineage[c][d] \in 1 .. Class /\ LaidOut(Lineage[c][d])
              /\ KnownBefore(Lineage[c][d], IF d = 1 THEN u ELSE 0)
<1>1. PICK n : n = Class /\ n \in Nat
  OBVIOUS
<1>2. PICK m : m = Len(classes) /\ m \in Nat /\ n <= m
  BY <1>1, ProgramLengths DEF SupersInv
<1>3. Chain[c] = Lineage[c] /\ c \in 0 .. m
  BY <1>1, <1>2, ChainIs
<1>4. PICK L : L = Lineage[c]
  OBVIOUS
<1>5. IsLine(L, c)
  BY <1>2, <1>3, <1>4, LineageLists
<1>6. Len(L) \in Nat /\ DOMAIN L = 1 .. Len(L)
  BY <1>5, ListDomain DEF IsLine
<1>7. ASSUME NEW d \in 1 .. Len(L)
      PROVE  L[d] \in 1 .. Class /\ LaidOut(L[d]) /\ KnownBefore(L[d], IF d = 1 THEN u ELSE 0)
  <2>1. CASE d = 1
    <3>1. L[1] = c
      BY <1>1, <1>5 DEF IsLine
    <3> QED BY <2>1, <3>1
  <2>2. CASE d # 1
    <3>1. L[d] \in 1 .. c /\ L[d] < c
      BY <1>5, <1>6, <2>2 DEF IsLine
    <3>2. L[d] \in 1 .. n /\ L[d] < n
      BY <1>1, <3>1
    <3>3. Ahead(L[d], "fn") = {}
      BY <1>1, <3>2 DEF Ahead
    <3>4. KnownBefore(L[d], 0)
      BY <3>3 DEF KnownBefore
    <3> QED BY <1>1, <2>2, <3>2, <3>4 DEF LaidOut
  <2> QED BY <2>1, <2>2
<1> QED BY <1>3, <1>4, <1>5, <1>6, <1>7

\* A class has a child of a name where the language says it has one.
LEMMA OwnersAre ==
  ASSUME ProgramOK, SupersInv, MethodsInv, LayoutInv, Class \in Nat,
         NEW c \in 1 .. Class, LaidOut(c), NEW u, KnownBefore(c, u), NEW name
  PROVE  {d \in DOMAIN Chain[c] : Has(Chain[c][d], name)} = Owners(name, c, u)
<1>1. /\ Chain[c] = Lineage[c] /\ DOMAIN Lineage[c] = 1 .. Len(Lineage[c])
      /\ \A d \in 1 .. Len(Lineage[c]) :
           /\ Lineage[c][d] \in 1 .. Class /\ LaidOut(Lineage[c][d])
           /\ KnownBefore(Lineage[c][d], IF d = 1 THEN u ELSE 0)
  BY LineOf
<1>2. ASSUME NEW d \in DOMAIN Lineage[c] PROVE Has(Lineage[c][d], name) <=> MemberAt(name, c, u, d) # << >>
  <2>1. PICK k, w : k = Lineage[c][d] /\ w = IF d = 1 THEN u ELSE 0
    OBVIOUS
  <2>2. k \in 1 .. Class /\ LaidOut(k) /\ KnownBefore(k, w)
    BY <1>1, <2>1
  <2>3. Has(k, name) <=> OwnMember(name, k, w) # << >>
    BY <2>2, OwnIs
  <2> QED BY <2>1, <2>3 DEF MemberAt
<1> QED BY <1>1, <1>2 DEF Owners

\* The field of a name that getChild finds in class k, place d of what class c
\* consists of.
LEMMA FieldFound ==
  ASSUME ProgramOK, HandlesInv, SupersInv, MethodsInv, LayoutInv, Class \in Nat,
         NEW c \in 1 .. Class, LaidOut(c), NEW d \in Nat, d \in 1 .. Len(Lineage[c]), Chain[c] = Lineage[c],
         NEW k \in 1 .. Class, k = Lineage[c][d], LaidOut(k), NEW u, KnownBefore(k, u), NEW name,
         name \in DOMAIN classTypes[k].children,
         NEW r, NEW path, Len(path) = d, path[d] = classTypes[k].children[name].index,
         r.type = classTypes[k].children[name].type, r.code.op = "field", r.code.class = c, r.code.path = path,
         NEW region
  PROVE  Found(r, OwnMember(name, k, u), region) /\ OwnMember(name, k, u) # << >> /\ IsField(OwnMember(name, k, u))
<1>1. PICK decl : decl = OwnMember(name, k, u)
  OBVIOUS
<1>2. decl = <<k, Latest(FieldsOf(k, name))>> /\ FieldsOf(k, name) # {}
  BY <1>1, OwnIs
<1>3. StoredAt(c, path) = decl /\ FieldFits(classTypes[k].children[name].type, decl)
  <2>1. Chain[c][Len(path)] = k /\ path[Len(path)] = classTypes[k].children[name].index
    OBVIOUS
  <2>2. /\ StoredAt(c, path) = <<k, Latest(FieldsOf(k, name))>>
        /\ FieldFits(classTypes[k].children[name].type, <<k, Latest(FieldsOf(k, name))>>)
    BY <2>1, StoredIs, SMTT(30)
  <2> QED BY <1>2, <2>2
<1>4. IsField(decl) /\ decl # << >>
  <2>1. k \in 1 .. Len(classes)
    BY ProgramLengths DEF SupersInv
  <2> QED BY <1>2, <2>1, FieldsAre
<1>5. Means(r.code, decl)
  BY <1>3 DEF Means, ItemOK, Refers
<1>6. TypeMeans(r.type, decl, region)
  BY <1>3, <1>4 DEF TypeMeans
<1> QED BY <1>1, <1>4, <1>5, <1>6, TypeMeansNoFailure DEF Found

\* The method of a name.
LEMMA MethodFound ==
  ASSUME ProgramOK, SupersInv, MethodsInv, LayoutInv, Class \in Nat,
         NEW k \in 1 .. Class, LaidOut(k), NEW u, KnownBefore(k, u), NEW name,
         name \notin DOMAIN classTypes[k].children, Has(k, name),
         NEW r, NEW region,
         r = Pointer([kind |-> "method", ret |-> classTypes[k].functions[name].type.ret, native |-> FALSE, instance |-> region],
                     [op |-> "fn", fn |-> classTypes[k].functions[name].code.fn])
  PROVE  Found(r, OwnMember(name, k, u), region)
<1>1. PICK decl : decl = OwnMember(name, k, u)
  OBVIOUS
<1>2. PICK f : f = classTypes[k].functions[name]
  OBVIOUS
<1>3. decl # << >> /\ decl = <<k, Latest(KnownOf(k, "fn", name))>> /\ KnownOf(k, "fn", name) # {} /\ FunctionOK(f, decl)
  BY <1>1, <1>2, OwnIs
<1>4. k \in 1 .. Len(classes) /\ k \in Nat /\ k > 0
  BY ProgramLengths DEF SupersInv
<1>5. IsMethod(decl) /\ ~IsField(decl)
  BY <1>3, <1>4, KnownAre
<1>6. r.type = [kind |-> "method", ret |-> f.type.ret, native |-> FALSE, instance |-> region]
      /\ r.code = [op |-> "fn", fn |-> f.code.fn]
  BY <1>2 DEF Pointer
<1>7. decl # <<0, -1>>
  BY <1>3, <1>4
<1>8. TypeMeans(r.type, decl, region)
  <2>1. ReturnFits(f.type.ret, decl)
    BY <1>3 DEF FunctionOK, CallFits
  <2>2. /\ r.type.kind = "method" /\ r.type.ret = f.type.ret /\ r.type.native = FALSE
        /\ r.type.instance = region
    BY <1>6, SMTT(30)
  <2>3. CallFits(r.type, "method", decl)
    BY <1>7, <2>1, <2>2 DEF CallFits
  <2> QED BY <1>3, <1>5, <2>2, <2>3 DEF TypeMeans
<1>9. Means(r.code, decl)
  <2>1. PICK id : id = f.code.fn
    OBVIOUS
  <2>2. id \in 1 .. Len(module) /\ module[id].decl = decl
    BY <1>3, <2>1 DEF FunctionOK, IsFn
  <2>3. r.code.op = "fn" /\ r.code.fn = id
    BY <1>6, <2>1, SMTT(30)
  <2> QED BY <2>2, <2>3 DEF Means, ItemOK, Refers
<1> QED BY <1>1, <1>3, <1>8, <1>9, TypeMeansNoFailure DEF Found

\* getChild finds what a name means as a member.
LEMMA ChildIs ==
  ASSUME ProgramOK, HandlesInv, SupersInv, MethodsInv, LayoutInv, Class \in Nat,
         NEW c \in 1 .. Class, LaidOut(c), NEW u, KnownBefore(c, u), NEW name,
         NEW v, v.type.kind = "class", v.type.class = c
  PROVE  LET decl == AsMember(name, c, u)
             r    == getChild(v, name)
         IN /\ Found(r, decl, v.type.region)
            /\ decl # << >> /\ IsField(decl) =>
                 r.code.op = "field" /\ r.code.class = c /\ Len(r.code.path) = Least(Owners(name, c, u))
<1>1. PICK decl, r : decl = AsMember(name, c, u) /\ r = getChild(v, name)
  OBVIOUS
<1>2. PICK L, owners : L = Lineage[c] /\ owners = Owners(name, c, u)
  OBVIOUS
<1>3. /\ Chain[c] = L /\ DOMAIN L = 1 .. Len(L) /\ Len(L) \in Nat
      /\ \A d \in 1 .. Len(L) :
           /\ L[d] \in 1 .. Class /\ LaidOut(L[d])
           /\ KnownBefore(L[d], IF d = 1 THEN u ELSE 0)
  BY <1>2, LineOf
<1>4. owners = {d \in DOMAIN L : Has(L[d], name)}
  BY <1>2, <1>3, OwnersAre
<1>5. ~Fails(v)
  BY DEF Fails
<1>6. CASE owners = {}
  <2>1. decl = << >>
    BY <1>1, <1>2, <1>6 DEF AsMember
  <2>2. r = Null
    BY <1>1, <1>3, <1>4, <1>5, <1>6 DEF getChild
  <2> QED BY <1>1, <2>1, <2>2 DEF Found
<1>7. CASE owners # {}
  <2>1. PICK d : d = Least(owners)
    OBVIOUS
  <2>2. d \in owners /\ d \in 1 .. Len(L) /\ d \in Nat /\ Has(L[d], name)
    <3>1. owners \in SUBSET Nat
      BY <1>3, <1>4
    <3>2. d \in owners
      BY <1>7, <2>1, <3>1, LeastIs
    <3> QED BY <1>3, <1>4, <3>1, <3>2
  <2>3. PICK k, w : k = L[d] /\ w = IF d = 1 THEN u ELSE 0
    OBVIOUS
  <2>4. k \in 1 .. Class /\ LaidOut(k) /\ KnownBefore(k, w) /\ Has(k, name)
    BY <1>3, <2>2, <2>3
  <2>5. decl = OwnMember(name, k, w)
    BY <1>1, <1>2, <1>7, <2>1, <2>3 DEF AsMember, MemberAt
  <2>6. r = IF name \in DOMAIN classTypes[k].children
            THEN [type |-> classTypes[k].children[name].type,
                  width |-> classTypes[k].slots[classTypes[k].children[name].index + 1],
                  code |-> [op |-> "field", class |-> c,
                            path |-> [i \in 1 .. d |-> IF i < d THEN 0 ELSE classTypes[k].children[name].index]]]
            ELSE Pointer([kind |-> "method", ret |-> classTypes[k].functions[name].type.ret, native |-> FALSE,
                          instance |-> v.type.region],
                         [op |-> "fn", fn |-> classTypes[k].functions[name].code.fn])
    BY <1>1, <1>3, <1>4, <1>5, <1>7, <2>1, <2>3 DEF getChild
  <2>7. CASE name \in DOMAIN classTypes[k].children
    <3>1. Found(r, decl, v.type.region) /\ decl # << >> /\ IsField(decl)
      <4>1. PICK path : path = [i \in 1 .. d |-> IF i < d THEN 0 ELSE classTypes[k].children[name].index]
        OBVIOUS
      <4>2. r.type = classTypes[k].children[name].type /\ r.code = [op |-> "field", class |-> c, path |-> path]
        BY <2>6, <2>7, <4>1
      <4>6. Len(path) = d /\ path[d] = classTypes[k].children[name].index
        BY <2>2, <4>1
      <4>7. r.code.op = "field" /\ r.code.class = c /\ r.code.path = path
        BY <4>2
      <4>3. PICK region : region = v.type.region
        OBVIOUS
      <4>4. d \in 1 .. Len(Lineage[c]) /\ Chain[c] = Lineage[c] /\ k = Lineage[c][d]
        BY <1>2, <1>3, <2>2, <2>3
      <4>5. Found(r, OwnMember(name, k, w), region) /\ OwnMember(name, k, w) # << >> /\ IsField(OwnMember(name, k, w))
        BY <2>2, <2>4, <2>7, <4>2, <4>4, <4>6, <4>7, FieldFound, ZenonT(30)
      <4> QED BY <2>5, <4>3, <4>5
    <3>2. r.code.op = "field" /\ r.code.class = c /\ Len(r.code.path) = d
      BY <2>2, <2>6, <2>7
    <3> QED BY <1>1, <1>2, <2>1, <3>1, <3>2
  <2>8. CASE name \notin DOMAIN classTypes[k].children
    <3>1. Found(r, decl, v.type.region)
      <4>1. PICK region : region = v.type.region
        OBVIOUS
      <4>2. r = Pointer([kind |-> "method", ret |-> classTypes[k].functions[name].type.ret, native |-> FALSE,
                         instance |-> region],
                        [op |-> "fn", fn |-> classTypes[k].functions[name].code.fn])
        BY <2>6, <2>8, <4>1
      <4> QED BY <2>4, <2>5, <2>8, <4>1, <4>2, MethodFound
    <3>2. ~IsField(decl)
      <4>1. k \in 1 .. Len(classes)
        BY <2>4, ProgramLengths DEF SupersInv
      <4>2. decl = <<k, Latest(KnownOf(k, "fn", name))>> /\ KnownOf(k, "fn", name) # {}
        <5>1. decl # << >>
          BY <2>4, <2>5, OwnIs
        <5> QED BY <2>4, <2>5, <2>8, <5>1, OwnIs
      <4> QED BY <4>1, <4>2, KnownAre
    <3> QED BY <1>1, <3>1, <3>2
  <2> QED BY <2>7, <2>8
<1> QED BY <1>6, <1>7

(***************************************************************************)
(* What is not disturbed.                                                  *)
(***************************************************************************)
LEMMA SupersFrame ==
  ASSUME Kept, SupersInv, UNCHANGED classTypes,
         local' = Absent \/ (local # Absent /\ local'.region = local.region)
  PROVE  SupersInv'
<1>1. UNCHANGED <<classes, functions>> /\ Class' = Class /\ \A k : SuperOf(k)' = SuperOf(k)
  BY ProgramKept DEF Kept, Class, SuperOf
<1>2. \A id \in 1 .. Len(module) : id \in 1 .. Len(module') /\ module'[id].decl = module[id].decl
  BY DEF Kept
<1>3. InClass' => InClass /\ local'.region = local.region
  BY DEF InClass, Absent
<1> QED BY <1>1, <1>2, <1>3 DEF SupersInv

\* A step that leaves the types alone keeps their invariant.
LEMMA TypesFrame ==
  ASSUME UNCHANGED <<classes, functions>>, TypesInv, global'.types = global.types, ClassesDone' = ClassesDone
  PROVE  TypesInv'
<1>1. \A name, c : ClassNamed(name, c)' = ClassNamed(name, c)
  BY ProgramKept
<1> QED BY <1>1 DEF TypesInv

\* The same for the global values.
LEMMA ValuesFrame ==
  ASSUME Kept, ValuesInv, global'.values = global.values, ClassesDone' = ClassesDone,
         FunctionsDone' = FunctionsDone
  PROVE  ValuesInv'
<1>1. \A name, c, f : Globally(name, c, f)' = Globally(name, c, f)
  BY ProgramKept DEF Kept
<1>2. \A v, decl : FunctionOK(v, decl) => FunctionOK(v, decl)'
  BY FunctionKept
<1>3. ASSUME NEW name, NEW decl, decl = Globally(name, ClassesDone, FunctionsDone)
      PROVE  /\ Globally(name, ClassesDone, FunctionsDone)' = decl
             /\ IF decl = << >> THEN name \notin DOMAIN global'.values
                ELSE name \in DOMAIN global'.values /\ FunctionOK(global.values[name], decl)'
  <2>1. Globally(name, ClassesDone, FunctionsDone)' = decl
    BY <1>1, <1>3
  <2>2. IF decl = << >> THEN name \notin DOMAIN global.values
        ELSE name \in DOMAIN global.values /\ FunctionOK(global.values[name], decl)
    BY <1>3 DEF ValuesInv
  <2>3. CASE decl = << >>
    BY <2>1, <2>2, <2>3
  <2>4. CASE decl # << >>
    <3>1. PICK v : v = global.values[name]
      OBVIOUS
    <3>2. FunctionOK(v, decl)'
      BY <1>2, <2>2, <2>4, <3>1
    <3>3. global'.values[name] = v
      BY <3>1
    <3> QED BY <2>1, <2>2, <2>4, <3>2, <3>3
  <2> QED BY <2>3, <2>4
<1> QED BY <1>3 DEF ValuesInv

\* The same for the methods of classes.
LEMMA MethodsFrame ==
  ASSUME Kept, MethodsInv, UNCHANGED classTypes, \A k \in 1 .. Class : Ahead(k, "fn")' = Ahead(k, "fn"),
         local' = Absent \/ (local # Absent /\ local'.values = local.values)
  PROVE  MethodsInv'
<1>1. UNCHANGED <<classes, functions>> /\ Class' = Class
  BY DEF Kept, Class
<1>2. \A k \in 1 .. Class : \A name : KnownOf(k, "fn", name)' = KnownOf(k, "fn", name)
  BY <1>1 DEF KnownOf, Known, MembersOf
<1>3. \A v, decl : FunctionOK(v, decl) => FunctionOK(v, decl)'
  BY FunctionKept
<1>4. InClass' => InClass /\ local'.values = local.values
  BY DEF InClass
<1> QED BY <1>1, <1>2, <1>3, <1>4 DEF MethodsInv

\* The same for the fields of the class that is being generated.
LEMMA VariablesFrame ==
  ASSUME UNCHANGED <<classes, functions>>, VariablesInv, Class' = Class,
         local' = Absent \/ (local # Absent /\ local'.variables = local.variables
                                            /\ Ahead(Class, "field")' = Ahead(Class, "field"))
  PROVE  VariablesInv'
<1>1. \A k, j, v : FieldOK(k, j, v)' = FieldOK(k, j, v)
  BY ReturnKept
<1>2. CASE local' # Absent
  <2>1. Known(Class, "field")' = Known(Class, "field") /\ \A k : MembersOf(k)' = MembersOf(k)
    BY <1>2 DEF Known, MembersOf
  <2> QED BY <1>1, <1>2, <2>1 DEF VariablesInv, InClass
<1> QED BY <1>2 DEF VariablesInv, InClass

\* The same for the layout of classes.
LEMMA LayoutFrame ==
  ASSUME Stable, LayoutInv, \A k \in 1 .. Class' : k \in 1 .. Class /\ LaidOut(k)
  PROVE  LayoutInv'
<1>1. ASSUME NEW k \in 1 .. Class' PROVE LaidOut(k)' /\ LayoutOK(k)'
  <2>1. k \in 1 .. Class /\ LaidOut(k)
    BY <1>1
  <2>2. LayoutOK(k)
    BY <2>1 DEF LayoutInv
  <2> QED BY <2>1, <2>2, LayoutKept DEF Stable
<1> QED BY <1>1 DEF LayoutInv

\* What was accepted of a class is still accepted.
LEMMA MembersFrame ==
  ASSUME ProgramOK, MembersAccepted, UNCHANGED <<classes, functions>>, Class \in Nat, Class <= Len(classes),
         NEW k \in 1 .. Class, \A kind \in {"fn", "field"} : Ahead(k, kind)' = Ahead(k, kind)
  PROVE  /\ \A j \in Known(k, "field")' : FieldAccepted(<<k, j>>)'
         /\ \A j \in Known(k, "fn")' : BodyAccepted(<<k, j>>)'
<1>1. \A kind \in {"fn", "field"} : Known(k, kind)' = Known(k, kind)
  BY DEF Known, MembersOf
<1>2. k \in DOMAIN classes /\ \A j \in Places(MembersOf(k), "fn") : j \in DOMAIN classes[k].members
  <2>1. k \in 1 .. Len(classes)
    BY ProgramLengths
  <2> QED BY <2>1, MemberNode DEF ProgramOK, Places, MembersOf
<1>3. \A j \in Known(k, "fn") : Written(<<k, j>>) \in FunctionNodes
  BY <1>2, WrittenNodes DEF Known, MembersOf
<1>4. \A decl : /\ FieldAccepted(decl)' = FieldAccepted(decl)
                /\ Written(decl) \in FunctionNodes => BodyAccepted(decl)' = BodyAccepted(decl)
  BY AcceptedKept
<1> QED BY <1>1, <1>3, <1>4 DEF MembersAccepted

\* What was accepted of the functions is still accepted.
LEMMA FunctionsFrame ==
  ASSUME ProgramOK, FunctionsAccepted, UNCHANGED <<classes, functions>>, FunctionsDone' = FunctionsDone,
         FunctionsDone \in Nat, FunctionsDone <= Len(functions)
  PROVE  FunctionsAccepted'
<1>1. \A i \in 1 .. FunctionsDone : Written(<<0, i>>) \in FunctionNodes
  <2>1. \A i \in 1 .. FunctionsDone : i \in DOMAIN functions
    BY ProgramLengths DEF ProgramOK
  <2> QED BY <2>1, WrittenNodes
<1>2. \A i \in 1 .. FunctionsDone : BodyAccepted(<<0, i>>)' = BodyAccepted(<<0, i>>)
  BY <1>1, AcceptedKept
<1> QED BY <1>2 DEF FunctionsAccepted

\* A body whose code stays as it is means what it meant.
LEMMA BodyFrame ==
  ASSUME ProgramOK, SupersInv, SupersInv', Stable, NEW id \in 1 .. Len(module), IsSite(module[id].decl),
         module'[id].code = module[id].code, BodyMeans(id)
  PROVE  /\ IsSite(module[id].decl)' /\ BodyMeans(id)'
         /\ Len(module[id].code)' = Len(module[id].code)
         /\ Len(Written(module[id].decl).nodes)' = Len(Written(module[id].decl).nodes)
<1>1. PICK site : site = module[id].decl
  OBVIOUS
<1>2. module'[id].decl = site /\ UNCHANGED <<classes, functions>>
  BY <1>1 DEF Stable, Kept
<1>3. Written(site) \in FunctionNodes
  BY <1>1, SiteNode
<1>4. Mentioned(site)' = Mentioned(site) /\ Written(site)' = Written(site)
  BY <1>2, <1>3, MentionedKept, ProgramKept
<1>5. IsSite(site)'
  BY <1>1, <1>2 DEF IsSite
<1>6. \A item, decl : Means(item, decl) => Means(item, decl)'
  BY MeansKept
<1>7. \A i \in 1 .. Len(module[id].code) : Means(module[id].code[i], Mentioned(site)[i])
  BY <1>1 DEF BodyMeans
<1>8. ASSUME NEW i \in 1 .. Len(module[id].code)
      PROVE  Means(module[id].code[i], Mentioned(site)[i])'
  <2>1. PICK item, decl : item = module[id].code[i] /\ decl = Mentioned(site)[i]
    OBVIOUS
  <2>2. Means(item, decl)'
    BY <1>6, <1>7, <2>1
  <2>3. module'[id].code[i] = item /\ Mentioned(site)'[i] = decl
    BY <1>4, <2>1
  <2> QED BY <2>2, <2>3
<1>9. BodyMeans(id)'
  BY <1>2, <1>8 DEF BodyMeans
<1>10. IsSite(module[id].decl)'
  BY <1>2, <1>5
<1>11. Len(Written(module[id].decl).nodes)' = Len(Written(module[id].decl).nodes)
  BY <1>1, <1>2, <1>4
<1> QED BY <1>9, <1>10, <1>11

\* The bodies that were generated keep their meaning.
LEMMA BodiesFrame ==
  ASSUME ProgramOK, SupersInv, SupersInv', Stable, BodiesInv,
         \A id \in 1 .. Len(module') : module'[id].decl[2] > 0 =>
           id \in 1 .. Len(module) /\ module'[id].code = module[id].code,
         \A id \in 1 .. Len(module) : InBody(id) => InBody(id)'
  PROVE  BodiesInv'
<1>1. ASSUME NEW id \in 1 .. Len(module'), module'[id].decl[2] > 0
      PROVE  /\ IsSite(module[id].decl)' /\ BodyMeans(id)'
             /\ ~InBody(id)' => Len(module[id].code)' = Len(Written(module[id].decl).nodes)'
  <2>1. id \in 1 .. Len(module) /\ module'[id].code = module[id].code
    BY <1>1
  <2>2. module[id].decl[2] > 0
    BY <1>1, <2>1 DEF Stable, Kept
  <2>3. IsSite(module[id].decl) /\ BodyMeans(id)
        /\ (~InBody(id) => Len(module[id].code) = Len(Written(module[id].decl).nodes))
    BY <2>1, <2>2 DEF BodiesInv
  <2>4. /\ IsSite(module[id].decl)' /\ BodyMeans(id)'
        /\ Len(module[id].code)' = Len(module[id].code)
        /\ Len(Written(module[id].decl).nodes)' = Len(Written(module[id].decl).nodes)
    BY <2>1, <2>3, BodyFrame
  <2>5. ~InBody(id)' => ~InBody(id)
    BY <2>1
  <2> QED BY <2>3, <2>4, <2>5
<1> QED BY <1>1 DEF BodiesInv

(***************************************************************************)
(* Where declarations stand.                                               *)
(***************************************************************************)
LEMMA GlobalBefore ==
  ASSUME ProgramOK, NEW name, NEW c \in Nat, NEW f \in Nat, f > 0 => c = Len(classes)
  PROVE  LET decl == Globally(name, c, f) IN Before(decl, c) /\ ~IsMethod(decl) /\ ~IsField(decl)
<1>1. PICK decl : decl = Globally(name, c, f)
  OBVIOUS
<1>2. ASSUME NEW i \in 1 .. f, decl = <<0, i>> PROVE Before(decl, c) /\ ~IsMethod(decl)
  BY <1>2 DEF Before, IsMethod
<1>3. ASSUME NEW k \in 1 .. c, decl = <<k, 0>> PROVE Before(decl, c) /\ ~IsMethod(decl)
  BY <1>3 DEF Before, IsMethod
<1>4. ASSUME decl \in {<<0, -1>>, <<0, -2>>, << >>} PROVE Before(decl, c) /\ ~IsMethod(decl)
  BY <1>4 DEF Before, IsMethod
<1>5. Before(decl, c) /\ ~IsMethod(decl)
  BY <1>1, <1>2, <1>3, <1>4, GloballyIs
<1> QED BY <1>1, <1>5 DEF IsField

\* An own member of a class belongs to that class.
LEMMA OwnBefore ==
  ASSUME ProgramOK, NEW name, NEW k \in 1 .. Len(classes), NEW u
  PROVE  LET own == OwnMember(name, k, u) IN own # << >> => \E j \in Nat \ {0} : own = <<k, j>>
<1>1. PICK F, M : /\ F = {j \in Places(MembersOf(k), "field") : MembersOf(k)[j].name = name}
                  /\ M = {j \in Places(MembersOf(k), "fn") : MembersOf(k)[j].name = name /\ (u > 0 => j < u)}
  OBVIOUS
<1>2. PICK n : n = Len(MembersOf(k)) /\ n \in Nat
  BY MemberNode DEF MembersOf
<1>3. F \in SUBSET (1 .. n) /\ M \in SUBSET (1 .. n)
  BY <1>1, <1>2 DEF Places
<1>4. (F # {} => Latest(F) \in Nat \ {0}) /\ (M # {} => Latest(M) \in Nat \ {0})
  <2>1. (F # {} => Latest(F) \in 1 .. n) /\ (M # {} => Latest(M) \in 1 .. n)
    BY <1>2, <1>3, LatestIs
  <2> QED BY <1>2, <2>1
<1>5. OwnMember(name, k, u) = IF F # {} THEN <<k, Latest(F)>> ELSE IF M # {} THEN <<k, Latest(M)>> ELSE << >>
  BY <1>1 DEF OwnMember, MembersOf
<1> QED BY <1>4, <1>5

\* A member of a class belongs to it or to an earlier one.
LEMMA MemberBefore ==
  ASSUME ProgramOK, NEW name, NEW k \in 1 .. Len(classes), NEW u
  PROVE  LET decl == AsMember(name, k, u) IN
         decl # << >> => \E c \in 1 .. k, j \in Nat \ {0} : decl = <<c, j>>
<1>1. PICK owners, m : owners = Owners(name, k, u) /\ m = Len(classes) /\ m \in Nat
  BY ProgramLengths
<1>2. CASE owners # {}
  <2>1. PICK d : d = Least(owners)
    OBVIOUS
  <2>2. IsLine(Lineage[k], k) /\ k \in Nat
    BY <1>1, LineageLists
  <2>3. DOMAIN Lineage[k] = 1 .. Len(Lineage[k]) /\ Len(Lineage[k]) \in Nat
    BY <2>2, ListDomain DEF IsLine
  <2>4. owners \in SUBSET (1 .. Len(Lineage[k]))
    BY <1>1, <2>3 DEF Owners
  <2>5. d \in 1 .. Len(Lineage[k])
    <3>1. owners \in SUBSET Nat
      BY <2>3, <2>4
    <3> QED BY <1>2, <2>1, <2>4, <3>1, LeastIs
  <2>6. PICK c, w : c = Lineage[k][d] /\ w = IF d = 1 THEN u ELSE 0
    OBVIOUS
  <2>7. c \in 1 .. k /\ c \in 1 .. Len(classes)
    BY <1>1, <2>2, <2>5, <2>6 DEF IsLine
  <2>8. AsMember(name, k, u) = OwnMember(name, c, w)
    BY <1>1, <1>2, <2>1, <2>6 DEF AsMember, MemberAt
  <2> QED BY <2>7, <2>8, OwnBefore
<1>3. CASE owners = {}
  BY <1>1, <1>3 DEF AsMember
<1> QED BY <1>2, <1>3

\* What the class of a result is for a function, method or field.
LEMMA ResultOf ==
  ASSUME NEW decl, decl # << >>, decl[2] \in Nat, decl[2] > 0
  PROVE  ResultClass(decl) = IF Written(decl).ret \in BuiltIn THEN 0 ELSE ClassNamed(Written(decl).ret, KnownClasses(decl))
<1>1. PICK k, j, n, ret : k = decl[1] /\ j = decl[2] /\ n = KnownClasses(decl) /\ ret = Written(decl).ret
  OBVIOUS
<1>2. j \in Int /\ ~(j < 0) /\ j # 0
  BY <1>1
<1> QED BY <1>1, <1>2 DEF ResultClass

\* The class that something makes is complete.
LEMMA ResultBefore ==
  ASSUME ProgramOK, NEW decl, NEW c \in Nat, c <= Len(classes), Before(decl, c)
  PROVE  ResultClass(decl) \in 0 .. c
<1>1. CASE decl = << >>
  BY <1>1 DEF ResultClass
<1>2. CASE decl # << >>
  <2>1. PICK k, j : k = decl[1] /\ j = decl[2]
    OBVIOUS
  <2>2. k \in 0 .. c + 1 /\ j \in Int /\ (k = c + 1 => j > 0) /\ (k = 0 /\ j > 0 => c = Len(classes))
        /\ (k > 0 => j >= 0)
    BY <1>2, <2>1 DEF Before
  <2>3. CASE j < 0
    BY <2>1, <2>3 DEF ResultClass
  <2>4. CASE j = 0
    <3>1. ResultClass(decl) = k
      BY <1>2, <2>1, <2>4 DEF ResultClass
    <3> QED BY <2>2, <2>4, <3>1
  <2>5. CASE j > 0
    <3>1. PICK n : n = KnownClasses(decl)
      OBVIOUS
    <3>2. n \in Nat /\ n <= c
      BY <2>1, <2>2, <2>5, <3>1, ProgramLengths DEF KnownClasses
    <3>3. PICK ret : ret = Written(decl).ret
      OBVIOUS
    <3>4. ClassNamed(ret, n) \in 0 .. n
      BY <3>2, ClassNamedIs
    <3>5. ResultClass(decl) = IF ret \in BuiltIn THEN 0 ELSE ClassNamed(ret, n)
      BY <1>2, <2>1, <2>2, <2>5, <3>1, <3>3 DEF ResultClass
    <3> QED BY <3>2, <3>4, <3>5
  <2> QED BY <2>2, <2>3, <2>4, <2>5
<1> QED BY <1>1, <1>2

\* What a field stands for was declared before as well.
LEMMA TargetBefore ==
  ASSUME ProgramOK, NEW decl, NEW c \in Nat, c <= Len(classes), Before(decl, c)
  PROVE  Before(Target(decl), c) /\ (~IsField(decl) => Target(decl) = decl)
         /\ (Target(decl) # decl => ~IsMethod(Target(decl)))
<1>1. CASE IsField(decl) /\ Written(decl).op = "name"
  <2>1. PICK n : n = KnownClasses(decl)
    OBVIOUS
  <2>2. n \in Nat /\ n <= c
    <3>1. decl # << >> /\ decl[1] > 0
      BY <1>1 DEF IsField, IsMethod
    <3>2. decl[1] \in 0 .. c + 1
      BY <3>1 DEF Before
    <3> QED BY <2>1, <3>1, <3>2 DEF KnownClasses
  <2>3. PICK target : target = Globally(Written(decl).arg, n, 0)
    OBVIOUS
  <2>4. Before(target, n) /\ ~IsMethod(target) /\ 0 \in Nat
    BY <2>2, <2>3, GlobalBefore
  <2>5. Target(decl) = target
    BY <1>1, <2>1, <2>3 DEF Target
  <2>6. Before(target, c)
    <3>1. CASE target = << >>
      BY <3>1 DEF Before
    <3>2. CASE target # << >>
      <4>1. PICK k, j : k = target[1] /\ j = target[2]
        OBVIOUS
      <4>2. /\ target = <<k, j>> /\ k \in 0 .. n + 1 /\ j \in Int /\ (k = n + 1 => j > 0) /\ (k > 0 => j >= 0)
            /\ (k = 0 /\ j > 0 => n = Len(classes)) /\ ~(k > 0 /\ j > 0)
        BY <2>4, <3>2, <4>1 DEF Before, IsMethod
      <4>3. k \in 0 .. n
        BY <2>2, <4>2
      <4>4. k \in 0 .. c + 1 /\ k # c + 1
        BY <2>2, <4>3
      <4>5. k = 0 /\ j > 0 => c = Len(classes)
        BY <2>2, <4>2, ProgramLengths
      <4> QED BY <4>1, <4>2, <4>4, <4>5 DEF Before
    <3> QED BY <3>1, <3>2
  <2> QED BY <1>1, <2>4, <2>5, <2>6
<1>2. CASE ~(IsField(decl) /\ Written(decl).op = "name")
  BY <1>2 DEF Target
<1> QED BY <1>1, <1>2

(***************************************************************************)
(* What codegen finds.                                                     *)
(***************************************************************************)
LEMMA SiteIs ==
  ASSUME ProgramOK, NEW site, IsSite(site)
  PROVE  site # << >> /\ site[2] \in Nat /\ site[2] > 0
<1>1. ASSUME NEW i \in 1 .. Len(functions), site = <<0, i>>
      PROVE  site # << >> /\ site[2] \in Nat /\ site[2] > 0
  BY <1>1, ProgramLengths
<1>2. ASSUME NEW k \in 1 .. Len(classes), NEW j \in Places(classes[k].members, "fn"), site = <<k, j>>
      PROVE  site # << >> /\ site[2] \in Nat /\ site[2] > 0
  <2>1. j \in 1 .. Len(classes[k].members) /\ Len(classes[k].members) \in Nat
    BY MemberNode DEF Places
  <2>2. j \in Nat /\ j > 0
    BY <2>1
  <2> QED BY <1>2, <2>2
<1> QED BY <1>1, <1>2 DEF IsSite

\* What describes what is not one of the functions of the run-time library.
LEMMA ReturnOf ==
  ASSUME NEW decl, decl[2] > 0 \/ decl[1] > 0, NEW ret
  PROVE  ReturnFits(ret, decl) <=>
           IF ResultClass(decl) # 0 THEN ret = ClassType(ResultClass(decl), ret.region)
           ELSE ret.kind \in {"void", "int", "region"}
<1>1. PICK a, b : a = <<0, -1>> /\ b = <<0, -2>>
  OBVIOUS
<1>2. decl # a /\ decl # b
  BY <1>1
<1> QED BY <1>1, <1>2 DEF ReturnFits

\* The return type of a body is found exactly if the source may name it.
LEMMA ReturnNamed ==
  ASSUME ProgramOK, TypesInv, NEW site, IsSite(site), ClassesDone = KnownClasses(site),
         NEW region, region # ""
  PROVE  LET ret == TypeNamed(Written(site).ret, global.types, region) IN
         IF RetAccepted(site) THEN ret.kind # "aborted" /\ ReturnFits(ret, site) ELSE ret.kind = "aborted"
<1>1. PICK name, class, ret : /\ name = Written(site).ret /\ class = ClassNamed(name, ClassesDone)
                             /\ ret = TypeNamed(name, global.types, region)
  OBVIOUS
<1> SUFFICES IF RetAccepted(site) THEN ret.kind # "aborted" /\ ReturnFits(ret, site) ELSE ret.kind = "aborted"
  BY <1>1
<1>2. IF class = 0 THEN name \notin DOMAIN global.types
      ELSE name \in DOMAIN global.types /\ global.types[name] = class
  BY <1>1 DEF TypesInv
<1>3. site # << >> /\ site[2] \in Nat /\ site[2] > 0
  BY SiteIs
<1>4. ResultClass(site) = IF name \in BuiltIn THEN 0 ELSE class
  <2>1. PICK n : n = KnownClasses(site) /\ n = ClassesDone
    OBVIOUS
  <2>2. class = ClassNamed(name, n)
    BY <1>1, <2>1
  <2>3. PICK ret2 : ret2 = Written(site).ret
    OBVIOUS
  <2>4. ResultClass(site) = IF ret2 \in BuiltIn THEN 0 ELSE ClassNamed(ret2, n)
    BY <1>3, <2>1, <2>3, ResultOf
  <2> QED BY <1>1, <2>2, <2>3, <2>4
<1>5. RetAccepted(site) <=> name \in BuiltIn \/ class # 0
  BY <1>1 DEF RetAccepted
<1>6. CASE name = "void"
  <2>1. ret = Void /\ name \in BuiltIn
    BY <1>1, <1>6 DEF TypeNamed, BuiltIn
  <2>2. ret.kind = "void"
    BY <2>1 DEF Void
  <2> QED BY <1>3, <1>4, <1>5, <2>1, <2>2, ReturnOf
<1>7. CASE name # "void" /\ name \in DOMAIN IntTypes
  <2>1. ret = IntType(IntTypes[name])
    BY <1>1, <1>7 DEF TypeNamed
  <2>2. ret.kind = "int"
    BY <2>1 DEF IntType
  <2>3. name \in BuiltIn
    BY <1>7 DEF BuiltIn
  <2> QED BY <1>3, <1>4, <1>5, <2>2, <2>3, ReturnOf
<1>8. CASE name # "void" /\ name \notin DOMAIN IntTypes /\ class # 0
  <2>1. ret = ClassType(class, region)
    BY <1>1, <1>2, <1>8 DEF TypeNamed
  <2>2. ret.kind = "class" /\ ret.region = region
    BY <2>1 DEF ClassType
  <2>3. name \notin BuiltIn
    BY <1>8 DEF BuiltIn
  <2> QED BY <1>3, <1>4, <1>5, <1>8, <2>1, <2>2, <2>3, ReturnOf
<1>9. CASE name # "void" /\ name \notin DOMAIN IntTypes /\ class = 0
  BY <1>1, <1>2, <1>5, <1>9 DEF TypeNamed, BuiltIn
<1> QED BY <1>6, <1>7, <1>8, <1>9

\* The value of a global name.
LEMMA GlobalFound ==
  ASSUME ProgramOK, ValuesInv, ClassesDone \in Nat, FunctionsDone \in Nat,
         FunctionsDone > 0 => ClassesDone = Len(classes), NEW name, NEW region
  PROVE  LET decl == Globally(name, ClassesDone, FunctionsDone)
             v    == Find(global.values, name)
         IN Found(v, decl, region) /\ (decl # << >> => FunctionOK(v, decl)) /\ ~IsField(decl) /\ ~IsMethod(decl)
<1>1. PICK c, f : c = ClassesDone /\ f = FunctionsDone
  OBVIOUS
<1>2. PICK decl, v : decl = Globally(name, c, f) /\ v = Find(global.values, name)
  OBVIOUS
<1>3. ~IsMethod(decl) /\ ~IsField(decl)
  BY <1>1, <1>2, GlobalBefore
<1>4. IF decl = << >> THEN name \notin DOMAIN global.values
      ELSE name \in DOMAIN global.values /\ FunctionOK(global.values[name], decl)
  BY <1>1, <1>2 DEF ValuesInv
<1>5. CASE decl = << >>
  BY <1>1, <1>2, <1>3, <1>4, <1>5 DEF Find, Found
<1>6. CASE decl # << >>
  <2>1. FunctionOK(v, decl)
    BY <1>2, <1>4, <1>6 DEF Find
  <2>2. TypeMeans(v.type, decl, region)
    BY <1>3, <1>6, <2>1 DEF FunctionOK, TypeMeans
  <2>3. Means(v.code, decl)
    BY <2>1 DEF FunctionOK, IsFn, Means, ItemOK, Refers
  <2>4. Found(v, decl, region)
    BY <1>6, <2>2, <2>3, TypeMeansNoFailure DEF Found
  <2> QED BY <1>1, <1>2, <1>3, <2>1, <2>4
<1> QED BY <1>5, <1>6

GenState == ProgramOK /\ HandlesInv /\ ModuleInv /\ GenInv

\* How far codegen is.
LEMMA StateIs ==
  ASSUME GenState
  PROVE  /\ Class \in Nat /\ Class <= Len(classes) /\ Len(classes) \in Nat /\ Len(functions) \in Nat
         /\ Len(module) \in Nat /\ DOMAIN module = 1 .. Len(module)
         /\ DOMAIN classTypes = 1 .. Class /\ Done \in Nat
         /\ ClassesDone \in Nat /\ FunctionsDone \in Nat /\ ClassesDone <= Class
         /\ InClass => Class > 0 /\ ClassesDone = Class - 1 /\ FunctionsDone = 0 /\ Done = 0
         /\ ~InClass => ClassesDone = Class
         /\ Done > 0 => ~InClass /\ Class = Len(classes)
         /\ FunctionsDone > 0 => ClassesDone = Len(classes)
         /\ FunctionsDone <= Done /\ (Done > FunctionsDone => FunctionsDone = Done - 1 /\ ~InClass /\ body # Absent)
         /\ body # Absent /\ ~InClass => Done > 0 /\ FunctionsDone = Done - 1
<1>1. ProgramOK /\ HandlesInv /\ Phase /\ SupersInv /\ TodoInv
  BY DEF GenState, ModuleInv, GenInv
<1>2. PICK n, c, p, d, m : n = Len(classes) /\ c = Class /\ p = Len(functions) /\ d = Done /\ m = Len(module)
  OBVIOUS
<1>3. n \in Nat /\ p \in Nat /\ c \in Nat /\ c <= n /\ DOMAIN classTypes = 1 .. c
  BY <1>1, <1>2, ProgramLengths, ListDomain DEF SupersInv, Phase, Class
<1>4. m \in Nat /\ DOMAIN module = 1 .. m /\ d \in Nat
  BY <1>1, <1>2, ModuleLength, CountIs DEF HandlesInv
<1>5. (InClass => c > 0 /\ d = 0) /\ (d > 0 => ~InClass /\ c = n) /\ (body # Absent /\ ~InClass => d > 0)
  BY <1>1, <1>2 DEF SupersInv, TodoInv, Phase, InClass
<1>6. /\ ClassesDone = IF InClass THEN c - 1 ELSE c
      /\ FunctionsDone = IF body # Absent /\ ~InClass THEN d - 1 ELSE d
  BY <1>2 DEF ClassesDone, FunctionsDone
<1> QED BY <1>2, <1>3, <1>4, <1>5, <1>6

\* The place of a method that codegen has not come to the end of.
LEMMA TodoIs ==
  ASSUME GenState, InClass, local.todo # {}
  PROVE  /\ Least(local.todo) \in local.todo /\ local.todo \in SUBSET Nat
         /\ \A i \in local.todo : Least(local.todo) <= i
         /\ Least(local.todo) \in Places(MembersOf(Class), IF local.laidOut THEN "fn" ELSE "field")
         /\ local.laidOut => KnownBefore(Class, Least(local.todo)) /\ Least(local.todo) \in Nat /\ Least(local.todo) > 0
<1>1. PICK todo, kind : todo = local.todo /\ kind = IF local.laidOut THEN "fn" ELSE "field"
  OBVIOUS
<1>2. PICK P : P = Places(MembersOf(Class), kind)
  OBVIOUS
<1>3. todo \subseteq P /\ \A j \in P \ todo : \A i \in todo : j < i
  BY <1>1, <1>2 DEF GenState, GenInv, TodoInv
<1>4. P \in SUBSET (Nat \ {0})
  BY <1>2, PlacesAre
<1>5. PICK l : l = Least(todo)
  OBVIOUS
<1>6. l \in todo /\ \A i \in todo : l <= i
  <2>1. todo \in SUBSET Nat
    BY <1>3, <1>4
  <2> QED BY <1>1, <1>5, <2>1, LeastIs
<1>7. ASSUME local.laidOut PROVE KnownBefore(Class, l)
  <2>1. kind = "fn" /\ Ahead(Class, "fn") = todo
    BY <1>1, <1>7 DEF Ahead
  <2>2. l \in Nat /\ l > 0
    BY <1>3, <1>4, <1>6
  <2>3. \A j \in P : j \notin todo <=> j < l
    <3>1. \A j \in P : j \in Nat
      BY <1>4
    <3> QED BY <1>3, <1>6, <2>2, <3>1
  <2> QED BY <1>2, <2>1, <2>2, <2>3 DEF KnownBefore
<1>8. l \in Nat /\ l > 0
  BY <1>3, <1>4, <1>6
<1>9. todo \in SUBSET Nat
  BY <1>3, <1>4
<1> QED BY <1>1, <1>2, <1>3, <1>5, <1>6, <1>7, <1>8, <1>9

\* The place whose body is being generated, or may be next.
LEMMA ClassSite ==
  ASSUME GenState, InClass, local.laidOut, local.todo # {}
  PROVE  /\ Site = <<Class, Least(local.todo)>> /\ IsSite(Site) /\ IsMethod(Site)
         /\ Written(Site) \in FunctionNodes /\ KnownClasses(Site) = ClassesDone
         /\ Written(Site) = Node.members[Least(local.todo)]
<1>1. PICK c, l : c = Class /\ l = Least(local.todo)
  OBVIOUS
<1>2. c \in 1 .. Len(classes) /\ c \in Nat /\ c > 0 /\ ClassesDone = c - 1 /\ ProgramOK
  BY <1>1, StateIs DEF GenState
<1>3. l \in Places(MembersOf(c), "fn") /\ l \in Nat /\ l > 0
  BY <1>1, TodoIs
<1>4. Site = <<c, l>>
  BY <1>1 DEF Site
<1>5. IsSite(Site)
  BY <1>2, <1>3, <1>4 DEF IsSite, MembersOf
<1>6. Written(Site) \in FunctionNodes
  BY <1>2, <1>5, SiteNode
<1>7. IsMethod(Site) /\ KnownClasses(Site) = ClassesDone /\ Written(Site) = classes[c].members[l]
  <2>1. Site # << >> /\ Site[1] = c /\ Site[2] = l /\ c # 0
    BY <1>2, <1>4
  <2> QED BY <1>2, <1>3, <2>1 DEF IsMethod, KnownClasses, Written
<1> QED BY <1>1, <1>4, <1>5, <1>6, <1>7 DEF Node

\* The body of a function, with all classes known.
LEMMA FunctionSite ==
  ASSUME GenState, NEW i \in 1 .. Len(functions), Class = Len(classes), ~InClass
  PROVE  /\ IsSite(<<0, i>>) /\ ~IsMethod(<<0, i>>)
         /\ Written(<<0, i>>) \in FunctionNodes /\ KnownClasses(<<0, i>>) = ClassesDone
         /\ Written(<<0, i>>) = functions[i]
<1>1. IsSite(<<0, i>>)
  BY DEF IsSite
<1>2. Written(<<0, i>>) \in FunctionNodes
  BY <1>1, SiteNode DEF GenState
<1>3. ClassesDone = Len(classes)
  BY DEF ClassesDone
<1> QED BY <1>1, <1>2, <1>3 DEF IsMethod, KnownClasses, Written

\* The body that is being generated.
LEMMA BodySite ==
  ASSUME GenState, body # Absent
  PROVE  /\ IsSite(Site) /\ Written(Site) \in FunctionNodes /\ KnownClasses(Site) = ClassesDone
         /\ body.value.code.fn \in 1 .. Len(module) /\ module[body.value.code.fn].decl = Site
         /\ InClass => local.laidOut /\ local.todo # {} /\ IsMethod(Site) /\ Site = <<Class, Least(local.todo)>>
         /\ ~InClass => ~IsMethod(Site) /\ Site = <<0, Done>> /\ Class = Len(classes)
                        /\ Done \in 1 .. Len(functions) /\ Written(Site) = functions[Done]
<1>1. PICK id : id = body.value.code.fn
  OBVIOUS
<1>2. FunctionOK(body.value, Site) /\ TodoInv /\ BodiesInv
  BY DEF GenState, GenInv, BodyInv
<1>3. id \in 1 .. Len(module) /\ module[id].decl = Site
  BY <1>1, <1>2 DEF FunctionOK, IsFn
<1>4. CASE InClass
  <2>1. local.laidOut /\ local.todo # {}
    BY <1>2, <1>4 DEF TodoInv
  <2> QED BY <1>1, <1>3, <1>4, <2>1, ClassSite
<1>5. CASE ~InClass
  <2>1. PICK d, n : d = Done /\ n = Len(functions)
    OBVIOUS
  <2>2. d \in Nat /\ d > 0 /\ Class = Len(classes) /\ Len(functions) \in Nat
    BY <1>5, <2>1, StateIs
  <2>3. Site = <<0, d>>
    BY <1>5, <2>1 DEF Site
  <2>4. IsSite(Site)
    <3>1. module[id].decl[2] > 0
      BY <1>3, <2>2, <2>3
    <3> QED BY <1>2, <1>3, <3>1 DEF BodiesInv
  <2>5. d \in 1 .. n
    <3>1. \E i \in 1 .. Len(functions) : Site = <<0, i>>
      <4>1. ASSUME NEW k \in 1 .. Len(classes), NEW j, Site = <<k, j>> PROVE FALSE
        <5>1. k = 0
          BY <2>3, <4>1
        <5> QED BY <5>1, StateIs
      <4> QED BY <2>4, <4>1 DEF IsSite
    <3> QED BY <2>1, <2>3, <3>1
  <2> QED BY <1>1, <1>3, <1>5, <2>1, <2>2, <2>3, <2>5, FunctionSite
<1> QED BY <1>4, <1>5

\* The tables of a class do not have a name that is no member of it.
LEMMA NoMember ==
  ASSUME ProgramOK, SupersInv, MethodsInv, LayoutInv, Class \in Nat,
         NEW c \in 1 .. Class, LaidOut(c), NEW u, KnownBefore(c, u), NEW name, AsMember(name, c, u) = << >>
  PROVE  ~Has(c, name)
<1>1. PICK owners, L : owners = Owners(name, c, u) /\ L = Lineage[c]
  OBVIOUS
<1>2. /\ Chain[c] = L /\ DOMAIN L = 1 .. Len(L) /\ Len(L) \in Nat /\ IsLine(L, c)
  BY <1>1, LineOf
<1>3. owners \in SUBSET Nat
  BY <1>1, <1>2 DEF Owners
<1>4. owners = {}
  <2>1. ASSUME owners # {} PROVE FALSE
    <3>1. PICK d : d = Least(owners)
      OBVIOUS
    <3>2. d \in owners
      BY <1>3, <2>1, <3>1, LeastIs
    <3>3. MemberAt(name, c, u, d) # << >>
      BY <1>1, <3>2 DEF Owners
    <3> QED BY <1>1, <2>1, <3>1, <3>3 DEF AsMember
  <2> QED BY <2>1
<1>5. 1 \in DOMAIN L /\ L[1] = c
  BY <1>2 DEF IsLine
<1> QED BY <1>1, <1>2, <1>4, <1>5, OwnersAre

\* What a name in a body stands for.
LEMMA NameFound ==
  ASSUME GenState, body # Absent, NEW name
  PROVE  LET decl == Meaning(name, Site) IN Found(getValue(name), decl, "") /\ Before(decl, ClassesDone)
<1>1. /\ ProgramOK /\ HandlesInv /\ ValuesInv /\ SupersInv /\ MethodsInv /\ LayoutInv
  BY DEF GenState, GenInv
<1>2. PICK c, f : c = ClassesDone /\ f = FunctionsDone
  OBVIOUS
<1>3. c \in Nat /\ f \in Nat /\ (f > 0 => c = Len(classes)) /\ c <= Len(classes)
  BY <1>2, StateIs
<1>4. PICK global_v, global_decl : global_v = Find(global.values, name) /\ global_decl = Globally(name, c, f)
  OBVIOUS
<1>5. Found(global_v, global_decl, "") /\ Before(global_decl, c)
  BY <1>1, <1>2, <1>3, <1>4, GlobalFound, GlobalBefore
<1>6. CASE ~InClass
  <2>1. getValue(name) = global_v
    BY <1>4, <1>6 DEF InClass, getValue, GlobalValue
  <2>2. ~IsMethod(Site) /\ Site = <<0, Done>> /\ KnownClasses(Site) = c
    BY <1>2, <1>6, BodySite
  <2>3. f = Done - 1
    BY <1>2, <1>6, StateIs
  <2>4. Meaning(name, Site) = global_decl
    <3>1. PICK d, site : d = Done /\ site = Site
      OBVIOUS
    <3>2. site[2] = d
      BY <2>2, <3>1
    <3> QED BY <1>4, <2>2, <2>3, <3>1, <3>2 DEF Meaning
  <2> QED BY <1>2, <1>5, <2>1, <2>4
<1>7. CASE InClass
  <2>1. PICK k, u : k = Class /\ u = Least(local.todo)
    OBVIOUS
  <2>2. /\ local.laidOut /\ local.todo # {} /\ IsMethod(Site) /\ Site = <<k, u>> /\ KnownClasses(Site) = c
    BY <1>2, <1>7, <2>1, BodySite
  <2>3. k \in Nat /\ k > 0 /\ c = k - 1 /\ f = 0 /\ k \in 1 .. Class /\ k \in 1 .. Len(classes)
    BY <1>2, <1>7, <2>1, StateIs
  <2>4. KnownBefore(k, u) /\ LaidOut(k)
    BY <1>7, <2>1, <2>2, TodoIs DEF LaidOut
  <2>5. PICK this : this = Pointer(ClassType(Class, ""), [op |-> "this"])
    OBVIOUS
  <2>6. this.type.kind = "class" /\ this.type.class = k /\ this.type.region = ""
    BY <2>1, <2>5 DEF Pointer, ClassType
  <2>7. PICK member, r : member = AsMember(name, k, u) /\ r = getChild(this, name)
    OBVIOUS
  <2>8. Found(r, member, "")
    <3>1. Class \in Nat
      BY <2>1, <2>3
    <3>2. Found(r, member, this.type.region)
      BY <1>1, <2>3, <2>4, <2>6, <2>7, <3>1, ChildIs
    <3> QED BY <2>6, <3>2
  <2>9. Meaning(name, Site) = IF member # << >> THEN member ELSE global_decl
    <3>1. PICK site : site = Site
      OBVIOUS
    <3>2. site[1] = k /\ site[2] = u
      BY <2>2, <3>1
    <3> QED BY <1>4, <2>2, <2>3, <2>7, <3>1, <3>2 DEF Meaning
  <2>10. getValue(name) = IF ~IsNull(r) THEN r ELSE IF name \in DOMAIN local.values THEN local.values[name] ELSE global_v
    BY <1>4, <1>7, <2>5, <2>7 DEF InClass, getValue, MethodValue
  <2>11. CASE member = << >>
    <3>1. ~Has(k, name)
      <4>1. Class \in Nat
        BY <2>1, <2>3
      <4> QED BY <1>1, <2>3, <2>4, <2>7, <2>11, <4>1, NoMember
    <3>2. local.values = classTypes[k].functions
      BY <1>1, <1>7, <2>1 DEF MethodsInv
    <3>3. name \notin DOMAIN local.values
      BY <3>1, <3>2 DEF Has
    <3>4. IsNull(r)
      BY <2>8, <2>11 DEF Found, IsNull, Null
    <3> QED BY <1>2, <1>5, <2>9, <2>10, <2>11, <3>3, <3>4
  <2>12. CASE member # << >>
    <3>1. ~IsNull(r)
      BY <2>8, <2>12 DEF Found
    <3>2. Before(member, c)
      <4>1. PICK d \in 1 .. k, j \in Nat \ {0} : member = <<d, j>>
        BY <1>1, <2>3, <2>7, <2>12, MemberBefore
      <4>2. d \in 0 .. c + 1 /\ j \in Int /\ j > 0 /\ d # 0
        BY <1>3, <2>3
      <4> QED BY <4>1, <4>2 DEF Before
    <3> QED BY <1>2, <2>8, <2>9, <2>10, <2>12, <3>1, <3>2
  <2> QED BY <2>11, <2>12
<1> QED BY <1>6, <1>7

\* The first element of a list, and the rest.
LEMMA RestList ==
  ASSUME NEW s, IsList(s), s # << >>
  PROVE  /\ IsList(Tail(s)) /\ Len(s) \in Nat /\ Len(s) > 0 /\ Len(Tail(s)) = Len(s) - 1
         /\ Head(s) = s[1] /\ \A i \in 1 .. Len(s) - 1 : Tail(s)[i] = s[i + 1]
<1>1. PICK S : s \in Seq(S)
  BY DEF IsList
<1>2. Tail(s) \in Seq(S) /\ Len(s) \in Nat /\ Len(s) > 0 /\ Len(Tail(s)) = Len(s) - 1
  BY <1>1
<1>3. IsList(Tail(s))
  BY <1>2 DEF IsList
<1>4. Head(s) = s[1] /\ \A i \in 1 .. Len(s) - 1 : Tail(s)[i] = s[i + 1]
  BY <1>1
<1> QED BY <1>2, <1>3, <1>4

\* What of a program is not accepted.
LEMMA SiteRejected ==
  ASSUME ProgramOK, NEW site, IsSite(site), ~BodyAccepted(site)
  PROVE  ~Accepted
<1>1. ASSUME NEW i \in 1 .. Len(functions), site = <<0, i>> PROVE ~Accepted
  <2>1. i \in DOMAIN functions
    BY DEF ProgramOK
  <2> QED BY <1>1, <2>1 DEF Accepted
<1>2. ASSUME NEW k \in 1 .. Len(classes), NEW j \in Places(classes[k].members, "fn"), site = <<k, j>> PROVE ~Accepted
  <2>1. k \in DOMAIN classes /\ j \in DOMAIN classes[k].members
    BY MemberNode DEF ProgramOK, Places
  <2>2. ~IsField(<<k, j>>)
    BY <2>1, WrittenNodes
  <2> QED BY <1>2, <2>1, <2>2 DEF Accepted
<1> QED BY <1>1, <1>2 DEF IsSite

\* A program with an expression that is not accepted is not accepted.
LEMMA NodeRejected ==
  ASSUME ProgramOK, NEW site, IsSite(site), NEW i \in 1 .. Len(Written(site).nodes),
         ~NodeAccepted(Written(site).nodes, Mentioned(site), i)
  PROVE  ~Accepted
<1>1. i \in DOMAIN Written(site).nodes
  BY SiteNode, FunctionNode
<1>2. ~BodyAccepted(site)
  BY <1>1 DEF BodyAccepted
<1> QED BY <1>2, SiteRejected

\* Nor is one with an unknown return type.
LEMMA ReturnRejected ==
  ASSUME ProgramOK, NEW site, IsSite(site), ~RetAccepted(site)
  PROVE  ~Accepted
<1>1. ~BodyAccepted(site)
  BY DEF BodyAccepted, RetAccepted
<1> QED BY <1>1, SiteRejected

\* The node that is next.
LEMMA NextNodeIs ==
  ASSUME GenState, body # Absent, body.todo # << >>
  PROVE  LET id    == body.value.code.fn
             n     == Len(module[id].code)
             nodes == Written(Site).nodes
         IN /\ n \in Nat /\ Len(nodes) \in Nat /\ n + 1 \in 1 .. Len(nodes) /\ Head(body.todo) = nodes[n + 1]
            /\ IsList(Tail(body.todo)) /\ Len(nodes) = n + 1 + Len(Tail(body.todo))
            /\ \A i \in 1 .. Len(Tail(body.todo)) : Tail(body.todo)[i] = nodes[n + 1 + i]
            /\ Mentioned(Site)[n + 1] = Reference(Site, Mentioned(Site), n + 1)
<1>1. PICK id, n, nodes, todo, site : /\ id = body.value.code.fn /\ n = Len(module[id].code)
                                      /\ site = Site /\ nodes = Written(site).nodes /\ todo = body.todo
  OBVIOUS
<1>2. IsList(todo) /\ Len(nodes) = n + Len(todo) /\ \A i \in 1 .. Len(todo) : todo[i] = nodes[n + i]
  BY <1>1 DEF GenState, GenInv, BodyInv
<1>3. n \in Nat
  <2>1. IsList(module[id].code)
    BY <1>1, BodySite DEF GenState, HandlesInv, IsModule, IsFunction, IsCode
  <2> QED BY <1>1, <2>1, LengthOfList
<1>4. PICK l : l = Len(todo) /\ l \in Nat /\ l > 0
  BY <1>1, <1>2, RestList
<1>5. IsList(Tail(todo)) /\ Len(Tail(todo)) = l - 1 /\ Head(todo) = todo[1] /\ \A i \in 1 .. l - 1 : Tail(todo)[i] = todo[i + 1]
  BY <1>1, <1>2, <1>4, RestList
<1>6. Head(todo) = nodes[n + 1] /\ n + 1 \in 1 .. n + l
  BY <1>2, <1>3, <1>4, <1>5
<1>7. ASSUME NEW i \in 1 .. l - 1 PROVE Tail(todo)[i] = nodes[n + 1 + i]
  <2>1. Tail(todo)[i] = todo[i + 1] /\ i + 1 \in 1 .. l
    BY <1>4, <1>5
  <2>2. todo[i + 1] = nodes[n + (i + 1)]
    BY <1>2, <1>4, <2>1
  <2>3. n + (i + 1) = n + 1 + i
    BY <1>3, <1>4
  <2> QED BY <2>1, <2>2, <2>3
<1>8. Mentioned(site)[n + 1] = Reference(site, Mentioned(site), n + 1)
  <2>1. RefersTo(site, Mentioned(site), Len(nodes))
    BY <1>1, BodySite, MentionedIs
  <2>2. PICK f : f = Mentioned(site)
    OBVIOUS
  <2>3. n + 1 \in 1 .. Len(nodes)
    BY <1>2, <1>4, <1>6
  <2> QED BY <2>1, <2>2, <2>3 DEF RefersTo
<1>9. n \in Nat /\ Len(nodes) \in Nat /\ n + 1 \in 1 .. Len(nodes) /\ Len(nodes) = n + 1 + (l - 1)
  BY <1>2, <1>3, <1>4, <1>6
<1> QED BY <1>1, <1>5, <1>6, <1>7, <1>8, <1>9

\* Code in a body does not change a class.
LEMMA BodyStable ==
  ASSUME GenState, HandlesInv', UNCHANGED <<classes, functions, classTypes, local>>, Len(module') = Len(module),
         NEW site, IsSite(site), NEW id \in 1 .. Len(module), module[id].decl = site,
         \A k \in 1 .. Len(module) : /\ module'[k].decl = module[k].decl
                                     /\ k # id => module'[k].code = module[k].code
  PROVE  Kept /\ Stable
<1>1. Kept
  <2>1. Len(module) \in Nat
    BY StateIs
  <2> QED BY <2>1 DEF Kept
<1>2. PICK c : c = Class /\ c \in Nat /\ Class' = c
  BY StateIs DEF Class
<1>3. ASSUME NEW k \in 1 .. Class PROVE module'[classTypes[k].init].code = module[classTypes[k].init].code
  <2>1. PICK init : init = classTypes[k].init
    OBVIOUS
  <2>2. init \in 1 .. Len(module) /\ module[init].decl = <<k, 0>>
    BY <2>1 DEF GenState, GenInv, SupersInv
  <2>3. site[2] > 0
    BY SiteIs DEF GenState
  <2>4. module[init].decl[2] = 0
    BY <2>2
  <2>5. init # id
    BY <2>3, <2>4
  <2> QED BY <2>1, <2>2, <2>5
<1>4. \A k : LaidOut(k)' = LaidOut(k)
  BY <1>2 DEF LaidOut, InClass
<1>5. Stable
  BY <1>1, <1>2, <1>3, <1>4 DEF Stable
<1> QED BY <1>1, <1>5

\* What steps in bodies have in common.
LEMMA QuietFrame ==
  ASSUME GenState, Kept, Stable, UNCHANGED <<classTypes, local>>, ~InClass \/ local.laidOut
  PROVE  SupersInv' /\ MethodsInv' /\ VariablesInv' /\ LayoutInv' /\ MembersAccepted' /\ ClassesDone' = ClassesDone
<1>1. /\ ProgramOK /\ SupersInv /\ MethodsInv /\ VariablesInv /\ LayoutInv /\ MembersAccepted
      /\ UNCHANGED <<classes, functions>> /\ Class' = Class /\ InClass' = InClass
  BY DEF GenState, GenInv, Kept, Class, InClass
<1>2. \A k, kind : Ahead(k, kind)' = Ahead(k, kind)
  BY <1>1 DEF Ahead, MembersOf
<1>3. local' = Absent \/ (local # Absent /\ local' = local)
  OBVIOUS
<1>4. SupersInv' /\ MethodsInv' /\ VariablesInv'
  BY <1>1, <1>2, <1>3, SupersFrame, MethodsFrame, VariablesFrame
<1>5. LayoutInv'
  <2>1. \A k \in 1 .. Class' : k \in 1 .. Class /\ LaidOut(k)
    BY <1>1 DEF LaidOut
  <2> QED BY <1>1, <2>1, LayoutFrame
<1>6. MembersAccepted'
  <2>1. Class \in Nat /\ Class <= Len(classes)
    BY StateIs
  <2>2. ASSUME NEW k \in 1 .. Class
        PROVE  /\ \A j \in Known(k, "field")' : FieldAccepted(<<k, j>>)'
               /\ \A j \in Known(k, "fn")' : BodyAccepted(<<k, j>>)'
    BY <1>1, <1>2, <2>1, MembersFrame
  <2> QED BY <1>1, <2>2 DEF MembersAccepted
<1>7. ClassesDone' = ClassesDone
  BY <1>1 DEF ClassesDone
<1> QED BY <1>4, <1>5, <1>6, <1>7

\* Not more functions are generated than there are.
LEMMA DoneBound == ASSUME GenState PROVE Done <= Len(functions) /\ FunctionsDone <= Len(functions)
<1>1. PICK d, n : d = Done /\ n = Len(functions) /\ d \in Nat /\ n \in Nat
  BY StateIs
<1>2. ASSUME d > 0 PROVE d <= n
  <2>1. {module[i].decl[2] : i \in FunctionIds(module)} = 1 .. d
    BY <1>1, CountIs DEF GenState, ModuleInv, Sorted, HandlesInv
  <2>2. PICK i \in FunctionIds(module) : module[i].decl[2] = d
    BY <1>1, <1>2, <2>1
  <2>3. i \in 1 .. Len(module) /\ module[i].decl[1] = 0 /\ module[i].decl[2] > 0
    BY <2>2, StateIs DEF FunctionIds
  <2>4. IsSite(module[i].decl)
    BY <2>3 DEF GenState, GenInv, BodiesInv
  <2>5. PICK site : site = module[i].decl
    OBVIOUS
  <2>6. ASSUME NEW k \in 1 .. Len(classes), NEW j, site = <<k, j>> PROVE FALSE
    <3>1. k = 0
      BY <2>3, <2>5, <2>6
    <3> QED BY <3>1, StateIs
  <2>7. PICK j \in 1 .. Len(functions) : site = <<0, j>>
    BY <2>4, <2>5, <2>6 DEF IsSite
  <2>8. d = j
    BY <2>2, <2>5, <2>7
  <2> QED BY <1>1, <2>7, <2>8
<1>3. d <= n
  BY <1>1, <1>2
<1>4. FunctionsDone <= Done /\ FunctionsDone \in Nat
  BY StateIs
<1> QED BY <1>1, <1>3, <1>4

\* What the value of the next node should be.
NodeFits(value) ==
  LET id    == body.value.code.fn
      n     == Len(module[id].code)
      nodes == Written(Site).nodes
      decl  == Mentioned(Site)
  IN /\ NodeAccepted(nodes, decl, n + 1) /\ Before(decl[n + 1], ClassesDone)
     /\ Means(IF IsNull(value) THEN [op |-> "nothing"] ELSE value.code, decl[n + 1])
     /\ LastOK(nodes, decl, n + 1, value.type, body.region)

\* What is known of the last value stays the same.
LEMMA LastKept ==
  ASSUME UNCHANGED <<classes, functions>>
  PROVE  \A nodes, decl, n, type, region : LastOK(nodes, decl, n, type, region)' = LastOK(nodes, decl, n, type, region)
<1>1. \A type, decl, region : TypeMeans(type, decl, region)' = TypeMeans(type, decl, region)
  BY ReturnKept
<1>2. \A type, decl, region : ResultFits(type, Target(decl), region)' = ResultFits(type, Target(decl), region)
  BY ReturnKept, DeclarationsKept
<1>3. ASSUME NEW nodes, NEW decl, NEW n, NEW type, NEW region
      PROVE  LastOK(nodes, decl, n, type, region)' = LastOK(nodes, decl, n, type, region)
  <2>1. PICK a, b, c : /\ a = ResultFits(type, Target(decl[n - 1]), region)
                       /\ b = TypeMeans(type, decl[n], "") /\ c = TypeMeans(type, decl[n], region)
    OBVIOUS
  <2>2. /\ ResultFits(type, Target(decl[n - 1]), region)' = a
        /\ TypeMeans(type, decl[n], "")' = b /\ TypeMeans(type, decl[n], region)' = c
    BY <1>1, <1>2, <2>1
  <2>3. LastOK(nodes, decl, n, type, region) =
          CASE nodes[n].kind = "call" -> a [] nodes[n].kind = "name" -> b [] nodes[n].kind = "child" -> c
    BY <2>1 DEF LastOK
  <2>4. LastOK(nodes, decl, n, type, region)' =
          CASE nodes[n].kind = "call" -> a [] nodes[n].kind = "name" -> b [] nodes[n].kind = "child" -> c
    BY <2>2 DEF LastOK
  <2> QED BY <2>3, <2>4
<1> QED BY <1>3

\* The steps of a body keep the invariant.
LEMMA GenerateKeeps ==
  ASSUME GenState, HandlesInv', body # Absent, body.todo # << >>, NEW value, Generate(value), ~Fails(value),
         NodeFits(value)
  PROVE  GenInv'
<1>1. PICK id, n, nodes, site, decl, item :
        /\ id = body.value.code.fn /\ n = Len(module[id].code) /\ site = Site /\ nodes = Written(site).nodes
        /\ decl = Mentioned(site) /\ item = IF IsNull(value) THEN [op |-> "nothing"] ELSE value.code
  OBVIOUS
<1>2. /\ NodeAccepted(nodes, decl, n + 1) /\ Before(decl[n + 1], ClassesDone) /\ Means(item, decl[n + 1])
      /\ LastOK(nodes, decl, n + 1, value.type, body.region)
  BY <1>1 DEF NodeFits
<1>3. /\ module' = [module EXCEPT ![id].code = Append(@, item)]
      /\ body' = [body EXCEPT !.todo = Tail(@), !.last = value]
      /\ UNCHANGED <<classes, functions, classTypes, global, local>>
  BY <1>1 DEF Generate
<1>4. PICK code : code = module[id].code
  OBVIOUS
<1>5. /\ IsSite(site) /\ Written(site) \in FunctionNodes /\ id \in 1 .. Len(module) /\ module[id].decl = site
      /\ ~InClass \/ local.laidOut
  BY <1>1, BodySite
<1>6. IsList(code) /\ IsModule(module) /\ Len(module) \in Nat
  BY <1>4, <1>5, ModuleLength DEF GenState, HandlesInv, IsModule, IsFunction, IsCode
<1>7. PICK more : more = Append(code, item)
  OBVIOUS
<1>8. Len(more) = n + 1 /\ n \in Nat /\ (\A i \in 1 .. n : more[i] = code[i]) /\ more[n + 1] = item
  <2>1. Len(more) = Len(code) + 1 /\ Len(code) \in Nat /\ (\A i \in 1 .. Len(code) : more[i] = code[i])
        /\ more[Len(code) + 1] = item
    BY <1>6, <1>7, AppendedList
  <2> QED BY <1>1, <1>4, <2>1
<1>9. /\ module' = [module EXCEPT ![id].code = more] /\ Len(module') = Len(module)
      /\ \A k \in 1 .. Len(module) : module'[k].decl = module[k].decl
  <2>1. module' = [module EXCEPT ![id].code = more]
    BY <1>3, <1>4, <1>7
  <2> QED BY <1>5, <1>6, <2>1, EmittedHeads DEF SameHeads
<1>10. module'[id].code = more /\ \A k \in 1 .. Len(module) : k # id => module'[k].code = module[k].code
  <2>1. DOMAIN module = 1 .. Len(module)
    BY <1>6, ModuleLength
  <2>2. module[id] = [name |-> module[id].name, decl |-> module[id].decl, code |-> module[id].code]
    BY <1>5, <1>6 DEF IsModule, IsFunction
  <2>3. \A k \in 1 .. Len(module) : k # id => module'[k] = module[k]
    BY <1>9, <2>1
  <2>4. module'[id] = [module[id] EXCEPT !.code = more]
    BY <1>5, <1>9, <2>1
  <2> QED BY <2>2, <2>3, <2>4
<1>11. Kept /\ Stable
  BY <1>3, <1>5, <1>9, <1>10, BodyStable
<1>12. SupersInv' /\ MethodsInv' /\ VariablesInv' /\ LayoutInv' /\ MembersAccepted' /\ ClassesDone' = ClassesDone
  BY <1>3, <1>5, <1>11, QuietFrame
<1>13. Done' = Done
  BY <1>3, <1>5, <1>9, EmittedStep DEF GenState
<1>14. body' = [value |-> body.value, region |-> body.region, todo |-> Tail(body.todo), last |-> value]
  <2>1. body = [value |-> body.value, region |-> body.region, todo |-> body.todo, last |-> body.last]
    BY DEF GenState, GenInv, BodyInv
  <2> QED BY <1>3, <2>1
<1>15. body' # Absent
  BY <1>14 DEF Absent
<1>16. FunctionsDone' = FunctionsDone
  BY <1>3, <1>13, <1>15 DEF FunctionsDone, InClass
<1>17. TypesInv' /\ ValuesInv'
  BY <1>3, <1>11, <1>12, <1>16, TypesFrame, ValuesFrame DEF GenState, GenInv
<1>18. TodoInv'
  BY <1>3, <1>13, <1>15 DEF TodoInv, InClass, Places, MembersOf, Class, GenState, GenInv
<1>19. FunctionsAccepted'
  <2>1. FunctionsDone \in Nat /\ FunctionsDone <= Len(functions)
    BY StateIs, DoneBound
  <2> QED BY <1>3, <1>16, <2>1, FunctionsFrame DEF GenState, GenInv
<1>20. Site' = site
  BY <1>1, <1>3, <1>13 DEF Site, InClass, Class
<1>21. Mentioned(site)' = decl /\ Written(site)' = Written(site) /\ IsSite(site)'
  BY <1>1, <1>3, <1>5, MentionedKept, ProgramKept DEF IsSite
<1>22. SupersInv /\ ProgramOK
  BY DEF GenState, GenInv
<1>23. BodiesInv'
  <2>1. ASSUME NEW k \in 1 .. Len(module'), module'[k].decl[2] > 0, k # id
        PROVE  /\ IsSite(module[k].decl)' /\ BodyMeans(k)'
               /\ ~InBody(k)' => Len(module[k].code)' = Len(Written(module[k].decl).nodes)'
    <3>1. k \in 1 .. Len(module) /\ module[k].decl[2] > 0
      BY <1>9, <2>1
    <3>2. ~InBody(k)
      BY <1>1, <2>1 DEF InBody
    <3>3. IsSite(module[k].decl) /\ BodyMeans(k) /\ Len(module[k].code) = Len(Written(module[k].decl).nodes)
      BY <3>1, <3>2 DEF GenState, GenInv, BodiesInv
    <3>4. module'[k].code = module[k].code
      BY <1>10, <2>1, <3>1
    <3> QED BY <1>11, <1>12, <1>22, <3>1, <3>3, <3>4, BodyFrame
  <2>2. IsSite(module[id].decl)' /\ BodyMeans(id)' /\ InBody(id)'
    <3>1. module'[id].decl = site
      BY <1>5, <1>9
    <3>2. InBody(id)'
      BY <1>1, <1>14, <1>15 DEF InBody
    <3>3. \A i \in 1 .. n : Means(code[i], decl[i])
      <4>1. site[2] > 0
        BY <1>5, <1>22, SiteIs
      <4>2. BodyMeans(id)
        BY <1>5, <4>1 DEF GenState, GenInv, BodiesInv
      <4> QED BY <1>1, <1>4, <1>5, <4>2 DEF BodyMeans
    <3>4. ASSUME NEW i \in 1 .. n + 1 PROVE Means(more[i], decl[i])'
      <4>1. PICK x, d : x = more[i] /\ d = decl[i]
        OBVIOUS
      <4>2. Means(x, d)
        <5>1. CASE i = n + 1
          BY <1>2, <1>8, <4>1, <5>1
        <5>2. CASE i # n + 1
          <6>1. i \in 1 .. n
            BY <1>8, <5>2
          <6> QED BY <1>8, <3>3, <4>1, <6>1
        <5> QED BY <5>1, <5>2
      <4>3. Means(x, d)'
        BY <1>11, <1>12, <1>22, <4>2, MeansKept
      <4> QED BY <4>1, <4>3
    <3>5. BodyMeans(id)'
      BY <1>8, <1>10, <1>21, <3>1, <3>4 DEF BodyMeans
    <3> QED BY <1>21, <3>1, <3>2, <3>5
  <2>3. Len(module') = Len(module)
    BY <1>9
  <2> QED BY <1>5, <2>1, <2>2 DEF BodiesInv
<1>24. BodyInv'
  <2>1. /\ FunctionOK(body.value, site) /\ RetAccepted(site) /\ body.region = IF InClass THEN "this" ELSE "fn_default"
        /\ \A i \in 1 .. n : NodeAccepted(nodes, decl, i) /\ Before(decl[i], ClassesDone)
    BY <1>1 DEF GenState, GenInv, BodyInv
  <2>2. FunctionOK(body.value, site)' /\ RetAccepted(site)'
    <3>1. PICK v : v = body.value
      OBVIOUS
    <3>2. FunctionOK(v, site)'
      BY <1>11, <2>1, <3>1, FunctionKept
    <3>3. body'.value = v
      BY <1>14, <3>1
    <3> QED BY <1>3, <1>22, <2>1, <3>2, <3>3, AcceptedKept DEF FunctionOK
  <2>3. /\ IsList(Tail(body.todo)) /\ Len(nodes) = n + 1 + Len(Tail(body.todo))
        /\ \A i \in 1 .. Len(Tail(body.todo)) : Tail(body.todo)[i] = nodes[n + 1 + i]
    BY <1>1, NextNodeIs
  <2>4. /\ body'.value.code.fn = id /\ Len(module'[id].code) = n + 1 /\ Written(site)'.nodes = nodes
        /\ Site' = site /\ Mentioned(site)' = decl /\ InClass' = InClass
    BY <1>1, <1>3, <1>8, <1>10, <1>14, <1>20, <1>21 DEF InClass
  <2>5. LastOK(nodes, decl, n + 1, value.type, body.region)'
    <3>1. PICK type, region : type = value.type /\ region = body.region
      OBVIOUS
    <3>2. LastOK(nodes, decl, n + 1, type, region)'
      BY <1>2, <1>3, <3>1, LastKept
    <3>3. body'.last.type = type /\ body'.region = region
      BY <1>14, <3>1
    <3> QED BY <3>1, <3>2, <3>3
  <2>6. \A i \in 1 .. n + 1 : NodeAccepted(nodes, decl, i)' /\ Before(decl[i], ClassesDone)'
    <3>1. \A i \in 1 .. n + 1 : NodeAccepted(nodes, decl, i) /\ Before(decl[i], ClassesDone)
      <4>1. \A i \in 1 .. n + 1 : i \in 1 .. n \/ i = n + 1
        BY <1>8
      <4> QED BY <1>2, <2>1, <4>1
    <3>2. \A d : Before(d, ClassesDone)' = Before(d, ClassesDone)
      BY <1>3, <1>12 DEF Before
    <3> QED BY <1>3, <1>22, <3>1, <3>2, AcceptedKept
  <2> QED BY <1>14, <2>1, <2>2, <2>3, <2>4, <2>5, <2>6 DEF BodyInv
<1> QED BY <1>12, <1>17, <1>18, <1>19, <1>23, <1>24 DEF GenInv

\* A step that leaves the module and the contexts alone.
LEMMA IdleKeeps ==
  ASSUME GenState, HandlesInv', UNCHANGED <<classes, functions, module, classTypes, global, body, local>>
  PROVE  GenInv'
<1>1. /\ ProgramOK /\ SupersInv /\ TypesInv /\ ValuesInv /\ MethodsInv /\ VariablesInv /\ LayoutInv /\ BodiesInv
      /\ MembersAccepted /\ FunctionsAccepted /\ TodoInv /\ BodyInv
  BY DEF GenState, GenInv
<1>2. /\ Class' = Class /\ Done' = Done /\ InClass' = InClass /\ Class \in Nat /\ Class <= Len(classes)
      /\ \A k, kind : Ahead(k, kind)' = Ahead(k, kind)
      /\ \A k : MembersOf(k)' = MembersOf(k) /\ InitCode(k)' = InitCode(k) /\ LaidOut(k)' = LaidOut(k)
  BY StateIs DEF Class, Done, InClass, Ahead, MembersOf, InitCode, LaidOut
<1>3. Kept /\ Stable
  <2>1. Kept
    BY StateIs DEF Kept
  <2> QED BY <1>2, <2>1 DEF Stable
<1>4. ClassesDone' = ClassesDone /\ FunctionsDone' = FunctionsDone
  BY <1>2 DEF ClassesDone, FunctionsDone
<1>5. local' = Absent \/ (local # Absent /\ local' = local)
  OBVIOUS
<1>6. SupersInv' /\ TypesInv' /\ ValuesInv' /\ MethodsInv' /\ VariablesInv'
  BY <1>1, <1>2, <1>3, <1>4, <1>5, SupersFrame, TypesFrame, ValuesFrame, MethodsFrame, VariablesFrame
<1>7. TodoInv'
  BY <1>1, <1>2 DEF TodoInv, Places
<1>8. LayoutInv'
  <2>1. ASSUME NEW k \in 1 .. Class, LaidOut(k) PROVE LayoutOK(k)'
    BY <1>1, <1>3, <2>1, LayoutKept DEF LayoutInv
  <2>2. ASSUME NEW k \in 1 .. Class, ~LaidOut(k)
        PROVE  /\ classTypes'[k].children = << >> /\ classTypes'[k].functions = << >> /\ classTypes'[k].slots = << >>
               /\ \A i \in DOMAIN InitCode(k)' : InitCode(k)'[i].op \notin {"store", "init"}
    BY <1>1, <1>2, <2>2 DEF LayoutInv
  <2> QED BY <1>2, <2>1, <2>2 DEF LayoutInv
<1>9. MembersAccepted'
  <2>1. ASSUME NEW k \in 1 .. Class
        PROVE  /\ \A j \in Known(k, "field")' : FieldAccepted(<<k, j>>)'
               /\ \A j \in Known(k, "fn")' : BodyAccepted(<<k, j>>)'
    BY <1>1, <1>2, MembersFrame
  <2> QED BY <1>2, <2>1 DEF MembersAccepted
<1>10. FunctionsAccepted'
  <2>1. FunctionsDone \in Nat /\ FunctionsDone <= Len(functions)
    BY StateIs, DoneBound
  <2> QED BY <1>1, <1>4, <2>1, FunctionsFrame
<1>11. BodiesInv'
  <2>1. \A id : InBody(id)' = InBody(id)
    BY DEF InBody
  <2> QED BY <1>1, <1>3, <1>6, <2>1, BodiesFrame
<1>12. BodyInv'
  <2>1. CASE body # Absent
    <3>1. PICK site, decl, node : site = Site /\ decl = Mentioned(site) /\ node = Written(site)
      OBVIOUS
    <3>2. Site' = site
      BY <1>2, <3>1 DEF Site
    <3>3. Mentioned(site)' = decl /\ Written(site)' = node
      BY <2>1, <3>1, BodySite, MentionedKept, ProgramKept
    <3>4. FunctionOK(body.value, site)'
      <4>1. PICK v : v = body.value
        OBVIOUS
      <4>2. FunctionOK(v, site)'
        BY <1>1, <1>3, <2>1, <3>1, <4>1, FunctionKept DEF BodyInv
      <4> QED BY <4>1, <4>2
    <3>5. RetAccepted(site)' = RetAccepted(site) /\ \A nodes, d, i : NodeAccepted(nodes, d, i)' = NodeAccepted(nodes, d, i)
      BY <1>1, AcceptedKept
    <3>6. \A d : Before(d, ClassesDone)' = Before(d, ClassesDone)
      BY <1>4 DEF Before
    <3>7. \A n : LastOK(node.nodes, decl, n, body.last.type, body.region)' = LastOK(node.nodes, decl, n, body.last.type, body.region)
      <4>1. PICK type, region, nodes : type = body.last.type /\ region = body.region /\ nodes = node.nodes
        OBVIOUS
      <4>2. \A n : LastOK(nodes, decl, n, type, region)' = LastOK(nodes, decl, n, type, region)
        BY LastKept
      <4>3. body'.last.type = type /\ body'.region = region
        BY <4>1
      <4> QED BY <4>1, <4>2, <4>3
    <3> QED BY <1>1, <1>2, <2>1, <3>1, <3>2, <3>3, <3>4, <3>5, <3>6, <3>7 DEF BodyInv
  <2>2. CASE body = Absent
    BY <2>2 DEF BodyInv
  <2> QED BY <2>1, <2>2
<1> QED BY <1>6, <1>7, <1>8, <1>9, <1>10, <1>11, <1>12 DEF GenInv

\* A value that is none.
LEMMA NothingIs == ~Fails(Null) /\ IsNull(Null) /\ Null.type.kind = "null"
BY DEF Null, Fails, IsNull

\* A failure is one.
LEMMA FailureIs == \A how : Failed(how).type.kind = how /\ (how \in {"aborted", "rejected"} => Fails(Failed(how)))
BY DEF Failed, Fails

\* What the next node is, with the names of the value that it should have.
NodeRight(value) ==
  IF Fails(value) THEN ~Accepted ELSE NodeFits(value)

\* A node whose value is right is generated, and the next one is to come.
LEMMA NodeKeeps ==
  ASSUME GenState, HandlesInv', body # Absent, body.todo # << >>, NEW value, Generate(value), NodeRight(value)
  PROVE  GenInv' /\ (outcome' # outcome => ~Accepted)
<1>1. CASE Fails(value)
  <2>1. UNCHANGED <<classes, functions, module, classTypes, global, body, local>>
    BY <1>1 DEF Generate
  <2> QED BY <1>1, <2>1, IdleKeeps DEF NodeRight
<1>2. CASE ~Fails(value)
  <2>1. outcome' = outcome
    BY <1>2 DEF Generate
  <2> QED BY <1>2, <2>1, GenerateKeeps DEF NodeRight
<1> QED BY <1>1, <1>2

\* A name.
LEMMA NameRight ==
  ASSUME GenState, body # Absent, body.todo # << >>, Head(body.todo).kind = "name"
  PROVE  NodeRight(Resolved(getValue(Head(body.todo).name)))
<1>1. PICK id, n, nodes, site, decl, name, v, d :
        /\ id = body.value.code.fn /\ n = Len(module[id].code) /\ site = Site /\ nodes = Written(site).nodes
        /\ decl = Mentioned(site) /\ name = Head(body.todo).name /\ v = getValue(name) /\ d = Meaning(name, site)
  OBVIOUS
<1>2. /\ n + 1 \in 1 .. Len(nodes) /\ nodes[n + 1].kind = "name" /\ nodes[n + 1].name = name
      /\ decl[n + 1] = Reference(site, decl, n + 1)
  BY <1>1, NextNodeIs
<1>3. decl[n + 1] = d
  BY <1>1, <1>2 DEF Reference
<1>4. Found(v, d, "") /\ Before(d, ClassesDone)
  BY <1>1, NameFound
<1>5. CASE d = << >>
  <2>1. Fails(Resolved(v))
    BY <1>4, <1>5, NothingIs, FailureIs DEF Found, Resolved
  <2>2. ~NodeAccepted(nodes, decl, n + 1)
    BY <1>2, <1>3, <1>5 DEF NodeAccepted
  <2>3. ~Accepted
    BY <1>1, <1>2, <2>2, BodySite, NodeRejected DEF GenState
  <2> QED BY <1>1, <2>1, <2>3 DEF NodeRight
<1>6. CASE d # << >>
  <2>1. Resolved(v) = v /\ ~Fails(v) /\ ~IsNull(v) /\ TypeMeans(v.type, d, "") /\ Means(v.code, d)
    BY <1>4, <1>6 DEF Found, Resolved
  <2>2. NodeAccepted(nodes, decl, n + 1)
    BY <1>2, <1>3, <1>6 DEF NodeAccepted
  <2>3. LastOK(nodes, decl, n + 1, v.type, body.region)
    BY <1>2, <1>3, <2>1 DEF LastOK
  <2>4. NodeFits(v)
    BY <1>1, <1>3, <1>4, <2>1, <2>2, <2>3 DEF NodeFits
  <2> QED BY <1>1, <2>1, <2>4 DEF NodeRight
<1> QED BY <1>5, <1>6

\* A class that is complete.
LEMMA CompleteIs ==
  ASSUME GenState, NEW k \in 1 .. ClassesDone
  PROVE  k \in 1 .. Class /\ LaidOut(k) /\ KnownBefore(k, 0)
<1>1. PICK c, n : c = Class /\ n = ClassesDone
  OBVIOUS
<1>2. c \in Nat /\ n \in Nat /\ n <= c /\ (InClass => n = c - 1)
  BY <1>1, StateIs
<1>3. k \in 1 .. c /\ (InClass => k # c /\ k < c)
  BY <1>1, <1>2
<1>4. Ahead(k, "fn") = {}
  BY <1>1, <1>3 DEF Ahead
<1> QED BY <1>1, <1>3, <1>4 DEF LaidOut, KnownBefore

\* The nodes in front of a call and of a child.
LEMMA ChainedIs ==
  ASSUME GenState, body # Absent, NEW i \in 1 .. Len(Written(Site).nodes)
  PROVE  LET nodes == Written(Site).nodes IN
         /\ nodes[i].kind \in {"name", "child", "call"}
         /\ nodes[i].kind = "call"  => i > 1 /\ nodes[i - 1].kind \in {"name", "child"}
         /\ nodes[i].kind = "child" => i > 1 /\ nodes[i - 1].kind = "call"
<1>1. PICK nodes : nodes = Written(Site).nodes
  OBVIOUS
<1>2. /\ \A j \in 1 .. Len(nodes) : nodes[j].kind \in {"name", "child", "call"}
      /\ Chained(nodes)
  BY <1>1, BodySite, FunctionNode
<1> QED BY <1>1, <1>2 DEF Chained

\* What is known of the value of the last node.
LEMMA LastIs ==
  ASSUME GenState, body # Absent, NEW n, n = Len(module[body.value.code.fn].code), n > 0
  PROVE  LET nodes == Written(Site).nodes
             decl  == Mentioned(Site)
         IN /\ LastOK(nodes, decl, n, body.last.type, body.region)
            /\ \A i \in 1 .. n : Before(decl[i], ClassesDone)
BY DEF GenState, GenInv, BodyInv

\* A child of the result of a call.
LEMMA ChildRight ==
  ASSUME GenState, body # Absent, body.todo # << >>, Head(body.todo).kind = "child"
  PROVE  NodeRight(getChild(Resolved(body.last), Head(body.todo).name))
<1>1. PICK id, n, nodes, site, decl, name, last, region :
        /\ id = body.value.code.fn /\ n = Len(module[id].code) /\ site = Site /\ nodes = Written(site).nodes
        /\ decl = Mentioned(site) /\ name = Head(body.todo).name /\ last = body.last /\ region = body.region
  OBVIOUS
<1>2. /\ n \in Nat /\ n + 1 \in 1 .. Len(nodes) /\ Len(nodes) \in Nat
      /\ nodes[n + 1].kind = "child" /\ nodes[n + 1].name = name
      /\ decl[n + 1] = Reference(site, decl, n + 1)
  BY <1>1, NextNodeIs
<1>3. n > 0 /\ nodes[n].kind = "call" /\ n > 1
  <2>1. PICK i : i = n + 1 /\ i \in 1 .. Len(nodes) /\ i - 1 = n
    BY <1>2
  <2>2. i > 1 /\ nodes[i - 1].kind = "call"
    BY <1>1, <1>2, <2>1, ChainedIs
  <2>3. n > 0 /\ n \in 1 .. Len(nodes) /\ nodes[n].kind = "call"
    BY <1>2, <2>1, <2>2
  <2> QED BY <1>1, <2>3, ChainedIs
<1>4. PICK m, d : m = n - 1 /\ d = decl[m]
  OBVIOUS
<1>5. m \in 1 .. n /\ n + 1 - 2 = m
  BY <1>2, <1>3, <1>4
<1>6. Before(d, ClassesDone) /\ ResultFits(last.type, Target(d), region)
  <2>1. LastOK(nodes, decl, n, last.type, region) /\ \A i \in 1 .. n : Before(decl[i], ClassesDone)
    BY <1>1, <1>3, LastIs
  <2> QED BY <1>3, <1>4, <1>5, <2>1 DEF LastOK
<1>7. PICK c, k : c = ClassesDone /\ k = ResultClass(Target(d))
  OBVIOUS
<1>8. ProgramOK /\ HandlesInv /\ SupersInv /\ MethodsInv /\ LayoutInv /\ c \in Nat /\ c <= Len(classes) /\ Class \in Nat
  BY <1>7, StateIs DEF GenState, GenInv
<1>9. k \in 0 .. c
  <2>1. Before(Target(d), c)
    BY <1>6, <1>7, <1>8, TargetBefore
  <2> QED BY <1>7, <1>8, <2>1, ResultBefore
<1>10. NodeAccepted(nodes, decl, n + 1) <=> k # 0
  BY <1>2, <1>4, <1>5, <1>7 DEF NodeAccepted
<1>11. CASE k = 0
  <2>1. last.type.kind \in {"void", "int", "region"}
    BY <1>6, <1>7, <1>11 DEF ResultFits
  <2>2. Fails(getChild(Resolved(last), name))
    <3>1. Resolved(last) = last /\ ~Fails(last) /\ last.type.kind # "class"
      BY <2>1 DEF Resolved, IsNull, Fails
    <3>2. getChild(last, name) = Failed("aborted")
      BY <3>1 DEF getChild
    <3> QED BY <3>1, <3>2, FailureIs
  <2>3. ~Accepted
    BY <1>1, <1>2, <1>8, <1>10, <1>11, BodySite, NodeRejected
  <2> QED BY <1>1, <2>2, <2>3 DEF NodeRight
<1>12. CASE k # 0
  <2>1. last.type.kind = "class" /\ last.type.class = k /\ last.type.region = region
    BY <1>6, <1>7, <1>12 DEF ResultFits
  <2>2. Resolved(last) = last
    BY <2>1 DEF Resolved, IsNull
  <2>3. k \in 1 .. ClassesDone /\ k \in 1 .. Class /\ LaidOut(k) /\ KnownBefore(k, 0)
    <3>1. k \in 1 .. ClassesDone
      BY <1>7, <1>8, <1>9, <1>12
    <3> QED BY <3>1, CompleteIs
  <2>4. PICK r, e : r = getChild(last, name) /\ e = AsMember(name, k, 0)
    OBVIOUS
  <2>5. Found(r, e, region)
    BY <1>8, <2>1, <2>3, <2>4, ChildIs
  <2>6. decl[n + 1] = e
    <3>1. decl[n + 1 - 2] = d
      BY <1>4, <1>5
    <3>2. Reference(site, decl, n + 1) = AsMember(name, ResultClass(Target(decl[n + 1 - 2])), 0)
      BY <1>1, <1>2, SMTT(30) DEF Reference
    <3> QED BY <1>2, <1>7, <2>4, <3>1, <3>2
  <2>7. Before(e, c)
    <3>1. CASE e # << >>
      <4>1. k \in 1 .. Len(classes)
        BY <1>8, <1>9, <1>12, ProgramLengths
      <4>2. PICK x \in 1 .. k, j \in Nat \ {0} : e = <<x, j>>
        BY <1>8, <2>4, <3>1, <4>1, MemberBefore
      <4>3. x \in 0 .. c + 1 /\ x # 0 /\ j \in Int /\ j > 0
        BY <1>8, <1>9
      <4> QED BY <4>2, <4>3 DEF Before
    <3>2. CASE e = << >>
      BY <3>2 DEF Before
    <3> QED BY <3>1, <3>2
  <2>8. ~Fails(r) /\ TypeMeans(r.type, e, region) /\ Means(IF IsNull(r) THEN [op |-> "nothing"] ELSE r.code, e)
    <3>1. CASE e = << >>
      <4>1. r = Null
        BY <2>5, <3>1 DEF Found
      <4>2. Means([op |-> "nothing"], e)
        BY <3>1 DEF Means, ItemOK, Refers
      <4> QED BY <3>1, <4>1, <4>2, NothingIs DEF TypeMeans
    <3>2. CASE e # << >>
      BY <2>5, <3>2 DEF Found
    <3> QED BY <3>1, <3>2
  <2>9. LastOK(nodes, decl, n + 1, r.type, region)
    BY <1>2, <2>6, <2>8 DEF LastOK
  <2>10. NodeFits(r)
    BY <1>1, <1>7, <1>10, <1>12, <2>6, <2>7, <2>8, <2>9 DEF NodeFits
  <2> QED BY <1>1, <2>2, <2>4, <2>8, <2>10 DEF NodeRight
<1> QED BY <1>11, <1>12

\* A value that can be called, for a declaration.
Ready(v, region, decl) ==
  /\ v.type.kind \in {"function", "method"} /\ region # ""
  /\ v.type.kind = "method" => v.type.instance = region
  /\ ReturnFits(v.type.ret, decl)

\* What a call of a function makes.
LEMMA CallResult ==
  ASSUME NEW v, NEW region, NEW handle, NEW decl, Ready(v, region, decl),
         NEW made, made = doCall(v, region, handle)
  PROVE  ~Fails(made) /\ ~IsNull(made) /\ made.code.op = "call" /\ ResultFits(made.type, decl, region)
<1>1. PICK r, ret, k : r = made /\ r = doCall(v, region, handle) /\ ret = v.type.ret /\ k = ResultClass(decl)
  OBVIOUS
<1>2. /\ v.type.kind \in {"function", "method"} /\ region # "" /\ (v.type.kind = "method" => v.type.instance = region)
      /\ ReturnFits(ret, decl)
  BY <1>1 DEF Ready
<1>3. IF k # 0 THEN ret = ClassType(k, ret.region) ELSE ret.kind \in {"void", "int", "region"}
  <2>1. CASE k # 0
    BY <1>2, <1>1, <2>1 DEF ReturnFits
  <2>2. CASE k = 0
    BY <1>2, <1>1, <2>2 DEF ReturnFits
  <2> QED BY <2>1, <2>2
<1>4. r = [type  |-> IF ret.kind = "class" THEN [ret EXCEPT !.region = region] ELSE ret,
           width |-> ReturnWidth(v.type),
           code  |-> [op |-> "call", handle |-> IF v.type.native THEN 0 ELSE handle]]
  BY <1>2, <1>1 DEF doCall, Fails
<1>5. PICK type : type = IF ret.kind = "class" THEN [ret EXCEPT !.region = region] ELSE ret
  OBVIOUS
<1>6. /\ k # 0 => type.kind = "class" /\ type.class = k /\ type.region = region
      /\ k = 0 => type.kind \in {"void", "int", "region"}
  <2>1. ASSUME k # 0 PROVE type.kind = "class" /\ type.class = k /\ type.region = region
    <3>1. PICK old : old = ret.region
      OBVIOUS
    <3>2. ret = [kind |-> "class", class |-> k, region |-> old]
      BY <1>3, <2>1, <3>1 DEF ClassType
    <3>3. type = [kind |-> "class", class |-> k, region |-> region]
      BY <1>5, <3>2
    <3> QED BY <3>3
  <2>2. ASSUME k = 0 PROVE type.kind \in {"void", "int", "region"}
    BY <1>3, <1>5, <2>2
  <2> QED BY <2>1, <2>2
<1>7. r.type = type /\ r.code.op = "call"
  BY <1>4, <1>5
<1>8. ResultFits(type, decl, region)
  BY <1>1, <1>6 DEF ResultFits
<1>9. type.kind \in {"class", "void", "int", "region"}
  BY <1>6
<1> QED BY <1>1, <1>7, <1>8, <1>9 DEF Fails, IsNull
=============================================================================
