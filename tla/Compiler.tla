------------------------------ MODULE Compiler ------------------------------
(***************************************************************************)
(* The processes: the compiler reads the library and a file, generates     *)
(* their code and runs it or writes an object; the parser prints a file.   *)
(***************************************************************************)
EXTENDS Reader, Declarations, Printing

CONSTANTS
  Library,  \* the file of the library
  Texts     \* mode |-> the files a user may give to it: "jit", "object", "print"

ASSUME FilesAssumption == File(Library) /\ \A m \in DOMAIN Texts : \A text \in Texts[m] : File(text)

VARIABLES
  mode,  \* which process it is
  entry  \* the function that main was found to be, or 0

vars == <<classes, functions, outcome, readVars, genVars, printVars, mode, entry>>

ReadStep  == ReadNext /\ UNCHANGED <<genVars, printVars, mode, entry>>
GenStep   == GenNext /\ UNCHANGED <<readVars, printVars, mode, entry>>
PrintStep == PrintNext /\ UNCHANGED <<readVars, genVars, mode, entry>>

\* Everything is read before anything is generated or printed.
AllRead ==
  /\ outcome = "reading" /\ pending = << >>
  /\ UNCHANGED <<classes, functions, readVars, genVars, printVars, mode, entry>>

\* main of main_jit.cpp.
StartCodegen == AllRead /\ mode # "print" /\ outcome' = "generating"

\* main of main_parser.cpp.
StartPrint == AllRead /\ mode = "print" /\ outcome' = "printing"

Main == getFunction("main")

\* runProgram: the pointer of no function is called as well.
runProgram ==
  /\ outcome = "generated" /\ mode = "jit"
  /\ entry' = Main
  /\ outcome' = IF Main = 0 THEN "crashed" ELSE "ran"
  /\ UNCHANGED <<classes, functions, readVars, genVars, printVars, mode>>

\* Slip: main keeps its name.
Renamed_not == module

Renamed == [module EXCEPT ![Main].name = "elism_main"]

\* The end of makeObjectProgram: main is renamed, and called by a new main with
\* a region of its own.
makeObject ==
  /\ outcome = "generated" /\ mode = "object"
  /\ entry' = Main
  /\ outcome' = IF Main = 0 THEN "crashed" ELSE "emitted"
  /\ module' = IF Main = 0 THEN module ELSE
       Append(Renamed,
              [name |-> IF \E id \in DOMAIN Renamed : Renamed[id].name = "main" THEN None ELSE "main",
               decl |-> <<0, 0>>,
               code |-> <<[op |-> "fn", fn |-> getFunction("NewRegion")], [op |-> "call", handle |-> 0],
                          [op |-> "fn", fn |-> Main], [op |-> "call", handle |-> Len(module) + 1],
                          [op |-> "fn", fn |-> getFunction("DeleteRegion")],
                          [op |-> "call", handle |-> Len(module) + 1]>>])
  /\ UNCHANGED <<classes, functions, readVars, classTypes, global, body, local, printVars, mode>>

Init ==
  /\ mode \in DOMAIN Texts
  /\ files \in {IF mode = "print" THEN <<text>> ELSE <<Library, text>> : text \in Texts[mode]}
  /\ outcome = "reading" /\ entry = 0
  /\ ReadInit /\ GenInit /\ PrintInit

Next == ReadStep \/ StartCodegen \/ StartPrint \/ GenStep \/ PrintStep \/ runProgram \/ makeObject

Spec == Init /\ [][Next]_vars

(***************************************************************************)
(* Properties.                                                             *)
(***************************************************************************)

\* Functions that values and classes name exist, a class inherits from an earlier
\* one, and a child is in the part of the object that its class adds.
TypeOK ==
  /\ yylval \in -Power[IntBits - 1] .. Power[IntBits - 1] - 1
  /\ entry \in 0 .. Len(module) /\ global.region \in 0 .. Len(module)
  /\ \A name \in DOMAIN global.values : global.values[name].code.fn \in DOMAIN module
  /\ \A k \in DOMAIN classTypes : LET class == classTypes[k] IN
       /\ class.super \in 0 .. k - 1 /\ class.init \in DOMAIN module
       /\ \A name \in DOMAIN class.children :
            class.children[name].index \in Offset(class) .. Len(class.slots) - 1
       /\ \A name \in DOMAIN class.functions : class.functions[name].code.fn \in DOMAIN module

\* The functions and methods of a name.
Bearers(name) == {id \in Bodies : Written(module[id].decl).name = name}

\* The process runs what main means at the end of the source exactly if that is
\* the name of one function and no method: the module finds the one that was
\* generated first, the program the last function.  The main of an object calls
\* the same.  Without any the compiler crashes.
RunsMain ==
  /\ outcome = "crashed" => Bearers("main") = {}
  /\ outcome \in {"ran", "emitted"} => entry # 0
  /\ entry # 0 =>
       (module[entry].decl = Globally("main", Len(classes), Len(functions))
          <=> \E i \in 1 .. Len(functions) : {module[id].decl : id \in Bearers("main")} = {<<0, i>>})
  /\ outcome = "emitted" =>
       getFunction("main") = Len(module) /\ module[Len(module)].code[3] = [op |-> "fn", fn |-> entry]

\* Printing is defined if there is one declaration or no class; the classes come
\* first, each in its order.
PrintsByShape ==
  mode = "print" =>
    /\ outcome = "printed" =>
         /\ classes = << >> \/ Len(classes) + Len(functions) = 1
         /\ printed = [k \in DOMAIN (classes \o functions) |-> (classes \o functions)[k].name]
    /\ outcome = "undefined" /\ Read => classes # << >> /\ Len(classes) + Len(functions) > 1
=============================================================================
