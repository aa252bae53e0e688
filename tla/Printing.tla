------------------------------ MODULE Printing ------------------------------
(***************************************************************************)
(* Program::print with the Printer: when it is at the start of a line it   *)
(* writes the string that indentStrCurrent points to, which setIndent sets *)
(* and the constructor does not.                                           *)
(***************************************************************************)
EXTENDS Program

VARIABLES
  printed,  \* the declarations that are printed, in order
  newline,  \* at the start of a line
  indent    \* None: indentStrCurrent is not set

printVars == <<printed, newline, indent>>

PrintInit == printed = << >> /\ newline = FALSE /\ indent = None

\* What comes of printing: an uninitialised pointer may be read.
Begun == IF newline /\ indent = None THEN "undefined" ELSE outcome

Place == Len(printed) + 1

\* Slip: a class leaves its line open.
PrintClass_open ==
  /\ outcome = "printing" /\ Place <= Len(classes)
  /\ outcome' = Begun
  /\ printed' = Append(printed, classes[Place].name)
  /\ UNCHANGED <<classes, functions, newline, indent>>

\* ClassNode::print: a line "TODO".
PrintClass ==
  /\ outcome = "printing" /\ Place <= Len(classes)
  /\ outcome' = Begun
  /\ newline' = TRUE
  /\ printed' = Append(printed, classes[Place].name)
  /\ UNCHANGED <<classes, functions, indent>>

\* beginBlock and endBlock, which set the indent.
PrintBlock == newline' = TRUE /\ indent' = 0

\* FunctionNode::print: the statements are printed in a block.
PrintFunction ==
  /\ outcome = "printing" /\ Place > Len(classes) /\ Place <= Len(classes) + Len(functions)
  /\ outcome' = Begun
  /\ PrintBlock
  /\ printed' = Append(printed, functions[Place - Len(classes)].name)
  /\ UNCHANGED <<classes, functions>>

FinishPrint ==
  /\ outcome = "printing" /\ Place > Len(classes) + Len(functions)
  /\ outcome' = "printed"
  /\ UNCHANGED <<classes, functions, printVars>>

PrintNext == PrintClass \/ PrintFunction \/ FinishPrint
=============================================================================
