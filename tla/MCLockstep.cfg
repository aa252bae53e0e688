SPECIFICATION Spec
CONSTANTS
  Program <- MCProgram
  Syntax <- MCSyntax
  Value = {0, 1}
  Length = 2
INVARIANTS
  TypeOK
  MalformedByReturns
  OnlyReturnsMalform
  SameBehaviour
