SPECIFICATION Spec
CONSTANTS
  None = None
  Bits = 5
  IntBits = 4
  Library <- MCLibrary
  Texts <- MCTexts
INVARIANTS
  TypeOK
  ReadsFiles
  LiteralsExact
  NamesResolved
  CompiledByOrder
  FieldsInitialised
  MistypedByComparison
  HandlesOwn
  RunsMain
  PrintsByShape
CHECK_DEADLOCK FALSE
