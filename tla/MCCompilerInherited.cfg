SPECIFICATION Spec
CONSTANTS
  None = None
  Bits = 5
  IntBits = 4
  Library <- MCLibrary
  Texts <- MCTexts
INVARIANT InheritedInitialised
CHECK_DEADLOCK FALSE
