SPECIFICATION Spec
CONSTANTS
  Handle = {h1, h2}
  Block = {b1, b2, b3}
  NULL = NULL
  Uninit = Uninit
  NoRegion = NoRegion
  InitialCapacity = 1
  GrowthFactor = 2
  IntMax = 4
INVARIANTS
  TypeOK
  SlotsInBounds
  FreesAreValid
  FreedOnce
  NoLeak
PROPERTY ImplementsStore
