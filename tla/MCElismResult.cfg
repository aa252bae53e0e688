SPECIFICATION Spec
CONSTANTS
  RegionName <- MCRegionName
  Class = {"A"}
  Scalar = {"i32", "i64", "void"}
  Handle = {h1, h2, h3}
  NoHandle = NoHandle
  Obj = {o1, o2}
  NotAllocated = NotAllocated
  Unset = Unset
  Name = {"x", "y"}
  LetName = {"x"}
  VarName = {"y"}
  ParamName <- MCParamName
  MainRegion = "fn_default"
  OnRegion = {"T"}
  A = "A"
  Signature <- FullSignature
  Void <- MCVoid
  NoCall = NoCall
  Features = {"result"}
  MaxDepth = 3
  MaxElements = 1
SYMMETRY Symmetry
INVARIANT WellTyped
