SPECIFICATION Spec
CONSTANTS
  RegionName <- MCRegionName
  Class = {"A"}
  Scalar = {"i64"}
  Declaration <- MCDeclaration
  CallSite <- MCCallSite
  NoClass = "none"
INVARIANT Callable
