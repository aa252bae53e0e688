SPECIFICATION Spec
CONSTANTS
  RegionName <- MCRegionName
  Class = {"A"}
  Scalar = {"i64"}
  Declaration <- MCDeclaration
  CallSite <- MCCallSite
  NoClass = "none"
INVARIANTS
  TypeOK
  ArgumentsSound
  ResultSound
  HandleSound
  FunctionsCallable
  OneStep
