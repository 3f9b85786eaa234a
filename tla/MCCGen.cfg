SPECIFICATION Spec
CONSTANTS
  OutDir = "out"
  Inputs <- TwoFiles
  Left <- LeftOver
CHECK_DEADLOCK FALSE
INVARIANTS
  TypeOK
  
  Dispatches
  RouterHasItsHeader
  OutputsFound
