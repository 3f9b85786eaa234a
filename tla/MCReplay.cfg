SPECIFICATION Spec
CONSTANTS
  Types = {"CALL", "CREATE", "SELFDESTRUCT", "CALLCODE"}
  Used <- Mixed
  Values = {0, 1}
  Tops = {"stylus", "evm"}
  MaxFrames = 3
  MaxSteps = 3
  Natives = {TRUE, FALSE}
  Libraries = {TRUE, FALSE}
CHECK_DEADLOCK FALSE
INVARIANTS
  TypeOK
  RightContractReplays
  Lockstep
  TracedAsExecuted
  UnreadableMeansUnreported
