SPECIFICATION Spec
CONSTANTS
  Types = {"CALL", "CREATE"}
  Used <- OnlyMath
  Values = {0}
  Tops = {"stylus"}
  MaxFrames = 3
  MaxSteps = 3
  Natives = {FALSE}
  Libraries = {TRUE}
CHECK_DEADLOCK FALSE
INVARIANT EvmCallsParse
