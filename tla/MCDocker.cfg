SPECIFICATION Spec
CONSTANTS
  Commands = {c1, c2}
  Configs <- AllConfigs
  Atoms = {"", "a", "b", "url", "key", "tx", "0.6", "own", "--no-activate", "--estimate-gas", "--constructor-args"}
  Channels = {"1.80", "1.81"}
  Generic = {"stable"}
  WeiPerEther = 1000
  NoImage = NoImage
  NoRequest = NoRequest
SYMMETRY Interchangeable
CHECK_DEADLOCK FALSE
INVARIANTS
  TypeOK
  PlainSurvives
  SwitchesSurvive
