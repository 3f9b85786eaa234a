SPECIFICATION Spec
CONSTANTS
  u1 = u1
  u2 = u2
  good = good
  bad = bad
  Users = {u1, u2}
  Factory = Factory
  Sessions = {s1, s2}
  Codes = {good}
  ValidCodes = {good}
  NoCode = NoCode
  NoAddr = NoAddr
  Fees = {5, 7}
  Prices = {1}
  MinBids = {0}
  Funds = {7, 20}
  MaxVersion = 2
  MaxNonce = 4
  SimValue = 9
  Configs <- RaceConfigs
SYMMETRY Interchangeable
CHECK_DEADLOCK FALSE
INVARIANTS
  TypeOK
  ReportedIsDeployed
  SuccessMeansActivated
  InitializedOrAbsent
  CheckedFundsRemain
  IInv
PROPERTIES
  BumpCoversRise
  KeepsPromise
