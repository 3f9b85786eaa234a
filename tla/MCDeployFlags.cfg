SPECIFICATION Spec
CONSTANTS
  u1 = u1
  u2 = u2
  good = good
  bad = bad
  Users = {u1, u2}
  Factory = Factory
  Sessions = {s1}
  Codes = {good, bad}
  ValidCodes = {good}
  NoCode = NoCode
  NoAddr = NoAddr
  Fees = {5, 11}
  Prices = {1, 3}
  MinBids = {0, 1}
  Funds = {6, 20}
  MaxVersion = 2
  MaxNonce = 4
  SimValue = 9
  Configs <- FlagConfigs
CHECK_DEADLOCK FALSE
INVARIANTS
  EstimateSendsNothing
  RefusedBeforeSpending
