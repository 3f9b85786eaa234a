SPECIFICATION StylusSpec
CONSTANTS
  u1 = u1
  u2 = u2
  good = good
  bad = bad
  Users = {u1, u2}
  Factory = Factory
  Sessions = {s1, s2}
  Codes = {good, bad}
  ValidCodes = {good}
  NoCode = NoCode
  NoAddr = NoAddr
  Fees = {5}
  Prices = {1}
  MinBids = {0}
  Funds = {20}
  MaxVersion = 1
  MaxNonce = 3
  SimValue = 9
  Configs <- EstimateConfigs
SYMMETRY Interchangeable
CHECK_DEADLOCK FALSE
INVARIANT EstimateSendsNothing
