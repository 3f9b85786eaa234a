SPECIFICATION FairStylusSpec
CONSTANTS
  u1 = u1
  u2 = u2
  good = good
  bad = bad
  Users = {u1, u2}
  Factory = Factory
  Sessions = {s1, s2}
  Codes = {good}
  ValidCodes = {good}
  NoCode = NoCode
  NoAddr = NoAddr
  Fees = {5, 7}
  Prices = {1, 2}
  MinBids = {1}
  Funds = {9}
  MaxVersion = 1
  MaxNonce = 4
  SimValue = 9
  Configs <- LiveConfigs
CHECK_DEADLOCK FALSE
PROPERTIES
  Terminates
  ActivateBumpCoversRise
