SPECIFICATION StylusSpec
CONSTANTS
  u1 = u1
  u2 = u2
  good = good
  bad = bad
  Users = {u1, u2}
  Factory = Factory
  Sessions = {s1, s2}
  Codes = {good}
  ValidCodes = {good}
  NoCode = NoCode
  NoAddr = NoAddr
  Fees = {5}
  Prices = {1}
  MinBids = {1, 2}
  Funds = {20}
  MaxVersion = 1
  MaxNonce = 4
  SimValue = 9
  Configs <- BidConfigs
SYMMETRY Interchangeable
CHECK_DEADLOCK FALSE
INVARIANT RevertedBidIsAnError
