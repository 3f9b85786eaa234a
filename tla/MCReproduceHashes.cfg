SPECIFICATION Spec
CONSTANTS
  token = token
  my_token = my_token
  helper = helper
  b1 = b1
  b2 = b2
  init = init
  plain = plain
  comment = comment
  renamed = renamed
  broken = broken
  here = here
  there = there
  Commands = {c1, c2}
  Configs <- Commandlines
  Copies = {here, there}
  Versions = {plain, comment, renamed, broken}
  Features = {"none", "extra"}
  NoFeatures = "none"
  Crates = {token, my_token, helper}
  Bodies = {b1, b2}
  Builds <- BuildsOf
  CrateOf <- Names
  Ctors = {init}
  CtorOf <- Constructors
  HashOf <- SourceHash
  EndsWith <- EndsWithSet
  NoHash = NoHash
  ZeroHash = ZeroHash
  None = None
  MaxEdits = 1
CHECK_DEADLOCK FALSE
INVARIANT
  VerifiedMatchesHashes
