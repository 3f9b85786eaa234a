SPECIFICATION Spec
CONSTANTS
  toolchain = toolchain
  manifest = manifest
  lib = lib
  built = built
  dot = dot
  src = src
  target = target
  short = short
  long = long
  Files = {toolchain, manifest, lib, built}
  Toolchain = toolchain
  Reachable = {toolchain, manifest, lib}
  Defaults = {manifest, lib, built}
  Rank <- PathOrder
  Contents = {short, long}
  LengthOf <- Lengths
  Unreadable = Unreadable
  Missing = Missing
  Patterns <- PatternChoices
  Disks <- DiskChoices
  NoHash = NoHash
  Failed = Failed
  Root = dot
  Dirs = {dot, src, target}
  Children <- Tree
  Skipped = {target}
  Pieces = 2
  MaxEdits = 2
CHECK_DEADLOCK FALSE
INVARIANTS
  TypeOK
  HashInv
  DigestsEveryPath
  UnheardAfterError
PROPERTIES
  KeepsPromise
  Ends
