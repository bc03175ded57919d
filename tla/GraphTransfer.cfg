SPECIFICATION MCSpec
CONSTANTS
  Null = Null
  Branches = {main, side}
  Main = main
  Handlers = {h1, h2}
  MaxNodes = 3
  Marked = {1}
  MaxPackages = 2
  MaxForks = 1
SYMMETRY Symmetry
INVARIANTS
  BranchesAreChains
  LiveNodesAreHeads
  PackagesAreClosed
  SequenceFollowsStore
  MappedForkIsWhole
CHECK_DEADLOCK FALSE
