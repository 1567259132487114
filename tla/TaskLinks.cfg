SPECIFICATION Spec
CONSTANTS
  Services <- MCServices
  Chain <- MCChain
  Candidates = {"a", "b", "c", "x", "y"}
  Offloadable = {"a", "b", "c"}
  MaxChain = 4
  NoTask = "NoTask"
INVARIANTS
  OwnLink
  WalkConnects
