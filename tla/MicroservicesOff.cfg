SPECIFICATION Spec
CONSTANTS
  Services <- MCServices
  Chain <- MCLongChain
  Offloadable = {"filter"}
  InitiallyOff = {}
  Producers = {"sense"}
  MaxListed = 1
  MayFail = FALSE
  NoService = NoService
  NoTask = "NoTask"
PROPERTY
  OffRearranges
CHECK_DEADLOCK FALSE
