SPECIFICATION FairSpec
CONSTANTS
  Services <- MCServices
  Chain <- MCChain
  Offloadable = {"filter"}
  InitiallyOff = {}
  Producers = {"sense"}
  MaxListed = 2
  MayFail = TRUE
  NoService = NoService
  NoTask = "NoTask"
INVARIANTS
  TypeOK
  TasksOnce
  ThreadsBelong
  CreatedIsQuiet
PROPERTIES
  RequestsAnswered
  ThreadsEndedOnDemand
  ConnectsActiveTasks
CHECK_DEADLOCK FALSE
