SPECIFICATION Spec
CONSTANTS
  RETRANSMISSION_COUNT = 2
  ResponsePolls = 1
  DriLimit = 3
  QueueLength = 2
  NetworkQueueLength = 1
  AirLimit = 2
  ReportLimit = 1
  ServerDris = {1}
  ServerCodes = {"200", "400"}
  MayFail = TRUE
  MayDuplicate = FALSE
  NoMsg = NoMsg
INVARIANTS
  TypeOK
  RegisteredMeansAccepted
  RegistrationRunsAlone
PROPERTIES
  ImplementsRegistration
