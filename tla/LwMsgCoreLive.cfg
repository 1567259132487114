SPECIFICATION FairSpec
CONSTANTS
  RETRANSMISSION_COUNT = 3
  ResponsePolls = 2
  DriLimit = 4
  QueueLength = 2
  NetworkQueueLength = 1
  AirLimit = 2
  ReportLimit = 2
  ServerDris = {}
  ServerCodes = {"200"}
  MayFail = FALSE
  MayDuplicate = FALSE
  NoMsg = NoMsg
PROPERTIES
  EventuallyIdentified
  RequestsEnd
