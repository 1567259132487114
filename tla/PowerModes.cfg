SPECIFICATION Spec
CONSTANTS
  Port = {1}
  NoName = NoName
  MAX_NET_DEV = 1
  NetRoom = 1
  TaskId = {1, 2}
  MAX_SENSOR_DEV = 1
  SensorRoom = 1
  SEND_PERIOD = 2
  WIFI_OFF = 2
  CO2_OFF = 1
  TRANS_COUNT = 2
  MaxFaults = 1
INVARIANTS
  TypeOK
  OneConnectionTask
  DeletesLiveTask
  ServerWhileOn
PROPERTIES
  LowModeSaves
  RunModeReports
  SensorFollows
