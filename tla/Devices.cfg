SPECIFICATION Spec
CONSTANTS
  p1 = p1
  p2 = p2
  wifiText = wifiText
  shortText = shortText
  Port = {p1, p2}
  NoName = NoName
  MAX_NET_DEV = 2
  NetRoom = 3
  TaskId = {1, 2}
  MAX_SENSOR_DEV = 2
  SensorRoom = 3
  Text <- MCText
  NoText <- MCNoText
  KeyLength = 2
  BandLength = 2
  NetCandidate <- MCNetCandidate
  SensorCandidate <- MCSensorCandidate
  LoraKeys <- MCLoraKeys
CONSTRAINT SettingsApart
INVARIANTS
  TypeOK
  BusesApart
  OnlyCheckedOverflow
  ServesItsDevice
  LookupsAgree
  LoraKeysTogether
PROPERTY
  IdsStay
