SPECIFICATION OneKindSpec
CONSTANTS
  NULL = NULL
  MaxText = 16
  Key = {"fp", "op"}
  Item <- MCItem
  Object <- MCObject
  Number <- MCNumber
  DriText = {"17"}
  DiText = {"dev"}
  None = None
  PointerSize = 4
  Misread = Misread
  FixedByte = {0, 255}
  Payload <- MCPayload
INVARIANTS
  OneEntryPerKey
  ReadAsBuilt
  SizeIsUsed
PROPERTIES
  RoundTrip
  NothingInvented
