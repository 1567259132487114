SPECIFICATION Spec
CONSTANTS
  Value = {v1, v2}
  Torn = Torn
  BlockCount = 4
  WordSize = 64
INVARIANTS
  TypeOK
  BlocksApart
PROPERTY
  ImplementsQueue
