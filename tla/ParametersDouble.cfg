SPECIFICATION Spec
CONSTANTS
  Service = Service
  NoService = NoService
  Task = {"t0", "t1"}
  NoTask = "NoTask"
  Flexible <- MCFlexible
  Static <- MCStatic
  TypeOf <- MCDoubleTypeOf
  Listening = {"t1"}
  Counted = {"t1"}
  Offloadable = {"t1"}
  QueueLength = 2
  Half <- MCHalf
  Least <- MCLeast
  Exact <- MCExact
  Output = {o1}
  Dri = {d1, d2}
  Missing = Missing
  None = None
  Freed = Freed
  Garbage = Garbage
  Request <- MCRequest
INVARIANT
  SetIsStored
CHECK_DEADLOCK FALSE
