SPECIFICATION Spec
CONSTANTS
  Targets = {t1}
  Pullers = {p1, p2}
  Loop = loop
  Limit = 0
  MaxStamp = 0
PROPERTIES
  HostsCovered
  LoopStops
CHECK_DEADLOCK FALSE
