SPECIFICATION SafetySpec
CONSTANTS
  Targets = {t1, t2}
  Pullers = {p1}
  Loop = loop
  Limit = 1
  MaxStamp = 2
SYMMETRY Alike
INVARIANTS
  TypeOK
  EveryHostOnce
  LabelsOwn
PROPERTIES
  SnapshotsAdvance
CHECK_DEADLOCK FALSE
