SPECIFICATION Spec
CONSTANTS
  Callers = {c1, c2, c3}
  NoCaller = NoCaller
INVARIANTS
  TypeOK
  Consistent
  OneActorPerCollector
  StaleOnlyAfterFailure
  NoLostWakeup
PROPERTIES
  CallsReturn
  Coalesces
