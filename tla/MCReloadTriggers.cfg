SPECIFICATION Spec
CONSTANTS
  Watcher = Watcher
  Signals = Signals
  Handlers = {h1}
  MaxEdits = 3
INVARIANTS
  TypeOK
  NeverDetached
  NoEditLostWithoutCause
PROPERTIES
  HupHeard
  EditsSettle
