SPECIFICATION Spec
CONSTANTS
  Files <- MCFiles
  Environs <- MCEnvirons
  Triggers = {watcher}
  Handlers = {handler}
  Readers = {"discover", "route"}
  Null = Null
  Nobody = Nobody
INVARIANTS
  TypeOK
  ReloadsUnmixed
PROPERTIES
  DeathExplained
CHECK_DEADLOCK FALSE
