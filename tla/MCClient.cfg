SPECIFICATION Spec
CONSTANTS
  Docs <- MCDocs
  Offers <- MCOffers
  Numerals <- MCNumerals
  Configs <- MCConfigs
  Mishaps = {"flaky", "busy", "lost"}
  Limits = {0, 1}
  MaxScrapes = 2
  MaxUpsets = 1
INVARIANTS
  TypeOK
  SeriesUnique
  VoltagesOnce
  ErrorsCounted
  FaultIsolated
  GapExplained
  AbsentNotZero
PROPERTIES
  ScrapeEnds
CHECK_DEADLOCK FALSE
