\* Both loops, requests under way and a name that changes hands.
SPECIFICATION FairScoringSpec
CONSTANTS
  Protocols = {"openai", "anthropic"}
  Aliases = {"gpt"}
  Names = {"a", "b"}
  Ids = {1, 2}
  CountCap = 1
  SeedStations <- Two
  SeedMappings <- NoRows
  SeedStatuses <- NoRows
  SeedNextStation = 3
  SeedNextMapping = 1
  MaxTime = 1
  DBFaults = TRUE
  Admins = {a1}
  StationForms <- TakeName
  MappingForms <- NoForms
  Window = 1
  Retention = 1
  MinSample = 2
  Calls <- OneCall
  MaxCalls = 1
  MaxRows = 2
  Scale = 2
INVARIANTS
  ScoringTypeOK
PROPERTIES
  RetentionSparesTheWindow
  BoardCatchesUp
  InheritedScoresFade
  LogsAreSwept
CHECK_DEADLOCK FALSE
