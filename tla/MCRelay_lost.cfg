\* Two failures written in a row that count as one.
SPECIFICATION RelaySpec
CONSTANTS
  Protocols = {"openai", "anthropic"}
  Aliases = {"gpt"}
  Names = {"a", "b", "c"}
  Ids = {1}
  CountCap = 2
  SeedStations <- Solo
  SeedMappings <- OneMap
  SeedStatuses <- NoRows
  SeedNextStation = 2
  SeedNextMapping = 2
  MaxTime = 1
  DBFaults = FALSE
  Requests = {r1, r2}
  Queries <- OpenAIQuery
  Answers <- OnlyBroken
  Scoreboards <- NoScores
  SetupMode = FALSE
INVARIANTS
  ThresholdHonoured
CHECK_DEADLOCK FALSE
