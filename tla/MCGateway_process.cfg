\* One request, the health loop, signals, crashes, restarts and database faults.
SPECIFICATION GatewaySpec
CONSTANTS
  Protocols = {"openai", "anthropic"}
  Aliases = {"gpt"}
  Names = {"a", "b", "c"}
  Ids = {1}
  CountCap = 2
  SeedStations <- OneTwice
  SeedMappings <- OneMap
  SeedStatuses <- Healthy
  SeedNextStation = 2
  SeedNextMapping = 2
  MaxTime = 2
  DBFaults = TRUE
  Requests = {r1}
  Queries <- OpenAIQuery
  Answers <- OkOrServerError
  Scoreboards <- NoScores
  SetupMode = FALSE
  Ticks = TRUE
  ProbeFlaps = TRUE
  Signals = TRUE
  Tunings = {}
  Tuned = {}
  Admins = {}
  StationForms <- NoForms
  MappingForms <- NoForms
  Crashes = TRUE
INVARIANTS
  StatusCoherent
  CancellationIsNoFault
  ChoiceIsFresh
PROPERTIES
  KeepsContract
CHECK_DEADLOCK FALSE
