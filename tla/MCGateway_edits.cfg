\* One request and one admin form over two stations.
SPECIFICATION GatewaySpec
CONSTANTS
  Protocols = {"openai", "anthropic"}
  Aliases = {"gpt"}
  Names = {"a", "b", "c"}
  Ids = {1, 2}
  CountCap = 1
  SeedStations <- One
  SeedMappings <- OneMap
  SeedStatuses <- Cooling
  SeedNextStation = 2
  SeedNextMapping = 2
  MaxTime = 1
  DBFaults = FALSE
  Requests = {r1}
  Queries <- OpenAIQuery
  Answers <- OkOrBroken
  Scoreboards <- NoScores
  SetupMode = FALSE
  Ticks = FALSE
  ProbeFlaps = FALSE
  Signals = FALSE
  Tunings = {}
  Tuned = {}
  Admins = {a1}
  StationForms <- EditForms
  MappingForms <- MapForms
  Crashes = FALSE
INVARIANTS
  GatewayTypeOK
  IdsAreOld
  ChoiceIsFresh
PROPERTIES
  NewStationStartsClean
CHECK_DEADLOCK FALSE
