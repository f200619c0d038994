\* Two concurrent requests over two stations, with a clock.
SPECIFICATION RelaySpec
CONSTANTS
  Protocols = {"openai", "anthropic"}
  Aliases = {"gpt"}
  Names = {"a", "b", "c"}
  Ids = {1, 2}
  CountCap = 2
  SeedStations <- Two
  SeedMappings <- TwoMaps
  SeedStatuses <- TwoRows
  SeedNextStation = 3
  SeedNextMapping = 3
  MaxTime = 2
  DBFaults = FALSE
  Requests = {r1, r2}
  Queries <- OpenAIQuery
  Answers <- FewAnswers
  Scoreboards <- NoScores
  SetupMode = FALSE
INVARIANTS
  RelayTypeOK
  StatusCoherent
  CancellationIsNoFault
CHECK_DEADLOCK FALSE
