\* One request over three stations, every class of answer, two scoreboards.
SPECIFICATION FairRelaySpec
CONSTANTS
  Protocols = {"openai", "anthropic"}
  Aliases = {"gpt"}
  Names = {"a", "b", "c"}
  Ids = {1, 2, 3, 4}
  CountCap = 2
  SeedStations <- Three
  SeedMappings <- ThreeMaps
  SeedStatuses <- NoRows
  SeedNextStation = 4
  SeedNextMapping = 5
  MaxTime = 1
  DBFaults = FALSE
  Requests = {r1}
  Queries <- OpenAIQuery
  Answers <- AllAnswers
  Scoreboards <- TwoTables
  SetupMode = FALSE
INVARIANTS
  FailoverTrail
  LogTellsTheStory
  VerdictEarned
PROPERTIES
  KeepsContract
  RequestsEnd
  RequestsMoveOn
  LeaversAreForgotten
CHECK_DEADLOCK FALSE
