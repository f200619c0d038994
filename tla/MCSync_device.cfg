\* A form beside two sync requests, one of which may pull between the two reads of the other.
SPECIFICATION DeviceSpec
CONSTANTS
  Protocols = {"openai", "anthropic"}
  Aliases = {"gpt"}
  Names = {"a", "b", "c"}
  Ids = {1, 2}
  CountCap = 2
  SeedStations <- One
  SeedMappings <- OneMap
  SeedStatuses <- OneRow
  SeedNextStation = 2
  SeedNextMapping = 2
  MaxTime = 1
  DBFaults = TRUE
  Admins = {a1}
  StationForms <- EditForms
  MappingForms <- MapForms
  Syncs = {s1, s2}
  Foreign <- Foreigners
SYMMETRY Requests
INVARIANTS
  DeviceTypeOK
  KeysUnique
  ExportsAreValid
PROPERTIES
  PullMatches
  PullKeepsIdentity
CHECK_DEADLOCK FALSE
