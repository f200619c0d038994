\* The health loop alone: no outcome is lost, and the probes decide in the end.
SPECIFICATION FairLoopSpec
CONSTANTS
  Protocols = {"openai", "anthropic"}
  Aliases = {"gpt"}
  Names = {"a", "b", "c"}
  Ids = {1, 2, 3}
  CountCap = 2
  SeedStations <- Three
  SeedMappings <- NoMaps
  SeedStatuses <- OneRow
  SeedNextStation = 4
  SeedNextMapping = 1
  MaxTime = 2
  DBFaults = FALSE
  Ticks = TRUE
  ProbeFlaps = TRUE
  Signals = TRUE
  Tunings <- Thresholds
  Tuned = {1}
INVARIANTS
  LoopTypeOK
  NoLostOutcome
PROPERTIES
  WritesCatchUp
  ProbesDecide
  LoopHalts
CHECK_DEADLOCK FALSE
