\* One device, nothing lost, a parent URL whose path a listing escapes.
SPECIFICATION DirectorySpec
CONSTANTS
  d1 = d1
  d2 = d2
  d3 = d3
  Devices = {d1}
  Keep = 2
  Slug <- Alone
  Skew <- Alone
  ParentEscapes = TRUE
  NetFaults = FALSE
  MaxTime = 3
INVARIANT PullIsFresh
