\* Two saves at the same time; nothing fails.
SPECIFICATION RuntimeSpec
CONSTANTS
  Saves = {s1, s2}
  Keys = {k1, k2}
  None = None
  Empty = Empty
  Broken = Broken
  IOFaults = FALSE
  Crashes = FALSE
INVARIANT SavedKeyStays
