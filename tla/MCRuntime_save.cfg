\* Three saves at any time, faults and crashes.
SPECIFICATION RuntimeSpec
CONSTANTS
  Saves = {s1, s2, s3}
  Keys = {k1, k2, k3}
  None = None
  Empty = Empty
  Broken = Broken
  IOFaults = TRUE
  Crashes = TRUE
SYMMETRY Alike
INVARIANTS
  RuntimeTypeOK
  KeySurvives
  NextKeyIsReady
