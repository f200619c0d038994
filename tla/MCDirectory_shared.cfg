\* Three devices, one with a fast clock and two of the same name; requests get lost.
SPECIFICATION DirectorySpec
CONSTANTS
  d1 = d1
  d2 = d2
  d3 = d3
  Devices = {d1, d2, d3}
  Keep = 2
  Slug <- Namesakes
  Skew <- OneAhead
  ParentEscapes = FALSE
  NetFaults = TRUE
  MaxTime = 2
SYMMETRY Alike
INVARIANTS
  DirectoryTypeOK
  KeepsNewest
  PullIsFresh
PROPERTIES
  UploadTidiesUp
