\* Two owners of a file of two chunks and a leecher; one fault.
CONSTANTS
  Nodes = {a, b, c}
  Owners = {a, b}
  Chunks = 2
  MaxFaults = 1
SPECIFICATION DownloadSpec
SYMMETRY Symmetry
INVARIANTS
  DownloadTypeOK
  FallbackTriesAll
CHECK_DEADLOCK FALSE
