\* A slow put uploads while the collector takes its expired reservation.
\* (CollectedUnused fails here as well, when the reservation is confirmed meanwhile.)
SPECIFICATION Spec
CONSTANTS
  File = {f1}
  NoFile = NoFile
  Block = {b1}
  NoBlock = NoBlock
  Request = {r1}
  Appender = {}
  Collecting = TRUE
  WriteTTL = 1
  MaxTime = 1
SYMMETRY Symmetry
INVARIANT BytesTracked
CHECK_DEADLOCK FALSE
