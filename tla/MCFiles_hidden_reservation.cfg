\* A second put of a name that has a visible version.
SPECIFICATION Spec
CONSTANTS
  File = {f1, f2, f3}
  NoFile = NoFile
  Block = {b1, b2, b3}
  NoBlock = NoBlock
  Request = {r1}
  Appender = {}
  Collecting = FALSE
  WriteTTL = 1
  MaxTime = 0
SYMMETRY Symmetry
PROPERTY LiveReservationRefused
CHECK_DEADLOCK FALSE
