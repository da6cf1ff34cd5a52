\* Three puts of one name race with each other, with their aborts, with rm and
\* with an append; no collector.
SPECIFICATION Spec
CONSTANTS
  File = {f1, f2, f3}
  NoFile = NoFile
  Block = {b1, b2, b3}
  NoBlock = NoBlock
  Request = {r1, r2}
  Appender = {a1}
  Collecting = FALSE
  WriteTTL = 1
  MaxTime = 1
SYMMETRY Symmetry
INVARIANT TypeOK
INVARIANT OneVisibleVersion
INVARIANT VisibleReadable
PROPERTY NoGap
CHECK_DEADLOCK FALSE
