\* Two blocks go up chains that cross, over nodes whose threads run out, and the
\* file is read back; a hop, a notice, a disk, a process, a report or the client
\* fails, and full reports come late.
SPECIFICATION FairSpec
CONSTANTS
  d1 = d1
  d2 = d2
  d3 = d3
  b1 = b1
  b2 = b2
  Node = {d1, d2, d3}
  Block = {b1, b2}
  Chain <- Crossing
  Quorum = 2
  Pool <- OneMore
  Encrypted = FALSE
  Reporting = {d1, d3}
  MaxFaults = 1
INVARIANT TypeOK
INVARIANT AckedAreThere
PROPERTY CommittedReadable
PROPERTY UploadEnds
PROPERTY FailsWhenExhausted
CHECK_DEADLOCK FALSE
