\* A notice that was recorded and whose answer was lost: the copy is counted for
\* the quorum, and its node deletes it.
SPECIFICATION Spec
CONSTANTS
  d1 = d1
  d2 = d2
  d3 = d3
  b1 = b1
  b2 = b2
  Node = {d1, d2, d3}
  Block = {b1}
  Chain <- Triple
  Quorum = 2
  Pool <- OneEach
  Encrypted = FALSE
  Reporting = {d1, d2, d3}
  MaxFaults = 2
INVARIANT QuorumIsReal
CHECK_DEADLOCK FALSE
