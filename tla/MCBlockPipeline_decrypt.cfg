\* An encrypted file, with a damaged copy: the get does not pass on to the next
\* replica.
SPECIFICATION Spec
CONSTANTS
  d1 = d1
  d2 = d2
  d3 = d3
  b1 = b1
  b2 = b2
  Node = {d1, d2, d3}
  Block = {b1}
  Chain <- Triple
  Quorum = 2
  Pool <- OneEach
  Encrypted = TRUE
  Reporting = {d1, d2, d3}
  MaxFaults = 1
PROPERTY FailsWhenExhausted
CHECK_DEADLOCK FALSE
