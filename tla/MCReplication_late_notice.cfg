\* A task expires while its target copies: the notice that comes after the row
\* was dropped is refused, and the bytes stay without a row.
SPECIFICATION FairSpec
CONSTANTS
  Node <- Nodes
  Block <- OneBlock
  NoNode = NoNode
  Domain <- Domains
  RF = 2
  WriteQuorum = 1
  MaxPerNode = 1
  MaxPerPass = 1
  MaxAttempts = 2
  MaxFaults = 3
  Wipes = FALSE
  Partitions = FALSE
  Removes = FALSE
CHECK_DEADLOCK FALSE
INVARIANT BytesHaveRow
