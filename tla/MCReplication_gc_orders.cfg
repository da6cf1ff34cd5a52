\* A removed file whose block has more than one copy, collected by way of the
\* ControlNode again and again, with nothing failing.
SPECIFICATION FairSpec
CONSTANTS
  Node <- Nodes
  Block <- OneBlock
  NoNode = NoNode
  Domain <- Domains
  RF = 2
  WriteQuorum = 1
  MaxPerNode = 1
  MaxPerPass = 1
  MaxAttempts = 2
  MaxFaults = 0
  Wipes = FALSE
  Partitions = FALSE
  Removes = TRUE
CHECK_DEADLOCK FALSE
PROPERTY OrphansLeaveDisks
