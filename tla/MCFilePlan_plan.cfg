\* Every file of up to five bytes, put and appended to, in blocks of two and three
\* bytes, encrypted or not, on nodes in every condition.
SPECIFICATION Spec
CONSTANTS
  Node <- Nodes
  Domain <- Racks
  Stats <- Beats
  Replicas = 2
  Window = 2
  Margin = 1
  Units = {2, 3}
  Overhead = {0, 1}
  MaxSize = 5
INVARIANT ReadsBack
INVARIANT RangeExact
INVARIANT ReplicasApart
CHECK_DEADLOCK FALSE
