\* Two threads write the block, as a late PUT and a copy ordered meanwhile.
\* (With a deleter and one writer, NeverBare fails as well.)
SPECIFICATION Spec
CONSTANTS
  Writer = {w1, w2}
  Deleter = {}
  NoFile = NoFile
INVARIANT NeverTorn
CHECK_DEADLOCK FALSE
