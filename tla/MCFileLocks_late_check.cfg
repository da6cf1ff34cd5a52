\* A write whose control node stops between reading the time and the check.
SPECIFICATION Spec
CONSTANTS
  Holder = {ana, beto}
  NoHolder = NoHolder
  Request = {r1, r2}
  NoRequest = NoRequest
  Seeded = {ana, beto}
  Unlockers = {}
  TTL = 1
  MaxTime = 2
  MaxEpoch = 4
INVARIANT OverwritingWriteRejected
CHECK_DEADLOCK FALSE
