\* Power loss, a queue of one that is full for the second message; every start
\* is a new Matrix session.
SPECIFICATION PSpec
CONSTANTS
  Messages = {m1, m2}
  MaxLen = 1
  NoRow = NoRow
  MaxRetries = 0
  Delay <- MCDelay
  IdleSleep = 1
  StorageErrorBackoff = 1
  ReconnectBackoff = 1
  FreshSession = TRUE
  MaxStarts = 2
  MaxFaults = 0
  ClockBound = 1
SYMMETRY MessageSymmetry
INVARIANTS FlushedNeverLost RefusedLeavesNoTrace QueueBounded
CHECK_DEADLOCK FALSE
