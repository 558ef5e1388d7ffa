\* Power loss after the sender was told 250.
SPECIFICATION PSpec
CONSTANTS
  Messages = {m1}
  MaxLen = 0
  NoRow = NoRow
  MaxRetries = 0
  Delay <- MCDelay
  IdleSleep = 4
  StorageErrorBackoff = 1
  ReconnectBackoff = 1
  FreshSession = TRUE
  MaxStarts = 2
  MaxFaults = 0
  ClockBound = 1
INVARIANTS AckedNeverLost
CHECK_DEADLOCK FALSE
