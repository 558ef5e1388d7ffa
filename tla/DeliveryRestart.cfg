\* A crash after a successful send, one Matrix session across restarts (an
\* access token), under FairSpec.
SPECIFICATION FairSpec
CONSTANTS
  Messages = {m1}
  MaxLen = 0
  NoRow = NoRow
  MaxRetries = 0
  Delay <- MCDelay
  IdleSleep = 1
  StorageErrorBackoff = 1
  ReconnectBackoff = 1
  FreshSession = FALSE
  MaxStarts = 2
  MaxFaults = 0
  ClockBound = 1
PROPERTIES RestartDuplicates
CHECK_DEADLOCK FALSE
