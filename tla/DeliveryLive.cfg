\* Failures and crashes together, under FairSpec.
SPECIFICATION FairSpec
CONSTANTS
  Messages = {m1}
  MaxLen = 0
  NoRow = NoRow
  MaxRetries = 1
  Delay <- MCDelay
  IdleSleep = 4
  StorageErrorBackoff = 1
  ReconnectBackoff = 1
  FreshSession = TRUE
  MaxStarts = 2
  MaxFaults = 1
  ClockBound = 2
INVARIANTS Inv OncePerSession
PROPERTIES EventuallySettled ShutdownStopsWorker
CHECK_DEADLOCK FALSE
