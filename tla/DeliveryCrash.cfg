\* Crashes and stop requests at every step, two messages in the queue, one
\* Matrix session across restarts (an access token).
SPECIFICATION Spec
CONSTANTS
  Messages = {m1, m2}
  MaxLen = 0
  NoRow = NoRow
  MaxRetries = 1
  Delay <- MCDelay
  IdleSleep = 4
  StorageErrorBackoff = 1
  ReconnectBackoff = 1
  FreshSession = FALSE
  MaxStarts = 2
  MaxFaults = 0
  ClockBound = 1
SYMMETRY MessageSymmetry
INVARIANTS NoLoss KeysNeverCollide NoDuplicatePosts DeadOnlyAfterRetries NoLostWakeup SleepCoversRetries
PROPERTIES KeepsPromise NewMailFirst
CHECK_DEADLOCK FALSE
