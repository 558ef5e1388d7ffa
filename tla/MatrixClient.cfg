SPECIFICATION FairSpec
CONSTANTS
  DeviceIds = {1, 2}
  Inputs <- MCInputs
  Edits <- MCEdits
  MaxEdits = 1
  MaxStarts = 2
  MaxFaults = 2
INVARIANTS TypeOK NoLateConfigError ConnectedAsConfigured PinnedWipedOnce
PROPERTIES PinnedKeysKept NoPlaintext EventuallyConnects
CHECK_DEADLOCK FALSE
