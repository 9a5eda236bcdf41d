CONSTANTS
  QuietTicks = 5
  NudgeTicks = 3
  EscalateTicks = 12
  ThrottleTicks = 16
  DeadlineTicks = 2
  ServeTicks = 4
  AcquireTicks = 3
SPECIFICATION WatchdogFairSpec
INVARIANT WatchdogTypeOK
PROPERTIES Recovers LeftToAcquire
