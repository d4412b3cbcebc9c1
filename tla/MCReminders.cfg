\* Two reminders in two channels over a cap of one, two calls, one failure or restart.
SPECIFICATION LiveSpec
CONSTANTS
  Setters = {s1, s2}
  Channels = {c1, c2}
  Actors = {alice}
  RateLimit = 1
  RateWindow = 1
  SweepInterval = 0
  Horizon = 1
  PastSlack = 0
  FireCap = 1
  Retention = 2
  PruneInterval = 0
  MaxDelay = 1
  NoRow = NoRow
  MaxTime = 3
  MaxReminders = 2
  MaxFaults = 1
INVARIANTS TypeOK RateHolds BatchIsCurrent BurstBounded
PROPERTIES ImplementsOutbox RowLeavesForCause DueIsSettled
CHECK_DEADLOCK FALSE
