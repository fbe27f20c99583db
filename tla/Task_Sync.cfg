SPECIFICATION FairSpec
CONSTANTS
  SyncTasks = {1, 2}
  Script <- Overlapping
  Slots = {1, 2}
  MAX_EVENT_BATCH = 1
  MaxPasses = 1
  MaxAttempts = 2
INVARIANTS ViewsArePrefixes
PROPERTIES LoopCatchesUp
\* The operator may stop, and the streams are bounded.
CHECK_DEADLOCK FALSE
