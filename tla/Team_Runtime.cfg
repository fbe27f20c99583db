SPECIFICATION FairSpec
CONSTANTS
  Order <- TeamOrder
  Needs <- TeamNeeds
  Scheduled = {"a", "b"}
  WorkerPackets = {"clear", "open"}
  Unsettled = {"open"}
  Capacity = 2
  MaxCrashes = 1
INVARIANTS WorkFollowsItsInputs EndedTeamTriedEveryLease
PROPERTIES ExecutionReturns
CHECK_DEADLOCK FALSE
