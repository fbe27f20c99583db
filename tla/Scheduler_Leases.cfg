\* Two teams compete for one or two slots; tasks may end, appends may fail, the
\* process may restart with another measurement at any step.
SPECIFICATION Spec
CONSTANTS
  Teams = {"a", "b"}
  Workers = {"w1", "w2"}
  Tasks = {"ta", "tb"}
  Dimensions = {"slots"}
  Gpus = {}
  Request <- TwoTeams
  Measurements <- OneOrTwoSlots
  MaxVersion = 1
  CallOps = {"expire", "grant", "cancel", "drain"}
  CancelledTeams = {"a", "b"}
  ExpiringTeams = {"a", "b"}
  ReleaseStatuses = {"released"}
  ClosableTasks = {"ta"}
  StorageMayFail = TRUE
INVARIANTS
  MemoryIsReplay
  UsageIsHeld
  SerialExclusive
  LeasesFollowAdmission
PROPERTIES
  NeverOvercommits
  LeasesMoveForward
