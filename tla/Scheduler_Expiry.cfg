\* Leases outlive their deadline, and a task may end while a worker of its team
\* still holds one: no append is ever refused for want of storage.
SPECIFICATION FairSpec
CONSTANTS
  Teams = {"a", "b"}
  Workers = {"w1"}
  Tasks = {"ta", "tb"}
  Dimensions = {"slots"}
  Gpus = {}
  Request <- SingleTeams
  Measurements <- OneSlot
  MaxVersion = 1
  CallOps = {"expire", "grant"}
  CancelledTeams = {}
  ExpiringTeams = {"a", "b"}
  ReleaseStatuses = {"released"}
  ClosableTasks = {"ta"}
  StorageMayFail = FALSE
PROPERTIES
  OverdueLeasesEnd
