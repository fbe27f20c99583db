\* Two single-worker teams of different priority classes whose VRAM does not fit
\* together, one of them spread over two GPUs; three plan versions: retries,
\* cancellations and restarts; any append may fail.
SPECIFICATION Spec
CONSTANTS
  Teams = {"p", "u"}
  Workers = {"w1"}
  Tasks = {"tp", "tu"}
  Dimensions = {"slots", "vram"}
  Gpus = {"gpu0", "gpu1"}
  Request <- MixedTeams
  Measurements <- MixedNode
  MaxVersion = 3
  CallOps = {"cancel", "drain"}
  CancelledTeams = {"p"}
  ExpiringTeams = {}
  ReleaseStatuses = {"released"}
  ClosableTasks = {}
  StorageMayFail = TRUE
INVARIANTS
  QueueHoldsTheWaiting
  DevicesHoldTheirLeases
PROPERTIES
  DrainHonoursPriority
  RefusedOnlyAfterARestart
