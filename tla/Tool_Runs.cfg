SPECIFICATION Spec
CONSTANTS
  Main = "main"
  Tests <- MCTests
  FileOps = {"op"}
  Contents = {c1}
  Torn = Torn
  Missing = Missing
  None = None
  Setups <- MCSetups
  MaxTries = 2
INVARIANTS CodeStartsAsDecided ManifestRestsOnResults LeftoversAreReported FileRecordsAreTrue
CHECK_DEADLOCK FALSE
