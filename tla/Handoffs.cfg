\* Two predecessors and two versions; two submissions share an id and two share a key.
SPECIFICATION Spec
CONSTANTS
  Predecessors = {"a", "b"}
  Versions = {1, 2}
  Offers <- TwoWorkers
  OpenQuestions = {"q1"}
  None = None
INVARIANTS
  MemoryIsReplay
  InputsAreTheAccepted
  CompletedIsEarned
PROPERTIES
  BarriersSettle
  NothingAfterTheDeadline
