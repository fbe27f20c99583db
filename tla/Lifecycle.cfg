\* One task, one step of two attempts, and every component that appends.
SPECIFICATION Spec
CONSTANTS
  Callers = {"c1"}
  Steps = {"s1"}
  Kinds = {"tool", "verification"}
  MaxAttempts = 2
  Sources = {"handoffs", "verification", "autonomy", "tools", "files", "delivery", "access",
             "knowledge"}
INVARIANTS
  ReadingsAgree
  CompletionFollowsAVerdict
PROPERTIES
  KeepsPromise
