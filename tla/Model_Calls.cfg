SPECIFICATION Spec
CONSTANTS
  Roster <- MCRoster
  Tier <- MCTier
  Stage <- MCStage
  Signals <- MCSignals
  Faults <- MCFaults
  Scope <- MCScope
  Requests = {"r1", "r2"}
  Setups <- MCSetups
  Remote = {"large"}
  Keyed = {"r1"}
  MaxAttempts = 2
  MaxRetries = 1
  Blemishes = {"malformed", "unsigned", "altered"}
INVARIANTS AskedUnderADecision SendsAreBounded LedgerTellsOneOutcome
PROPERTY EscalationIsKept
CHECK_DEADLOCK FALSE
