\* An entry removed right after a refresh.
SPECIFICATION Spec
CONSTANTS
  None = None
  Callers <- Tick
  Archive <- Rows
  Setups = 1
  StaleAfter = 1
  NewYear = 2
  Grace = 1
  MaxDay = 1
INVARIANTS
  RemovedLeavesNothing
