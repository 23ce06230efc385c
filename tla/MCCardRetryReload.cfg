\* A reload under the Repair card's retry.
SPECIFICATION Spec
CONSTANTS
  None = None
  Callers <- FlowOnly
  Archive <- Rows
  Setups = 2
  StaleAfter = 1
  NewYear = 2
  Grace = 1
  MaxDay = 4
INVARIANTS
  StaleIsShown
