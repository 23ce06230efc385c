\* The Repair card's retry beside the daily tick, without a reload.
SPECIFICATION Spec
CONSTANTS
  None = None
  Callers <- TickAndFlow
  Archive <- Rows
  Setups = 1
  StaleAfter = 1
  NewYear = 2
  Grace = 1
  MaxDay = 4
INVARIANTS
  StaleIsShown
