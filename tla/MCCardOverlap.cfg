\* Two refreshes at once, and the archive.
SPECIFICATION Spec
CONSTANTS
  None = None
  Callers <- TickAndAction
  Archive <- Rows
  Setups = 1
  StaleAfter = 1
  NewYear = 2
  Grace = 1
  MaxDay = 3
PROPERTIES
  NewerCardStands
