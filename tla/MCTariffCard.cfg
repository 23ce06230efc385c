\* The button and the refresh action, over a reload.
SPECIFICATION Spec
CONSTANTS
  None = None
  Callers <- ButtonAndAction
  Archive <- Rows
  Setups = 2
  StaleAfter = 1
  NewYear = 2
  Grace = 1
  MaxDay = 2
INVARIANTS
  StaleIsShown
  NoCardWithoutAnEntry
