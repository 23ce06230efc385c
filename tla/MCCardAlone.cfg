\* One refresh at a time: the card kept, served, saved and let go stale.
SPECIFICATION FairSpec
CONSTANTS
  None = None
  Callers <- Tick
  Archive <- Rows
  Setups = 2
  StaleAfter = 1
  NewYear = 2
  Grace = 1
  MaxDay = 4
INVARIANTS
  ServesTheLastGood
PROPERTIES
  NewerCardStands
  RepairClears
