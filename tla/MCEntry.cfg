SPECIFICATION EntrySpec
CONSTANTS
  None = None
  Operators = {"pidpa", "farys", "vivaqua", "swde"}
  Region <- MCRegion
  Communes <- MCCommunes
  Postcodes = {"2440", "2560", "1070", "4000", "0000"}
  Candidates <- MCCandidates
  Billed <- MCBilled
  MaxDialogs = 3
  MaxChanges = 1
  Overlaps = FALSE
  M1 = M1
  M2 = M2
  Meters = {M1, M2}
  Dashboards <- MCDashboards
  Reporting <- MCReporting
  Metered <- MCMetered
  Resetting = {M2}
  Misread = 20
  Typed = 100
  Hold = 1
  MaxDay = 2
  MeterChanges = 2
INVARIANTS
  CommuneIsOfTheAddress
  HouseholdIsOfTheRegion
  CardSpeaksForTheEntry
PROPERTIES
  FiguresComeRight
CHECK_DEADLOCK FALSE
