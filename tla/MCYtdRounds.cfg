\* Rounds of any readings and any answers, in four scenarios.
SPECIFICATION MCSpec
CONSTANTS
  None = None
  SwapReadings = 3
  SwapSpan = 1
  Jump = 3
  MaxStep = 2
  AwayRate = 1
  Lag = 1
  Meters = {m1, m2}
  MaxClock = 1
  MaxRun = 3
  MaxM3 = 7
  Years <- MCYears
  Readings <- MCReadings
  RecorderFigures <- MCFigures
  TakenBack <- MCTakenBack
  Households <- MCHouseholds
  Records <- MCRecords
INVARIANTS
  TypeOK
  Dated
PROPERTIES
  FallsOnlyForAReason
  ClimbIsBounded
  RecorderMarkStands
  StartStands
  YearStartsFresh
  FirstFigureIsEarned
  BillFallsOnlyWithTheYear
  SwapIsSustained
