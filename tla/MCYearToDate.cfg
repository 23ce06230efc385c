\* A replaced meter, a turn of the year or a wrong value, with failed
\* queries and restarts between.
SPECIFICATION YTDSpec
CONSTANTS
  None = None
  SwapReadings = 3
  SwapSpan = 0
  Jump = 3
  MaxStep = 2
  AwayRate = 0
  Lag = 1
  Meters = {m}
  Meter = m
  MaxClock = 0
  MaxRun = 3
  MaxM3 = 12
  Years <- TwoYears
  Readings <- AnyReading
  RecorderFigures <- AnyFigure
  TakenBack <- NothingTakenBack
  Households <- OnlyUnpriced
  Household <- Unpriced
  Records <- NoRecords
  FirstRegister = 5
  FirstDrawn = 2
  NewRegister = 0
  Glitches <- DropoutAndSpike
  MaxUnseen = 3
  Budgets <- AnyTrouble
INVARIANTS
  PublishedIsTheRecord
  CleanIsSaved
  NeverOverbills
