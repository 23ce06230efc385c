\* A replacement that a tick confirmed, and a restart before the next tick.
SPECIFICATION FairSpec
CONSTANTS
  None = None
  SwapReadings = 3
  SwapSpan = 0
  Jump = 3
  MaxStep = 2
  AwayRate = 0
  Lag = 1
  Meters = {m}
  Meter = m
  MaxClock = 0
  MaxRun = 3
  MaxM3 = 12
  Years <- OneYear
  Readings <- AnyReading
  RecorderFigures <- AnyFigure
  TakenBack <- NothingTakenBack
  Households <- OnlyUnpriced
  Household <- Unpriced
  Records <- NoRecords
  FirstRegister = 6
  FirstDrawn = 3
  NewRegister = 0
  Glitches <- NoGlitches
  MaxUnseen = 1
  Budgets <- SwappedAndRestarted
PROPERTIES
  ComesBackToTheRecorder
