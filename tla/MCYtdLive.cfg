\* A replacement, or a restart and a failed query, under the scheduling
\* Home Assistant gives.
SPECIFICATION FairSpec
CONSTANTS
  None = None
  SwapReadings = 3
  SwapSpan = 0
  Jump = 3
  MaxStep = 2
  AwayRate = 0
  Lag = 1
  Meters = {m}
  Meter = m
  MaxClock = 1
  MaxRun = 3
  MaxM3 = 12
  Years <- OneYear
  Readings <- ShownReadings
  RecorderFigures <- CountedFigures
  TakenBack <- NothingTakenBack
  Households <- OnlyUnpriced
  Household <- Unpriced
  Records <- NoRecords
  FirstRegister = 6
  FirstDrawn = 3
  NewRegister = 0
  Glitches <- NoGlitches
  MaxUnseen = 1
  Budgets <- SwappedOrRestarted
PROPERTIES
  ComesBackToTheRecorder
  QuestionsAreAsked
  ImplementsRounds
