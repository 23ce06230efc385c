SPECIFICATION PartsSpec
CONSTANTS
  None = None
  Sensors <- MCSensors
  Figure <- MCFigure
  Befores <- MCBefores
  PerHour = 2
  Hours = 4
  Starts = {0, 2, 3, 5}
  MaxFails = 1
  MaxRestarts = 1
  Drains = TRUE
  Live = Live
  Places <- MCPlaces
  Cards = {1, 2}
  From <- MCFrom
  Keys <- MCKeys
  Produces <- MCProduces
  Ticks = {"tick"}
  PriceHours = 3
  MaxRefreshes = 1
  MaxChanges = 1
  MaxCrashes = 1
  PriceFails = 1
  Overlaps = FALSE
  Days = 7
  Draws = {0, 2}
  Registers = {2, 15}
  Spikes = {1, 4, 12}
  MaxFaults = 2
  Jump = 10
  AwayPerDay = 1
  MinRefusals = 1
  Month = 2
  Year = 5
  Unread = Unread
  Rows <- MCRows
  Pdfs = {"pdf"}
  Editions = 2
  Parsers = 2
  Reader <- MCReader
  Reads <- MCReads
  Months = 3
  KeepMonths = 1
  GiveUpAfter = 2
  MaxRuns = 3
  ArchiveFails = 2
  MaxLost = 1
  Households <- MCHouseholds
  BillCards <- MCBillCards
  BillYears = {1, 2}
  BillDays = 2
  Block = 1
  TopBlock = 3
  MostResidents = 2
  BillDraws = {0, 2}
  Overtaken = FALSE
  MaxM3 = 4
  BillChanges = 2
  NewYears = {0, 3}
  MaxClock = 5
  Hasty = FALSE
  Operators = {"water_link", "aquaduin", "de_watergroep", "farys", "vivaqua", "agso_knokke",
               "pidpa", "walloon", "inbw", "aiec"}
  FirstYear = 2
  LastYear = 3
  Transcribed = {5}
  MonthsBack = 2
  Gone = Gone
  OffSite = OffSite
  Unshowable = Unshowable
  Tls = Tls
  Homes = {"here", "there"}
  CommuneOf <- MCCommuneOf
  Abreast = FALSE
INVARIANTS
  OneLine
  SettledIsWritten
  StampedLineIsRight
  NothingLost
  NothingLeftBehind
  NeverMoreThanDrawn
  OnlyNightsAreLost
  ArchiveHasWhatItNames
  StampedMeansReplayed
  BillStandsOnItsCard
  BillIsTheHouseholds
  ServedAsPublished
  NoCardOverAnOutage
PROPERTIES
  ResetNeverGoesBack
