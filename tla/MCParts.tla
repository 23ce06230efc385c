------------------------------ MODULE MCParts -------------------------------
(***************************************************************************)
(* The parts that share nothing with one another, for TLC: the histories   *)
(* the project rebuilds (the year-to-date rows and the price sensors' line *)
(* written to the recorder, the daily buckets the meter's year is read     *)
(* from, the archive of the cards), the year's bill, the last_reset of a   *)
(* sensor, one fetch of a card, and the cookie a card's commune is asked   *)
(* by. Each behaviour is of one of them; what the others would hold is     *)
(* None throughout, and the year's sensors have only started.              *)
(***************************************************************************)
EXTENDS YearBackfill

CONSTANTS Places, Cards, From, Keys, Produces, Ticks, PriceHours,
          MaxRefreshes, MaxChanges, MaxCrashes, PriceFails, Overlaps, Live,
          Days, Draws, Registers, Spikes, MaxFaults, Jump, AwayPerDay, MinRefusals, Month, Year,
          Rows, Pdfs, Editions, Parsers, Reader, Reads, Months, KeepMonths, GiveUpAfter,
          MaxRuns, ArchiveFails, MaxLost, Unread,
          Households, BillCards, BillYears, BillDays, Block, TopBlock, MostResidents, BillDraws,
          Overtaken, MaxM3, BillChanges,
          NewYears, MaxClock, Hasty,
          Operators, FirstYear, LastYear, Transcribed, MonthsBack, Gone, OffSite, Unshowable, Tls,
          Homes, CommuneOf, Abreast

VARIABLES
  topic,  \* what the behaviour is of
  place, gate, state, reload, newest, data, registered, ended, compiled, line, older, lost, cut,
  callers, job, budget,
  increasing, reading, shown, sum, rows, day, used, faults, faultsLeft,
  month, parser, reads, published, branch, releases, walk, work, locals, unreplayable, runsLeft,
  entry, billYear, billDay, tariff, tick, cycle, card, dirty, store, bill, priced, changes,
  clock, started, figure, stored, reset_at, dumped, sensor, recorded, exposed,
  today, fetch, turned,
  jar, request, shownCard

P == INSTANCE PriceBackfill WITH
       Hours <- PriceHours, MaxFails <- PriceFails, pc <- callers, left <- budget

M == INSTANCE DailyBuckets WITH left <- faultsLeft

A == INSTANCE CardArchive WITH
       MaxFails <- ArchiveFails, pc <- walk, run <- locals, left <- runsLeft

B == INSTANCE YearBill WITH
       Entries <- Households, Cards <- BillCards, Years <- BillYears, Days <- BillDays,
       Draws <- BillDraws, MaxChanges <- BillChanges, year <- billYear, day <- billDay

R == INSTANCE YearSensor WITH state <- sensor

F == INSTANCE CardFetch WITH year <- today

K == INSTANCE CommuneCookie WITH shown <- shownCard

\* What each part assumes of its constants.
ASSUME PartsAssumption ==
  /\ P!PriceAssumption /\ M!BucketAssumption /\ A!ArchiveAssumption /\ B!BillAssumption
  /\ R!SensorAssumption /\ F!FetchAssumption /\ K!CookieAssumption

\* And OnlyNightsAreLost of the household.
ASSUME HouseholdAssumption == M!Plausible

priceVars == <<place, gate, state, reload, newest, data, registered, ended, compiled, line,
               older, lost, cut, callers, job, budget>>

meterVars == <<increasing, reading, shown, sum, rows, day, used, faults, faultsLeft>>

archiveVars == <<month, parser, reads, published, branch, releases, walk, work, locals,
                 unreplayable, runsLeft>>

billVars == <<entry, billYear, billDay, tariff, tick, cycle, card, dirty, store, bill, priced,
              changes>>

sensorVars == <<clock, started, figure, stored, reset_at, dumped, sensor, recorded, exposed>>

fetchVars == <<today, fetch, turned>>

cookieVars == <<jar, request, shownCard>>

partsVars == <<topic, vars, priceVars, meterVars, archiveVars, billVars, sensorVars, fetchVars,
               cookieVars>>

\* The year's sensors have just started, and stay so.
NoYear == Init /\ since = 0 /\ before = None

NoPrice ==
  /\ place = None /\ gate = None /\ state = None /\ reload = None /\ newest = None
  /\ data = None /\ registered = None /\ ended = None /\ compiled = None /\ line = None
  /\ older = None /\ lost = None /\ cut = None /\ callers = None /\ job = None /\ budget = None

NoMeter ==
  /\ increasing = None /\ reading = None /\ shown = None /\ sum = None /\ rows = None
  /\ day = None /\ used = None /\ faults = None /\ faultsLeft = None

NoArchive ==
  /\ month = None /\ parser = None /\ reads = None /\ published = None /\ branch = None
  /\ releases = None /\ walk = None /\ work = None /\ locals = None /\ unreplayable = None
  /\ runsLeft = None

NoBill ==
  /\ entry = None /\ billYear = None /\ billDay = None /\ tariff = None /\ tick = None
  /\ cycle = None /\ card = None /\ dirty = None /\ store = None /\ bill = None
  /\ priced = None /\ changes = None

NoSensor ==
  /\ clock = None /\ started = None /\ figure = None /\ stored = None /\ reset_at = None
  /\ dumped = None /\ sensor = None /\ recorded = None /\ exposed = None

NoFetch ==
  /\ today = None /\ fetch = None /\ turned = None

NoCookie ==
  /\ jar = None /\ request = None /\ shownCard = None

PartsInit ==
  \/ /\ topic = "year" /\ Init
     /\ NoPrice /\ NoMeter /\ NoArchive /\ NoBill /\ NoSensor /\ NoFetch /\ NoCookie
  \/ /\ topic = "price" /\ P!Init
     /\ NoYear /\ NoMeter /\ NoArchive /\ NoBill /\ NoSensor /\ NoFetch /\ NoCookie
  \/ /\ topic = "meter" /\ M!Init
     /\ NoYear /\ NoPrice /\ NoArchive /\ NoBill /\ NoSensor /\ NoFetch /\ NoCookie
  \/ /\ topic = "archive" /\ A!Init
     /\ NoYear /\ NoPrice /\ NoMeter /\ NoBill /\ NoSensor /\ NoFetch /\ NoCookie
  \/ /\ topic = "bill" /\ B!Init
     /\ NoYear /\ NoPrice /\ NoMeter /\ NoArchive /\ NoSensor /\ NoFetch /\ NoCookie
  \/ /\ topic = "sensor" /\ R!Init
     /\ NoYear /\ NoPrice /\ NoMeter /\ NoArchive /\ NoBill /\ NoFetch /\ NoCookie
  \/ /\ topic = "fetch" /\ F!Init
     /\ NoYear /\ NoPrice /\ NoMeter /\ NoArchive /\ NoBill /\ NoSensor /\ NoCookie
  \/ /\ topic = "cookie" /\ K!Init
     /\ NoYear /\ NoPrice /\ NoMeter /\ NoArchive /\ NoBill /\ NoSensor /\ NoFetch

YearNext ==
  /\ topic = "year" /\ (Next \/ Done)
  /\ UNCHANGED <<topic, priceVars, meterVars, archiveVars, billVars, sensorVars, fetchVars,
                 cookieVars>>

PriceNext ==
  /\ topic = "price" /\ (P!Next \/ P!Done)
  /\ UNCHANGED <<topic, vars, meterVars, archiveVars, billVars, sensorVars, fetchVars, cookieVars>>

MeterNext ==
  /\ topic = "meter" /\ (M!Next \/ M!Done)
  /\ UNCHANGED <<topic, vars, priceVars, archiveVars, billVars, sensorVars, fetchVars, cookieVars>>

ArchiveNext ==
  /\ topic = "archive" /\ (A!Next \/ A!Done)
  /\ UNCHANGED <<topic, vars, priceVars, meterVars, billVars, sensorVars, fetchVars, cookieVars>>

BillNext ==
  /\ topic = "bill" /\ B!Next
  /\ UNCHANGED <<topic, vars, priceVars, meterVars, archiveVars, sensorVars, fetchVars, cookieVars>>

SensorNext ==
  /\ topic = "sensor" /\ R!Next
  /\ UNCHANGED <<topic, vars, priceVars, meterVars, archiveVars, billVars, fetchVars, cookieVars>>

FetchNext ==
  /\ topic = "fetch" /\ (F!Next \/ F!Done)
  /\ UNCHANGED <<topic, vars, priceVars, meterVars, archiveVars, billVars, sensorVars, cookieVars>>

CookieNext ==
  /\ topic = "cookie" /\ K!Next
  /\ UNCHANGED <<topic, vars, priceVars, meterVars, archiveVars, billVars, sensorVars, fetchVars>>

PartsNext ==
  \/ YearNext \/ PriceNext \/ MeterNext \/ ArchiveNext
  \/ BillNext \/ SensorNext \/ FetchNext \/ CookieNext

PartsSpec == PartsInit /\ [][PartsNext]_partsVars

-----------------------------------------------------------------------------
(* Values: a year that rises, stands and is corrected down once; a Flemish *)
(* operator with a comfort rate and two communes, and a Walloon one        *)
(* without; a utility whose default is a PDF and whose commune is a page,  *)
(* and parsers that read both, disagree on an edition, or refuse one;      *)
(* households of the three regions, and cards that get dearer every year,  *)
(* one of them twice: a card whose rates come out lower at the next fetch.  *)

MCSensors == <<"cost", "m3">>
MCFigure == [s \in ToSet(MCSensors) |->
               [p \in Periods |-> (IF s = "cost" THEN 7 ELSE 3) + p - (IF p = 4 THEN 2 ELSE 0)]]
MCBefores == {None, 5}

MCPlaces == {[utility |-> "flemish", commune |-> "default"],
             [utility |-> "flemish", commune |-> "own"],
             [utility |-> "walloon", commune |-> "default"]}
MCKeys == {"basis", "comfort"}
MCProduces == [u \in {"flemish", "walloon"} |->
                 IF u = "flemish" THEN {"basis", "comfort"} ELSE {"basis"}]
MCFrom == [c \in {1, 2} |-> c - 1]

MCRows == <<"pdf", "page">>
Table(pdf1, page1, pdf2, page2) ==
  <<[pdf |-> pdf1, page |-> page1], [pdf |-> pdf2, page |-> page2]>>
MCReads == {Table(<<"a", "a">>, <<"a", "a">>, <<"b", "a">>, <<"b", "a">>),
            Table(<<"a", "b">>, <<"a", Unread>>, <<"a", "a">>, <<Unread, "a">>)}
MCReader == <<1, 2>>

Household(utility, commune, persons, social) ==
  [utility |-> utility, commune |-> commune, persons |-> persons, social |-> social]
MCHouseholds ==
  {Household("flemish", None, 1, FALSE), Household("flemish", "own", 1, FALSE),
   Household("flemish", None, 3, FALSE), Household("flemish", None, 1, TRUE),
   Household("vivaqua", None, 2, TRUE), Household("walloon", None, 1, FALSE)}
Card(utility, commune, region, year, rate) ==
  [utility |-> utility, commune |-> commune, region |-> region, year |-> year,
   rate |-> rate + 100 * year, sanering |-> 100, comfort |-> None, fee |-> 400, korting |-> 80,
   fse |-> 20, first |-> 160, further |-> 40, vat |-> 10]
MCCommuneOf == [h \in {"here", "there"} |-> h]
MCBillCards ==
  UNION {{Card("flemish", None, "flanders", y, 100), Card("flemish", "own", "flanders", y, 200),
          Card("vivaqua", None, "brussels", y, 100), Card("walloon", None, "wallonia", y, 100)} :
           y \in 0 .. 3}
  \cup {Card("flemish", None, "flanders", 1, 50)}

-----------------------------------------------------------------------------
(* The properties of the modules, under the names they have there, for the  *)
(* behaviours that are of each.                                             *)

\* PriceBackfill's StampedLineIsRight (statistics.py, async_maybe_backfill_once).
StampedLineIsRight == topic = "price" => P!StampedLineIsRight

\* PriceBackfill's NothingLost (statistics.py, _async_compiled_until).
NothingLost == topic = "price" => P!NothingLost

\* PriceBackfill's NothingLeftBehind (statistics.py, _async_clear_orphan_backfill_keys).
NothingLeftBehind == topic = "price" => P!NothingLeftBehind

\* DailyBuckets' NeverMoreThanDrawn and OfferedYearIsDrawn (meter_reads.py,
\* _admitted_changes and _recorder_full_year_m3).
NeverMoreThanDrawn == topic = "meter" => M!NeverMoreThanDrawn /\ M!OfferedYearIsDrawn

\* DailyBuckets' OnlyNightsAreLost and RefusedYearIsNotEmpty: no water is lost but a
\* night's, and a year of nights is not read as an empty one (meter_reads.py,
\* _admitted_changes and _recorder_ytd_m3).
OnlyNightsAreLost == topic = "meter" => M!OnlyNightsAreLost /\ M!RefusedYearIsNotEmpty

\* CardArchive's EveryTextIsThere and KeptCardsAreThere: what the archive names is there
\* (archive_cards.py, _prune; archive_cards.yml, the keep job).
ArchiveHasWhatItNames == topic = "archive" => A!EveryTextIsThere /\ A!KeptCardsAreThere

\* CardArchive's StampedMeansReplayed (archive_cards.py, archive).
StampedMeansReplayed == topic = "archive" => A!StampedMeansReplayed

\* YearBill's BillStandsOnItsCard (coordinator_ytd.py, _card_in_force).
BillStandsOnItsCard == topic = "bill" => B!BillStandsOnItsCard

\* YearBill's BillIsTheHouseholds (coordinator_ytd.py, _cost_basis).
BillIsTheHouseholds == topic = "bill" => B!BillIsTheHouseholds

\* YearSensor's ResetNeverGoesBack (sensor.py, last_reset).
ResetNeverGoesBack == R!ResetNeverGoesBack

\* CardFetch's ServedAsPublished and CommuneCookie's CardIsOfItsCommune: the card is of
\* the year and of the commune it is served for (carry_prior_year_card, each extractor's
\* parser; de_watergroep.py, _fetch_commune_ajax).
ServedAsPublished ==
  /\ topic = "fetch" => F!ServedAsPublished
  /\ topic = "cookie" => K!CardIsOfItsCommune

\* CardFetch's NoCardOverAnOutage (TransientFetchError and the extractors' fallbacks).
NoCardOverAnOutage == topic = "fetch" => F!NoCardOverAnOutage
=============================================================================
