# A verification development of be_water_prices

`custom_components/be_water_prices` is a Home Assistant integration. It fetches
the tariff card of a Belgian water utility, follows the household's water meter
and publishes what a year of water costs. This directory holds TLA+ models of
the parts of it that decide something over time, the TLC runs that check them on
small instances, and TLAPS proofs of what matters most for every value of the
constants.

Paths are relative to `src/custom_components/be_water_prices/` unless they name
another directory. `PROJECT.json` lists every component, run, mutant, mapped
definition, finding, hazard and theorem; this file says how they fit together.

## 1. The system

| Part | Where | State | Operations |
|---|---|---|---|
| Year-to-date fold | `ytd_fold.py` | none, a pure rule over `_YtdCycle` | `_fold` |
| Year-to-date coordinator | `coordinator_ytd.py` | `_ytd`, the holds, `_ytd_arbitrate`, `_cycle_dirty`, `_recorder_ok`, `_ytd_card`, the year's lock | tick (`_read_ytd`), meter event, hourly read, load, save |
| Tariff coordinator | `coordinator.py` | `_last_good`, `data`, `_last_fetch_at`, `_retired` | refresh, failed refresh, `_hold`, the Repair cards, retire |
| Meter history | `coordinator_meter.py` | `_metered`, `_projection_checked` | reads of closed days, projection's Repair card, year figures, meter discovery |
| Meter reading | `meter_reads.py` | none | daily rows of the recorder, `_admitted_changes`, the year's and a full year's water |
| Persisted records | `coordinator_store.py` | three files per entry | parse, migrate, remove |
| Entry life | `__init__.py` | the config entry's state | setup, unload, remove, reload, option adoption |
| Statistics import | `statistics.py` | the gate in `entry.data`, `year_backfilled` | price backfill, year backfill, orphan cleanup |
| Repairs, button | `repairs.py`, `button.py` | none | retry, accept a projection, press |
| Pricing | `pricing.py` | none | `_compute_bill` |
| Sensors | `sensor.py` | the restored `last_reset` | publish, `last_reset` |
| Flows | `config_flow.py` | the flow's answers | install, reconfigure, options |
| Providers | `providers/` | registry cache | fetch and parse a card, the archive, postcodes |
| Scripts | `scripts/` | the archive's files | run in the project's automation |

How they interact. Everything runs on one event loop, so a stretch without an
`await` is atomic and every `await` is a place where anything else may happen.
Home Assistant's daily timer, the button, the refresh action and the Repair
card's retry each start a refresh of the tariff coordinator. A refresh fetches
the card (await), on failure may ask the card archive (await), then computes the
year under a lock: it reads the meter's history (await), asks the recorder for
the year when the record cannot answer alone (await), folds, and saves a changed
record (await). Meter events run the same fold at any of these awaits and
publish on their own. The entry can be reloaded, removed or set up again under a
refresh that is still running; the retired coordinator's refresh then finishes
with nothing to speak for. Only the files survive a crash.

What is hard here: a figure computed before an await and published after it; a
record taken for saved while it moved on; a question to the recorder that lives
in memory only; evidence that cannot be told apart in one round (a garbage
reading, a replaced meter, a database that lost history); a year that turns
inside a tick; refreshes that overlap, or outlive their entry. `hazards` in
`PROJECT.json` gives each at the line where it bites, with the properties that
cover it.

What makes each part correct:

- fold: the year falls only for a stated reason, climbs no faster than a
  household can draw, starts from evidence, restarts only on a replaced meter;
- year-to-date coordinator: it publishes the record it holds, marks and saves
  what changed, never bills water nobody drew, and comes back to the recorder;
- tariff coordinator: a failed refresh serves the last good card, over a restart
  too, no older card replaces a newer one, and the Repair card says what is
  published and goes when the entry goes;
- meter reading: whatever the register does, a year counts no water that was not
  drawn, and loses none but a dip's own night;
- meter history: days read the right way, for the meter in use, and a Repair card
  that offers that meter's figure or goes;
- statistics: a gate stamped only for what was written, rows on one running total,
  nothing written for an hour the recorder has yet to compile, nothing left behind;
- pricing and the card in force: the closing year on its own card, a floor that is
  the household's own;
- sensors: `last_reset` never moves back;
- flows and setup: no commune or household of an operator left behind;
- extractors: a card dated and shown for the year and the commune it is of, and
  no older card served over an outage;
- archive script: what a stored month names is there, and a stamp means replayed.

## 2. The modules

| Module | What it is |
|---|---|
| `YtdFold` | `_fold` as operators: one per branch of the code, composed in `Fold(cycle, pending, evidence)` |
| `YtdRounds` | abstract specification: rounds of evidence folded one at a time, any reading and any answer possible |
| `YearToDate` | the coordinator with its awaits, the meter and the recorder around it; implements `YtdRounds` |
| `YtdRoundsProofs` | theorems about `YtdRounds` |
| `YearToDateProofs` | theorems about `YearToDate`, the refinement among them |
| `TariffCard` | the refreshes, the card kept, its file, the Repair card and the entry's life |
| `TariffCardProofs` | theorems about `TariffCard` |
| `YearBackfill` | the year's hourly rows written behind a recorder that compiles the same statistics |
| `PartsProofs` | theorems about `YearBackfill` and `DailyBuckets`, and about `MCParts` as the parts composed |
| `PriceBackfill` | the price sensors' line, the gate it is stamped under, and who starts a run |
| `PriceBackfillProofs` | theorems about `PriceBackfill` |
| `DailyBuckets` | the daily buckets of a faulty meter, and the readers that make a year of them |
| `MeterHistory` | the meter's days, their file, and the Repair cards about the meter |
| `YearBill` | a region's bill, the card in force around New Year, and the cost floor |
| `YearSensor` | `last_reset` of a year-to-date sensor |
| `EntryFlows` | what an entry says of the household, and the dialogs and the setup that write it |
| `EntryFlowsProofs` | theorems about `EntryFlows`, `MeterHistory` and `MCEntry` |
| `CardFetch` | one fetch of each operator's card: requests, fallbacks, the year on the card |
| `CommuneCookie` | the cookie De Watergroep's commune is asked by, in the session all entries share |
| `CardArchive` | `scripts/archive_cards.py` and the workflow that runs it |
| `MCYearToDate`, `MCTariffCard` | the constants' values for TLC |
| `MCYtdRounds` | `YtdRounds` in four scenarios, with the readings folded remembered |
| `MCParts` | the parts that share no state with one another, a behaviour of one at a time |
| `MCEntry` | `EntryFlows` and `MeterHistory`, a behaviour of one at a time |
| `YearSensorProofs`, `CardFetchProofs` | theorems about `YearSensor` and `YearBill`, and about `CardFetch`, `CommuneCookie` and `CardArchive` |

`MCParts` and `MCEntry` compose by topic: the initial state chooses the part a
behaviour is of, and the others' variables stand still. Nothing is lost by it,
for the parts touch no state of each other; the fetch's answers, the meter's
statistics and the coordinator's year are inputs of the parts that read them.

A definition whose name extends that of the one below it (`InFrameOnSight`
before `InFrame`) is a plausible mistake in the code, used by no behaviour of
the model: replaced for the real one, it makes the property it is listed with in
`PROJECT.json` fail.

### YtdFold and YtdRounds

The model's record is the code's `_YtdCycle`, its `pending` the five transient
figures of the coordinator (`hold_m3`, `hold_run`, `hold_span`, `run_m3`,
`high_m3`), and evidence is the argument list of `_fold`. Each operator takes the
round as the operator before it left it, in the order of the code, so that
`Fold` reads as the function does. Volumes, times and euros are integers, the
thresholds (`_MAX_STEP_M3` and its neighbours) constants. A card is a rate and a
fee, or `None` where `compute_ytd_cost` cannot price the household: who the bill
is for (`basis`) is separate, as in the code.

The translation of `_fold` was compared with the Python function itself: TLC
evaluated `Fold` on more than 30 000 random rounds, chained and single, and both
gave the same record, holds and verdict on every one. The tolerances of the code
for binary fractions (`1e-6`) have no counterpart on integers.

`YtdRounds` folds rounds: a live round brings a reading; a tick's round may bring
none, or an answer of the recorder, or a failed query, and may be for the year
before when midnight passed during it; the second fold of a tick's save brings
nothing. `Reload` is a new coordinator that reads the record, or an older one,
back from the file. Nothing is assumed of the meter or the recorder.

### YearToDate

One action for every stretch of `_read_ytd` between two awaits: `TickStart`,
`TickUnasked` or `TickAsks`, `RecorderAnswers` or `QueryFails`, `TickFold`,
`TickSaved`. `pc` is the await the tick is behind, `tick` its local variables.
`Show` is Home Assistant setting the meter's state and running the listener at
once, which folds and publishes (`MeterEvent`). `DelayedSave` is the Store's
delayed save, which waits for a save being written. `Unload` is a reload with its
flush, `Crash` loses all but the file.

Around it `register` is the meter, `drawn` the water really drawn by year,
`compiled` what the statistics hold. Two assumptions of the code are built in
and named: while the meter is in sight its statistics trail it by at most `Lag`
(`_RECORDER_LAG_M3`), and a replacement follows a last reading of the old
register. The meter is in sight at midnight. A wrong value (`Glitches`) lies
further off than the step bound: a smaller one is admitted by design, until the
recorder corrects it.

How much of it happens is bounded by `left`, which starts as one of the
`Budgets`: so many draws of water, wrong values, replacements, failed queries,
restarts and turns of the year. A run lists several small budgets, so that each
trouble meets every interleaving without the product of all of them.

### TariffCard

A card is the year it is for and the day it was fetched. Per caller, `task` holds
the await a refresh is behind and its locals; per setup of the entry, `coord`
holds what that coordinator keeps. `Publish` is everything a refresh does
without an await once the year is in: `data`, `_hold`, the Repair card, and for
the retry the end of its flow. The year itself is abstracted to the lock it is
computed under, served in order. `Forget`, `UnloadEnds`, `SetupBreaks` and
`RemoveEntry` are the teardown paths of `__init__.py`.

Home Assistant cancels the timer's refresh with the entry, and no other. The
Store writes within its second, so neither a day nor an interval between fetches
passes under an unsaved card. A refresh sees at most one midnight.

### YearBackfill and PriceBackfill

Home Assistant's recorder is in both: it compiles a row of each hour (and of each
five minutes, in `YearBackfill`) some time after it ended, works its own queue in
order, and an imported row that collides with an hour not yet compiled makes the
whole compile roll back. Every `await` on it is a step of its own, so that it
compiles between any two reads and any read may get no answer.

In `YearBackfill` a row is a figure and a running total. `ReadMarker` to
`ReadFirstMinutes` are the reads of `async_backfill_year`, `Tasks` the adjustment
and the import it queues. The figure rises, stands, and is corrected down once.
In `PriceBackfill` a row is named by the rates it carries: a place (operator and
commune) and a card. `Setup` and a refresh's task start a run; `Prepare`,
`CleanOrphan`, `Plan`, `WriteKey` are its stretches between awaits; the stamp
reloads the entry through its update listener. A run takes its keys in any order,
where the code takes them in that of `SENSORS`: the model has every order the code
may have and more, and two keys stand for five. `cut` remembers a crash that cut
off the writing of an entry never stamped (section 4). `Drains` and `Overlaps` name
what the runs leave out, and section 4 what happens then.

### DailyBuckets

Above the line are the meter and the statistics Home Assistant makes of it:
`Healthy`, `Dips` (within a day or past midnight), `Misreads`, `Replaced`,
`Silent`, `Purged`, for a `total_increasing` meter and a `total` one. Below it
`_admitted_changes` is a fold over the buckets, one operator a branch (`Refuse`,
`Netted`, `Recovered`, `TakeBack`, `Admit`), and the four readers are functions of
it. The reference is the water really drawn each day (`used`): what the code may
count more or less than that is what the two properties bound. A fault is
`Settled` when it is past and the next one three days off: the code takes one
misread back, not two that overlap.

### MeterHistory and EntryFlows

`MeterHistory` has two slots for coordinators, so that a retired one's background
read, refresh or hourly read may end after its successor was set up. A read is
named by what was asked: the meter, the kind it was taken for and the day. No
read passes midnight, and the Store's write is atomic.

In `EntryFlows` an answer about the household is named by the region whose social
option it answers, a commune by its operator. `Finish` is
`_async_finish_reconfigure` whole; `SetupBegins`, `SetupLoads` and `SetupFails`
are `async_setup_entry` with the migrations, the commune dropped, the commune
adopted, and the rollback. `chosen`, kept by no part of the program, is the
postcode the household had when it last chose a commune. The operators' lists
come and go, a fetch of one may fail, and a release may move the blocklists.

### YearBill and YearSensor

`YearBill` has `_compute_bill` for the three regions in whole units of money, the
operator's page that may be a year behind or show next year's card on
31 December, `_card_in_force`, `_cost_basis` with the floor, and the record saved
and read back. `priced` and `bill` remember what was published.
`YearSensor` is the reset a figure goes out under: the calendar's, the
coordinator's start, and what Home Assistant's periodic dump gave back.

### CardFetch and CommuneCookie

One `Receive` answers the request a fetch is at with anything the operator may
show at that moment (a card of any year near the clock's, one under the wrong
name, nothing, an outage, a redirect off the site), and the operator named in
`fetch` says what its extractor makes of it: the next request, a fallback, a
failure or a card. A card is known by the year its rates are really for; the year
it is dated and the day it stands until are the extractor's. `CommuneCookie` is
the one session's cookie jar under several entries' requests.

### CardArchive

The branch, the releases, a run's working copy and its locals; `Capture` walks,
`ReplayRow` replays, `Prune`, `Keep` and `Push` are the run's end and the
workflow's jobs. A parser is which edition of a text it reads as what. The rows a
replay has still to read are a set (`run.stored`), taken a month after the other as
`_replay_all` does. `unreplayable` remembers the rows a replay on the branch has
reported and none has read since. A run may die before the uploads, or lose its
push after them.

## 3. The runs

| Run | Bounds | Distinct states |
|---|---|---|
| `ytd_rounds` | four scenarios, below | 91 000 |
| `ytd_awaits` | four budgets, below, 2 years | 1 036 000 |
| `ytd_live` | 2 m3 and 1 replacement, or 2 m3, 1 failed query and 1 restart; 2 moments; fair | 273 000 |
| `card` | button and action, 2 setups, 3 days | 1 913 000 |
| `card_retry` | tick and retry, 1 setup, 5 days | 118 000 |
| `card_alone` | tick, 2 setups, 5 days; fair | 89 000 |
| `parts` | below, by part | 6 779 000 |
| `entry` | below, by part; fair for the meter | 1 101 000 |
| `ytd_swap_restart`, `card_overlap`, `card_removed`, `card_retry_reload` | section 4 | |

| Part of `parts` or `entry` | Bounds | Distinct states |
|---|---|---|
| `YearBackfill` | 2 sensors, 4 hours of 2 periods, 1 failed read, 1 reload or crash, sensors that start in 4 places, with and without an earlier total | 168 000 |
| `PriceBackfill` | 3 places of 2 operators, 2 cards, 3 hours, 1 refresh, 1 change of the entry, 1 crash, 1 failed read | 3 089 000 |
| `DailyBuckets` | 7 days, draws 0 or 2, a new or an old register, 3 sizes of misread, 2 faults, more than 1 refusal for a year that cannot be read; a year of 5 days, a month of 2 | 1 756 000 |
| `CardArchive` | 2 rows (a PDF and a page), 2 editions, 2 parsers, 3 months of which 2 are kept, 3 runs, 2 failures, 1 lost push | 1 426 000 |
| `YearBill` | 6 households of 4 places, cards of 4 years and a second edition of one, 2 years of 2 days, 4 m3, 2 changes | 330 000 |
| `YearSensor` | 6 moments, 2 years | 3 300 |
| `CardFetch` | 10 kinds of operator, 2 years, every answer at every request, 1 turn of the year | 3 100 |
| `CommuneCookie` | 2 entries | under 100 |
| `EntryFlows` | 4 operators of 3 regions, 5 postcodes, 3 dialogs, 1 change of the lists | 1 101 000 with the next |
| `MeterHistory` | 2 meters of two kinds, both in sight at first, 2 dashboards, 3 days, a read of a day ago stands in, 2 changes from outside | |

A scenario of `ytd_rounds` is fixed in the initial state and narrows the inputs
to what its question is about (`MCYtdRounds`, `Scenarios`): `volume`, one year of
three readings, three answers and take-backs, over reloads from the present or an
older record; `years`, two years and two meters; `bill`, two households under a
dear card, a cheap one and none; `swap`, the low readings of a replacement or of
dropouts, with the last `SwapReadings` of them remembered. Every property is
checked in every scenario, but `SwapIsSustained`, whose history only `swap`
keeps.

A budget of `ytd_awaits` is what may go wrong in one behaviour
(`MCYearToDate`): a replaced meter, a failed query and a restart; a year that
turns, and a restart; a dropout to 0 or a spike, shown once and reported any
number of times, and a failed query; three m3 drawn out of sight, above the step
bound, and a failed query. `ytd_live` leaves out one combination, a replacement
together with a failed query or a restart, because the code does not recover from
it (section 4).

Why the bounds are enough. The fold compares figures with each other and with
four thresholds; the readings 0, 1, 3 and 8 with `Lag` 1, `MaxStep` 2 and `Jump`
3 put a reading on either side of each of them, and figures to 7 let a year be
above, at and below all of these. A run of low readings needs `SwapReadings` of
them, three as in the code, over a span the clock allows to pass or not. The
mutants show the bounds are not vacuous: each of the mistakes is reached within
them. In `YearToDate` a single replacement, failed query or restart at any point
of any tick is what its hazards are made of; two of a kind make the state space
too large and were not needed by any mutant. `MaxM3`, `MaxRun` and the readings
are wide enough never to block a round of `YearToDate` (the budget of water bounds
it first). In `TariffCard` the days go past the staleness of a card held from the
start, past New Year and past its grace; the archive holds cards older and newer
than what was fetched, of both years.

The other parts. Two hours would do for `YearBackfill`'s anchor, four let a run
begin, be cut off and begin again with rows compiled between; every read of it is
failed once. One change of the entry and one refresh make each of
`PriceBackfill`'s callers meet a stamp that is not its own. Seven days hold two
faults with a healthy day on either side, and a whole year between others. Three
months let one be pruned whose text and card the others share, and a release be
superseded. `YearBill`'s blocks are 1 and 3 m3, so that 4 m3 go through
all. The answers of `CardFetch` are without memory: an operator may show another
year's card at each request, which is more than any does.

Deadlock is checked in every run but `entry`, where an entry may be removed with
nothing left to happen. `Done` marks the end of a part's horizon.

Each property's comment in its module says what it means and where the code
says it. Those that took several attempts to state rightly:

- `FallsOnlyForAReason`, `BillFallsOnlyWithTheYear`, `ClimbIsBounded`,
  `RecorderMarkStands`, `StartStands` relate a year before and after any step.
- `SwapIsSustained` reads the readings themselves, kept in a history variable,
  rather than the counters of the code.
- `NeverOverbills` compares the published year with the water the model's meter
  really measured, under everything that may happen between two awaits.
- `QuestionsAreAsked` excuses a coordinator that has published nothing: that is
  one just loaded, whose predecessor's question a crash lost.
- `CleanIsSaved` is what makes a crash lose no more than the code says it may, and
  an unload's flush the last write: a clean record is the file's, and a delayed
  save left over is only ever of a dirty one.
- `NeverMoreThanDrawn` and `OnlyNightsAreLost` hold the readers against
  the water drawn from both sides; what they excuse is named in the module
  (`Settled`, `FarApart`) and each excuse has its counterexample in section 4.
- `BillIsTheHouseholds` says nothing of how the floor is kept. A bill names the card
  it stands on: some card of the household's place and of that card's year, on some
  day so far, bills at least what is shown, and it is no less than that card bills
  by itself. A card that comes out lower at a later fetch of the same year leaves the
  floor of the dearer one standing, which is why the two bounds are not one.
- `ServedAsPublished` tells the year a card is served as from the one its
  rates are for, which the code does not know.
- `OnlyNightsAreLost` also says what a year is read as when nothing of it counts
  (`RefusedYearIsNotEmpty`): a meter at 0 at every midnight has all its buckets
  refused, and the year cannot be read, which is not the 0 of a house left empty.
- `FiguresComeRight` is of what is published in the end, whatever landed late; beside
  it, no refresh ends on a read older than one may stand in for
  (`NothingOldStandsIn`).
- `ImplementsRounds` is refinement: each step of `YearToDate` is a step of
  `YtdRounds` or leaves its variables alone, with `Records` every well-dated
  record. It is what carries the theorems about `YtdRounds` over, and
  `AwaitsAddNothing` proves it for every instance.

### Fairness

`YearToDate!Fairness`: the daily timer comes round and every await of a tick
ends (the recorder's executor answers or fails), so a tick that can move does;
statistics are compiled while the meter is in sight. Nothing is assumed of the
meter, and nothing of how often a query succeeds (the run bounds the failures).
`TickMoves` weakly fair over `pc` says a tick leaves its await, not which way.

`TariffCard!Fairness`: every await of a refresh ends, the timer starts a refresh
a day, setup and unload end, delayed saves fire. Strong fairness of
`FetchSucceedsThisYear` says that a utility asked again and again answers at some
time with the year's card: without it no Repair card need ever clear, and the
code does not claim one would.

`MeterHistory!Fairness`: setup is retried, a fix flow that is open is confirmed,
refreshes follow on each other, and the recorder does not fail the current
coordinator every time (strong fairness of `CardRead` and `DaysRead`). Nothing is
assumed of the background read, which the code bounds by no time, nor of the
meter. The other parts state no fairness: their properties are safety.

## 4. What the runs found

Four runs expect a violation, each of something the documentation or a comment
says. Each quotes its lines in `PROJECT.json` under `findings`.

- `ytd_swap_restart`: a replacement confirmed in a round that carried a recorder
  answer leaves `recorder_hwm` set, so `async_load_ytd_state` does not ask again
  after a restart, and the year stays on the new register. Replayed on the
  Python `_fold`, the record comes out in this shape. With a failed query in
  place of the restart (a budget of one replacement and one failure) the same
  property fails in another way: the tick forgets the question a swap raised
  before it asks it (`coordinator_ytd.py:426`), and a failed query does not raise
  it again, though `README.md:573` promises the next daily tick.
- `card_overlap`: a failed refresh compares the archive's card with the one it
  read as held before it asked, and so replaces a newer card fetched meanwhile.
  Under the same constants `ServesTheLastGood` fails too: a failed refresh that
  waited for the year's lock (`coordinator.py:509`) publishes the card it read
  before, over the fresher one published meanwhile.
- `card_removed`: the card's delayed save outlives the removal of its entry.
- `card_retry_reload`: a retry that outlives a reload closes its flow, and the
  Repairs manager deletes the card the new coordinator raised.

The passing runs beside them mark out where these hold: the year comes back
after a swap when no query fails and nothing restarts, and after a failure and a
restart when no meter was replaced (`ytd_live`); a card is never replaced by an
older one with one refresh at a time (`card_alone`, and for every instance
`NewerCardHolds`); the Repair card tells the
truth without a reload under the retry (`card_retry`), and with reloads under the
button and the action (`card`, and for every instance without the retry
`CardTellsTheTruth`). Outside the bound of `card_alone`, three setups of an entry
within one second lose the newest card's save the way `card_removed` shows: the
condition `LastGoodIsServed` needs is `SavesInTime`, that the third setup and the
later ones find no save still to come.

Outside the runs, with a constant set the other way, TLC finds more. None of these
is in `findings`, for a run checks one of them at a time and each lies beyond what
a passing run is about; they mark where that run's properties end.

- `CommuneCookie`, `Abreast = TRUE`: two De Watergroep entries that fetch at the
  same time. The first one's answer puts its `dwg_l` in the shared jar, the second
  one sends that in place of its own before the first has cleared it, and is shown
  the first one's commune (`de_watergroep.py:361-366` says each request "carries
  only the one it was given"). That the jar goes before the header is taken from
  that comment.
- `EntryFlows`, `Overlaps = TRUE`: an options form left open while a reconfigure
  moves the entry saves the old operator's commune and household on the new one; a
  reconfigure finished during setup's first refresh is not reloaded, and the entry
  loads the old operator's coordinator; the rollback of a failed setup
  (`__init__.py:163`) writes the options it began with over what a form saved
  meanwhile.
- `YearSensor`, `Hasty = TRUE`: the figure given out when the sensor is added does
  not fix its reset, and a refresh that switches to a meter with statistics, or an
  unload, before setup's background read publishes moves `last_reset` back.
- `YearBill`, `Overtaken = TRUE`: a refresh on 31 December that fetched next
  year's card is overtaken past midnight by a live reading, which begins the new
  year; the refresh then prices the closing year on next year's card.
- `YearBackfill`, `Drains = FALSE`: a second run after a reload, with the first
  one's adjustment and import still queued, shifts the live rows twice. A sensor
  that started in the year's first two hours is settled without rows when the
  recorder's marker cannot be read.
- `PriceBackfill`, `Overlaps = TRUE` with two refreshes and a reconfigure between a
  refresh and its task: the gate names the new place, the rows come off the old
  coordinator.
- `PriceBackfill`, without overlaps. With two changes and a crash inside a run, an
  entry that moves back finds its old gate over a half rewritten line, or rows of
  the operator it went to. And a crash inside the very first run, after a key was
  written that the next operator has no rate for, leaves that key's rows for good if
  the entry moves before it is ever stamped: the cleanup looks for the old operator
  in the gate, and there is none. `NothingLeftBehind` excuses that history (`cut`);
  the theorems below exclude the return by their `rank`, and so do the runs, with
  one change.
- `DailyBuckets`, faults the properties excuse: a misread right after a dip over
  midnight, or on the first day, is counted; a new register that lands between the
  two readings of the last bucket takes that day's water back; a replaced `total`
  meter followed by a quiet day loses the next draw. A year of dips over midnight
  does read 0 where `RefusedYearIsNotEmpty` does not speak: of a meter whose first day
  drew nothing, the bucket of which is admitted as that day's 0, and of a `total`
  meter, whose buckets from the second day on change by nothing and are admitted too.
- `CardArchive`: a push lost after the old releases were deleted leaves a month
  that names a deleted one; a row whose card is in no release is not replayed later
  though the stamp moves on; a parser put back while a missed download holds the
  stamp is never replayed. And a dispatched `--rerender` that cannot
  download a kept card, on a branch already stamped with the running parser, keeps
  that stamp, which is the current one: no later run of that parser replays the row,
  though the code that keeps it says "the next run replays the rows again"
  (archive_cards.py:1117). The proof of `StampIsTrue` found it, one run beyond the
  bounds of `parts`. Such a row that an earlier replay had reported stays reported,
  which is why `StampedMeansReplayed` excuses every report since the row was last
  read and not the last replay's alone.
- `CardFetch`, by design rather than by accident: a document the reader has no time
  for (`PDF_READER_TIMEOUT_S`) counts as absent, so last year's card stands in for
  it; a card Pidpa, AGSO Knokke or AIEC serve from before last year stands until
  31 March as well; a water-link card that states another year ends the fetch,
  where Aquaduin's falls back.

## 5. What is proved

`YtdRoundsProofs` proves of `YtdRounds!Spec`, for any meters, years, readings,
answers, households, saved records and thresholds that satisfy the constants'
assumptions:

- `Invariance`: `Inv == TypeOK /\ Dated` is inductive. `TypeOK` alone is not: a
  figure stays a natural number only because a record without a year has no
  floor, frame or mark (`Dated`), and `Dated` needs the types to say what `None`
  is. The argument follows the fold: a lemma for each operator (`Opening`,
  `BelowBar`, `BuildFrame`, `InFrame`, `HeedRecorder`, ...) says what it keeps of
  a round's types and of the few facts the next one needs, and the lemma for
  `Fold` composes them. `TypeCorrect` and `RecordIsDated` are its two halves.
- `FallsForAReason`, `Climbs`, `RecorderMark`, `Start`: the four action
  properties of the volume. Each is proved of one round, branch by branch, from
  lemmas about what a branch does to the mark, the candidate and the answer, and
  then of every step: a round of the other year or another meter is excused by
  the property, `Reload` by name, and the clock's steps change nothing.
- `BillFalls`: the bill of one household falls only with the year. What is added
  to the lemmas above is that the branches of a running year leave the floor
  alone but where the year itself falls, and that the bill is the higher of the
  card's and the floor.
- `YearStarts` and `FirstFigure`: what a record without a year behind it is opened
  with. Both follow the opening round through the branches after it, which may
  take the opening figure back to the recorder's and never put it above.

`YearToDateProofs` proves of `YearToDate!YTDSpec`, for any water, lag, thresholds,
budgets and interleavings:

- `TypesAreKept`, with the types of the tick's locals at each await. `PublishedRecord`
  strengthens its property with what the tick's save holds, that the figure put
  aside for publishing is the record's being saved; `CleanSaved` is inductive by
  itself.
- `AwaitsAddNothing`: every step is a step of `YtdRounds` or a stutter. A meter's
  event is a `LiveRound`, `TickUnasked` an `UnaskedRound`, `TickFold` an `AskedRound`,
  `TickSaved` a `Refold` or nothing, `Turn` is `NewYear`, `Wait` is `PassTime`, a
  reload or a crash is `Reload`; compiling, drawing, asking and failing change
  nothing of a round. The lemmas `Atomic...` say that each operator of the instance
  is the one of the module, since the instance only widens `Records`. It assumes
  `AnyEvidence`, that the rounds range over every reading and answer the meter and
  the recorder can give here.
- `HonestMeterIsNeverOverbilled`: when the meter shows nothing but its register
  (late, unavailable, or replaced by one that starts no higher), the running year
  never counts more than was drawn in it, whatever is delayed, lost, crashed or
  turned between the awaits. `WrongValuesAreNeverBilled`: the same of a meter that
  shows wrong values and is not replaced, as long as `Apart` holds: of two values
  the meter may show, the higher lies further off than the year's water and what
  one report may add to it. The argument of both is `FoldCounts`, about one round:
  it counts no more than the water if the frame puts the reading within the water
  or beyond what a report may add. The invariant says which frames a record may
  have: `AllSound(year, water, frames)` for the record in memory, the one in the file
  and the one being saved, with `RecorderIsBehind` (statistics never run ahead of
  the water) and `NoneAhead` (no record is of a year to come). The assumptions
  are needed: a new register that starts above the old one is a wrong value no
  rule could tell from water, and a wrong value nearer than the step bound is
  admitted until the recorder corrects it.

`TariffCardProofs` proves of `TariffCard!Spec`, for any callers, archive, number
of setups and calendar: `CardTypeCorrect`, `NoOrphanedCard` and, for callers
without the Repair flow, `CardTellsTheTruth` (with it, `card_retry_reload` is the
counterexample). The inductive invariant is
`CardInv == CardTypeOK /\ Spoken /\ Shown`. `StaleIsShown` is not inductive by
itself, since it says nothing of an entry that is not loaded: `Spoken` adds that
every coordinator but the current one is retired and that the current one is,
exactly outside the states in which the entry is its, and `Shown` that in all of
these states, not only once loaded, the Repair card agrees with what is
published.

With one caller (`OneCaller`; `card_overlap` is the counterexample without it) it
proves `NewerCardHolds` and `LastGoodIsServed` as well. A refresh that waits for
the archive or the year's lock must still know what its coordinator holds
(`Waiting`), no card may be from a day to come (`NotAhead`), and what is published
must be what is held (`Published`). For the file, `Goes` says where each
coordinator's card is (still to be saved, or in the file unless one no older is
on its way there), and `FirstSaves` what the first setup's save may yet
overwrite. A reload hands on what the file has, so the third setup could
read it before the first one's save; `SavesInTime` excludes just that.

`PartsProofs` proves of `YearBackfill`'s behaviours among `MCParts`'s, when a run finds the recorder's
queue worked off (`Drains`; section 4 has what happens otherwise), for any sensors,
hours, figures, failures and crashes:

- `YearStaysOneLine`. `OneLine` is not inductive, for it says nothing of what is
  queued. `LineInv` adds that an adjustment is followed by its own sensor's import
  (`Paired`), that an import's rows are on the line the sensor's rows will be on
  once the adjustment ahead of it has moved them (`Lands`), that nothing is queued
  for a sensor before its first compiled row (`LiveFirst`), and that a run's own
  lists hold no sensor with something queued (`RunIsApart`).
- `SettledYearIsWritten`, by `Accounted`: while a run reads, each sensor is on one of
  its lists or is written, and a settled year has every sensor written.

`PriceBackfillProofs` proves of `PriceBackfill!Spec`, for any places, cards, keys,
hours, callers and number of refreshes, changes, crashes and failures:

- `NoHourIsLost`, without any assumption on what overlaps: a run that reached its rows
  ends no later than what was compiled, and nothing is written past it (`Compiled`).
- `StampedLineHolds`, for runs that do not overlap (`~Overlaps`) and an entry that
  never returns to a place it has left: `rank` is any numbering of the places, and
  the entry only moves up it (`Onward`). `StampInv` has four parts besides the types:
  one run at a time (`OneBusy`); the coordinator is of the entry as it is set up
  (`Setting`); what a gate, a run and a coordinator know is of the present place
  or one left for good, on a card no newer than published, and a run is under way
  only while the gate is out of date (`Known`); and the line itself (`LineStands`):
  right under a gate that is current, and under a run, right for the keys it has
  written and empty of rates past its end. The last clause is what lets a second run
  of a newer card, which starts later in the year, leave nothing of the first behind.
- `NoRowsAreLeftBehind`, for runs that do not overlap and an entry that never returns
  to an operator it has left. `Accounted` follows the keys that hold rates (`Held`):
  none before the first stamp but in a run that writes; each has an entity, so that a
  cleanup finds it, which setup must not drop before its own run is past the cleanup
  (`SetupSwept`); and under a gate or a run of the present operator only its own
  keys, and those the cleanup has yet to ask about, are held (`GateSwept`,
  `RunSwept`).

`EntryFlowsProofs` proves `CommuneFollowsTheAddress` and `HouseholdFollowsTheRegion`,
for any operators, communes, postcodes, lists and number of dialogs, when a dialog
and a setup do not overlap (`~Overlaps`; section 4). The invariant `FlowsInv`
says of the entry in every state what the two properties say of it loaded
(`EntryStands`, where a household is judged as the migration will leave it), the
same of what a failed setup would put back (`CanBePutBack`), and of each step of
an open dialog that its lists, suggestion and answers are of the operator it has
settled on (`DialogsStand`).

It also proves `CardSpeaks` of `MeterHistory!Spec`, with no assumption on the meters,
the dashboards or what is held: the projection's Repair card is up only for a
loaded entry and against the option it has, and a removed entry leaves no card and
no file. What is added to the property is that the card's figure a coordinator
reads is against the option as it stands while that coordinator is the entry's
(`OwnReads`): a change of the option reloads the entry, and what the old coordinator
reads after that no longer speaks for it.

`YearSensorProofs` proves `ResetIsMonotonic`, that `last_reset` never moves back
but for a crash before a dump, for any moments a year may begin at and any moves
of the coordinator's start, when an entry neither refreshes nor goes before
setup's background read (`~Hasty`; section 4 says what happens otherwise). The
invariant is where the reset last given out is kept, `ResetIsKept`: in the dump
of a sensor that is gone, in the sensor while it is up, and between the two,
where the sensor has given a figure it does not remember, in the year's start
and the calendar. That gap is why the assumption is needed: nothing but a figure
given later brings the reset into the sensor. `MaxOfBounded` is the lemma under
it, that the `Max` of some moments is one of them and none is later.

It also proves two theorems of `YearBill!Spec`, for any cards, households, volumes and
changes of the entry. `FloorIsTheHouseholds`: what is published is at most what a card
of the entry's place and of the bill's card year bills its household for the year's
water on a day of it so far, and at least what the bill's own card does. The
invariant says the first of every cost kept, in the cycle, in the file and
published, of the card year, the household and the volume it was kept for
(`Billed`), and the second of the cost published (`Owed`); the lemma
under both is `BillClimbs`, that no region's bill falls as the water climbs, block by
block and through the divisions. `CardIsInForce`: no bill stands on a card ahead of its
year once one has stood on a card in force. It assumes that no reading begins a
year under a refresh of the last (`~Overtaken`; section 4), and its invariant holds
the card kept to the year being priced, which is that refresh's while one waits
(`Horizon`).

`CardFetchProofs` proves `OutageServesNothing`: no operator's chain of requests
and fallbacks serves a card over a passing failure, whatever is answered and
wherever the failure falls. The invariant `Clean` says that a fetch still under
way has met no outage, but for Farys's, which looks at its list of communes and
then fails either way, and one in the archiver's comparison at AIEC, which the
code lets pass. What
an extractor makes of an answer leaves the outages alone (`Same`), so that each
operator's answers take one lemma and only `Fails` a longer one.

`CardIsAsPublished` proves, for every operator, table, picture and page and whenever
the year turns, that a card is served under the year its operator gives it, as
this year's where the page has this year's, and not past its end. It is proved
operator by operator (`WaterLinkStands` to `AiecStands`), from what a fetch knows by
the request it is at: `At` says which requests an operator may be at, with the years
on offer and what it has seen by then, and `Asks` which year
it asks for. The turn of the year may overtake a fetch, so what is said of this
year is said of the year it set out in.

It also proves `OwnCommune` of `CommuneCookie!Spec`: with one request at a time
(`~Abreast`) an entry is shown its own commune's card, for any entries, communes
and answers. The invariant is that the session's jar is empty but for the cookie
of the request whose body is being read; with two abreast it is not, and section
4 has the counterexample.

Of `CardArchive!Spec` it proves `TextsAreThere`, `KeptAreThere` and `StampIsTrue`,
for any rows, editions, parsers and months, and however many runs fail, die or lose
their push. What the branch names is there because the working copy is held to the
same at every point of a run (`TextsStand`): a row is written together with its text
(`WrittenStands`), and the pruning keeps every text a row that stays refers to.
`KeptStands` is the same of the kept cards while no push has been lost: a manifest
names a card once it is uploaded, and the old releases that go are those the
manifest about to be pushed does not point into, so between the deletion and the
push the branch is not yet as good as the copy. A row stands under a stamp (`Good`) if
it carries what the stamp's parser reads from its text, or was reported, or
cannot be read by it. While a replay runs, `ReplayStands` says this of every row not
among those still to replay; that the earliest month comes first matters, since a
replayed row may take its text from an earlier month, which must by then be read.
`MaxOfMonths`, that the latest of some months is one of them, rests on the
well-foundedness of the naturals.

The runs check these properties under the names `MCParts` and `MCEntry` give them,
of the parts side by side, and `PartsProofs` and `EntryFlowsProofs` prove them under
those names too (`PricesAreNeverLost` to `CardsAreAsPublished`, and
`CardSpeaksInTheEntry`). The argument is short: a behaviour keeps its topic, the other
parts stand still, and so it is a behaviour of the part's own specification
(`PriceIsAPart`, `ArchiveIsAPart`, ...), of which the part's proof module, taken as an
instance over the same constants and variables, says what is to be shown. What a
part's theorem assumes, the composed one assumes.

`PartsProofs` proves the meter's year of `DailyBuckets`, for any draws, registers,
misreads, number of days and of faults, and meters of either kind:

- `YearIsNeverMore`, which is `NeverMoreThanDrawn` and `OfferedYearIsDrawn`. Neither is
  inductive: while a fault is open, the readers may well have counted too much. The
  invariant says where the readers may stand (`Standing`), from every day before
  which no fault is open: `Calm`, behind the meter by no more than it still has to
  show; on a faulty day `Night`, with a drop held that the next bucket makes good, or
  `High`, over by a misread that the last admitted bucket holds, so that it can be
  taken back; and on the day after a replacement `Dropped`. Each branch of
  `_admitted_changes` then takes one of these to another (`CalmStays` to `DroppedEnds`).
  A whole year is read without the branches: `YearsBelow` says of any stretch whose
  buckets a year is not refused for what their changes sum to.
- `YearLosesOnlyNights`, which is `OnlyNightsAreLost`. The same places from below
  (`CalmKept`, `NightKept`, `HighKept`): what counts, with what the meter has yet to
  show, is no less than what was drawn on the days no night touches. It assumes
  `HouseholdAssumption`: the window opens on a meter that has counted, and a day's
  water, that of a day out of sight with the next, and a misread within the jump with
  its day's, are what a day could hold, for a bucket over `_IMPLAUSIBLE_JUMP_M3` is
  refused, and its water with it. Its second half, `RefusedYearIsNotEmpty`, has an
  invariant of its own, `AllRefused`: while every day so far closed at 0, nothing
  counts, no drop is held and no climb is kept, and every bucket but the first was
  refused for sure, since each claims a register that there is none to climb from
  (`ClaimIsRefused`).

Under both are the lemmas of a year's sums: `Sum` and `_admitted_changes` are folds,
written with the community modules' `FoldLeft`, and `SumOfLast` and `AdmittedOfLast`
say that one more bucket is one more step. They are proved without the library's
induction theorems: the fold is shown to exist as a function on the sets of places
(`FoldExists`), and two such functions agree by the least place at which they would not.

Assumed by the theorems: the `ASSUME`s of `YtdFold`, `YtdRounds`, `YearToDate`,
`TariffCard`, `YearBackfill` and `EntryFlows`, and `SensorAssumption`,
`BillAssumption`, `FetchAssumption`, `CookieAssumption`, `PriceAssumption` and
`ArchiveAssumption`, which `MCParts` assumes of its values with `BucketAssumption` and
`HouseholdAssumption` (`PartsAssumption` names them). They say that bounds, thresholds and the figures of
a card are naturals, that a year begins at the first moment, that `None` is none of the values, that saved records are well dated, that
sensors are listed once, and that an operator bills a postcode on one of its own
communes, which no other operator has. TLC evaluates them in every run of the
module. What a theorem assumes beyond these is in its statement: `OneCaller`,
`SavesInTime`, `Drains`, `~Overlaps`, `~Hasty`, `~Abreast`, `AnyEvidence`, `HonestMeter`,
`NeverReplaced`, `Apart`, `Onward` and `OnwardOperator`.

Only model-checked: `SwapIsSustained`, whose history is `MCYtdRounds`'s;
`NeverOverbills` of a meter both replaced and showing wrong values; and liveness (`FiguresComeRight` among it), which
the prover does not reach.

## 6. What is not modelled

In the modelled parts: a meter without a register inside a tick's awaits, binary
fractions and cents, a clock that steps back across a card's fetch,
`last_update_success`, a platform that refuses to unload, the backfill action's
free span, units and external statistics of the meter, the rest-of-year estimate,
the text of logs, cards and forms, the migration of old records, files damaged by
hand, AIEM's card that takes effect within the year (dated 1 January), the
rendering of archived cards to pictures.

Elsewhere: `_pdf_guard.py` is a count over the bytes of a document under a budget;
`_postcodes.py` is tables and a lookup, whose answers `EntryFlows` takes as
constants; the figures the extractors parse out of a text are as right as the
text, which the repository's fixtures are for; the scripts other than the
archive's make a report and keep nothing; diagnostics and redaction format.

## 7. The plan

Done, in this order: `YtdFold`, `YtdRounds` and its runs; `YearToDate` and the
refinement; the proofs of the rounds; `TariffCard` and its proofs; the statistics
(`YearBackfill`, `PriceBackfill`); the meter (`DailyBuckets`, `MeterHistory`);
`EntryFlows`; `YearBill`, `YearSensor`; `CardFetch`, `CommuneCookie`,
`CardArchive`.

Proved, in this order: the rounds; `TariffCard`; `YearSensor`, `CardFetch` and
`CommuneCookie`; `YearBackfill`; `EntryFlows`; `YearToDate` and the refinement;
`PriceBackfill`; `MeterHistory`; `YearBill`; the years of `CardFetch`; `CardArchive`;
the parts of `MCParts` and `MCEntry` side by side; `DailyBuckets`.

The theorems are in eight modules: a component's own, or that of the components
nearest to it.
