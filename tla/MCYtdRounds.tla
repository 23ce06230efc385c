---------------------------- MODULE MCYtdRounds ----------------------------
(***************************************************************************)
(* YtdRounds for TLC.  A behaviour belongs to one scenario, which narrows  *)
(* the inputs to those that its question is about; the steps are YtdRounds' *)
(* own.  A history variable remembers the readings folded since the record *)
(* was loaded, so that a property can say what the readings before a step  *)
(* were without reading the counters of the code.                          *)
(***************************************************************************)
EXTENDS YtdRounds, Sequences

VARIABLES
  scenario,   \* the inputs of this behaviour
  recent      \* in "swap", the last readings of this meter's year, oldest first

mcvars == <<vars, scenario, recent>>

HistoryLength == SwapReadings   \* bound on the readings remembered

MCYears == 1..2
MCReadings == {0, 1, 3, 8}
MCFigures == {0, 4}
MCTakenBack == {0, 2}

\* A card that cannot price the household, a dear one and a cheap one, and
\* another household under the cheap one.
Unpriced == [basis |-> 1, price |-> None]
MCHouseholds ==
  LET dear  == [rate |-> 2, fee |-> 1]
      cheap == [rate |-> 1, fee |-> 0]
  IN {[basis |-> 1, price |-> p] : p \in {None, dear, cheap}}
       \cup {[basis |-> 2, price |-> cheap]}

FirstMeter == CHOOSE m \in Meters : TRUE

\* The file before its first save, and a record saved earlier in the year.
MCRecords ==
  {NoCycle, [FreshCycle(FirstMeter) EXCEPT
               !.year = 1, !.m3 = 3, !.offset_m3 = 0, !.basis = 1]}

-----------------------------------------------------------------------------
\* One year of any readings and any answers; two years and two meters; the
\* cards and households; one long year whose meter may be replaced.
Scenarios ==
  [volume |-> [meters |-> {FirstMeter}, readings |-> {0, 3, 8},
               figures |-> {0, 4}, taken_back |-> {0, 2},
               households |-> {Unpriced}, records |-> MCRecords,
               last_year |-> 1, last_clock |-> 1, last_m3 |-> 7],
   years  |-> [meters |-> Meters, readings |-> {0, 1, 8},
               figures |-> {0, 4}, taken_back |-> {0},
               households |-> {Unpriced}, records |-> MCRecords,
               last_year |-> 2, last_clock |-> 0, last_m3 |-> 7],
   bill   |-> [meters |-> {FirstMeter}, readings |-> {0, 8},
               figures |-> {0, 4}, taken_back |-> {0},
               households |-> MCHouseholds, records |-> {},
               last_year |-> 1, last_clock |-> 1, last_m3 |-> 7],
   swap   |-> [meters |-> {FirstMeter}, readings |-> {0, 1, 8},
               figures |-> {2}, taken_back |-> {0},
               households |-> {Unpriced}, records |-> {},
               last_year |-> 1, last_clock |-> 1, last_m3 |-> 2]]

Here == Scenarios[scenario]

MCAnswers ==
  {NoAnswer, NoStatistic} \cup
  [m3 : Here.figures, taken_back : Here.taken_back, has_statistic : {TRUE}]

Remember(reading) ==
  LET same == ytd'.year = ytd.year /\ ytd'.meter = ytd.meter
      older == IF same THEN recent ELSE <<>>
      kept == IF Len(older) < HistoryLength THEN older ELSE Tail(older)
  IN recent' = IF scenario # "swap" THEN recent
               ELSE Append(kept, [m3 |-> reading, at |-> clock])

Bounded == \A m3 \in Known({ytd'.m3}) : m3 <= Here.last_m3

MCLiveRound ==
  /\ \E meter \in Here.meters, household \in Here.households, reading \in Here.readings :
       LiveRound(meter, reading, household) /\ Remember(reading)
  /\ Bounded
  /\ UNCHANGED scenario

MCUnaskedRound ==
  /\ \E meter \in Here.meters, household \in Here.households, reading \in Here.readings :
       UnaskedRound(meter, reading, household) /\ Remember(reading)
  /\ Bounded
  /\ UNCHANGED scenario

MCAskedRound ==
  /\ \E meter \in Here.meters, household \in Here.households, y \in TickYears,
        reading \in Opt(Here.readings), answer \in MCAnswers :
       /\ AskedRound(y, meter, reading, household, answer)
       /\ IF reading = None THEN UNCHANGED recent ELSE Remember(reading)
  /\ Bounded
  /\ UNCHANGED scenario

MCRefold ==
  /\ \E meter \in Here.meters, household \in Here.households, y \in TickYears :
       Refold(y, meter, household)
  /\ Bounded
  /\ UNCHANGED <<scenario, recent>>

MCReload ==
  /\ Reload
  /\ ytd' \in {ytd} \cup Here.records
  /\ recent' = <<>>
  /\ UNCHANGED scenario

MCPassTime ==
  /\ clock < Here.last_clock
  /\ PassTime
  /\ UNCHANGED <<scenario, recent>>

MCNewYear ==
  /\ year < Here.last_year
  /\ NewYear
  /\ UNCHANGED <<scenario, recent>>

MCInit == Init /\ scenario \in DOMAIN Scenarios /\ recent = <<>>

MCNext ==
  \/ MCLiveRound \/ MCUnaskedRound \/ MCAskedRound \/ MCRefold
  \/ MCReload \/ MCPassTime \/ MCNewYear

MCSpec == MCInit /\ [][MCNext]_mcvars

\* A year in progress is restarted only by a run of readings: at least
\* SwapReadings of them in a row, all below the frame, each near the others,
\* over at least SwapSpan, and none of them from before a reload.  A burst
\* inside a moment, a dropout between honest readings, or a quiet hour before
\* the first low one (ytd_fold.py, the sub-baseline branch) is no replacement.
SwapIsSustained ==
  [][(/\ scenario = "swap"
      /\ SameYear /\ ytd.offset_m3 # None /\ ytd.m3 > 0
      /\ ytd'.m3 = 0 /\ ytd'.started_at = clock /\ ytd.started_at # clock
      /\ ~Reload) =>
       \E k \in 1..Len(recent') :
         LET run == SubSeq(recent', k, Len(recent'))
         IN /\ Len(run) >= SwapReadings
            /\ \A i \in 1..Len(run) :
                 /\ run[i].m3 < ytd.offset_m3
                 /\ Distance(run[i].m3, run[1].m3) <= Jump
            /\ run[Len(run)].at - run[1].at >= SwapSpan]_mcvars
=============================================================================
