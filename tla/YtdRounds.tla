----------------------------- MODULE YtdRounds -----------------------------
(***************************************************************************)
(* The running year as its coordinator keeps it (coordinator_ytd.py), with *)
(* every round of evidence folded in one step and nothing assumed of the   *)
(* meter or of the recorder: any reading may follow any other, and any     *)
(* answer may come back.  Two callers fold rounds, the live meter event    *)
(* and the daily or hourly tick; the record is saved from time to time and *)
(* read back by a reload.                                                  *)
(*                                                                         *)
(* YearToDate puts the callers' awaits back in and implements this module. *)
(***************************************************************************)
EXTENDS YtdFold

CONSTANTS
  Meters,          \* the entities a refresh may resolve the meter to
  Years,           \* the calendar years of the run
  Readings,        \* what the meter may show
  RecorderFigures, \* what the recorder may answer for the year
  TakenBack,       \* what the reader may have taken out of misread days
  Households,      \* [basis, price]: who the bill is for, and the card
  Records,         \* records the file may hold beside the one in memory
  MaxClock,        \* bound on the clock
  MaxRun,          \* bound on the low readings of one run
  MaxM3            \* bound on the year's figure

ASSUME RoundsAssumption ==
  /\ None \notin Meters
  /\ Years \subseteq Nat
  /\ Readings \subseteq Int
  /\ RecorderFigures \subseteq Nat
  /\ TakenBack \subseteq Nat
  /\ {MaxClock, MaxRun, MaxM3} \subseteq Nat
  /\ \A h \in Households :
       /\ h.basis # None
       /\ h.price = None \/ (h.price.rate \in Nat /\ h.price.fee \in Nat)

-----------------------------------------------------------------------------
(* The persisted record.                                                   *)

Cycles ==
  [meter : Opt(Meters), year : Opt(Years), m3 : Opt(Nat), cost : Opt(Nat),
   offset_m3 : Opt(Int), basis : Opt({h.basis : h \in Households}),
   recorder_hwm : Opt(Nat), seen_at : Opt(Nat), started_at : Opt(Nat)]

WellDated(c) ==
  /\ (c.year = None) <=> (c.m3 = None)
  /\ c.year = None =>
       c.cost = None /\ c.offset_m3 = None /\ c.recorder_hwm = None
  /\ c.year # None => c.meter # None

NoCycle == FreshCycle(None)

ASSUME RecordsAssumption == Records \subseteq {c \in Cycles : WellDated(c)}

VARIABLES
  ytd,          \* self._ytd, the cycle
  pending,      \* self._ytd_hold_m3, _hold_run, _hold_span_s, _run_m3, _high_m3
  last_fold_at, \* self._ytd_last_fold_at
  recorder_ok,  \* self._recorder_ok
  clock,        \* time
  year          \* the year the clock is in

vars == <<ytd, pending, last_fold_at, recorder_ok, clock, year>>

-----------------------------------------------------------------------------
(* The evidence of a round.                                                *)

\* The recorder was not asked, or failed.
NoAnswer == [m3 |-> None, taken_back |-> 0, has_statistic |-> FALSE]

\* It holds no statistic for the meter, which reads as a zero.
NoStatistic == [m3 |-> 0, taken_back |-> 0, has_statistic |-> FALSE]

Answers ==
  {NoStatistic} \cup
  [m3 : RecorderFigures, taken_back : TakenBack, has_statistic : {TRUE}]

Evidence(y, meter, reading, household, answer, ok) ==
  [year |-> y, meter |-> meter, reading |-> reading,
   recorder_m3 |-> answer.m3, taken_back |-> answer.taken_back,
   has_statistic |-> answer.has_statistic, recorder_ok |-> ok,
   elapsed |-> IF last_fold_at = None THEN 0 ELSE clock - last_fold_at,
   now |-> clock, basis |-> household.basis, price |-> household.price]

\* _fold_cycle: the only place that keeps the rule's answer.
FoldCycle(e) ==
  /\ LET round == Fold(ytd, pending, e)
     IN ytd' = round.cycle /\ pending' = round.pending
  /\ pending'.hold_run <= MaxRun
  /\ \A m3 \in Known({ytd'.m3}) : m3 <= MaxM3
  /\ last_fold_at' = clock

-----------------------------------------------------------------------------
(* The rounds.                                                             *)

\* _recompute_live_ytd: a meter event brings a reading and nothing else.
LiveRound(meter, reading, household) ==
  /\ FoldCycle(Evidence(year, meter, reading, household, NoAnswer, recorder_ok))
  /\ UNCHANGED <<recorder_ok, clock, year>>

\* The frame produces less than the year has published.
StaleFrame(reading) ==
  /\ ytd.m3 # None
  /\ ytd.offset_m3 # None
  /\ reading # None
  /\ ytd.m3 > reading - ytd.offset_m3

\* The record answers for the year on its own, as far as it can tell.
AnswersAlone(meter, reading) ==
  /\ ytd.meter = meter
  /\ ytd.year = year
  /\ ytd.offset_m3 # None
  /\ reading # None
  /\ ~StaleFrame(reading)

\* A tick that asks nobody forgets the recorder's last failure.
UnaskedRound(meter, reading, household) ==
  /\ AnswersAlone(meter, reading)
  /\ recorder_ok' = None
  /\ FoldCycle(Evidence(year, meter, reading, household, NoAnswer, None))
  /\ UNCHANGED <<clock, year>>

\* A tick that asked: y is the year it began in, answer is NoAnswer when the
\* query failed.
AskedRound(y, meter, reading, household, answer) ==
  /\ recorder_ok' = (answer # NoAnswer)
  /\ FoldCycle(Evidence(y, meter, reading, household, answer, answer # NoAnswer))
  /\ UNCHANGED <<clock, year>>

\* The fold a tick makes again after its save, on no evidence at all.
Refold(y, meter, household) ==
  /\ FoldCycle(Evidence(y, meter, None, household, NoAnswer, recorder_ok))
  /\ UNCHANGED <<recorder_ok, clock, year>>

\* A tick may fold for the year it began in after the clock has left it.
TickYears == Years \cap {year, year - 1}

Rounds ==
  \E meter \in Meters, household \in Households :
    \/ \E reading \in Readings : LiveRound(meter, reading, household)
    \/ \E reading \in Readings : UnaskedRound(meter, reading, household)
    \/ \E y \in TickYears, reading \in Opt(Readings), answer \in {NoAnswer} \cup Answers :
         AskedRound(y, meter, reading, household, answer)
    \/ \E y \in TickYears : Refold(y, meter, household)

-----------------------------------------------------------------------------
(* A new coordinator, the clock.                                           *)

\* A reload or a restart: async_load_ytd_state reads the file, which holds
\* the record as it stood or one saved earlier, and every hold is forgotten.
Reload ==
  /\ ytd' \in {ytd} \cup Records
  /\ pending' = NothingHeld
  /\ last_fold_at' = None
  /\ recorder_ok' = None
  /\ UNCHANGED <<clock, year>>

PassTime ==
  /\ clock < MaxClock
  /\ clock' = clock + 1
  /\ UNCHANGED <<ytd, pending, last_fold_at, recorder_ok, year>>

NewYear ==
  /\ year + 1 \in Years
  /\ year' = year + 1
  /\ UNCHANGED <<ytd, pending, last_fold_at, recorder_ok, clock>>

Init ==
  /\ ytd = NoCycle
  /\ pending = NothingHeld
  /\ last_fold_at = None
  /\ recorder_ok = None
  /\ clock = 0
  /\ year \in {y \in Years : y - 1 \notin Years}

Next ==
  Rounds \/ Reload \/ PassTime \/ NewYear

Spec == Init /\ [][Next]_vars

-----------------------------------------------------------------------------
(* What the running year promises, whatever it is shown.                   *)

Holds ==
  [hold_m3 : Opt(Int), hold_run : Nat, hold_span : Nat,
   run_m3 : Opt(Int), high_m3 : Opt(Int)]

\* The types of what the coordinator keeps: no volume, bill, hold or recorder
\* figure ever goes below zero, though the readings and frames may.
TypeOK ==
  /\ ytd \in Cycles
  /\ pending \in Holds
  /\ last_fold_at \in Opt(Nat)
  /\ recorder_ok \in Opt(BOOLEAN)
  /\ clock \in Nat
  /\ year \in Years

\* Nothing is ever billed that no year owns: a record has a year exactly when
\* it has a figure, and a floor, a frame and a recorder figure only with them.
Dated == WellDated(ytd)

\* The same meter's same year, before and after a step.
SameYear ==
  /\ ytd.year # None
  /\ ytd'.year = ytd.year
  /\ ytd'.meter = ytd.meter

\* The year restarted on a new register.
YearRestarts ==
  /\ ytd'.m3 = 0
  /\ ytd'.started_at = clock
  /\ pending.hold_run >= SwapReadings - 1

\* A recorder that had already spoken for the year, and that has lost none of
\* it, took a misread back.
RecorderTakesBack ==
  /\ ytd.recorder_hwm # None
  /\ ytd'.recorder_hwm # None
  /\ ytd'.recorder_hwm >= ytd.recorder_hwm
  /\ ytd'.m3 <= ytd'.recorder_hwm + Lag
  /\ ytd'.offset_m3 # None

\* The year's figure falls only on a confirmed replacement or on a correction
\* by the recorder (docs/architecture.md: never let the running bill walk
\* down for no reason); a reload falls back to what was saved.
FallsOnlyForAReason ==
  [][(SameYear /\ ytd'.m3 < ytd.m3) =>
       YearRestarts \/ RecorderTakesBack \/ Reload]_vars

\* The cost floor of one household falls only with the volume it priced: a
\* cheaper card or a clock stepped back never shows as a falling bill.
BillFallsOnlyWithTheYear ==
  [][(/\ SameYear /\ ytd'.basis = ytd.basis
      /\ ytd.cost # None /\ (ytd'.cost = None \/ ytd'.cost < ytd.cost)) =>
       YearRestarts \/ RecorderTakesBack \/ Reload]_vars

\* No round adds more than the step bound to what the year, or the recorder,
\* already knew: a garbage reading is held or put to the recorder, and two
\* that agree are put to it as well.
ClimbIsBounded ==
  [][(SameYear /\ ~Reload) =>
       ytd'.m3 <= Max(Known({ytd.m3, ytd'.recorder_hwm}))
                    + StepBound(ytd.seen_at, clock)]_vars

\* Another year of the same meter starts at nothing or at what the recorder
\* says of it, whatever the closing year held, and a query that failed starts
\* none: the year may hold water nobody could read.
YearStartsFresh ==
  [][(/\ ytd.year # None /\ ytd'.meter = ytd.meter /\ ytd'.year # ytd.year
      /\ ~Reload) =>
       \/ ytd'.m3 = 0 /\ recorder_ok' # FALSE
       \/ ytd'.recorder_hwm # None /\ ytd'.m3 <= ytd'.recorder_hwm]_vars

\* A record without history, a first setup or a repointed meter, takes its
\* first figure from a recorder answer and never from a reading: 1 January's
\* with statistics behind it, this moment's and zero without.
FirstFigureIsEarned ==
  [][(/\ ytd.year = None \/ ytd'.meter # ytd.meter
      /\ ytd'.year # None /\ ~Reload) =>
       \/ ytd'.recorder_hwm # None /\ ytd'.started_at = None
            /\ ytd'.m3 <= ytd'.recorder_hwm
       \/ ytd'.m3 = 0 /\ ytd'.started_at = clock]_vars

\* What the recorder has said of a year is never forgotten while that year
\* runs on one register: a database that lost history cannot pass for whole.
RecorderMarkStands ==
  [][SameYear /\ ytd.recorder_hwm # None =>
       \/ ytd'.recorder_hwm # None /\ ytd'.recorder_hwm >= ytd.recorder_hwm
       \/ YearRestarts
       \/ Reload]_vars

\* The moment the figure started counting moves only with a restart of the
\* year: Home Assistant opens a new statistics cycle whenever it moves.
StartStands ==
  [][SameYear => \/ ytd'.started_at = ytd.started_at
                 \/ YearRestarts
                 \/ Reload]_vars
=============================================================================
