------------------------------ MODULE YearSensor ----------------------------
(***************************************************************************)
(* The last_reset of a year-to-date sensor (sensor.py). Home Assistant's   *)
(* long-term sum opens a new cycle whenever it moves, back included, and   *)
(* adds the whole figure of the year again. It is taken from the calendar, *)
(* from when the coordinator's year started counting and from the reset    *)
(* the sensor last gave a figure under, which Home Assistant dumps from    *)
(* time to time and gives back to a sensor that is added again.            *)
(*                                                                         *)
(* The coordinator is what YtdRounds says of it: the start of its year     *)
(* moves with a restart of the year, falls away with a meter the recorder  *)
(* has statistics of, and comes back from the Store's file.                *)
(***************************************************************************)
EXTENDS Integers, FiniteSets, FiniteSetsExt

CONSTANTS NewYears,  \* the moments a year begins
          MaxClock,  \* bound: the last moment
          Hasty,     \* TRUE: an entry may go, or refresh, before setup's background read
          None

\* What the constants are; MCParts assumes it of its values.
SensorAssumption ==
  /\ 0 \in NewYears /\ NewYears \subseteq Nat /\ MaxClock \in Nat
  /\ None \notin Nat

VARIABLES
  clock,
  started,    \* ytd_started_at of the coordinator's year
  figure,     \* whether the coordinator has a figure of the year
  stored,     \* started, as the Store's file has it
  reset_at,   \* the sensor's _reset_at
  dumped,     \* what Home Assistant has dumped of it
  state,      \* "down", "added" or, with the background read in, "up"
  recorded,   \* the last_reset of the last figure the recorder was given
  exposed     \* a crash came before that reset was dumped

vars == <<clock, started, figure, stored, reset_at, dumped, state, recorded, exposed>>

Running == state \in {"added", "up"}

\* jan_1_local
Jan1 == Max({y \in NewYears : y <= clock})

\* Mutant: the reset last given counts for nothing.
WithoutAFloor(start, floor) == Max({Jan1, start} \ {None})

\* last_reset
LastReset(start, floor) == Max({Jan1, start, floor} \ {None})

\* _handle_coordinator_update: a figure goes out, and fixes the reset it goes out under.
Updated(start, known) ==
  IF known THEN /\ recorded' = LastReset(start, reset_at)
                /\ reset_at' = LastReset(start, reset_at)
                /\ exposed' = FALSE
  ELSE UNCHANGED <<recorded, reset_at, exposed>>

\* The year's start, when the year it is of goes on.
Current(start) == IF start = None THEN None ELSE IF start < Jan1 THEN None ELSE start

\* What a fold may leave of the start: as it was, this moment's (a replaced meter, or
\* one without statistics), or none (a meter with statistics is listed first).
FoldedStarts(start) == {Current(start), clock, None}

\* async_setup_entry: the file is read, the first refresh folds and saves, the sensor
\* is added with what was dumped of it and writes its state.
Setup ==
  /\ ~Running
  /\ \E start \in FoldedStarts(stored), known \in BOOLEAN :
       /\ started' = start /\ stored' = start /\ figure' = known
       /\ recorded' = IF known THEN LastReset(start, dumped) ELSE recorded
  /\ reset_at' = dumped /\ state' = "added"
  /\ UNCHANGED <<clock, dumped, exposed>>

\* async_read_meter_history: it publishes once its reads are in.
BackgroundRead ==
  /\ state = "added" /\ state' = "up"
  /\ Updated(started, figure)
  /\ UNCHANGED <<clock, started, figure, stored, dumped>>

\* A refresh or the hourly read: it folds, saves and publishes.
Refresh ==
  /\ state = "up" \/ (Hasty /\ Running)
  /\ \E start \in FoldedStarts(started), known \in BOOLEAN :
       /\ started' = start /\ stored' = start /\ figure' = known
       /\ Updated(start, known)
  /\ UNCHANGED <<clock, dumped, state>>

\* _recompute_live_ytd: a reading is folded and published, and saved later.
LiveReading ==
  /\ Running
  /\ \E start \in {Current(started), clock} :
       /\ started' = start
       /\ Updated(start, TRUE)
  /\ figure' = TRUE
  /\ UNCHANGED <<clock, stored, dumped, state>>

\* The delayed save.
Save ==
  /\ Running /\ stored' = started
  /\ UNCHANGED <<clock, started, figure, reset_at, dumped, state, recorded, exposed>>

\* Home Assistant dumps what its sensors have it keep.
Dump ==
  /\ Running /\ dumped' = reset_at
  /\ UNCHANGED <<clock, started, figure, stored, reset_at, state, recorded, exposed>>

\* An unload, or a stop, which both save.
Unload ==
  /\ state = "up" \/ (Hasty /\ Running)
  /\ state' = "down" /\ stored' = started /\ dumped' = reset_at
  /\ UNCHANGED <<clock, started, figure, reset_at, recorded, exposed>>

Crash ==
  /\ Running /\ state' = "down"
  /\ exposed' = (dumped # recorded)
  /\ UNCHANGED <<clock, started, figure, stored, reset_at, dumped, recorded>>

PassTime ==
  /\ clock < MaxClock /\ clock' = clock + 1
  /\ UNCHANGED <<started, figure, stored, reset_at, dumped, state, recorded, exposed>>

Init ==
  /\ clock = 0 /\ started = None /\ figure = FALSE /\ stored = None
  /\ reset_at = None /\ dumped = None /\ state = "down"
  /\ recorded = None /\ exposed = FALSE

Next ==
  \/ Setup \/ BackgroundRead \/ Refresh \/ LiveReading
  \/ Save \/ Dump \/ Unload \/ Crash \/ PassTime

Spec == Init /\ [][Next]_vars

-----------------------------------------------------------------------------

\* The reset figures go out under never moves back, over reloads, restarts, years and
\* meters, but for a crash before Home Assistant dumped the last one (sensor.py,
\* last_reset and _ResetGuardState).
ResetNeverGoesBack == [][recorded # None /\ recorded' < recorded => exposed]_vars
=============================================================================
