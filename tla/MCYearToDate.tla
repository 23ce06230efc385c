---------------------------- MODULE MCYearToDate ----------------------------
(* The values TLC gives the constants of YearToDate.                       *)
EXTENDS YearToDate

OneYear == {1}
TwoYears == 1..2
Unpriced == [basis |-> 1, price |-> None]
OnlyUnpriced == {Unpriced}
AnyReading == 0..20
AnyFigure == 0..12

\* A register that starts at 6 or anew at 0, and a year that starts at 3.
ShownReadings == (0..2) \cup (6..8)
CountedFigures == 3..5
NothingTakenBack == {0}
NoRecords == {}
NoGlitches == {}
DropoutAndSpike == {0, 20}

-----------------------------------------------------------------------------
\* Budgets: what happens at all, one behaviour at a time.
Nothing == [happening \in Happenings |-> 0]

\* The meter is replaced, a query fails, Home Assistant restarts.
AReplacedMeter ==
  [Nothing EXCEPT !["water"] = 2, !["replacements"] = 1, !["failures"] = 1, !["crashes"] = 1]

\* The year turns, under a tick or between two.
ATurnOfTheYear ==
  [Nothing EXCEPT !["water"] = 3, !["years"] = 1, !["crashes"] = 1]

\* The meter shows a dropout or a spike, and shows it again.
AWrongValue ==
  [Nothing EXCEPT !["water"] = 2, !["glitches"] = 1, !["failures"] = 1]

\* More water than the step bound is drawn while the meter is out of sight.
ALongOutage ==
  [Nothing EXCEPT !["water"] = 3, !["failures"] = 1]

AnyTrouble == {AReplacedMeter, ATurnOfTheYear, AWrongValue, ALongOutage}

\* What the coordinator recovers from: a replacement, or a restart and a
\* failed query, but not a restart in the hours after a replacement.
Swapped   == [Nothing EXCEPT !["water"] = 2, !["replacements"] = 1]
Restarted == [Nothing EXCEPT !["water"] = 2, !["failures"] = 1, !["crashes"] = 1]
SwappedOrRestarted == {Swapped, Restarted}

SwappedAndRestarted ==
  {[Nothing EXCEPT !["water"] = 2, !["replacements"] = 1, !["crashes"] = 1]}
=============================================================================
