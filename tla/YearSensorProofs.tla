--------------------------- MODULE YearSensorProofs --------------------------
(***************************************************************************)
(* last_reset never moves back, for any calendar and any moves of the      *)
(* coordinator's start, when the entry neither refreshes nor goes before   *)
(* setup's background read. The invariant is where the reset last given    *)
(* out is kept: in the sensor, in the dump of one that is gone, or, before *)
(* the background read, in the year's start, which can only be left for a  *)
(* later one.                                                              *)
(*                                                                         *)
(* And of YearBill, the cost given out: its floor is no other household's, *)
(* commune's or year's, and it stands on a card in force. Every cost kept  *)
(* is at most what a card of its own household bills for the water it was  *)
(* kept at (Billed), and a bill climbs with the water.                     *)
(***************************************************************************)
EXTENDS YearSensor, TLAPS, WellFoundedInduction

\* The moments so far, and none.
SoFar == {None} \cup 0 .. clock

SensorType ==
  /\ clock \in Nat
  /\ {started, stored, reset_at, dumped, recorded} \subseteq SoFar
  /\ figure \in BOOLEAN /\ exposed \in BOOLEAN
  /\ state \in {"down", "added", "up"}

AtLeastRecorded(kept) == kept # None /\ recorded <= kept

\* Unless a crash lost it, the reset last given out is kept.
ResetIsKept ==
  recorded # None /\ ~exposed =>
    /\ state = "down" => AtLeastRecorded(dumped)
    /\ state = "up" => AtLeastRecorded(reset_at)
    /\ state = "added" => \/ AtLeastRecorded(reset_at)
                          \/ figure /\ recorded <= LastReset(started, reset_at)

SensorInv == SensorType /\ ResetIsKept

ResetStep == recorded # None /\ recorded' < recorded => exposed

-----------------------------------------------------------------------------
(* The latest of some moments. *)

LEMMA MaxOfBounded ==
  ASSUME NEW bound \in Nat, NEW S, S \subseteq 0 .. bound, S # {}
  PROVE  Max(S) \in S /\ \A x \in S : x <= Max(S)
<1> DEFINE Short == {bound - x : x \in S}
           Less == {ss \in Nat \X Nat : ss[1] < ss[2]}
<1>1. Short \subseteq Nat
  <2> SUFFICES ASSUME NEW d \in Short
               PROVE  d \in Nat
    OBVIOUS
  <2>1. PICK x \in S : d = bound - x
    OBVIOUS
  <2>2. QED
    BY <2>1
<1>2. Short # {}
  <2>1. PICK x : x \in S
    OBVIOUS
  <2>2. bound - x \in Short
    BY <2>1
  <2>3. QED
    BY <2>2
<1>3. IsWellFoundedOn(Less, Nat)
  BY NatLessThanWellFounded DEF OpToRel
<1> HIDE DEF Less, Short
<1>4. PICK s \in Short : \A t \in Short : ~(<<t, s>> \in Less)
  BY <1>1, <1>2, <1>3, WFMin
<1>5. ASSUME NEW t \in Short
      PROVE  s <= t
  <2>1. t \in Nat /\ s \in Nat /\ <<t, s>> \notin Less
    BY <1>1, <1>4
  <2>2. <<t, s>> \in Nat \X Nat /\ <<t, s>>[1] = t /\ <<t, s>>[2] = s
    BY <2>1
  <2>3. ~(t < s)
    BY <2>1, <2>2 DEF Less
  <2>4. QED
    BY <2>1, <2>3
<1>6. PICK m \in S : s = bound - m
  BY DEF Short
<1>7. \A x \in S : m >= x
  <2> TAKE x \in S
  <2>1. bound - x \in Short
    BY DEF Short
  <2>2. s <= bound - x
    BY <1>5, <2>1
  <2>3. QED
    BY <2>2, <1>6
<1>8. m \in S /\ \A x \in S : m >= x
  BY <1>7
<1>9. Max(S) \in S /\ \A x \in S : Max(S) >= x
  BY <1>8 DEF Max
<1>10. QED
  BY <1>9

\* The 1 January of moment c, which is Jan1 of the clock's.
LatestYear(c) == Max({y \in NewYears : y <= c})

LEMMA LatestYearIsLatest ==
  ASSUME SensorAssumption, NEW c \in Nat
  PROVE  /\ LatestYear(c) \in 0 .. c /\ LatestYear(c) \in NewYears
         /\ \A y \in NewYears : y <= c => y <= LatestYear(c)
<1> DEFINE begun == {y \in NewYears : y <= c}
<1>1. begun \subseteq 0 .. c /\ 0 \in begun
  <2>1. ASSUME NEW y \in begun
        PROVE  y \in 0 .. c
    BY DEF SensorAssumption
  <2>2. 0 \in begun
    BY DEF SensorAssumption
  <2> HIDE DEF begun
  <2>3. QED
    BY <2>1, <2>2
<1> HIDE DEF begun
<1>2. Max(begun) \in begun /\ \A y \in begun : y <= Max(begun)
  BY <1>1, MaxOfBounded
<1>3. QED
  BY <1>1, <1>2 DEF LatestYear, begun

\* What a reset is the latest of, at moment c.
LEMMA LatestOfThree ==
  ASSUME SensorAssumption, NEW c \in Nat, NEW jan \in 0 .. c,
         NEW start \in {None} \cup 0 .. c, NEW floor \in {None} \cup 0 .. c
  PROVE  LET latest == Max({jan, start, floor} \ {None})
         IN /\ latest \in 0 .. c /\ jan <= latest
            /\ start # None => start <= latest
            /\ floor # None => floor <= latest
            /\ latest \in {jan, start, floor}
<1> DEFINE moments == {jan, start, floor} \ {None}
<1>1. moments \subseteq 0 .. c /\ jan \in moments
  BY DEF SensorAssumption
<1> HIDE DEF moments
<1>2. Max(moments) \in moments /\ \A x \in moments : x <= Max(moments)
  BY <1>1, MaxOfBounded
<1>3. QED
  BY <1>1, <1>2 DEF moments

\* last_reset is the latest of what it is taken from.
LEMMA LastResetIsLatest ==
  ASSUME SensorAssumption, clock \in Nat, NEW start \in SoFar, NEW floor \in SoFar
  PROVE  /\ LastReset(start, floor) \in 0 .. clock
         /\ Jan1 \in 0 .. clock /\ Jan1 <= LastReset(start, floor)
         /\ start # None => start <= LastReset(start, floor)
         /\ floor # None => floor <= LastReset(start, floor)
         /\ LastReset(start, floor) \in {Jan1, start, floor}
<1>1. Jan1 \in 0 .. clock
  BY LatestYearIsLatest DEF Jan1, LatestYear
<1>2. QED
  BY <1>1, LatestOfThree DEF LastReset, SoFar

\* Two bounds a figure goes out under.
LEMMA UpdatedIsKept ==
  ASSUME SensorAssumption, SensorType, NEW start \in SoFar, NEW known \in BOOLEAN,
         Updated(start, known)
  PROVE  /\ {recorded', reset_at'} \subseteq SoFar /\ exposed' \in BOOLEAN
         /\ known => /\ recorded' = LastReset(start, reset_at) /\ reset_at' = recorded'
                     /\ recorded' \in 0 .. clock /\ ~exposed'
         /\ ~known => recorded' = recorded /\ reset_at' = reset_at /\ exposed' = exposed
<1>1. LastReset(start, reset_at) \in 0 .. clock
  BY LastResetIsLatest DEF SensorType
<1>2. QED
  BY <1>1 DEF Updated, SensorType, SoFar
\* A start taken from one so far is so far.
LEMMA FoldedStartIsSoFar ==
  ASSUME SensorAssumption, SensorType, NEW start \in SoFar
  PROVE  /\ FoldedStarts(start) \subseteq SoFar
         /\ Current(start) \in {start, None}
         /\ Current(start) = None /\ start # None => start < Jan1
<1>1. Current(start) \in {start, None}
  BY DEF Current
<1>2. Current(start) = None /\ start # None => start < Jan1
  BY DEF Current
<1>3. QED
  BY <1>1, <1>2 DEF FoldedStarts, SensorType, SoFar

\* A reset of the past is not after the one the year's start of a moment gives.
LEMMA FoldKeepsLatest ==
  ASSUME SensorAssumption, SensorType, NEW start \in {Current(started), clock}
  PROVE  LastReset(started, reset_at) <= LastReset(start, reset_at)
<1> DEFINE old == LastReset(started, reset_at)
           new == LastReset(start, reset_at)
<1>1. started \in SoFar /\ reset_at \in SoFar /\ clock \in SoFar /\ clock \in Nat
  BY DEF SensorType, SoFar
<1>2. start \in SoFar
  BY <1>1, FoldedStartIsSoFar DEF FoldedStarts
<1>3. /\ old \in 0 .. clock /\ old \in {Jan1, started, reset_at}
      /\ new \in 0 .. clock /\ Jan1 <= new
      /\ start # None => start <= new
      /\ reset_at # None => reset_at <= new
      /\ Jan1 \in 0 .. clock
  BY <1>1, <1>2, LastResetIsLatest
<1>4. None \notin Nat
  BY DEF SensorAssumption
<1>5. CASE start = clock
  BY <1>1, <1>3, <1>4, <1>5
<1>6. CASE start = Current(started)
  <2>1. start \in {started, None} /\ (start = None /\ started # None => started < Jan1)
    BY <1>1, <1>6, FoldedStartIsSoFar
  <2> HIDE DEF old, new
  <2>2. started # None => started <= new
    BY <1>1, <1>3, <1>4, <2>1 DEF SoFar
  <2>3. old <= new
    BY <1>1, <1>3, <1>4, <2>2 DEF SoFar
  <2>4. QED
    BY <2>3 DEF old, new
<1>7. QED
  BY <1>5, <1>6

-----------------------------------------------------------------------------
(* The steps. *)

LEMMA SensorStarts == SensorAssumption /\ Init => SensorInv
  BY DEF SensorAssumption, Init, SensorInv, SensorType, ResetIsKept, SoFar

\* What every action but PassTime has to keep.
Kept == SensorInv' /\ ResetStep

\* A reset given out while the sensor is up is the one it keeps.
LEMMA UpKeeps ==
  ASSUME SensorAssumption, SensorInv, state = "up", clock' = clock, state' = "up",
         NEW start \in SoFar, NEW known \in BOOLEAN, Updated(start, known),
         started' = start, stored' \in SoFar, dumped' = dumped, figure' \in BOOLEAN
  PROVE  Kept
<1>1. /\ {recorded', reset_at'} \subseteq SoFar /\ exposed' \in BOOLEAN
      /\ known => /\ recorded' = LastReset(start, reset_at) /\ reset_at' = recorded'
                  /\ recorded' \in 0 .. clock /\ ~exposed'
      /\ ~known => recorded' = recorded /\ reset_at' = reset_at /\ exposed' = exposed
  BY UpdatedIsKept DEF SensorInv
<1>2. reset_at # None => reset_at <= LastReset(start, reset_at)
  BY LastResetIsLatest DEF SensorInv, SensorType
<1>3. SensorType'
  BY <1>1 DEF SensorInv, SensorType, SoFar
<1>4. None \notin Nat
  BY DEF SensorAssumption
<1>5. CASE known
  <2>1. recorded' # None /\ reset_at' = recorded' /\ recorded' \in 0 .. clock
    BY <1>1, <1>4, <1>5 DEF SensorInv, SensorType
  <2>2. ResetIsKept'
    BY <2>1 DEF ResetIsKept, AtLeastRecorded, SensorInv, SensorType
  <2>3. recorded # None /\ ~exposed => recorded <= recorded'
    <3>1. recorded # None /\ ~exposed => reset_at # None /\ recorded <= reset_at
      BY DEF SensorInv, ResetIsKept, AtLeastRecorded
    <3>2. recorded \in SoFar /\ reset_at \in SoFar /\ clock \in Nat
      BY DEF SensorInv, SensorType
    <3>3. QED
      BY <1>1, <1>2, <1>4, <1>5, <2>1, <3>1, <3>2 DEF SoFar
  <2>4. ResetStep
    <3>1. recorded \in SoFar /\ clock \in Nat
      BY DEF SensorInv, SensorType
    <3>2. QED
      BY <1>4, <2>1, <2>3, <3>1 DEF ResetStep, SoFar
  <2>5. QED
    BY <1>3, <2>2, <2>4 DEF Kept, SensorInv
<1>6. CASE ~known
  <2>1. recorded' = recorded /\ reset_at' = reset_at /\ exposed' = exposed
    BY <1>1, <1>6
  <2>2. ResetIsKept'
    BY <2>1 DEF ResetIsKept, AtLeastRecorded, SensorInv
  <2>3. ~(recorded # None /\ recorded' < recorded)
    BY <1>4, <2>1 DEF SensorInv, SensorType, SoFar
  <2>4. QED
    BY <1>3, <2>2, <2>3 DEF Kept, SensorInv, ResetStep
<1>7. QED
  BY <1>5, <1>6

LEMMA SetupKeeps == ASSUME SensorAssumption, SensorInv, Setup PROVE Kept
<1>1. PICK start \in FoldedStarts(stored), known \in BOOLEAN :
        /\ started' = start /\ stored' = start /\ figure' = known
        /\ recorded' = IF known THEN LastReset(start, dumped) ELSE recorded
  BY DEF Setup
<1>2. /\ reset_at' = dumped /\ state' = "added" /\ state = "down"
      /\ clock' = clock /\ dumped' = dumped /\ exposed' = exposed
  BY DEF Setup, Running, SensorInv, SensorType
<1>3. /\ start \in SoFar /\ dumped \in SoFar /\ recorded \in SoFar
      /\ clock \in Nat /\ None \notin Nat
  BY FoldedStartIsSoFar DEF SensorInv, SensorType, SensorAssumption
<1>4. /\ LastReset(start, dumped) \in 0 .. clock
      /\ dumped # None => dumped <= LastReset(start, dumped)
  BY <1>3, LastResetIsLatest
<1>5. recorded' \in SoFar
  BY <1>1, <1>3, <1>4 DEF SoFar
<1>6. SensorType'
  BY <1>1, <1>2, <1>3, <1>5 DEF SensorInv, SensorType, SoFar
<1>7. recorded # None /\ ~exposed => dumped # None /\ recorded <= dumped
  BY <1>2 DEF SensorInv, ResetIsKept, AtLeastRecorded
<1>8. CASE known
  <2>1. recorded' = LastReset(start, dumped)
    BY <1>1, <1>8
  <2>2. LastReset(started, reset_at)' = LastReset(start, dumped)
    BY <1>1, <1>2 DEF LastReset, Jan1
  <2>3. ResetIsKept'
    BY <1>1, <1>2, <1>3, <1>4, <1>8, <2>1, <2>2 DEF ResetIsKept
  <2>4. ResetStep
    BY <1>3, <1>4, <1>7, <2>1 DEF ResetStep, SoFar
  <2>5. QED
    BY <1>6, <2>3, <2>4 DEF Kept, SensorInv
<1>9. CASE ~known
  <2>1. recorded' = recorded
    BY <1>1, <1>9
  <2>2. ResetIsKept'
    BY <1>2, <1>7, <2>1 DEF ResetIsKept, AtLeastRecorded
  <2>3. ResetStep
    BY <1>3, <2>1 DEF ResetStep, SoFar
  <2>4. QED
    BY <1>6, <2>2, <2>3 DEF Kept, SensorInv
<1>10. QED
  BY <1>8, <1>9

LEMMA BackgroundReadKeeps ==
  ASSUME SensorAssumption, SensorInv, BackgroundRead PROVE Kept
<1>1. /\ state = "added" /\ state' = "up" /\ clock' = clock /\ started' = started
      /\ figure' = figure /\ stored' = stored /\ dumped' = dumped
      /\ Updated(started, figure)
  BY DEF BackgroundRead
<1>2. /\ started \in SoFar /\ reset_at \in SoFar /\ recorded \in SoFar
      /\ figure \in BOOLEAN /\ clock \in Nat /\ None \notin Nat
  BY DEF SensorInv, SensorType, SensorAssumption
<1>3. /\ {recorded', reset_at'} \subseteq SoFar /\ exposed' \in BOOLEAN
      /\ figure => /\ recorded' = LastReset(started, reset_at) /\ reset_at' = recorded'
                   /\ recorded' \in 0 .. clock /\ ~exposed'
      /\ ~figure => recorded' = recorded /\ reset_at' = reset_at /\ exposed' = exposed
  BY <1>1, <1>2, UpdatedIsKept DEF SensorInv
<1>4. reset_at # None => reset_at <= LastReset(started, reset_at)
  BY <1>2, LastResetIsLatest
<1>5. SensorType'
  BY <1>1, <1>3 DEF SensorInv, SensorType, SoFar
<1>6. recorded # None /\ ~exposed =>
        \/ reset_at # None /\ recorded <= reset_at
        \/ figure /\ recorded <= LastReset(started, reset_at)
  BY <1>1 DEF SensorInv, ResetIsKept, AtLeastRecorded
<1>7. CASE figure
  <2>1. ResetIsKept'
    BY <1>1, <1>2, <1>3, <1>7 DEF ResetIsKept, AtLeastRecorded
  <2>2. ResetStep
    BY <1>2, <1>3, <1>4, <1>6, <1>7 DEF ResetStep, SoFar
  <2>3. QED
    BY <1>5, <2>1, <2>2 DEF Kept, SensorInv
<1>8. CASE ~figure
  <2>1. ResetIsKept'
    BY <1>1, <1>3, <1>6, <1>8 DEF ResetIsKept, AtLeastRecorded
  <2>2. ResetStep
    BY <1>2, <1>3, <1>8 DEF ResetStep, SoFar
  <2>3. QED
    BY <1>5, <2>1, <2>2 DEF Kept, SensorInv
<1>9. QED
  BY <1>2, <1>7, <1>8

LEMMA RefreshKeeps == ASSUME SensorAssumption, ~Hasty, SensorInv, Refresh PROVE Kept
<1>1. PICK start \in FoldedStarts(started), known \in BOOLEAN :
        /\ started' = start /\ stored' = start /\ figure' = known
        /\ Updated(start, known)
  BY DEF Refresh
<1>2. state = "up" /\ clock' = clock /\ dumped' = dumped /\ state' = "up"
  BY DEF Refresh
<1>3. start \in SoFar
  BY FoldedStartIsSoFar DEF SensorInv, SensorType
<1>4. QED
  BY <1>1, <1>2, <1>3, UpKeeps

LEMMA LiveReadingKeeps == ASSUME SensorAssumption, SensorInv, LiveReading PROVE Kept
<1>1. PICK start \in {Current(started), clock} : started' = start /\ Updated(start, TRUE)
  BY DEF LiveReading
<1>2. /\ figure' = TRUE /\ clock' = clock /\ stored' = stored /\ dumped' = dumped
      /\ state' = state /\ state \in {"added", "up"}
  BY DEF LiveReading, Running
<1>3. /\ started \in SoFar /\ reset_at \in SoFar /\ recorded \in SoFar
      /\ clock \in Nat /\ None \notin Nat
  BY DEF SensorInv, SensorType, SensorAssumption
<1>4. start \in SoFar
  BY <1>3, FoldedStartIsSoFar DEF FoldedStarts, SensorInv
<1>5. CASE state = "up"
  <2>1. stored' \in SoFar /\ figure' \in BOOLEAN
    BY <1>2 DEF SensorInv, SensorType
  <2>2. QED
    BY <1>1, <1>2, <1>4, <1>5, <2>1, UpKeeps
<1>6. CASE state = "added"
  <2>1. /\ {recorded', reset_at'} \subseteq SoFar /\ exposed' \in BOOLEAN
        /\ recorded' = LastReset(start, reset_at) /\ reset_at' = recorded'
        /\ recorded' \in 0 .. clock /\ ~exposed'
    BY <1>1, <1>4, UpdatedIsKept DEF SensorInv
  <2>2. reset_at # None => reset_at <= LastReset(start, reset_at)
    BY <1>3, <1>4, LastResetIsLatest
  <2>3. /\ LastReset(started, reset_at) <= LastReset(start, reset_at)
        /\ LastReset(started, reset_at) \in 0 .. clock
    BY <1>3, FoldKeepsLatest, LastResetIsLatest DEF SensorInv
  <2>4. recorded # None /\ ~exposed =>
          \/ reset_at # None /\ recorded <= reset_at
          \/ recorded <= LastReset(started, reset_at)
    BY <1>6 DEF SensorInv, ResetIsKept, AtLeastRecorded
  <2>5. SensorType'
    BY <1>1, <1>2, <1>4, <2>1 DEF SensorInv, SensorType, SoFar
  <2>6. ResetIsKept'
    BY <1>2, <1>3, <1>6, <2>1 DEF ResetIsKept, AtLeastRecorded
  <2>7. ResetStep
    BY <1>3, <2>1, <2>2, <2>3, <2>4 DEF ResetStep, SoFar
  <2>8. QED
    BY <2>5, <2>6, <2>7 DEF Kept, SensorInv
<1>7. QED
  BY <1>2, <1>5, <1>6

\* Saving, dumping and going leave what the recorder was given.
LEMMA FilesKeep ==
  ASSUME SensorAssumption, ~Hasty, SensorInv, Save \/ Dump \/ Unload \/ Crash
  PROVE  Kept
<1>1. /\ clock' = clock /\ started' = started /\ figure' = figure
      /\ reset_at' = reset_at /\ recorded' = recorded
  BY DEF Save, Dump, Unload, Crash
<1>2. /\ recorded \in SoFar /\ clock \in Nat /\ None \notin Nat
  BY DEF SensorInv, SensorType, SensorAssumption
<1>3. ResetStep
  BY <1>1, <1>2 DEF ResetStep, SoFar
<1>4. LastReset(started, reset_at)' = LastReset(started, reset_at)
  BY <1>1 DEF LastReset, Jan1
<1>5. CASE Save
  BY <1>1, <1>3, <1>4, <1>5
  DEF Save, Kept, SensorInv, SensorType, SoFar, ResetIsKept, AtLeastRecorded
<1>6. CASE Dump
  BY <1>1, <1>3, <1>4, <1>6
  DEF Dump, Running, Kept, SensorInv, SensorType, SoFar, ResetIsKept, AtLeastRecorded
<1>7. CASE Unload
  BY <1>1, <1>3, <1>7
  DEF Unload, Kept, SensorInv, SensorType, SoFar, ResetIsKept, AtLeastRecorded
<1>8. CASE Crash
  <2>1. /\ state' = "down" /\ dumped' = dumped /\ stored' = stored
        /\ exposed' = (dumped # recorded)
    BY <1>8 DEF Crash
  <2>2. exposed' \in BOOLEAN
    BY <2>1, Zenon
  <2>3. SensorType'
    BY <1>1, <2>1, <2>2 DEF SensorInv, SensorType, SoFar
  <2>4. recorded' # None /\ ~exposed' => dumped' # None /\ recorded' <= dumped'
    <3>1. ~exposed' => dumped = recorded
      BY <2>1, Zenon
    <3>2. recorded # None => recorded <= recorded
      BY <1>2 DEF SoFar
    <3>3. QED
      BY <1>1, <2>1, <3>1, <3>2, Zenon
  <2>5. ResetIsKept'
    BY <2>1, <2>4 DEF ResetIsKept, AtLeastRecorded
  <2>6. QED
    BY <1>3, <2>3, <2>5 DEF Kept, SensorInv
<1>9. QED
  BY <1>5, <1>6, <1>7, <1>8

\* A later moment gives no earlier reset.
LEMMA PassTimeKeeps == ASSUME SensorAssumption, SensorInv, PassTime PROVE Kept
<1>1. /\ clock' = clock + 1 /\ started' = started /\ figure' = figure
      /\ stored' = stored /\ reset_at' = reset_at /\ dumped' = dumped
      /\ state' = state /\ recorded' = recorded /\ exposed' = exposed
  BY DEF PassTime
<1>2. /\ clock \in Nat /\ None \notin Nat /\ recorded \in SoFar
      /\ started \in SoFar /\ reset_at \in SoFar
  BY DEF SensorInv, SensorType, SensorAssumption
<1>3. SensorType'
  BY <1>1 DEF SensorInv, SensorType, SoFar
<1>4. ResetStep
  BY <1>1, <1>2 DEF ResetStep, SoFar
<1> DEFINE old == LastReset(started, reset_at)
           new == Max({LatestYear(clock + 1), started, reset_at} \ {None})
<1>5. clock + 1 \in Nat
  BY <1>2
<1>6. /\ old \in 0 .. clock
      /\ new \in 0 .. clock + 1 /\ LatestYear(clock + 1) <= new
      /\ started # None => started <= new
      /\ reset_at # None => reset_at <= new
  <2>1. LatestYear(clock + 1) \in 0 .. clock + 1
    BY <1>5, LatestYearIsLatest
  <2>2. old \in 0 .. clock
    BY <1>2, LastResetIsLatest
  <2>3. started \in {None} \cup 0 .. clock + 1 /\ reset_at \in {None} \cup 0 .. clock + 1
    BY <1>2 DEF SoFar
  <2>4. /\ new \in 0 .. clock + 1 /\ LatestYear(clock + 1) <= new
        /\ started # None => started <= new
        /\ reset_at # None => reset_at <= new
    BY <1>5, <2>1, <2>3, LatestOfThree
  <2>5. QED
    BY <2>2, <2>4
<1>7. old <= new
  <2>1. /\ old \in 0 .. clock /\ old \in {Jan1, started, reset_at} /\ Jan1 \in 0 .. clock
    BY <1>2, LastResetIsLatest
  <2>2. Jan1 = LatestYear(clock)
    BY DEF Jan1, LatestYear
  <2>3. /\ LatestYear(clock) \in 0 .. clock
        /\ LatestYear(clock + 1) \in 0 .. clock + 1
        /\ LatestYear(clock) <= LatestYear(clock + 1)
    <3>1. /\ LatestYear(clock) \in 0 .. clock
          /\ LatestYear(clock) \in NewYears
      BY <1>2, LatestYearIsLatest
    <3>2. /\ LatestYear(clock + 1) \in 0 .. clock + 1
          /\ \A y \in NewYears : y <= clock + 1 => y <= LatestYear(clock + 1)
      BY <1>5, LatestYearIsLatest
    <3>3. QED
      BY <1>2, <3>1, <3>2
  <2> HIDE DEF old, new
  <2>4. QED
    BY <1>2, <1>6, <2>1, <2>2, <2>3 DEF SoFar
<1>8. LastReset(started, reset_at)' = new
  BY <1>1 DEF LastReset, Jan1, LatestYear
<1> HIDE DEF old, new
<1>9. ResetIsKept'
  <2>1. recorded # None /\ recorded <= old => recorded <= new
    BY <1>2, <1>6, <1>7 DEF SoFar
  <2>2. recorded # None /\ ~exposed =>
          /\ state = "down" => AtLeastRecorded(dumped)
          /\ state = "up" => AtLeastRecorded(reset_at)
          /\ state = "added" => \/ AtLeastRecorded(reset_at)
                                \/ figure /\ recorded <= new
    BY <2>1 DEF ResetIsKept, SensorInv, old
  <2>3. QED
    BY <1>1, <1>8, <2>2 DEF ResetIsKept, AtLeastRecorded
<1>10. QED
  BY <1>3, <1>4, <1>9 DEF Kept, SensorInv

LEMMA StutterKeeps == ASSUME SensorAssumption, SensorInv, UNCHANGED vars PROVE Kept
<1>1. SensorInv'
  BY DEF vars, SensorInv, SensorType, SoFar, ResetIsKept, AtLeastRecorded, LastReset, Jan1
<1>2. ResetStep
  BY DEF vars, ResetStep, SensorInv, SensorType, SensorAssumption, SoFar
<1>3. QED
  BY <1>1, <1>2 DEF Kept

\* The reset figures go out under never moves back, whatever moments years begin at,
\* but for a crash before Home Assistant dumped the last one, when the entry waits for
\* setup's background read before it refreshes or goes (sensor.py, last_reset).
THEOREM ResetIsMonotonic ==
  ASSUME SensorAssumption, ~Hasty
  PROVE  Spec => ResetNeverGoesBack
<1>1. Init => SensorInv
  BY SensorStarts
<1>2. SensorInv /\ [Next]_vars => Kept
  BY SetupKeeps, BackgroundReadKeeps, RefreshKeeps, LiveReadingKeeps, FilesKeep,
     PassTimeKeeps, StutterKeeps DEF Next
<1>3. SensorInv /\ [Next]_vars => SensorInv'
  BY <1>2 DEF Kept
<1>4. SensorInv /\ [Next]_vars =>
        [recorded # None /\ recorded' < recorded => exposed]_vars
  BY <1>2 DEF Kept, ResetStep
<1>5. QED
  BY <1>1, <1>3, <1>4, PTL DEF Spec, ResetNeverGoesBack

-----------------------------------------------------------------------------
(* The running year's bill (YearBill). First what the operators of its      *)
(* pricing come to: a region's bill does not fall as the water climbs.      *)

CONSTANTS Entries, Cards, Years, Days, Block, TopBlock, MostResidents, Draws, Overtaken,
          MaxM3, MaxChanges

VARIABLES
  entry, year, day, tariff, tick, cycle, card, dirty, store, bill, priced, changes

Year == INSTANCE YearBill

LEMMA AtMostIs ==
  ASSUME NEW a \in Int, NEW b \in Int
  PROVE  Year!AtMost(a, b) = IF a <= b THEN a ELSE b
<1> DEFINE m == IF a <= b THEN a ELSE b
<1>1. m \in {a, b} /\ \A x \in {a, b} : m <= x
  OBVIOUS
<1>2. \A m2 \in {a, b} : (\A x \in {a, b} : m2 <= x) => m2 = m
  OBVIOUS
<1> HIDE DEF m
<1>3. QED
  BY <1>1, <1>2 DEF Year!AtMost, Year!Min

LEMMA MaxOfTwo ==
  ASSUME NEW a \in Int, NEW b \in Int
  PROVE  Year!Max({a, b}) = IF a <= b THEN b ELSE a
<1> DEFINE m == IF a <= b THEN b ELSE a
<1>1. m \in {a, b} /\ \A x \in {a, b} : m >= x
  OBVIOUS
<1>2. \A m2 \in {a, b} : (\A x \in {a, b} : m2 >= x) => m2 = m
  OBVIOUS
<1> HIDE DEF m
<1>3. QED
  BY <1>1, <1>2 DEF Year!Max

LEMMA NotBelowZeroIs ==
  ASSUME NEW a \in Int
  PROVE  Year!NotBelowZero(a) = IF a <= 0 THEN 0 ELSE a
BY MaxOfTwo DEF Year!NotBelowZero

LEMMA Times ==
  ASSUME NEW a \in Nat, NEW b \in Nat, a <= b, NEW k \in Nat
  PROVE  a * k \in Nat /\ b * k \in Nat /\ a * k <= b * k
OBVIOUS

LEMMA Shares ==
  ASSUME NEW a \in Nat, NEW k \in Nat, k > 0
  PROVE  a \div k \in Nat
OBVIOUS

LEMMA Hundredths ==
  ASSUME NEW a \in Nat, NEW b \in Nat, a <= b
  PROVE  a \div 100 \in Nat /\ b \div 100 \in Nat /\ a \div 100 <= b \div 100
OBVIOUS

LEMMA Fifths ==
  ASSUME NEW a \in Nat, NEW b \in Nat, a <= b
  PROVE  a \div 5 \in Nat /\ b \div 5 \in Nat /\ a \div 5 <= b \div 5
OBVIOUS

LEMMA CardFigures ==
  ASSUME Year!BillAssumption, NEW c \in Cards
  PROVE  /\ c.year \in Nat /\ c.sanering \in Nat /\ c.fee \in Nat /\ c.korting \in Nat
         /\ c.fse \in Nat /\ c.first \in Nat /\ c.further \in Nat /\ c.vat \in Nat
         /\ c.rate \in Nat \cup {None} /\ c.comfort \in Nat \cup {None}
         /\ c.region \in {"flanders", "brussels", "wallonia"}
         /\ c.region # "flanders" => c.rate \in Nat
BY DEF Year!BillAssumption

LEMMA AccruedIs ==
  ASSUME Year!BillAssumption, NEW amount \in Nat, NEW d \in Nat
  PROVE  Year!Accrued(amount, d) \in Nat
<1>1. amount * d \in Nat
  OBVIOUS
<1>2. Days \in Nat /\ Days > 0
  BY DEF Year!BillAssumption
<1>3. QED
  BY <1>1, <1>2, Shares DEF Year!Accrued

LEMMA VatGrows ==
  ASSUME Year!BillAssumption, NEW c \in Cards, NEW a \in Nat, NEW b \in Nat, a <= b
  PROVE  /\ Year!WithVat(c, a) \in Nat /\ Year!WithVat(c, b) \in Nat
         /\ Year!WithVat(c, a) <= Year!WithVat(c, b)
<1> DEFINE k == 100 + c.vat
<1>1. k \in Nat
  BY CardFigures
<1> HIDE DEF k
<1>2. a * k \in Nat /\ b * k \in Nat /\ a * k <= b * k
  BY <1>1, Times
<1>3. QED
  BY <1>2, Hundredths DEF Year!WithVat, k

\* A bill of more water is none exactly when that of less is, and no lower.
Climbs(less, more) ==
  /\ less \in Nat \cup {None} /\ more \in Nat \cup {None}
  /\ less = None <=> more = None
  /\ less # None => less <= more

LEMMA BrusselsClimbs ==
  ASSUME Year!BillAssumption, NEW c \in Cards, c.region = "brussels", NEW e, e.persons \in Nat,
         e.social \in BOOLEAN, NEW m \in Nat, NEW n \in Nat, m <= n, NEW d \in Nat
  PROVE  Climbs(Year!BrusselsBill(c, m, e, d), Year!BrusselsBill(c, n, e, d))
<1> DEFINE k == c.rate + c.sanering
           fee == Year!Accrued(c.fee, d)
           low == Year!WithVat(c, m * k + fee)
           high == Year!WithVat(c, n * k + fee)
           help == Year!Accrued(c.first + (e.persons - 1) * c.further, d)
<1>1. c.rate \in Nat /\ c.sanering \in Nat /\ c.first \in Nat /\ c.further \in Nat /\ None \notin Nat
  BY CardFigures DEF Year!BillAssumption
<1>2. fee \in Nat
  BY CardFigures, AccruedIs
<1>3. k \in Nat
  BY <1>1
<1>4. Year!BrusselsBill(c, m, e, d) = (IF ~e.social \/ e.persons = 0 THEN low
         ELSE IF c.first <= 0 THEN None ELSE Year!NotBelowZero(low - help))
  BY DEF Year!BrusselsBill
<1>5. Year!BrusselsBill(c, n, e, d) = (IF ~e.social \/ e.persons = 0 THEN high
         ELSE IF c.first <= 0 THEN None ELSE Year!NotBelowZero(high - help))
  BY DEF Year!BrusselsBill
<1>6. low \in Nat /\ high \in Nat /\ low <= high
  <2> HIDE DEF k, fee
  <2>1. m * k \in Nat /\ n * k \in Nat /\ m * k <= n * k
    BY <1>3, Times
  <2>2. m * k + fee \in Nat /\ n * k + fee \in Nat /\ m * k + fee <= n * k + fee
    BY <1>2, <2>1
  <2>3. QED
    BY <2>2, VatGrows
<1> HIDE DEF low, high
<1>7. CASE ~e.social \/ e.persons = 0
  BY <1>1, <1>4, <1>5, <1>6, <1>7 DEF Climbs
<1>8. CASE e.social /\ e.persons # 0 /\ c.first <= 0
  BY <1>1, <1>4, <1>5, <1>8 DEF Climbs
<1>9. CASE e.social /\ e.persons # 0 /\ c.first > 0
  <2>1. help \in Nat
    <3>1. e.persons - 1 \in Nat
      BY <1>9
    <3>2. (e.persons - 1) * c.further \in Nat
      BY <1>1, <3>1
    <3>3. c.first + (e.persons - 1) * c.further \in Nat
      BY <1>1, <3>2
    <3>4. QED
      BY <3>3, AccruedIs
  <2> HIDE DEF help
  <2>2. /\ Year!NotBelowZero(low - help) \in Nat /\ Year!NotBelowZero(high - help) \in Nat
        /\ Year!NotBelowZero(low - help) <= Year!NotBelowZero(high - help)
    BY <1>6, <2>1, NotBelowZeroIs
  <2>3. QED
    BY <1>1, <1>4, <1>5, <1>9, <2>2 DEF Climbs
<1>10. QED
  BY <1>1, <1>7, <1>8, <1>9

LEMMA WalloonClimbs ==
  ASSUME Year!BillAssumption, NEW c \in Cards, c.region = "wallonia",
         NEW m \in Nat, NEW n \in Nat, m <= n, NEW d \in Nat
  PROVE  Climbs(Year!WalloonBill(c, m, d), Year!WalloonBill(c, n, d))
<1> DEFINE k1 == c.rate \div 2 + c.fse
           k2 == c.rate + c.sanering + c.fse
           k3 == (9 * c.rate) \div 10 + c.sanering + c.fse
           fee == Year!Accrued(c.fee, d)
           a1 == Year!AtMost(m, Block)
           b1 == Year!AtMost(n, Block)
           a2 == Year!NotBelowZero(Year!AtMost(m, TopBlock) - Block)
           b2 == Year!NotBelowZero(Year!AtMost(n, TopBlock) - Block)
           a3 == Year!NotBelowZero(m - TopBlock)
           b3 == Year!NotBelowZero(n - TopBlock)
           low == a1 * k1 + a2 * k2 + a3 * k3 + fee
           high == b1 * k1 + b2 * k2 + b3 * k3 + fee
<1>1. c.rate \in Nat /\ c.sanering \in Nat /\ c.fse \in Nat /\ None \notin Nat
  BY CardFigures DEF Year!BillAssumption
<1>2. fee \in Nat
  BY CardFigures, AccruedIs
<1>3. k1 \in Nat /\ k2 \in Nat /\ k3 \in Nat
  <2>1. c.rate \div 2 \in Nat
    BY <1>1
  <2>2. (9 * c.rate) \div 10 \in Nat
    BY <1>1
  <2>3. QED
    BY <1>1, <2>1, <2>2
<1>4. Block \in Nat /\ TopBlock \in Nat
  BY DEF Year!BillAssumption
<1>5. a1 \in Nat /\ b1 \in Nat /\ a1 <= b1
  BY <1>4, AtMostIs
<1>6. a2 \in Nat /\ b2 \in Nat /\ a2 <= b2
  <2> DEFINE p == Year!AtMost(m, TopBlock)
             q == Year!AtMost(n, TopBlock)
  <2>1. p \in Nat /\ q \in Nat /\ p <= q
    BY <1>4, AtMostIs
  <2> HIDE DEF p, q
  <2>2. p - Block \in Int /\ q - Block \in Int /\ p - Block <= q - Block
    BY <1>4, <2>1
  <2>3. QED
    BY <2>2, NotBelowZeroIs DEF p, q
<1>7. a3 \in Nat /\ b3 \in Nat /\ a3 <= b3
  <2>1. m - TopBlock \in Int /\ n - TopBlock \in Int /\ m - TopBlock <= n - TopBlock
    BY <1>4
  <2>2. QED
    BY <2>1, NotBelowZeroIs
<1>8. Year!WalloonBill(c, m, d) = (IF c.rate <= 0 THEN None ELSE Year!WithVat(c, low))
  BY DEF Year!WalloonBill
<1>9. Year!WalloonBill(c, n, d) = (IF c.rate <= 0 THEN None ELSE Year!WithVat(c, high))
  BY DEF Year!WalloonBill
<1>10. low \in Nat /\ high \in Nat /\ low <= high
  <2> HIDE DEF k1, k2, k3, a1, a2, a3, b1, b2, b3, fee
  <2>1. a1 * k1 \in Nat /\ b1 * k1 \in Nat /\ a1 * k1 <= b1 * k1
    BY <1>3, <1>5, Times
  <2>2. a2 * k2 \in Nat /\ b2 * k2 \in Nat /\ a2 * k2 <= b2 * k2
    BY <1>3, <1>6, Times
  <2>3. a3 * k3 \in Nat /\ b3 * k3 \in Nat /\ a3 * k3 <= b3 * k3
    BY <1>3, <1>7, Times
  <2> DEFINE p1 == a1 * k1
             q1 == b1 * k1
             p2 == a2 * k2
             q2 == b2 * k2
             p3 == a3 * k3
             q3 == b3 * k3
  <2>4. low = p1 + p2 + p3 + fee /\ high = q1 + q2 + q3 + fee
    OBVIOUS
  <2>5. p1 \in Nat /\ q1 \in Nat /\ p1 <= q1 /\ p2 \in Nat /\ q2 \in Nat /\ p2 <= q2
        /\ p3 \in Nat /\ q3 \in Nat /\ p3 <= q3
    BY <2>1, <2>2, <2>3
  <2> HIDE DEF p1, p2, p3, q1, q2, q3, low, high
  <2>6. QED
    BY <1>2, <2>4, <2>5
<1> HIDE DEF low, high
<1>11. /\ Year!WithVat(c, low) \in Nat /\ Year!WithVat(c, high) \in Nat
       /\ Year!WithVat(c, low) <= Year!WithVat(c, high)
  BY <1>10, VatGrows
<1>12. QED
  BY <1>1, <1>8, <1>9, <1>11 DEF Climbs

LEMMA FlemishClimbs ==
  ASSUME Year!BillAssumption, NEW c \in Cards, c.rate \in Nat, NEW e, e.persons \in Nat,
         e.social \in BOOLEAN, NEW m \in Nat, NEW n \in Nat, m <= n, NEW d \in Nat
  PROVE  Climbs(Year!FlemishBill(c, m, e, d), Year!FlemishBill(c, n, e, d))
<1> DEFINE volume == Block + Block * e.persons
           k1 == c.rate + c.sanering
           comfort == IF c.comfort # None THEN c.comfort ELSE 2 * c.rate
           k2 == comfort + 2 * c.sanering
           vastrecht == Year!NotBelowZero(c.fee - Year!AtMost(e.persons, MostResidents) * c.korting)
           fee == Year!Accrued(vastrecht, d)
           a1 == Year!AtMost(m, volume)
           b1 == Year!AtMost(n, volume)
           a2 == Year!NotBelowZero(m - volume)
           b2 == Year!NotBelowZero(n - volume)
           less == a1 * k1 + a2 * k2 + fee
           more == b1 * k1 + b2 * k2 + fee
           low == Year!WithVat(c, less)
           high == Year!WithVat(c, more)
<1>1. /\ c.sanering \in Nat /\ c.fee \in Nat /\ c.korting \in Nat /\ c.comfort \in Nat \cup {None}
      /\ None \notin Nat /\ Block \in Nat /\ MostResidents \in Nat
  BY CardFigures DEF Year!BillAssumption
<1>2. volume \in Nat
  <2>1. Block * e.persons \in Nat
    BY <1>1
  <2>2. QED
    BY <1>1, <2>1
<1>3. k1 \in Nat /\ k2 \in Nat
  <2>1. comfort \in Nat
    BY <1>1
  <2> HIDE DEF comfort
  <2>2. QED
    BY <1>1, <2>1
<1>4. fee \in Nat
  <2> DEFINE r == Year!AtMost(e.persons, MostResidents)
  <2>1. r \in Nat
    BY <1>1, AtMostIs
  <2> HIDE DEF r
  <2>2. r * c.korting \in Nat
    BY <1>1, <2>1
  <2>3. c.fee - r * c.korting \in Int
    BY <1>1, <2>2
  <2>4. vastrecht \in Nat
    BY <2>3, NotBelowZeroIs DEF r
  <2> HIDE DEF vastrecht
  <2>5. QED
    BY <2>4, AccruedIs
<1>5. a1 \in Nat /\ b1 \in Nat /\ a1 <= b1
  <2> HIDE DEF volume
  <2>1. QED
    BY <1>2, AtMostIs
<1>6. a2 \in Nat /\ b2 \in Nat /\ a2 <= b2
  <2> HIDE DEF volume
  <2>1. m - volume \in Int /\ n - volume \in Int /\ m - volume <= n - volume
    BY <1>2
  <2>2. QED
    BY <2>1, NotBelowZeroIs
<1>7. Year!FlemishBill(c, m, e, d) = IF e.social THEN low \div 5 ELSE low
  BY DEF Year!FlemishBill
<1>8. Year!FlemishBill(c, n, e, d) = IF e.social THEN high \div 5 ELSE high
  BY DEF Year!FlemishBill
<1>9. less \in Nat /\ more \in Nat /\ less <= more
  <2> HIDE DEF k1, k2, a1, a2, b1, b2, fee
  <2>1. a1 * k1 \in Nat /\ b1 * k1 \in Nat /\ a1 * k1 <= b1 * k1
    BY <1>3, <1>5, Times
  <2>2. a2 * k2 \in Nat /\ b2 * k2 \in Nat /\ a2 * k2 <= b2 * k2
    BY <1>3, <1>6, Times
  <2> DEFINE p1 == a1 * k1
             q1 == b1 * k1
             p2 == a2 * k2
             q2 == b2 * k2
  <2>3. less = p1 + p2 + fee /\ more = q1 + q2 + fee
    OBVIOUS
  <2>4. p1 \in Nat /\ q1 \in Nat /\ p1 <= q1 /\ p2 \in Nat /\ q2 \in Nat /\ p2 <= q2
    BY <2>1, <2>2
  <2> HIDE DEF p1, p2, q1, q2, less, more
  <2>5. QED
    BY <1>4, <2>3, <2>4
<1> HIDE DEF less, more
<1>10. low \in Nat /\ high \in Nat /\ low <= high
  BY <1>9, VatGrows
<1> HIDE DEF low, high
<1>11. low \div 5 \in Nat /\ high \div 5 \in Nat /\ low \div 5 <= high \div 5
  BY <1>10, Fifths
<1>12. CASE e.social
  BY <1>1, <1>7, <1>8, <1>11, <1>12 DEF Climbs
<1>13. CASE ~e.social
  BY <1>1, <1>7, <1>8, <1>10, <1>13 DEF Climbs
<1>14. QED
  BY <1>12, <1>13

\* The bill, whatever the region.
LEMMA BillClimbs ==
  ASSUME Year!BillAssumption, NEW c \in Cards, NEW e, e.persons \in Nat, e.social \in BOOLEAN,
         NEW m \in Nat, NEW n \in Nat, m <= n, NEW d \in Nat
  PROVE  Climbs(Year!Bill(c, m, e, d), Year!Bill(c, n, e, d))
<1>1. CASE c.region = "brussels"
  <2>1. /\ Year!Bill(c, m, e, d) = Year!BrusselsBill(c, m, e, d)
        /\ Year!Bill(c, n, e, d) = Year!BrusselsBill(c, n, e, d)
    BY <1>1 DEF Year!Bill
  <2>2. QED
    BY <1>1, <2>1, BrusselsClimbs
<1>2. CASE c.region = "wallonia"
  <2>1. /\ Year!Bill(c, m, e, d) = Year!WalloonBill(c, m, d)
        /\ Year!Bill(c, n, e, d) = Year!WalloonBill(c, n, d)
    BY <1>2 DEF Year!Bill
  <2>2. QED
    BY <1>2, <2>1, WalloonClimbs
<1>3. CASE c.region = "flanders"
  <2>1. /\ Year!Bill(c, m, e, d) = IF c.rate = None THEN None ELSE Year!FlemishBill(c, m, e, d)
        /\ Year!Bill(c, n, e, d) = IF c.rate = None THEN None ELSE Year!FlemishBill(c, n, e, d)
    BY <1>3 DEF Year!Bill
  <2>2. CASE c.rate = None
    BY <2>1, <2>2 DEF Climbs
  <2>3. CASE c.rate # None
    <3>1. c.rate \in Nat
      BY <2>3, CardFigures
    <3>2. QED
      BY <2>1, <2>3, <3>1, FlemishClimbs
  <2>4. QED
    BY <2>2, <2>3
<1>4. QED
  BY <1>1, <1>2, <1>3, CardFigures

-----------------------------------------------------------------------------
(* The invariant: what is priced is the place's, and every cost kept is a   *)
(* bill of its own household.                                               *)

\* A cost is at most what a card of the year y bills the household h for m3 on one of the
\* first n days.
Billed(cost, m3, h, y, n) ==
  \E c \in Cards, d \in 1 .. n :
    /\ c.utility = h.utility /\ c.commune = h.commune /\ c.year = y
    /\ Year!Bill(c, m3, h, d) # None /\ cost <= Year!Bill(c, m3, h, d)

\* A cost is at least what the card c bills it on one of them.
Owed(cost, c, m3, h, n) ==
  \E d \in 1 .. n : Year!Bill(c, m3, h, d) # None /\ Year!Bill(c, m3, h, d) <= cost

\* The cycle y, in memory or in the file.
CycleStands(y) ==
  /\ y.m3 \in Nat
  /\ y.year # None =>
       /\ y.year \in Nat /\ y.year <= year
       /\ y.cost # None =>
            /\ y.cost \in Nat
            /\ Billed(y.cost, y.m3, y.basis, y.basis.card, Year!Elapsed(y.year))

\* The card k held with a commune is that commune's.
HeldStands(k) == k # None => k.card \in Cards /\ k.card.commune = k.commune

IsOfThePlace(c) == c \in Cards /\ Year!Place(c) = Year!Place(entry)

BillType ==
  /\ entry \in Entries /\ year \in Nat /\ day \in 1 .. Days
  /\ tariff # None => IsOfThePlace(tariff)
  /\ tick # None => IsOfThePlace(tick.card) /\ tick.year \in Nat /\ tick.year <= year

\* What is published is of the cycle in memory.
BillStands ==
  bill # None =>
    /\ IsOfThePlace(bill.card)
    /\ bill.year = cycle.year /\ bill.year \in Nat /\ bill.year <= year
    /\ bill.cost # None =>
         /\ bill.cost \in Nat
         /\ Billed(bill.cost, cycle.m3, entry, bill.card.year, Year!Elapsed(bill.year))
         /\ Owed(bill.cost, bill.card, cycle.m3, entry, Year!Elapsed(bill.year))

BillInv ==
  /\ BillType
  /\ CycleStands(cycle) /\ CycleStands(store.cycle)
  /\ HeldStands(card) /\ HeldStands(store.card)
  /\ BillStands

\* One household of the same answers is billed the same.
LEMMA SameHousehold ==
  ASSUME NEW h, NEW g, h.persons = g.persons, h.social = g.social, h.utility = g.utility,
         h.commune = g.commune, NEW cost, NEW m3, NEW y, NEW n, Billed(cost, m3, h, y, n)
  PROVE  Billed(cost, m3, g, y, n)
<1>1. \A c, d : Year!Bill(c, m3, h, d) = Year!Bill(c, m3, g, d)
  BY DEF Year!Bill, Year!BrusselsBill, Year!FlemishBill
<1>2. QED
  BY <1>1 DEF Billed

LEMMA MoreDays ==
  ASSUME NEW cost, NEW m3, NEW h, NEW y, NEW n \in Nat, NEW k \in Nat, n <= k
  PROVE  /\ Billed(cost, m3, h, y, n) => Billed(cost, m3, h, y, k)
         /\ \A c : Owed(cost, c, m3, h, n) => Owed(cost, c, m3, h, k)
<1>1. \A d \in 1 .. n : d \in 1 .. k
  OBVIOUS
<1>2. Billed(cost, m3, h, y, n) => Billed(cost, m3, h, y, k)
  BY <1>1 DEF Billed
<1>3. \A c : Owed(cost, c, m3, h, n) => Owed(cost, c, m3, h, k)
  BY <1>1 DEF Owed
<1>4. QED
  BY <1>2, <1>3

LEMMA MoreWater ==
  ASSUME Year!BillAssumption, NEW cost \in Nat, NEW m \in Nat, NEW n \in Nat, m <= n,
         NEW h, h.persons \in Nat, h.social \in BOOLEAN, NEW y, NEW days \in Nat,
         Billed(cost, m, h, y, days)
  PROVE  Billed(cost, n, h, y, days)
<1>1. PICK c \in Cards, d \in 1 .. days :
         /\ c.utility = h.utility /\ c.commune = h.commune /\ c.year = y
         /\ Year!Bill(c, m, h, d) # None /\ cost <= Year!Bill(c, m, h, d)
  BY DEF Billed
<1>2. Climbs(Year!Bill(c, m, h, d), Year!Bill(c, n, h, d))
  BY BillClimbs
<1>3. Year!Bill(c, n, h, d) # None /\ cost <= Year!Bill(c, n, h, d)
  BY <1>1, <1>2 DEF Climbs
<1>4. QED
  BY <1>1, <1>3 DEF Billed

LEMMA ElapsedIs ==
  ASSUME Year!BillAssumption, day \in 1 .. Days, NEW y
  PROVE  Year!Elapsed(y) \in Nat /\ Year!Elapsed(y) \in 1 .. Year!Elapsed(y)
BY DEF Year!BillAssumption, Year!Elapsed

LEMMA CardInForceIs ==
  ASSUME HeldStands(card), NEW t, IsOfThePlace(t), NEW y
  PROVE  IsOfThePlace(Year!CardInForce(t, y))
BY DEF HeldStands, IsOfThePlace, Year!Place, Year!CardInForce

\* A fold of m3 in the year y leaves the cycle, the card held and the bill in order.
LEMMA FoldKeeps ==
  ASSUME Year!BillAssumption, BillInv, NEW t, IsOfThePlace(t), NEW y \in Nat, y <= year,
         NEW m3 \in Nat, Year!FoldCycle(t, y, m3), UNCHANGED <<entry, year, day>>
  PROVE  CycleStands(cycle)' /\ HeldStands(card)' /\ BillStands'
<1> DEFINE c == Year!CardInForce(t, y)
           n == Year!Elapsed(y)
           floor == IF cycle.year = y /\ cycle.basis = Year!CostBasis(c) /\ m3 >= cycle.m3
                    THEN cycle.cost ELSE None
           owed == Year!Bill(c, m3, entry, n)
           cost == IF owed = None \/ floor = None THEN owed ELSE Year!Max({owed, floor})
           kept == IF owed = None THEN floor ELSE cost
           folded == [year |-> y, m3 |-> m3, cost |-> kept, basis |-> Year!CostBasis(c)]
           held == [card |-> c, commune |-> entry.commune]
<1>1. /\ cycle' = folded
      /\ card' = IF c.year <= y THEN held ELSE card
      /\ bill' = [year |-> y, card |-> c, cost |-> cost]
  BY DEF Year!FoldCycle
<1>2. IsOfThePlace(c)
  BY CardInForceIs DEF BillInv
<1>3. entry \in Entries /\ entry.persons \in Nat /\ entry.social \in BOOLEAN /\ None \notin Nat
  BY DEF BillInv, BillType, Year!BillAssumption
<1>4. n \in Nat /\ n \in 1 .. n
  BY ElapsedIs DEF BillInv, BillType
<1>5. c \in Cards /\ c.utility = entry.utility /\ c.commune = entry.commune
  BY <1>2 DEF IsOfThePlace, Year!Place
<1>6. owed \in Nat \cup {None}
  <2>1. n \in Nat /\ m3 <= m3
    BY <1>4
  <2> HIDE DEF c, n
  <2>2. Climbs(owed, owed)
    BY <1>3, <1>5, <2>1, BillClimbs
  <2>3. QED
    BY <2>2 DEF Climbs
<1>7. owed # None => Billed(owed, m3, entry, c.year, n) /\ Owed(owed, c, m3, entry, n)
  <2> HIDE DEF c, n
  <2>1. QED
    BY <1>4, <1>5, <1>6 DEF Billed, Owed
<1>8. floor # None => floor \in Nat /\ Billed(floor, m3, entry, c.year, n)
  <2> SUFFICES ASSUME floor # None
               PROVE  floor \in Nat /\ Billed(floor, m3, entry, c.year, n)
    OBVIOUS
  <2> DEFINE b == Year!CostBasis(c)
  <2>1. floor = cycle.cost /\ cycle.year = y /\ cycle.basis = b /\ cycle.m3 <= m3
        /\ cycle.m3 \in Nat
    BY DEF BillInv, CycleStands
  <2>2. floor \in Nat /\ Billed(floor, cycle.m3, b, b.card, n)
    <3> HIDE DEF c, b, floor
    <3>1. QED
      BY <1>3, <2>1 DEF BillInv, CycleStands
  <2>3. b.persons = entry.persons /\ b.social = entry.social /\ b.utility = entry.utility
        /\ b.commune = entry.commune /\ b.card = c.year
    BY <1>5 DEF Year!CostBasis
  <2> HIDE DEF c, b, floor, n
  <2>4. Billed(floor, cycle.m3, entry, c.year, n)
    BY <2>2, <2>3, SameHousehold
  <2>5. QED
    BY <1>3, <1>4, <2>1, <2>2, <2>4, MoreWater
<1>9. /\ cost # None =>
           cost \in Nat /\ Billed(cost, m3, entry, c.year, n) /\ Owed(cost, c, m3, entry, n)
      /\ kept # None => kept \in Nat /\ Billed(kept, m3, entry, c.year, n)
  <2> HIDE DEF c, n, owed, floor
  <2>1. CASE owed = None \/ floor = None
    BY <1>6, <1>7, <1>8, <2>1
  <2>2. CASE owed # None /\ floor # None
    <3>1. cost = IF owed <= floor THEN floor ELSE owed
      BY <1>3, <1>6, <1>8, <2>2, MaxOfTwo
    <3>2. Owed(owed, c, m3, entry, n) /\ cost \in Nat /\ owed \in Nat /\ owed <= cost
      BY <1>3, <1>6, <1>7, <1>8, <2>2, <3>1
    <3>3. Owed(cost, c, m3, entry, n)
      <4>1. PICK d \in 1 .. n :
              Year!Bill(c, m3, entry, d) # None /\ Year!Bill(c, m3, entry, d) <= owed
        BY <3>2 DEF Owed
      <4>2. Climbs(Year!Bill(c, m3, entry, d), Year!Bill(c, m3, entry, d))
        BY <1>3, <1>4, <1>5, BillClimbs
      <4>3. Year!Bill(c, m3, entry, d) <= cost
        BY <1>3, <3>2, <4>1, <4>2 DEF Climbs
      <4>4. QED
        BY <4>1, <4>3 DEF Owed
    <3>4. QED
      BY <1>6, <1>7, <1>8, <2>2, <3>1, <3>3
  <2>3. QED
    BY <2>1, <2>2
<1>10. Billed(kept, m3, entry, c.year, n) =>
         Billed(kept, m3, Year!CostBasis(c), Year!CostBasis(c).card, n)
  <2> DEFINE b == Year!CostBasis(c)
  <2>1. b.persons = entry.persons /\ b.social = entry.social /\ b.utility = entry.utility
        /\ b.commune = entry.commune /\ b.card = c.year
    BY <1>5 DEF Year!CostBasis
  <2> HIDE DEF b, kept, n
  <2>2. QED
    BY <2>1, SameHousehold DEF b
<1>11. Year!Elapsed(y)' = n /\ year' = year /\ entry' = entry
  BY DEF Year!Elapsed
<1> HIDE DEF n, kept, cost, owed, floor
<1>12. CycleStands(cycle)'
  <2> DEFINE b == Year!CostBasis(c)
  <2>1. cycle'.m3 = m3 /\ cycle'.year = y /\ cycle'.cost = kept /\ cycle'.basis = b
    BY <1>1
  <2> HIDE DEF folded, b
  <2>2. kept # None => kept \in Nat /\ Billed(kept, m3, b, b.card, n)
    BY <1>9, <1>10 DEF b
  <2>3. Year!Elapsed(cycle.year)' = n
    BY <1>11, <2>1 DEF Year!Elapsed
  <2>4. QED
    BY <1>11, <2>1, <2>2, <2>3 DEF CycleStands
<1>13. HeldStands(card)'
  <2> HIDE DEF c
  <2>1. held.card = c /\ held.commune = entry.commune
    OBVIOUS
  <2> HIDE DEF held
  <2>2. QED
    BY <1>1, <1>5, <2>1 DEF HeldStands, BillInv
<1>14. BillStands'
  <2> HIDE DEF c
  <2>1. bill'.year = y /\ bill'.card = c /\ bill'.cost = cost /\ cycle'.year = y /\ cycle'.m3 = m3
    BY <1>1
  <2>2. IsOfThePlace(bill.card)'
    BY <1>2, <1>11, <2>1 DEF IsOfThePlace, Year!Place
  <2>3. Year!Elapsed(bill.year)' = n
    BY <1>11, <2>1 DEF Year!Elapsed
  <2>4. QED
    BY <1>9, <1>11, <2>1, <2>2, <2>3 DEF BillStands
<1>15. QED
  BY <1>12, <1>13, <1>14

\* The years begin at one of them.
LEMMA FirstYear ==
  ASSUME Year!BillAssumption
  PROVE  Year!Min(Years) \in Nat
<1> DEFINE Less == {ss \in Nat \X Nat : ss[1] < ss[2]}
<1>1. Years \subseteq Nat /\ Years # {}
  BY DEF Year!BillAssumption
<1>2. IsWellFoundedOn(Less, Nat)
  BY NatLessThanWellFounded DEF OpToRel
<1> HIDE DEF Less
<1>3. PICK m \in Years : \A t \in Years : ~(<<t, m>> \in Less)
  BY <1>1, <1>2, WFMin
<1>4. \A t \in Years : m <= t
  <2> TAKE t \in Years
  <2>1. t \in Nat /\ m \in Nat /\ <<t, m>> \notin Less
    BY <1>1, <1>3
  <2>2. <<t, m>> \in Nat \X Nat /\ <<t, m>>[1] = t /\ <<t, m>>[2] = m
    BY <2>1
  <2>3. ~(t < m)
    BY <2>1, <2>2 DEF Less
  <2>4. QED
    BY <2>1, <2>3
<1>5. Year!Min(Years) \in Years
  BY <1>4 DEF Year!Min
<1>6. QED
  BY <1>1, <1>5

LEMMA VolumesAreNat ==
  ASSUME Year!BillAssumption, cycle.m3 \in Nat, NEW y, NEW m3 \in Year!Volumes(y)
  PROVE  m3 \in Nat
<1>1. \A w \in Draws : cycle.m3 + w \in Nat
  BY DEF Year!BillAssumption
<1>2. cycle.m3 \div 2 \in Nat
  OBVIOUS
<1>3. QED
  BY <1>1, <1>2 DEF Year!Volumes

LEMMA BillInit ==
  ASSUME Year!BillAssumption, Year!Init
  PROVE  BillInv
<1>1. year \in Nat /\ day \in 1 .. Days /\ entry \in Entries
  BY FirstYear DEF Year!Init, Year!BillAssumption
<1>2. QED
  BY <1>1 DEF Year!Init, Year!NoCycle, BillInv, BillType, BillStands, CycleStands, HeldStands

LEMMA BillStep ==
  ASSUME Year!BillAssumption, BillInv, [Year!Next]_(Year!vars)
  PROVE  BillInv'
<1>1. CASE Year!BeginRefresh
  <2>1. BillType'
    <3>1. PICK t \in {c \in Cards : Year!OnThePage(c)} \cup ({tariff} \ {None}) :
            tick' = [card |-> t, year |-> year]
      BY <1>1 DEF Year!BeginRefresh
    <3>2. IsOfThePlace(t)
      BY <3>1 DEF Year!OnThePage, IsOfThePlace, BillInv, BillType
    <3>3. tick'.card = t /\ tick'.year = year
      BY <3>1
    <3>4. QED
      BY <1>1, <3>2, <3>3 DEF Year!BeginRefresh, BillInv, BillType, IsOfThePlace, Year!Place
  <2>2. (CycleStands(cycle) /\ CycleStands(store.cycle))'
    BY <1>1 DEF Year!BeginRefresh, BillInv, CycleStands, Year!Elapsed
  <2>3. (HeldStands(card) /\ HeldStands(store.card))'
    BY <1>1 DEF Year!BeginRefresh, BillInv, HeldStands
  <2>4. BillStands'
    BY <1>1 DEF Year!BeginRefresh, BillInv, BillStands, IsOfThePlace, Year!Place, Year!Elapsed
  <2>5. QED
    BY <2>1, <2>2, <2>3, <2>4 DEF BillInv
<1>2. CASE Year!Refresh
  <2>1. IsOfThePlace(tick.card) /\ tick.year \in Nat /\ tick.year <= year
    BY <1>2 DEF Year!Refresh, BillInv, BillType
  <2>2. PICK m3 \in Year!Volumes(tick.year) : Year!FoldCycle(tick.card, tick.year, m3)
    BY <1>2 DEF Year!Refresh
  <2>3. m3 \in Nat
    BY VolumesAreNat DEF BillInv, CycleStands
  <2>4. UNCHANGED <<entry, year, day>>
    BY <1>2 DEF Year!Refresh
  <2>5. CycleStands(cycle)' /\ HeldStands(card)' /\ BillStands'
    BY <2>1, <2>2, <2>3, <2>4, FoldKeeps
  <2>6. store'.cycle = cycle' /\ store'.card = card'
    BY <1>2 DEF Year!Refresh
  <2>7. CycleStands(store.cycle)' /\ HeldStands(store.card)'
    BY <2>5, <2>6 DEF CycleStands, HeldStands, Year!Elapsed
  <2>8. BillType'
    BY <1>2, <2>1 DEF Year!Refresh, BillInv, BillType, IsOfThePlace, Year!Place
  <2>9. QED
    BY <2>5, <2>7, <2>8 DEF BillInv
<1>3. CASE Year!LiveReading
  <2>1. IsOfThePlace(tariff) /\ year \in Nat /\ year <= year
    BY <1>3 DEF Year!LiveReading, BillInv, BillType
  <2>2. PICK m3 \in Year!Volumes(year) : Year!FoldCycle(tariff, year, m3)
    BY <1>3 DEF Year!LiveReading
  <2>3. m3 \in Nat
    BY VolumesAreNat DEF BillInv, CycleStands
  <2>4. UNCHANGED <<entry, year, day, store, tariff, tick>>
    BY <1>3 DEF Year!LiveReading
  <2>5. CycleStands(cycle)' /\ HeldStands(card)' /\ BillStands'
    BY <2>1, <2>2, <2>3, <2>4, FoldKeeps
  <2>6. CycleStands(store.cycle)' /\ HeldStands(store.card)'
    BY <2>4 DEF BillInv, CycleStands, HeldStands, Year!Elapsed
  <2>7. BillType'
    BY <2>4 DEF BillInv, BillType, IsOfThePlace, Year!Place
  <2>8. QED
    BY <2>5, <2>6, <2>7 DEF BillInv
<1>4. CASE Year!Save
  <2>1. store'.cycle = cycle' /\ store'.card = card' /\
        UNCHANGED <<entry, year, day, tariff, tick, cycle, card, bill>>
    BY <1>4 DEF Year!Save
  <2>2. (CycleStands(cycle) /\ CycleStands(store.cycle))'
    BY <2>1 DEF BillInv, CycleStands, Year!Elapsed
  <2>3. (HeldStands(card) /\ HeldStands(store.card))'
    BY <2>1 DEF BillInv, HeldStands
  <2>4. BillType' /\ BillStands'
    BY <2>1 DEF BillInv, BillType, BillStands, IsOfThePlace, Year!Place, Year!Elapsed
  <2>5. QED
    BY <2>2, <2>3, <2>4 DEF BillInv
<1>5. CASE Year!Reload \/ Year!Crash
  <2>1. /\ entry' \in Entries /\ tariff' = None /\ tick' = None /\ bill' = None
        /\ UNCHANGED <<year, day>>
    BY <1>5 DEF Year!Reload, Year!Crash, BillInv, BillType
  <2>2. /\ \/ cycle' = cycle /\ card' = card
           \/ cycle' = store.cycle /\ card' = store.card
        /\ \/ store' = store
           \/ store'.cycle = cycle /\ store'.card = card
    BY <1>5 DEF Year!Reload, Year!Crash
  <2>3. (CycleStands(cycle) /\ CycleStands(store.cycle))'
    BY <2>1, <2>2 DEF BillInv, CycleStands, Year!Elapsed
  <2>4. (HeldStands(card) /\ HeldStands(store.card))'
    BY <2>2 DEF BillInv, HeldStands
  <2>5. BillType' /\ BillStands'
    BY <2>1 DEF BillInv, BillType, BillStands
  <2>6. QED
    BY <2>3, <2>4, <2>5 DEF BillInv
<1>6. CASE Year!PassTime
  <2>1. UNCHANGED <<entry, tariff, tick, cycle, card, store, bill>>
    BY <1>6 DEF Year!PassTime
  <2>2. year' \in Nat /\ year <= year' /\ day' \in 1 .. Days
    BY <1>6 DEF Year!PassTime, BillInv, BillType, Year!BillAssumption
  <2>3. ASSUME NEW y \in Nat, y <= year
        PROVE  /\ Year!Elapsed(y) \in Nat /\ Year!Elapsed(y)' \in Nat
               /\ Year!Elapsed(y) <= Year!Elapsed(y)'
    BY <1>6, <2>3 DEF Year!PassTime, Year!Elapsed, BillInv, BillType, Year!BillAssumption
  <2>4. ASSUME NEW cost, NEW m3, NEW h, NEW k, NEW y \in Nat, y <= year
        PROVE  /\ Billed(cost, m3, h, k, Year!Elapsed(y)) =>
                    Billed(cost, m3, h, k, Year!Elapsed(y)')
               /\ \A c : Owed(cost, c, m3, h, Year!Elapsed(y)) =>
                         Owed(cost, c, m3, h, Year!Elapsed(y)')
    BY <2>3, <2>4, MoreDays
  <2>5. BillType'
    BY <2>1, <2>2 DEF BillInv, BillType, IsOfThePlace, Year!Place
  <2>6. ASSUME NEW y, CycleStands(y)
        PROVE  /\ y.m3 \in Nat
               /\ y.year # None =>
                    /\ y.year \in Nat /\ y.year <= year'
                    /\ y.cost # None =>
                         /\ y.cost \in Nat
                         /\ Billed(y.cost, y.m3, y.basis, y.basis.card, Year!Elapsed(y.year)')
    BY <2>2, <2>4, <2>6 DEF CycleStands, BillInv, BillType
  <2>7. (CycleStands(cycle) /\ CycleStands(store.cycle))'
    <3>1. CycleStands(cycle)'
      BY <2>1, <2>6 DEF BillInv, CycleStands, Year!Elapsed
    <3>2. CycleStands(store.cycle)'
      BY <2>1, <2>6 DEF BillInv, CycleStands, Year!Elapsed
    <3>3. QED
      BY <3>1, <3>2
  <2>8. (HeldStands(card) /\ HeldStands(store.card))'
    BY <2>1 DEF BillInv, HeldStands
  <2>9. BillStands'
    BY <2>1, <2>2, <2>4 DEF BillInv, BillStands, BillType, IsOfThePlace, Year!Place, Year!Elapsed
  <2>10. QED
    BY <2>5, <2>7, <2>8, <2>9 DEF BillInv
<1>7. CASE UNCHANGED Year!vars
  <2>1. UNCHANGED <<entry, year, day, tariff, tick, cycle, card, store, bill>>
    BY <1>7 DEF Year!vars
  <2>2. (CycleStands(cycle) /\ CycleStands(store.cycle))'
    BY <2>1 DEF BillInv, CycleStands, Year!Elapsed
  <2>3. (HeldStands(card) /\ HeldStands(store.card))' /\ BillType' /\ BillStands'
    BY <2>1 DEF BillInv, HeldStands, BillType, BillStands, IsOfThePlace, Year!Place, Year!Elapsed
  <2>4. QED
    BY <2>2, <2>3 DEF BillInv
<1>8. QED
  BY <1>1, <1>2, <1>3, <1>4, <1>5, <1>6, <1>7 DEF Year!Next

\* The floor keeps no other household's, commune's, card year's or misread's bill: what is
\* published is at most what a card of the entry's place and of the bill's card year bills
\* the entry's household for the year's water on one of its days so far, and at least what
\* the bill's own card does, for any cards, households, volumes and changes of the entry,
\* and also when a reading overtakes a refresh past midnight (coordinator_ytd.py,
\* _cost_basis).
THEOREM FloorIsTheHouseholds ==
  ASSUME Year!BillAssumption
  PROVE  Year!Spec => []Year!BillIsTheHouseholds
<1>1. Year!Init => BillInv
  BY BillInit
<1>2. BillInv /\ [Year!Next]_(Year!vars) => BillInv'
  BY BillStep
<1>3. BillInv => Year!BillIsTheHouseholds
  <2> SUFFICES ASSUME BillInv, (IF bill = None THEN None ELSE bill.cost) # None
               PROVE  \E c \in {x \in Cards : Year!Place(x) = Year!Place(entry)
                                             /\ x.year = bill.card.year},
                         d, e \in 1 .. Year!Elapsed(bill.year) :
                        LET most == Year!Bill(c, cycle.m3, entry, d)
                            least == Year!Bill(bill.card, cycle.m3, entry, e)
                        IN None \notin {most, least} /\ least <= bill.cost /\ bill.cost <= most
    BY DEF Year!BillIsTheHouseholds
  <2>1. bill # None /\ bill.cost # None
    OBVIOUS
  <2>2. PICK c \in Cards, d \in 1 .. Year!Elapsed(bill.year) :
          /\ c.utility = entry.utility /\ c.commune = entry.commune /\ c.year = bill.card.year
          /\ Year!Bill(c, cycle.m3, entry, d) # None
          /\ bill.cost <= Year!Bill(c, cycle.m3, entry, d)
    BY <2>1 DEF BillInv, BillStands, Billed
  <2>3. PICK e \in 1 .. Year!Elapsed(bill.year) :
          /\ Year!Bill(bill.card, cycle.m3, entry, e) # None
          /\ Year!Bill(bill.card, cycle.m3, entry, e) <= bill.cost
    BY <2>1 DEF BillInv, BillStands, Owed
  <2>4. QED
    BY <2>2, <2>3 DEF Year!Place
<1>4. QED
  BY <1>1, <1>2, <1>3, PTL DEF Year!Spec

\* The year the rounds are of: the refresh's under way.
Horizon == IF tick = None THEN year ELSE tick.year

\* A card in force, once a bill stood on it, is held for the place for good, by the file
\* too when nothing waits to be saved.
PricedStands ==
  /\ ~dirty => store.cycle = cycle /\ store.card = card
  /\ priced # None =>
       /\ card # None /\ card.card.utility = entry.utility /\ card.commune = entry.commune
       /\ card.card.year <= Horizon
       /\ bill # None => bill.card.year <= bill.year

LEMMA PricedFold ==
  ASSUME Year!BillAssumption, BillInv, PricedStands, NEW t, IsOfThePlace(t),
         NEW m3, Year!FoldCycle(t, Horizon, m3), UNCHANGED entry
  PROVE  priced' # None =>
           /\ card' # None /\ card'.card.utility = entry'.utility
           /\ card'.commune = entry'.commune /\ card'.card.year <= Horizon
           /\ bill'.card.year <= bill'.year
<1> DEFINE y == Horizon
           c == Year!CardInForce(t, y)
           held == [card |-> c, commune |-> entry.commune]
<1>1. /\ card' = IF c.year <= y THEN held ELSE card
      /\ bill'.year = y /\ bill'.card = c
      /\ c.year > y => priced' = priced
  BY DEF Year!FoldCycle
<1>2. IsOfThePlace(c) /\ c.year \in Nat
  BY CardInForceIs, CardFigures DEF BillInv, IsOfThePlace
<1>3. y \in Nat
  BY DEF BillInv, BillType, Horizon
<1>4. CASE c.year <= y
  <2>1. held # None
    BY <1>2 DEF Year!BillAssumption, BillInv, BillType, IsOfThePlace
  <2>2. c.utility = entry.utility
    BY <1>2 DEF IsOfThePlace, Year!Place
  <2> HIDE DEF c, y
  <2>3. held.card = c /\ held.commune = entry.commune
    OBVIOUS
  <2> HIDE DEF held
  <2>4. QED
    BY <1>1, <1>4, <2>1, <2>2, <2>3 DEF y
<1>5. CASE c.year > y
  <2>1. priced = None
    <3> SUFFICES ASSUME priced # None
                 PROVE  c.year <= y
      BY <1>2, <1>3, <1>5
    <3>1. t.utility = entry.utility /\ t.year \in Nat
      BY CardFigures DEF IsOfThePlace, Year!Place
    <3>2. QED
      BY <3>1 DEF PricedStands, Year!CardInForce
  <2>2. QED
    BY <1>1, <1>5, <2>1
<1>6. QED
  BY <1>2, <1>3, <1>4, <1>5

LEMMA PricedStep ==
  ASSUME Year!BillAssumption, ~Overtaken, BillInv, PricedStands, [Year!Next]_(Year!vars)
  PROVE  PricedStands'
<1>0. /\ year \in Nat /\ (tick # None => tick.year \in Nat /\ tick.year <= year)
      /\ card # None => card.card.year \in Nat
  BY CardFigures DEF BillInv, BillType, HeldStands
<1>1. CASE Year!BeginRefresh
  <2>1. Horizon' = Horizon
    BY <1>1 DEF Year!BeginRefresh, Horizon
  <2>2. QED
    BY <1>1, <2>1 DEF Year!BeginRefresh, PricedStands
<1>2. CASE Year!Refresh
  <2>1. PICK m3 : Year!FoldCycle(tick.card, Horizon, m3)
    BY <1>2 DEF Year!Refresh, Horizon
  <2>2. IsOfThePlace(tick.card) /\ entry' = entry
    BY <1>2 DEF Year!Refresh, BillInv, BillType
  <2>3. Horizon' = year /\ Horizon \in Nat /\ Horizon <= year
    BY <1>0, <1>2 DEF Year!Refresh, Horizon
  <2>4. store'.cycle = cycle' /\ store'.card = card'
    BY <1>2 DEF Year!Refresh
  <2>5. BillInv'
    BY BillStep
  <2>6. card' # None => card'.card.year \in Nat
    BY <2>5, CardFigures DEF BillInv, HeldStands
  <2>7. priced' # None =>
          /\ card' # None /\ card'.card.utility = entry'.utility
          /\ card'.commune = entry'.commune /\ card'.card.year <= Horizon
          /\ bill'.card.year <= bill'.year
    BY <2>1, <2>2, PricedFold
  <2>8. priced' # None => card'.card.year <= Horizon'
    BY <2>3, <2>6, <2>7, <1>0
  <2>9. QED
    BY <2>4, <2>7, <2>8 DEF PricedStands
<1>3. CASE Year!LiveReading
  <2>1. Horizon = year
    BY <1>3 DEF Year!LiveReading, Horizon
  <2>2. PICK m3 : Year!FoldCycle(tariff, Horizon, m3)
    BY <1>3, <2>1 DEF Year!LiveReading
  <2>3. IsOfThePlace(tariff) /\ entry' = entry
    BY <1>3 DEF Year!LiveReading, BillInv, BillType
  <2>4. Horizon' = Horizon /\ store' = store
    BY <1>3 DEF Year!LiveReading, Horizon
  <2>5. ~dirty' => ~dirty /\ cycle' = cycle /\ card' = card
    BY <1>3 DEF Year!LiveReading
  <2>6. QED
    BY <2>2, <2>3, <2>4, <2>5, PricedFold DEF PricedStands
<1>4. CASE Year!Save
  BY <1>4 DEF Year!Save, PricedStands, Horizon
<1>5. CASE Year!Reload \/ Year!Crash
  <2>1. bill' = None /\ tick' = None /\ year' = year /\ Horizon' = year
    BY <1>5 DEF Year!Reload, Year!Crash, Horizon
  <2>2. ~dirty' /\ store'.cycle = cycle' /\ store'.card = card'
    BY <1>5 DEF Year!Reload, Year!Crash, PricedStands
  <2>3. priced' # None => /\ priced # None /\ card' = card
                          /\ entry'.utility = entry.utility /\ entry'.commune = entry.commune
    BY <1>5 DEF Year!Reload, Year!Crash, PricedStands, Year!Place
  <2>4. card # None /\ card.card.year <= Horizon => card.card.year <= year
    BY <1>0 DEF Horizon
  <2>5. QED
    BY <2>1, <2>2, <2>3, <2>4 DEF PricedStands
<1>6. CASE Year!PassTime
  <2>1. UNCHANGED <<entry, tick, cycle, card, store, dirty, priced, bill>>
    BY <1>6 DEF Year!PassTime
  <2>2. Horizon \in Nat /\ Horizon' \in Nat /\ Horizon <= Horizon'
    BY <1>0, <1>6, <2>1 DEF Year!PassTime, Horizon
  <2>3. QED
    BY <1>0, <2>1, <2>2 DEF PricedStands
<1>7. CASE UNCHANGED Year!vars
  BY <1>7 DEF Year!vars, PricedStands, Horizon
<1>8. QED
  BY <1>1, <1>2, <1>3, <1>4, <1>5, <1>6, <1>7 DEF Year!Next

\* Where no reading begins a year under a refresh of the last, a place whose bill has been
\* on a card in force is never again priced on a card ahead of its year, and every bill
\* is on a card of the entry's own place (coordinator_ytd.py, _card_in_force).
THEOREM CardIsInForce ==
  ASSUME Year!BillAssumption, ~Overtaken
  PROVE  Year!Spec => []Year!BillStandsOnItsCard
<1> DEFINE Inv == BillInv /\ PricedStands
<1>1. Year!Init => Inv
  <2>1. Year!Init => PricedStands
    BY DEF Year!Init, Year!NoCycle, PricedStands
  <2>2. QED
    BY <2>1, BillInit
<1>2. Inv /\ [Year!Next]_(Year!vars) => Inv'
  BY BillStep, PricedStep
<1>3. Inv => Year!BillStandsOnItsCard
  BY DEF BillInv, BillStands, PricedStands, IsOfThePlace, Year!BillStandsOnItsCard
<1> HIDE DEF Inv
<1>4. QED
  BY <1>1, <1>2, <1>3, PTL DEF Year!Spec
=============================================================================
