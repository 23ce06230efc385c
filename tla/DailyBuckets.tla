---------------------------- MODULE DailyBuckets ----------------------------
(***************************************************************************)
(* A year of the meter read off the recorder's daily statistics            *)
(* (meter_reads.py): which of the buckets count as water, while the meter  *)
(* dips, resets, misreads, is replaced or is out of sight.                 *)
(*                                                                         *)
(* Below are the meter and the statistics Home Assistant compiles from it, *)
(* which the module's readers are given; then the readers. Days are        *)
(* numbered from the first of the window.                                  *)
(***************************************************************************)
EXTENDS Integers, Sequences, SequencesExt, FiniteSets

CONSTANTS Days,        \* bound: the days of the window
          Draws,       \* what a household may draw in a day
          Registers,   \* what the meter may read when the window opens
          Spikes,      \* how far a misread may be off
          MaxFaults,   \* bound: the faults of the meter
          Jump,        \* _IMPLAUSIBLE_JUMP_M3
          AwayPerDay,  \* _AWAY_M3_PER_DAY
          MinRefusals, \* _REFUSALS_BEFORE_UNREADABLE
          Month, Year, \* the days of a month and of a year
          None

\* What the constants are; MCParts assumes it of its values.
BucketAssumption ==
  /\ Days \in Nat \ {0} /\ Draws \subseteq Nat /\ Registers \subseteq Nat
  /\ Spikes \subseteq Nat \ {0} /\ {MaxFaults, Jump, AwayPerDay, MinRefusals, Month, Year} \subseteq Nat
  /\ None \notin Int /\ None \notin Int \X Int

\* Of a household OnlyNightsAreLost is about, which MCParts assumes too: the window opens
\* on a meter that has counted; a day's water, that of a day out of sight with the next,
\* and a misread that is not wild with its own day's, are what a day could hold.
Plausible ==
  /\ 0 \notin Registers
  /\ \A w \in Draws : w <= Jump
  /\ \A v, w \in Draws : v + w <= Jump + AwayPerDay
  /\ \A w \in Draws, s \in Spikes : s <= Jump => w + s <= Jump

VARIABLES
  increasing,  \* the meter's state class: total_increasing, or total
  reading,     \* what the meter really counts to
  shown,       \* the last reading the recorder saw
  sum,         \* the statistic's running sum
  rows,        \* the window's daily buckets
  day,         \* the days gone by
  used,        \* used[d]: the water drawn on day d
  faults,      \* the faults so far: [day, kind]
  left

vars == <<increasing, reading, shown, sum, rows, day, used, faults, left>>

\* The statistic's first bucket of the window follows earlier ones, or they were
\* purged and its change is then the whole sum.
Init ==
  /\ increasing \in BOOLEAN
  /\ reading \in Registers /\ shown = reading
  /\ sum \in {0, 3}
  /\ rows = <<>> /\ day = 0 /\ used = <<>> /\ faults = {} /\ left = MaxFaults

-----------------------------------------------------------------------------
(* The meter, and Home Assistant's compiler of its statistic (external).    *)

\* One reading into the running sum: a drop of more than a tenth starts a
\* total_increasing meter over from zero.
Compiled(acc, r) ==
  [sum |-> acc.sum + (IF increasing /\ 10 * r < 9 * acc.shown THEN r ELSE r - acc.shown),
   shown |-> r]

Statistic == [sum |-> sum, shown |-> shown]

\* The day's bucket, once its readings are compiled.
DayOf(done, water, faulty) ==
  LET base == IF day = 0 /\ "purged" \in faulty THEN 0 ELSE sum
  IN /\ day < Days
     /\ day' = day + 1
     /\ used' = Append(used, water)
     /\ sum' = done.sum /\ shown' = done.shown
     /\ rows' = IF "silent" \in faulty THEN rows
                ELSE Append(rows, [start |-> day + 1, change |-> done.sum - base,
                                   sum |-> done.sum, state |-> done.shown])
     /\ faults' = faults \cup [day : {day + 1}, kind : faulty]
     /\ left' = IF faulty = {} THEN left ELSE left - 1
     /\ UNCHANGED increasing

\* The meter reports as it should.
Healthy(w) ==
  /\ reading' = reading + w
  /\ DayOf(Compiled(Statistic, reading'), w, {})

\* The buckets before the window are gone.
Purged(w) ==
  /\ day = 0 /\ left > 0
  /\ reading' = reading + w
  /\ DayOf(Compiled(Statistic, reading'), w, {"purged"})

\* It reports 0 and recovers, within the day or past its end.
Dips(w) ==
  /\ left > 0
  /\ reading' = reading + w
  /\ \/ DayOf(Compiled(Compiled(Statistic, 0), reading'), w, {"dip"})
     \/ DayOf(Compiled(Compiled(Statistic, reading'), 0), w, {"overnight"})

\* It misreads high when the day closes.
Misreads(w) ==
  /\ left > 0
  /\ reading' = reading + w
  /\ \E s \in Spikes :
       DayOf(Compiled(Statistic, reading' + s), w, {IF s > Jump THEN "wild" ELSE "spike"})

\* It is replaced by one at zero.
Replaced(w) ==
  /\ left > 0
  /\ reading' = w
  /\ DayOf(Compiled(Statistic, reading'), w, {"swap"})

\* It is out of sight for the day; the water shows when it is back.
Silent(w) ==
  /\ left > 0
  /\ reading' = reading + w
  /\ DayOf(Statistic, w, {"silent"})

Next == \E w \in Draws :
  Healthy(w) \/ Purged(w) \/ Dips(w) \/ Misreads(w) \/ Replaced(w) \/ Silent(w)

Done == day = Days /\ UNCHANGED vars

Spec == Init /\ [][Next \/ Done]_vars

-----------------------------------------------------------------------------
(* The readers. *)

\* _change_is_the_whole_register
IsTheWholeRegister(row) == row.sum # 0 /\ row.change = row.sum

\* Mutant: a day that reads its whole register passes.
ClaimsMoreThanItReads(row) == row.change > row.state

\* _change_exceeds_the_register
ExceedsTheRegister(row) == row.change > 0 /\ row.change >= row.state

\* _exceeds_a_day: what the days behind a bucket can hold.
ExceedsADay(change, gap) == change > Jump + gap * AwayPerDay

\* Mutant: a register that comes back shows nothing of the day before.
NoSpikeBetween(around, register) == FALSE

\* _took_back_a_spike: the register came back to between the two of the last
\* admitted bucket, so the higher was a misread.
ShowsASpike(around, register) ==
  IF around = None THEN FALSE ELSE around[1] <= register /\ register < around[2]

Fresh == [admitted |-> <<>>, refused |-> 0, back |-> 0, register |-> None,
          drop |-> 0, around |-> None, previous |-> 0]

Refuse(acc) == [acc EXCEPT !.refused = @ + 1]

\* The spike is taken back out of the bucket it was in.
TakeBack(acc, register) ==
  LET last == acc.admitted[Len(acc.admitted)]
      capped == IF last.m3 < register - acc.around[1] THEN last.m3 ELSE register - acc.around[1]
  IN Refuse([acc EXCEPT !.admitted[Len(acc.admitted)].m3 = capped, !.back = @ + last.m3 - capped])

\* The bucket's water counts, measured between these two registers.
Admit(acc, row, m3, gap, around) ==
  IF ExceedsADay(m3, gap) THEN Refuse(acc)
  ELSE [acc EXCEPT !.admitted = Append(@, [start |-> row.start, m3 |-> m3]), !.around = around]

\* A drop is held against the bucket that follows it.
DropHeld(acc, row) == [acc EXCEPT !.drop = @ + row.change]

\* A bucket that follows a drop counts for what the two leave together.
Netted(acc, row, gap) ==
  LET net == row.change + acc.drop
      clear == [acc EXCEPT !.drop = 0]
  IN IF net <= 0 THEN Refuse(clear) ELSE Admit(clear, row, net, gap, None)

\* Mutant: a recovery is refused whole.
RecoveryRefused(acc, row, before, gap) ==
  IF ShowsASpike(acc.around, row.state) THEN TakeBack(acc, row.state) ELSE Refuse(acc)

\* One whose change exceeds its register is a dip's recovery: it counts for the
\* register's climb, where there is one to climb from.
Recovered(acc, row, before, gap) ==
  IF ShowsASpike(acc.around, row.state) THEN TakeBack(acc, row.state)
  ELSE IF IF before = None THEN FALSE ELSE 0 < before /\ before <= row.state
       THEN Admit(acc, row, row.state - before, gap, <<before, row.state>>)
       ELSE Refuse(acc)

\* One bucket of _admitted_changes, the first of the query being row 1.
Bucket(acc0, row) ==
  LET before == acc0.register
      gap == IF row.start - acc0.previous - 1 > 0 THEN row.start - acc0.previous - 1 ELSE 0
      acc == [acc0 EXCEPT !.register = row.state, !.previous = row.start]
  IN CASE before = None /\ IsTheWholeRegister(row) -> acc
       [] ~(before = None /\ IsTheWholeRegister(row)) /\ row.change < 0 ->
            IF ShowsASpike(acc.around, row.state) THEN TakeBack(acc, row.state)
            ELSE Refuse(DropHeld(acc, row))
       [] ~(before = None /\ IsTheWholeRegister(row)) /\ row.change >= 0 /\ acc.drop < 0 ->
            Netted(acc, row, gap)
       [] OTHER ->
            IF ExceedsTheRegister(row) THEN Recovered(acc, row, before, gap)
            ELSE Admit(acc, row, row.change, gap,
                       IF before = None THEN None ELSE <<before, row.state>>)

\* _admitted_changes of the window's buckets.
Admitted(seen) == FoldLeft(Bucket, Fresh, seen)

\* The water of some days, by their order.
Sum(water) == FoldLeft(LAMBDA total, m3 : total + m3, 0, water)

Total(seen) == LET days == Admitted(seen).admitted IN Sum([i \in DOMAIN days |-> days[i].m3])

\* _recorder_ytd_m3: a window whose every bucket was refused cannot be read.
YearToDateOf(seen) ==
  LET a == Admitted(seen)
  IN IF a.admitted = <<>> /\ a.refused > MinRefusals THEN None ELSE Total(seen)

\* _enough_days: buckets on two days in three.
EnoughDays(buckets, length) == 3 * buckets >= 2 * length

\* _recorder_full_year_m3 of the year that begins on `first`: no bucket of it may be
\* negative, or a register's, or more than its days hold; the meter has reported before
\* the year and in its December, and on most of its days. Buckets after it are passed over.
FullYear(seen, first) ==
  LET last == first + Year - 1
      gap(i) == seen[i].start - (IF i = 1 THEN 0 ELSE seen[i - 1].start) - 1
      inside == {i \in DOMAIN seen : seen[i].start \in first .. last}
  IN IF /\ \A i \in inside : /\ seen[i].change >= 0 /\ ~ExceedsTheRegister(seen[i])
                             /\ ~ExceedsADay(seen[i].change, gap(i))
        /\ \E i \in DOMAIN seen : seen[i].start < first
        /\ \E i \in inside : seen[i].start > last - Month
        /\ EnoughDays(Cardinality(inside), Year)
     THEN Sum([i \in DOMAIN seen |-> IF i \in inside THEN seen[i].change ELSE 0])
     ELSE None

\* _metered_m3 of the window first .. last, of the days' admitted water.
Metered(seen, first, last) ==
  LET days == Admitted(seen).admitted
      In(from, to) == {i \in DOMAIN days : days[i].start \in from .. to}
  IN IF last < first THEN 0
     ELSE IF \/ In(first - Month, first - 1) = {}
             \/ In(last - Month + 1, last) = {}
             \/ ~EnoughDays(Cardinality(In(first, last)), last - first + 1) THEN None
     ELSE Sum([i \in DOMAIN days |-> IF i \in In(first, last) THEN days[i].m3 ELSE 0])

\* _rolling_year_m3, on the day after the last.
RollingYear(seen) == Metered(seen, day - Year + 1, day)

-----------------------------------------------------------------------------
(* Properties. *)

Drawn(days) == Sum([d \in 1 .. day |-> IF d \in days THEN used[d] ELSE 0])

FaultyDays == {f.day : f \in faults}

FaultyDaysOf(kinds) == {f.day : f \in {g \in faults : g.kind \in kinds}}

\* No fault followed on another.
FarApart == \A f \in FaultyDays : FaultyDays \cap {f + 1, f + 2} = {}

\* And none touched the window's first day, which has no register before it, or one
\* of the last two.
Settled == day >= 2 /\ FaultyDays \cap {1, day - 1, day} = {} /\ FarApart

\* Once the meter reads as it should again, a year counts no water that was not
\* drawn: the dips, misreads, replacements and silences before it are netted,
\* recovered, taken back or refused (meter_reads.py, _admitted_changes).
NeverMoreThanDrawn == Settled => Total(rows) <= Drawn(1 .. day)

\* A year that is offered as the household's own, whole or rolling, is no more than it
\* drew in it, whatever the meter did inside it, unless a misread or a silence reaches
\* over its edge (meter_reads.py, _recorder_full_year_m3 and _metered_m3).
OfferedYearIsDrawn ==
  /\ FarApart => \A first \in 2 .. day - Year + 1 :
       LET offered == FullYear(rows, first)
       IN FaultyDays \cap {first - 1, first + Year - 1} = {} /\ offered # None =>
            offered <= Drawn(first .. first + Year - 1)
  /\ Settled /\ day > Year /\ FaultyDays \cap {day - Year, day - Year - 1} = {} =>
       LET offered == RollingYear(rows)
       IN offered # None => offered <= Drawn(day - Year + 1 .. day)

\* Of one meter, a dip that is over by the evening, a misread a day could hold and
\* a silence cost no water at all, and a dip past midnight no more than its own
\* day's and the next's; but for the first day's, whose bucket may be a purged
\* statistic's whole sum (meter_reads.py, _admitted_changes).
OnlyNightsAreLost ==
  Settled /\ FaultyDaysOf({"swap", "wild"}) = {} =>
    Total(rows) >= Drawn({d \in 2 .. day : {d, d - 1} \cap FaultyDaysOf({"overnight"}) = {}})

\* A year whose every bucket was refused is not one without water: a total_increasing meter
\* at 0 whenever a day closed, of a window that opens on a day water was drawn on, whatever
\* but a silence or a replacement the last day brings (meter_reads.py, _recorder_ytd_m3).
RefusedYearIsNotEmpty ==
  /\ increasing /\ day > MinRefusals + 1 /\ used[1] > 0
  /\ 1 .. day - 1 \subseteq FaultyDaysOf({"overnight"})
  /\ day \notin FaultyDaysOf({"silent", "swap"})
  => YearToDateOf(rows) = None
=============================================================================
