---------------------------- MODULE YearBackfill ----------------------------
(***************************************************************************)
(* The year-to-date sensors' hourly rows, written back to 1 January        *)
(* (statistics.py, async_backfill_year), beside the recorder that compiles *)
(* the same statistics and works its own queue.                            *)
(*                                                                         *)
(* The year is cut in periods (the recorder's five minutes), PerHour of    *)
(* them to an hour, numbered from 0 at midnight on 1 January. A row is the *)
(* figure the sensor showed and the running total: the total is what a     *)
(* graph of the year is drawn from. Figures are integers.                  *)
(***************************************************************************)
EXTENDS Integers, Sequences, SequencesExt

CONSTANTS Sensors,      \* the sensors of _YEAR_KEYS, in the order they are written
          PerHour,      \* periods in an hour
          Hours,        \* bound: the hours that pass
          Figure,       \* Figure[s][p]: what s shows at the end of period p
          Starts,       \* the periods the sensors may start in
          Befores,      \* totals recorded before the year, None for a new statistic
          None,
          MaxFails,     \* bound: reads of the recorder that fail
          MaxRestarts,  \* bound: reloads and crashes
          Drains        \* TRUE: a run finds what an earlier one queued worked off

Periods == 0 .. Hours * PerHour - 1
Clock == 0 .. Hours * PerHour
Sids == ToSet(Sensors)

ASSUME YearAssumption ==
  /\ Sensors \in Seq(Sids) /\ IsInjective(Sensors)
  /\ PerHour \in Nat \ {0} /\ Hours \in Nat \ {0}
  /\ Figure \in [Sids -> [Periods -> Int]]
  /\ Starts \subseteq Periods /\ Befores \subseteq Int \cup {None}
  /\ None \notin Int /\ None \notin [state : Int, sum : Int]
  /\ MaxFails \in Nat /\ MaxRestarts \in Nat /\ Drains \in BOOLEAN

VARIABLES
  \* the sensors
  since,     \* the period the sensors started in
  before,    \* the total the statistics held before the year, or None
  \* the recorder
  now,       \* periods that have ended
  marker,    \* periods it has compiled, its newest StatisticsRuns
  short,     \* short[s][p]: the five-minute row of p, or None
  hour,      \* hour[s][h]: the hourly row of h, or None
  queue,     \* adjustments and imports it has not worked off
  \* the run, and what the coordinator remembers of it
  pc,        \* the await the run is behind
  run,       \* its local variables
  settled,   \* year_backfilled is the year
  tried,     \* year_backfill_tried, or None
  left       \* what is left of the bounds

recorder == <<now, marker, short, hour>>
memory == <<settled, tried>>
vars == <<since, before, recorder, queue, pc, run, memory, left>>

\* The row a period or an hour has none of.
Row == [state : Int, sum : Int]

HourOf(p) == p \div PerHour
PeriodsOf(h) == h * PerHour .. h * PerHour + PerHour - 1
Idle == [end |-> 0, todo |-> <<>>, wanted |-> <<>>, base |-> 0]

Init ==
  /\ since \in Starts
  /\ before \in Befores
  /\ now = since /\ marker = since
  /\ short = [s \in Sids |-> [p \in Periods |-> None]]
  /\ hour = [s \in Sids |-> [h \in 0 .. Hours - 1 |-> None]]
  /\ queue = <<>>
  /\ pc = "idle" /\ run = Idle
  /\ settled = FALSE /\ tried = None
  /\ left = [fail |-> MaxFails, restart |-> MaxRestarts]

-----------------------------------------------------------------------------
(* The recorder. *)

\* The newest of s's rows before period p, None before its first.
LastRow(s, p) ==
  LET held == {q \in Periods : q < p /\ short[s][q] # None}
  IN IF held = {} THEN None ELSE short[s][CHOOSE q \in held : \A r \in held : r <= q]

\* A new statistic counts from its first figure; one with rows from before the
\* year starts a cycle, and counts from zero on the total it had; any other
\* row adds what the figure moved by.
CompiledRow(s, p) ==
  LET figure == Figure[s][p]
      last == LastRow(s, p)
  IN [state |-> figure,
      sum |-> IF last # None THEN last.sum + figure - last.state
              ELSE IF before = None THEN 0 ELSE before + figure]

\* A period is compiled some time after it ends, the last one of an hour with
\* the hour's row.
Compile ==
  LET p == marker
      rows == [s \in Sids |-> [short[s] EXCEPT ![p] = CompiledRow(s, p)]]
  IN /\ marker < now
     /\ marker' = marker + 1
     /\ short' = rows
     /\ hour' = IF (p + 1) % PerHour # 0 THEN hour
                ELSE [s \in Sids |-> [hour[s] EXCEPT ![HourOf(p)] = rows[s][p]]]
     /\ UNCHANGED <<since, before, now, queue, pc, run, memory, left>>

PeriodEnds ==
  /\ now < Hours * PerHour
  /\ now' = now + 1
  /\ UNCHANGED <<since, before, marker, short, hour, queue, pc, run, memory, left>>

Shifted(row, by) == IF row = None THEN None ELSE [row EXCEPT !.sum = @ + by]

\* The queue's next task: an adjustment shifts every row from the reset on, an
\* import puts its rows over those of the same hours.
WorkQueue ==
  /\ queue # <<>>
  /\ LET task == Head(queue)
         s == task.sid
     IN \/ /\ task.op = "adjust"
           /\ short' = [short EXCEPT ![s] = [p \in Periods |-> Shifted(@[p], task.by)]]
           /\ hour' = [hour EXCEPT ![s] = [h \in 0 .. Hours - 1 |-> Shifted(@[h], task.by)]]
        \/ /\ task.op = "import"
           /\ hour' = [hour EXCEPT ![s] = [h \in 0 .. Hours - 1 |->
                         IF h \in DOMAIN task.rows THEN task.rows[h] ELSE @[h]]]
           /\ UNCHANGED short
  /\ queue' = Tail(queue)
  /\ UNCHANGED <<since, before, now, marker, pc, run, memory, left>>

-----------------------------------------------------------------------------
(* The run: one action for every stretch between two awaits. *)

\* A run starts on an update of the sensors, unless the year is settled, one
\* is under way, or one was tried within the hour.
StartDue ==
  /\ pc = "idle"
  /\ now > since
  /\ ~settled
  /\ tried # None => now - tried >= PerHour
  /\ Drains => queue = <<>>

Start ==
  /\ StartDue
  /\ tried' = now
  /\ pc' = "until"
  /\ UNCHANGED <<since, before, recorder, queue, run, settled, left>>

\* Mutant: a run that gave up counts as one that wrote.
GivesUpForGood == pc' = "idle" /\ run' = Idle /\ settled' = TRUE

\* A run that could not tell ends, to be tried again; one that could settles.
GivesUp == pc' = "idle" /\ run' = Idle /\ UNCHANGED settled

Settles == pc' = "idle" /\ run' = Idle /\ settled' = TRUE

\* The hours the recorder has settled: those that end by the end of the newest
\* period it compiled, and never the hour that is running.
CompiledUntil == HourOf(IF marker < now THEN marker ELSE now)

\* Without the marker, the recorder is taken to be on time. A run that guessed
\* past it finds no live row to join the year to, and gives up.
GuessedUntil == HourOf(now) - 1

\* The hours to write are known: none to write settles the year.
Plan(end) ==
  \/ end <= 0 /\ Settles
  \/ end > 0 /\ pc' = "first" /\ run' = [Idle EXCEPT !.end = end, !.todo = Sensors] /\ UNCHANGED settled

ReadMarker ==
  /\ pc = "until"
  /\ Plan(CompiledUntil)
  /\ UNCHANGED <<since, before, recorder, queue, tried, left>>

MarkerUnread ==
  /\ pc = "until"
  /\ left.fail > 0
  /\ left' = [left EXCEPT !.fail = @ - 1]
  /\ Plan(GuessedUntil)
  /\ UNCHANGED <<since, before, recorder, queue, tried>>

\* A sensor whose statistics hold the first hour of the year has its year. The
\* unit of the others is read, which changes nothing here.
ReadFirst ==
  /\ pc = "first"
  /\ run.todo # <<>>
  /\ LET s == Head(run.todo)
     IN run' = [run EXCEPT !.todo = Tail(@),
                           !.wanted = IF hour[s][0] = None THEN Append(@, s) ELSE @]
  /\ UNCHANGED <<since, before, recorder, queue, pc, memory, left>>

\* All the sensors are read: the meter's year is, when one is wanted.
AskYear ==
  /\ pc = "first"
  /\ run.todo = <<>>
  /\ \/ run.wanted = <<>> /\ Settles
     \/ run.wanted # <<>> /\ pc' = "year" /\ UNCHANGED <<run, settled>>
  /\ UNCHANGED <<since, before, recorder, queue, tried, left>>

\* The year by hour is in (async_year_by_hour): what is left of it here is its
\* shape, in RowsOf.
ReadYear ==
  /\ pc = "year"
  /\ pc' = "base"
  /\ UNCHANGED <<since, before, recorder, queue, run, memory, left>>

ReadBase ==
  /\ pc = "base"
  /\ run' = [run EXCEPT !.base = IF before = None THEN 0 ELSE before]
  /\ pc' = "anchor"
  /\ UNCHANGED <<since, before, recorder, queue, memory, left>>

\* The year's rows scaled to end on the figure the sensor showed then, on the
\* total recorded before.
RowsOf(state, base, end) ==
  [h \in 0 .. end - 1 |-> LET part == (state * (h + 1)) \div end
                          IN [state |-> part, sum |-> base + part]]

\* What brings every live row onto the imported total, none when they stand there.
Shift(anchor, base) == base - (anchor.sum - anchor.state)

\* Mutant: the rows are imported ahead of the adjustment.
TasksOutOfOrder(s, anchor, base, end) ==
  <<[op |-> "import", sid |-> s, rows |-> RowsOf(anchor.state, base, end)]>>
  \o (IF Shift(anchor, base) = 0 THEN <<>>
      ELSE <<[op |-> "adjust", sid |-> s, by |-> Shift(anchor, base)]>>)

\* The tasks a joined year is, the adjustment ahead of the import.
Tasks(s, anchor, base, end) ==
  (IF Shift(anchor, base) = 0 THEN <<>>
   ELSE <<[op |-> "adjust", sid |-> s, by |-> Shift(anchor, base)]>>)
  \o <<[op |-> "import", sid |-> s, rows |-> RowsOf(anchor.state, base, end)]>>

\* The year is joined at a live row: its tasks are queued, and the next wanted
\* sensor read.
Join(anchor) ==
  /\ queue' = queue \o Tasks(Head(run.wanted), anchor, run.base, run.end)
  /\ \/ Len(run.wanted) = 1 /\ Settles
     \/ Len(run.wanted) > 1 /\ pc' = "base" /\ run' = [run EXCEPT !.wanted = Tail(@)] /\ UNCHANGED settled

\* The live row is the sensor's last hour before the end, or else its first
\* five minutes from there.
ReadAnchor ==
  /\ pc = "anchor"
  /\ LET anchor == hour[Head(run.wanted)][run.end - 1]
     IN \/ anchor # None /\ Join(anchor)
        \/ anchor = None /\ pc' = "anchor5" /\ UNCHANGED <<run, settled, queue>>
  /\ UNCHANGED <<since, before, recorder, tried, left>>

ReadFirstMinutes ==
  /\ pc = "anchor5"
  /\ LET rows == short[Head(run.wanted)]
         live == {p \in Periods : HourOf(p) >= run.end /\ rows[p] # None}
     IN \/ live = {} /\ GivesUp /\ UNCHANGED queue
        \/ live # {} /\ Join(rows[CHOOSE p \in live : \A q \in live : p <= q])
  /\ UNCHANGED <<since, before, recorder, tried, left>>

\* Any read but the marker's may get no answer, and the run gives up there.
ReadFails ==
  /\ pc \in {"first", "year", "base", "anchor", "anchor5"}
  /\ left.fail > 0
  /\ left' = [left EXCEPT !.fail = @ - 1]
  /\ GivesUp
  /\ UNCHANGED <<since, before, recorder, queue, tried>>

-----------------------------------------------------------------------------
(* What goes wrong around it. *)

\* The entry's task ends with the entry, and the next coordinator starts over.
NewCoordinator == pc' = "idle" /\ run' = Idle /\ settled' = FALSE /\ tried' = None

Reload ==
  /\ left.restart > 0
  /\ left' = [left EXCEPT !.restart = @ - 1]
  /\ NewCoordinator
  /\ UNCHANGED <<since, before, recorder, queue>>

\* A crash loses the recorder's queue with the rest; its tables are on disk.
Crash ==
  /\ left.restart > 0
  /\ left' = [left EXCEPT !.restart = @ - 1]
  /\ queue' = <<>>
  /\ NewCoordinator
  /\ UNCHANGED <<since, before, recorder>>

Next ==
  \/ PeriodEnds \/ Compile \/ WorkQueue
  \/ Start \/ ReadMarker \/ MarkerUnread \/ ReadFirst \/ AskYear \/ ReadYear
  \/ ReadBase \/ ReadAnchor \/ ReadFirstMinutes \/ ReadFails
  \/ Reload \/ Crash

\* The horizon ends: nothing more passes.
Done == now = Hours * PerHour /\ UNCHANGED vars

Spec == Init /\ [][Next \/ Done]_vars

-----------------------------------------------------------------------------
(* Properties. *)

\* The rows a sensor's statistics hold of the year, imported ones included.
Held(s) ==
  {short[s][p] : p \in {q \in Periods : short[s][q] # None}}
    \cup {hour[s][h] : h \in {k \in 0 .. Hours - 1 : hour[s][k] # None}}

\* The running total has no step but the sensor's: between any two rows of the
\* year, five-minute or hourly, compiled or imported, the total differs by what
\* the figure does. It holds at every moment, between the adjustment and the
\* import too, and after a run cut off there (statistics.py, _import_year_rows).
OneLine ==
  \A s \in Sids : \A a, b \in Held(s) : a.sum - a.state = b.sum - b.state

\* A year is settled only once its rows are written or queued. Sensors that
\* started in the year's first two hours are left out: the recorder writes the
\* first, and a run that cannot read the marker in the second sees no hour to
\* write and settles a year it could not tell.
SettledIsWritten ==
  settled /\ HourOf(since) > 1 => \A s \in Sids :
    \/ hour[s][0] # None
    \/ \E i \in DOMAIN queue : queue[i].op = "import" /\ queue[i].sid = s
=============================================================================
