---------------------------- MODULE MeterHistory ----------------------------
(***************************************************************************)
(* The meter's year (coordinator_meter.py): the rolling year's days, read  *)
(* off the recorder once a day, and the Repair card that offers last       *)
(* year's figure, read by setup's background task and by the refreshes and *)
(* hourly reads of coordinator_ytd.py (_read_ytd), across reloads,         *)
(* removals, restarts and a dashboard that changes its meter.              *)
(*                                                                         *)
(* A read is what was asked: the meter, the kind it was taken for and the  *)
(* day. What the recorder answers is MeteredAs.                            *)
(***************************************************************************)
EXTENDS Integers, Sequences, FiniteSets

CONSTANTS Meters,      \* the water meters
          Resetting,   \* those that go back to zero on a schedule
          Reporting,   \* the sets of them that may report at first
          Dashboards,  \* what the Energy dashboard may list: sequences of meters
          Metered,     \* Metered[m]: what m measured last year
          Misread,     \* a resetting meter's year, read as a register's
          Typed,       \* the consumption set up at first
          Hold,        \* _METERED_HOLD, in days
          MaxDay,      \* bound: the last day
          MaxChanges,  \* bound: the changes from outside
          None

\* What the constants are; MCEntry assumes it of its values.
MeterAssumption ==
  /\ Dashboards \subseteq Seq(Meters) /\ Dashboards # {} /\ Reporting \subseteq SUBSET Meters
  /\ DOMAIN Metered = Meters /\ {Hold, MaxDay, MaxChanges} \subseteq Nat

VARIABLES
  shown,        \* the meters that report just now
  listed,       \* what the dashboard lists
  consumption,  \* the option the projection runs on
  day,
  entry,        \* "loaded", "unloaded" or "removed"
  cur,          \* the coordinator the entry has, or had last
  co,           \* the coordinators, retired ones included
  file,         \* the stored read of the days
  card,         \* the projection's Repair card: the offer and the option it is against
  several,      \* the card about several meters is up
  flow,         \* the offer of a fix flow that is open
  changes

vars == <<shown, listed, consumption, day, entry, cur, co, file, card,
          several, flow, changes>>

world == <<shown, listed>>

Slots == {1, 2}

Idle == [stage |-> "idle"]

\* A WaterCoordinator that has just been made.
NewCoordinator ==
  [meter |-> None, held |-> None, checked |-> None, resets |-> None,
   published |-> None, tasks |-> [bg |-> Idle, read |-> Idle]]

Busy(c) == c.tasks.bg # Idle \/ c.tasks.read # Idle

\* Mutant: a coordinator is never retired.
OwnsForEver(s) == TRUE

\* _owns_the_entry
Owns(s) == s = cur /\ entry = "loaded"

\* async_resolve_meter_entity
Resolved == IF listed = <<>> THEN None ELSE Head(listed)

\* What a year of m comes to, read as a register's or not.
MeteredAs(m, register) == IF register /\ m \in Resetting THEN Misread ELSE Metered[m]

\* _resetting_meter after a look at m's state: the verdict needs its attributes.
Verdict(c, m) ==
  IF m \notin shown THEN c.resets ELSE IF m \in Resetting THEN m ELSE None

Looked(c, m) == [c EXCEPT !.resets = Verdict(c, m)]

\* _sees_a_register
SeesARegister(c, m) == Verdict(c, m) # m

\* The figures _year_figures gives: the read they stand on.
Figures(c) == IF c.held = None THEN None ELSE IF c.held.meter # c.meter THEN None ELSE c.held

-----------------------------------------------------------------------------
(* The reads, from one await to the next. *)

\* After the days: the background read publishes, a refresh goes on to the fold.
After(c, k, s) ==
  IF k = "read" THEN [c EXCEPT !.tasks[k] = [stage |-> "fold"]]
  ELSE [c EXCEPT !.tasks[k] = Idle, !.published = IF Owns(s) THEN Figures(c) ELSE @]

\* Mutant: the kind the day's read was made for is not compared.
ReadOnTheDay(held, m, register) == held.meter = m /\ held.day = day

\* The day's read is in.
AlreadyRead(held, m, register) ==
  held.meter = m /\ held.day = day /\ held.register = register

\* _read_metered_days, up to its query.
AskDays(c, k, m, s) ==
  LET register == SeesARegister(c, m)
      asked == [stage |-> "days", meter |-> m, day |-> day, register |-> register,
                held |-> c.held]
  IN IF IF c.held = None THEN FALSE ELSE AlreadyRead(c.held, m, register)
     THEN After(Looked(c, m), k, s)
     ELSE [Looked(c, m) EXCEPT !.tasks[k] = asked]

\* Mutant: the check's key leaves the kind out.
KeyOfTheMeter(m, register) == [meter |-> m, against |-> consumption]

\* The key of _projection_checked. The year is the same throughout.
Key(m, register) == [meter |-> m, against |-> consumption, register |-> register]

\* _sync_projection_issue, up to its query, then the days.
AskCard(c, k, m, s) ==
  LET register == SeesARegister(c, m)
  IN IF c.checked = Key(m, register) THEN AskDays(Looked(c, m), k, m, s)
     ELSE [Looked(c, m) EXCEPT !.tasks[k] =
             [stage |-> "card", meter |-> m, register |-> register,
              key |-> Key(m, register), against |-> consumption]]

\* The card a full year of it raises, or takes down.
Offer(t) ==
  LET offer == MeteredAs(t.meter, t.register)
  IN IF offer = t.against THEN None ELSE [offer |-> offer, against |-> t.against]

\* The full year is in: the card is raised or taken down, and the days are asked for.
CardRead(s, k) ==
  LET t == co[s].tasks[k] IN
  /\ t.stage = "card"
  /\ co' = [co EXCEPT ![s] = AskDays([@ EXCEPT !.checked = t.key], k, t.meter, s)]
  /\ card' = IF Owns(s) THEN Offer(t) ELSE card
  /\ UNCHANGED <<world, consumption, day, entry, cur, file, several, flow, changes>>

\* It could not be read, which leaves the key for the next refresh.
CardFailed(s, k) ==
  LET t == co[s].tasks[k] IN
  /\ t.stage = "card"
  /\ co' = [co EXCEPT ![s] = AskDays(@, k, t.meter, s)]
  /\ UNCHANGED <<world, consumption, day, entry, cur, file, card, several, flow, changes>>

\* The days are in: they are held, and stored for the entry.
DaysRead(s, k) ==
  LET t == co[s].tasks[k]
      read == [meter |-> t.meter, day |-> t.day, register |-> t.register]
  IN /\ t.stage = "days"
     /\ co' = [co EXCEPT ![s] = After([@ EXCEPT !.held = read], k, s)]
     /\ file' = IF Owns(s) THEN read ELSE file
     /\ UNCHANGED <<world, consumption, day, entry, cur, card, several, flow, changes>>

\* An earlier read stands in for one that failed.
StandsIn(held, t) ==
  held.meter = t.meter /\ held.register = t.register /\ t.day - held.day <= Hold

\* The days could not be read: what was held when they were asked for stands in, or
\* nothing does.
DaysFailed(s, k) ==
  LET t == co[s].tasks[k]
      kept == IF t.held = None THEN TRUE ELSE StandsIn(t.held, t)
  IN /\ t.stage = "days"
     /\ co' = [co EXCEPT ![s] = After(IF kept THEN @ ELSE [@ EXCEPT !.held = None], k, s)]
     /\ UNCHANGED <<world, consumption, day, entry, cur, file, card, several, flow,
                    changes>>

\* The rest of the read: the year is folded and the figures are published.
Folded(s) ==
  /\ co[s].tasks.read.stage = "fold"
  /\ co' = [co EXCEPT ![s] =
       LET c == IF @.meter = None THEN @ ELSE Looked(@, @.meter)
       IN [c EXCEPT !.published = Figures(c), !.tasks.read = Idle]]
  /\ UNCHANGED <<world, consumption, day, entry, cur, file, card, several, flow, changes>>

\* _read_ytd up to its first query: the meter is resolved and its reads begin.
BeginRead(s) ==
  LET c == [co[s] EXCEPT !.meter = Resolved] IN
  /\ co[s].tasks.read = Idle
  /\ co' = [co EXCEPT ![s] =
       IF Resolved = None THEN After([c EXCEPT !.held = None], "read", s)
       ELSE AskCard(c, "read", Resolved, s)]
  /\ several' = IF Owns(s) THEN Len(listed) > 1 ELSE several
  /\ UNCHANGED <<world, consumption, day, entry, cur, file, card, flow, changes>>

\* The scheduled refresh, or one asked for, its fetch done.
Refresh(s) == Owns(s) /\ BeginRead(s)

\* _async_hourly_read, for a meter with no register.
HourlyRead(s) ==
  /\ Owns(s) /\ co[s].meter # None
  /\ ~SeesARegister(co[s], co[s].meter)
  /\ BeginRead(s)

\* async_read_meter_history: setup's background task begins.
BackgroundRead(s) ==
  /\ co[s].tasks.bg.stage = "new"
  /\ co' = [co EXCEPT ![s] =
       IF @.meter = None THEN [@ EXCEPT !.tasks.bg = Idle] ELSE AskCard(@, "bg", @.meter, s)]
  /\ UNCHANGED <<world, consumption, day, entry, cur, file, card, several, flow, changes>>

\* _recompute_live_ytd: a register's reading publishes the figures again.
LiveReading ==
  LET c == co[cur] IN
  /\ Owns(cur) /\ c.meter \in shown
  /\ co' = [co EXCEPT ![cur] =
       IF SeesARegister(c, c.meter) THEN [Looked(c, c.meter) EXCEPT !.published = Figures(c)]
       ELSE Looked(c, c.meter)]
  /\ UNCHANGED <<world, consumption, day, entry, cur, file, card, several, flow, changes>>

-----------------------------------------------------------------------------
(* The entry. *)

\* async_setup_entry: the stored days are adopted unless they are too old, the first
\* refresh leaves the meter's year out and the background task is to read it.
Setup ==
  LET s == CHOOSE x \in Slots : x # cur
      held == IF file = None THEN None ELSE IF day - file.day > Hold THEN None ELSE file
      c == [NewCoordinator EXCEPT !.held = held, !.meter = Resolved]
      first == IF Resolved = None THEN [c EXCEPT !.held = None]
               ELSE [Looked(c, Resolved) EXCEPT !.published = Figures(c),
                                                !.tasks.bg = [stage |-> "new"]]
  IN /\ entry = "unloaded" /\ ~Busy(co[s])
     /\ entry' = "loaded" /\ cur' = s
     /\ co' = [x \in Slots |-> IF x = s THEN first
                             ELSE IF Busy(co[x]) THEN co[x] ELSE NewCoordinator]
     /\ several' = (Len(listed) > 1)
     /\ UNCHANGED <<world, consumption, day, file, card, flow, changes>>

\* The coordinator is retired: its cards come down and its background task is
\* cancelled (_forget_coordinator). A refresh under way goes on; without one nothing
\* reads the coordinator again.
Retired ==
  /\ card' = None /\ several' = FALSE
  /\ co' = [co EXCEPT ![cur] = IF @.tasks.read = Idle THEN NewCoordinator
                               ELSE [@ EXCEPT !.tasks.bg = Idle]]

\* The entry is reloaded, by the user or for a new option.
Unload ==
  /\ entry = "loaded" /\ changes < MaxChanges
  /\ Retired
  /\ entry' = "unloaded" /\ changes' = changes + 1
  /\ UNCHANGED <<world, consumption, day, cur, file, flow>>

\* The entry is removed and its file with it.
Remove ==
  /\ entry = "loaded" /\ changes < MaxChanges
  /\ Retired
  /\ entry' = "removed" /\ file' = None /\ changes' = changes + 1
  /\ UNCHANGED <<world, consumption, day, cur, flow>>

\* Home Assistant stops and starts again: nothing but the file is left.
Restart ==
  /\ entry # "removed" /\ changes < MaxChanges
  /\ entry' = "unloaded" /\ co' = [s \in Slots |-> NewCoordinator]
  /\ card' = None /\ several' = FALSE /\ flow' = None
  /\ changes' = changes + 1
  /\ UNCHANGED <<world, consumption, day, cur, file>>

\* ProjectionOutdatedRepairFlow: the card is opened, and its offer confirmed, which
\* writes the option and reloads the entry.
OpenCard ==
  /\ card # None /\ flow = None /\ changes < MaxChanges
  /\ flow' = card.offer /\ changes' = changes + 1
  /\ UNCHANGED <<world, consumption, day, entry, cur, co, file, card, several>>

ConfirmCard ==
  /\ flow # None /\ flow' = None
  /\ \/ /\ entry = "removed"
        /\ UNCHANGED <<consumption, entry, card, several, co>>
     \/ /\ entry = "loaded"
        /\ consumption' = flow /\ Retired /\ entry' = "unloaded"
     \/ /\ entry = "unloaded"
        /\ consumption' = flow
        /\ UNCHANGED <<entry, card, several, co>>
  /\ UNCHANGED <<world, day, cur, file, changes>>

-----------------------------------------------------------------------------
(* The world outside (external). *)

DashboardChanges ==
  /\ changes < MaxChanges
  /\ listed' \in Dashboards \ {listed} /\ changes' = changes + 1
  /\ UNCHANGED <<shown, consumption, day, entry, cur, co, file, card,
                 several, flow>>

MeterComesOrGoes ==
  /\ changes < MaxChanges
  /\ \E m \in Meters : shown' = IF m \in shown THEN shown \ {m} ELSE shown \cup {m}
  /\ changes' = changes + 1
  /\ UNCHANGED <<listed, consumption, day, entry, cur, co, file, card,
                 several, flow>>

\* No read goes on past midnight.
NewDay ==
  /\ day < MaxDay
  /\ \A s \in Slots, k \in {"bg", "read"} : co[s].tasks[k].stage \in {"idle", "new"}
  /\ day' = day + 1
  /\ UNCHANGED <<world, consumption, entry, cur, co, file, card, several, flow, changes>>

Init ==
  /\ shown \in Reporting
  /\ listed \in Dashboards
  /\ consumption = Typed /\ day = 0
  /\ entry = "unloaded" /\ cur = 1 /\ co = [s \in Slots |-> NewCoordinator]
  /\ file = None /\ card = None /\ several = FALSE /\ flow = None /\ changes = 0

\* A query's answer, or its failure.
Answers(s, k) == CardRead(s, k) \/ CardFailed(s, k) \/ DaysRead(s, k) \/ DaysFailed(s, k)

Reads ==
  \E s \in Slots :
    \/ Refresh(s) \/ HourlyRead(s) \/ BackgroundRead(s) \/ Folded(s)
    \/ \E k \in {"bg", "read"} : Answers(s, k)

Next ==
  \/ Reads \/ LiveReading
  \/ Setup \/ Unload \/ Remove \/ Restart \/ OpenCard \/ ConfirmCard
  \/ DashboardChanges \/ MeterComesOrGoes \/ NewDay

\* Setup is retried, a fix flow is confirmed, refreshes follow on each other and go
\* through, those of a retired coordinator included, and the recorder does not fail
\* every time it is asked. Nothing is assumed of the background read.
Fairness ==
  /\ WF_vars(Setup) /\ WF_vars(ConfirmCard)
  /\ \A s \in Slots : WF_vars(Refresh(s) \/ Answers(s, "read") \/ Folded(s))
  /\ SF_vars(CardRead(cur, "read")) /\ SF_vars(DaysRead(cur, "read"))

Spec == Init /\ [][Next]_vars

FairSpec == Spec /\ Fairness

-----------------------------------------------------------------------------
(* Properties. *)

\* The projection's card is up only for a loaded entry and only against the option it
\* has, and a removed entry has left no card and no file, however late a read of its
\* coordinator lands (coordinator_meter.py, _owns_the_entry after each await).
CardSpeaksForTheEntry ==
  /\ card # None => entry = "loaded" /\ card.against = consumption
  /\ entry # "loaded" => ~several
  /\ entry = "removed" => file = None

\* Whatever landed late, once the household leaves it alone the entry publishes the
\* year of the meter the dashboard lists first, read for what it is, and the card
\* offers that meter's figure or is down; it need not wait for another day's read
\* (coordinator_meter.py, the keys of _metered and _projection_checked).
FiguresComeRight ==
  <>[](entry = "loaded" /\ Resolved \in shown =>
         LET c == co[cur] IN
         /\ c.published # None
         /\ c.published.meter = Resolved
         /\ c.published.register = (Resolved \notin Resetting)
         /\ IF Metered[Resolved] = consumption THEN card = None
            ELSE card = [offer |-> Metered[Resolved], against |-> consumption])

\* A refresh, whatever failed under it or landed beside it, ends on no read of the meter
\* that is older than one may stand in for (coordinator_meter.py, _METERED_HOLD).
NothingOldStandsIn ==
  \A s \in Slots :
    co[s].tasks.read.stage = "fold" /\ co[s].held # None => day - co[s].held.day <= Hold
=============================================================================
