---------------------------- MODULE PriceBackfill ---------------------------
(***************************************************************************)
(* The price sensors' flat line (statistics.py, async_maybe_backfill_once  *)
(* and async_backfill_prices): the gate that says what the line was        *)
(* written for, the runs that setup and the refreshes start, the cleanup   *)
(* of an operator's leftovers, and the recorder that compiles the same     *)
(* hours.                                                                  *)
(*                                                                         *)
(* The rates a row carries are named by what they come off: the place (the *)
(* operator and the commune) and the card. Hours count from 1 January. A   *)
(* run takes its keys in any order; the code takes them in that of SENSORS.*)
(***************************************************************************)
EXTENDS Integers

CONSTANTS Places,      \* records [utility, commune] an entry may be set up for
          Cards,       \* the years of the cards, later ones above
          From,        \* From[c]: the first hour card c is valid in
          Keys,        \* _BACKFILL_KEYS
          Produces,    \* Produces[u]: the keys operator u has a rate for
          Ticks,       \* refreshes whose task may be about at once
          Hours,       \* bound: the hours that pass
          MaxRefreshes, MaxChanges, MaxCrashes, MaxFails,   \* bounds
          Overlaps,    \* TRUE: a run may start beside another, or just after the entry changed
          Live,        \* a row the recorder compiled from the sensor
          None

Callers == Ticks \cup {"setup"}
HourSet == 0 .. Hours - 1
Utilities == {p.utility : p \in Places}
Rates == [place : Places, card : Cards]

\* What the constants are; MCParts assumes it of its values.
PriceAssumption ==
  /\ Cards \subseteq Nat /\ From \in [Cards -> Nat] /\ Hours \in Nat \ {0}
  /\ Produces \in [Utilities -> SUBSET Keys]
  /\ Overlaps \in BOOLEAN /\ "setup" \notin Ticks
  /\ {MaxRefreshes, MaxChanges, MaxCrashes, MaxFails} \subseteq Nat
  /\ Live # None /\ {Live, None} \cap Rates = {}
  /\ None \notin [place : Places, card : Cards, stale : BOOLEAN]

VARIABLES
  place,       \* the entry's operator and commune
  gate,        \* DATA_BACKFILL_YEAR of entry.data, or None
  state,       \* of the entry: "down", "setup" or "loaded"
  reload,      \* the entry's update listener has a reload to make
  newest,      \* newest[p]: the newest card ever published for place p, 0 before one
  data,        \* the data of the coordinator the entry holds, None without one
  registered,  \* keys with an entity in the registry
  ended, compiled,  \* hours that ended, and of those the recorder compiled
  line,        \* line[k][h]: the row of hour h, Live or the rates imported
  older,       \* keys whose statistics hold rows from before the year
  lost,        \* hours the recorder rolled back
  cut,         \* a crash cut off the writing of an entry never stamped
  pc, job,     \* per caller: the await its run is behind, and its locals
  left         \* what is left of the bounds

entry == <<place, gate, state, reload, newest, data, registered>>
recorder == <<ended, compiled, line, older, lost, cut>>
tasks == <<pc, job>>
vars == <<entry, recorder, tasks, left>>

NoJob == [gate |-> None, data |-> None, end |-> 0, todo |-> {}]
Busy(t) == pc[t] \notin {"idle", "due"}

Init ==
  /\ place \in Places
  /\ \E c \in Cards : gate \in {None, [place |-> place, card |-> c]}
  /\ state = "down" /\ reload = FALSE /\ data = None
  /\ newest = [p \in Places |-> IF gate # None /\ p = place THEN gate.card ELSE 0]
  /\ registered \in {{}, Produces[place.utility]}
  /\ ended \in {0, 1} /\ compiled = ended
  /\ line = [k \in Keys |-> [h \in HourSet |-> None]]
  /\ older \in {{}, Keys}
  /\ lost = {} /\ cut = FALSE
  /\ pc = [t \in Callers |-> "idle"] /\ job = [t \in Callers |-> NoJob]
  /\ left = [refresh |-> MaxRefreshes, change |-> MaxChanges, crash |-> MaxCrashes, fail |-> MaxFails]

-----------------------------------------------------------------------------
(* The recorder. *)

HourEnds ==
  /\ ended < Hours
  /\ ended' = ended + 1
  /\ UNCHANGED <<entry, compiled, line, older, lost, cut, tasks, left>>

\* An hour's rows are inserted: one already there makes the insert fail, and
\* the recorder rolls the hour back for every entity (_async_compiled_until).
Compile ==
  /\ compiled < ended
  /\ compiled' = compiled + 1
  /\ \/ /\ \E k \in Keys : line[k][compiled] # None
        /\ lost' = lost \cup {compiled}
        /\ UNCHANGED line
     \/ /\ \A k \in Keys : line[k][compiled] = None
        /\ line' = [k \in Keys |->
                      IF state = "loaded" /\ k \in registered
                      THEN [line[k] EXCEPT ![compiled] = Live] ELSE line[k]]
        /\ UNCHANGED lost
  /\ UNCHANGED <<entry, ended, older, cut, tasks, left>>

-----------------------------------------------------------------------------
(* The entry. *)

\* The coordinator publishes a card, never one older than the last, which its
\* store keeps over a restart; a stale one is served while a newer one is due.
Publish(p) ==
  \E c \in {d \in Cards : d >= newest[p]}, stale \in BOOLEAN :
    /\ data' = [place |-> p, card |-> c, stale |-> stale]
    /\ newest' = [newest EXCEPT ![p] = c]

\* Mutant: the entities without a rate are dropped before the run, not after it.
SweptAtSetup == Produces[place.utility]

\* The platforms add the operator's entities to those of the registry.
AddedAtSetup == registered \cup Produces[place.utility]

\* Setup: the first refresh, the platforms with the entities of this operator,
\* then a run of its own.
SetupStarts ==
  /\ state = "down"
  /\ pc["setup"] = "idle"
  /\ state' = "setup"
  /\ Publish(place)
  /\ registered' = AddedAtSetup
  /\ pc' = [pc EXCEPT !["setup"] = "due"]
  /\ reload' = FALSE
  /\ UNCHANGED <<place, gate, recorder, job, left>>

\* Setup goes on once its run is over, and drops the entities the operator has
\* no rate for (async_remove_inapplicable_entities).
SetupDone ==
  /\ state = "setup"
  /\ pc["setup"] = "idle"
  /\ state' = "loaded"
  /\ registered' = registered \cap Produces[place.utility]
  /\ UNCHANGED <<place, gate, reload, newest, data, recorder, tasks, left>>

\* A refresh publishes and leaves a task of Home Assistant's own behind:
\* unloading does not cancel it.
Refresh(t) ==
  /\ state = "loaded"
  /\ pc[t] = "idle"
  /\ left.refresh > 0
  /\ left' = [left EXCEPT !.refresh = @ - 1]
  /\ Publish(data.place)
  /\ pc' = [pc EXCEPT ![t] = "due"]
  /\ UNCHANGED <<place, gate, state, reload, registered, recorder, job>>

\* The household is reconfigured, or picks another commune.
Reconfigure ==
  /\ state = "loaded"
  /\ left.change > 0
  /\ left' = [left EXCEPT !.change = @ - 1]
  /\ place' \in Places \ {place}
  /\ reload' = TRUE
  /\ UNCHANGED <<gate, state, newest, data, registered, recorder, tasks>>

Unload ==
  /\ state = "loaded" /\ reload
  /\ state' = "down" /\ data' = None
  /\ UNCHANGED <<place, gate, reload, newest, registered, recorder, tasks, left>>

Crash ==
  /\ left.crash > 0
  /\ cut' = (cut \/ (gate = None /\ \E t \in Callers : pc[t] = "rows"))
  /\ left' = [left EXCEPT !.crash = @ - 1]
  /\ state' = "down" /\ data' = None /\ reload' = FALSE
  /\ pc' = [t \in Callers |-> "idle"] /\ job' = [t \in Callers |-> NoJob]
  /\ UNCHANGED <<place, gate, newest, registered, ended, compiled, line, older, lost>>

-----------------------------------------------------------------------------
(* A run: one action for every stretch between two awaits. *)

\* The gate of what the entry and its coordinator hold now.
GateNow == [place |-> place, card |-> IF data = None THEN None ELSE data.card]

Ends(t) == pc' = [pc EXCEPT ![t] = "idle"] /\ job' = [job EXCEPT ![t] = NoJob]

\* A stale card defers the run, its gate unstamped.
Defers == IF data = None THEN TRUE ELSE data.stale

\* The card in hand is what will be written, whatever is published meanwhile.
Prepare(t, j) ==
  IF Defers THEN Ends(t)
  ELSE /\ pc' = [pc EXCEPT ![t] = "until"]
       /\ job' = [job EXCEPT ![t] = [j EXCEPT !.data = data]]

\* The keys the operator left has rows of and this one has no rate for.
Orphans == (Keys \cap registered) \ Produces[data.place.utility]

MovedOperator == gate # None /\ gate.place.utility # place.utility

\* No other run is under way, and the coordinator is of the entry as it is.
Alone == (\A u \in Callers : ~Busy(u)) /\ (data # None => data.place = place)

\* The gate is computed once, before anything is awaited.
Begin(t) ==
  /\ pc[t] = "due"
  /\ ~Overlaps => Alone
  /\ LET j == [NoJob EXCEPT !.gate = GateNow]
     IN \/ gate = GateNow /\ Ends(t)
        \/ /\ gate # GateNow /\ MovedOperator /\ data # None
           /\ Orphans # {}
           /\ pc' = [pc EXCEPT ![t] = "orphans"]
           /\ job' = [job EXCEPT ![t] = [j EXCEPT !.todo = Orphans]]
        \/ /\ gate # GateNow
           /\ ~(MovedOperator /\ data # None /\ Orphans # {})
           /\ Prepare(t, j)
  /\ UNCHANGED <<entry, recorder, left>>

\* A key is cleared when the recorder says that all its rows are this year's.
Clears(k, told) == told /\ k \notin older

\* The cleanup's question about its next key is answered, or fails and the key
\* is kept; after the last one the run goes on.
CleanOrphan(t) ==
  /\ pc[t] = "orphans"
  /\ \E k \in job[t].todo :
     LET rest == [job[t] EXCEPT !.todo = @ \ {k}]
     IN /\ \E told \in {TRUE} \cup (IF left.fail > 0 THEN {FALSE} ELSE {}) :
             /\ left' = [left EXCEPT !.fail = IF told THEN @ ELSE @ - 1]
             /\ IF Clears(k, told)
                THEN line' = [line EXCEPT ![k] = [h \in HourSet |-> None]]
                ELSE UNCHANGED line
        /\ \/ /\ rest.todo # {}
              /\ job' = [job EXCEPT ![t] = rest] /\ UNCHANGED pc
           \/ rest.todo = {} /\ Prepare(t, rest)
  /\ UNCHANGED <<entry, ended, compiled, older, lost, cut>>

\* Mutant: every hour the clock has ended is taken to be compiled.
CompiledUntilByTheClock == ended

\* The end of the newest hour the recorder has compiled.
CompiledUntil == compiled

\* The window is known: from the card's first hour to the end. Nothing to write
\* ends the run, its gate unstamped.
Plan(t, end) ==
  LET keys == registered \cap Produces[job[t].data.place.utility]
  IN \/ (end <= From[job[t].data.card] \/ keys = {}) /\ Ends(t)
     \/ /\ end > From[job[t].data.card] /\ keys # {}
        /\ pc' = [pc EXCEPT ![t] = "rows"]
        /\ job' = [job EXCEPT ![t] = [@ EXCEPT !.end = end, !.todo = keys]]

ReadMarker(t) ==
  /\ pc[t] = "until"
  /\ Plan(t, CompiledUntil)
  /\ UNCHANGED <<entry, recorder, left>>

\* Without the marker the recorder is taken to be on time, which is assumed.
MarkerUnread(t) ==
  /\ pc[t] = "until"
  /\ left.fail > 0
  /\ left' = [left EXCEPT !.fail = @ - 1]
  /\ compiled >= ended - 1
  /\ Plan(t, ended - 1)
  /\ UNCHANGED <<entry, recorder>>

\* Mutant: the gate is taken afresh when it is stamped.
StampedLate(t) == GateNow

\* What the gate is stamped with: what it was before the awaits.
Stamped(t) == job[t].gate

\* The rows of one sensor are handed over, after the yields that building them
\* takes; after the last sensor the gate is stamped at once, which reloads the
\* entry through its update listener.
WriteKey(t) ==
  /\ pc[t] = "rows"
  /\ \E k \in job[t].todo :
     LET d == job[t].data
         rates == [place |-> d.place, card |-> d.card]
     IN /\ line' = [line EXCEPT ![k] = [h \in HourSet |->
                      IF h \in From[d.card] .. job[t].end - 1 THEN rates ELSE @[h]]]
        /\ \/ /\ job[t].todo # {k}
              /\ job' = [job EXCEPT ![t].todo = @ \ {k}]
              /\ UNCHANGED <<gate, reload, pc>>
           \/ /\ job[t].todo = {k}
              /\ gate' = Stamped(t)
              /\ reload' = (state # "down")
              /\ Ends(t)
  /\ UNCHANGED <<place, state, newest, data, registered, ended, compiled, older, lost, cut, left>>

Next ==
  \/ HourEnds \/ Compile
  \/ SetupStarts \/ SetupDone \/ Reconfigure \/ Unload \/ Crash
  \/ \E t \in Ticks : Refresh(t)
  \/ \E t \in Callers :
       Begin(t) \/ CleanOrphan(t) \/ ReadMarker(t) \/ MarkerUnread(t) \/ WriteKey(t)

\* The bounds are spent and everything is at rest.
Done ==
  /\ ended = Hours /\ compiled = ended /\ left.refresh = 0
  /\ state = "loaded" /\ ~reload
  /\ \A t \in Callers : pc[t] = "idle"
  /\ UNCHANGED vars

Spec == Init /\ [][Next \/ Done]_vars

-----------------------------------------------------------------------------
(* Properties. *)

\* What the coordinator shows is settled: the gate is stamped for it, nothing is
\* under way that would move either.
Settled ==
  /\ state = "loaded" /\ ~reload /\ data # None /\ ~data.stale
  /\ gate = GateNow
  /\ \A t \in Callers : pc[t] = "idle"

Answered == left.fail = MaxFails

\* A stamped gate tells the truth: over the hours of the gate's own card the line
\* holds no rates but that card's, for that place. A run of the gate is never
\* made again, so a wrong row under it would stay for the year (statistics.py,
\* async_maybe_backfill_once). A run without the marker stops an hour early,
\* and leaves the rates of the run before it there.
StampedLineIsRight ==
  Settled /\ Answered => \A k \in Keys \cap Produces[place.utility] :
    \A h \in HourSet : h >= From[gate.card] =>
      line[k][h] \in {None, Live, [place |-> place, card |-> gate.card]}

\* No hour is written before the recorder compiled it: none is rolled back.
NothingLost == lost = {}

\* An operator leaves no line behind for a rate the next one does not have,
\* where the recorder answered and holds nothing from earlier years. What a crash
\* cut off before the entry was ever stamped is excused: the gate does not say whose
\* rows they are.
NothingLeftBehind ==
  Settled /\ Answered /\ ~cut =>
    \A k \in Keys \ (Produces[place.utility] \cup older) :
      \A h \in HourSet : line[k][h] \in {None, Live}
=============================================================================
