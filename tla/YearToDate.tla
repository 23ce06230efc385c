----------------------------- MODULE YearToDate -----------------------------
(***************************************************************************)
(* The running year with the coordinator's awaits put back in              *)
(* (coordinator_ytd.py): a tick that reads the meter's history, asks the   *)
(* recorder and saves the record yields to the event loop between these,   *)
(* and a meter event handled meanwhile folds and publishes on its own.     *)
(* A crash loses everything but the Store's file.                          *)
(*                                                                         *)
(* Around it stand the meter (a register that water moves, that goes out   *)
(* of sight, shows a wrong value or is replaced) and Home Assistant's      *)
(* recorder, whose statistics trail the meter and whose query may fail.    *)
(* One meter with a register, and one household.                           *)
(*                                                                         *)
(* As in YtdFold, a definition that stands just before the one it is a     *)
(* variant of, and that no other uses, is a plausible mistake in the code. *)
(***************************************************************************)
EXTENDS YtdRounds

CONSTANTS
  Meter,           \* the entity of the meter
  Household,       \* who the bill is for, and the card
  FirstRegister,   \* what the register shows at the start
  FirstDrawn,      \* the water drawn by then in the first year
  NewRegister,     \* what a replacement register starts at
  Glitches,        \* the wrong values the meter may show
  MaxUnseen,       \* bound on the water drawn while the meter is out of sight
  Budgets          \* bounds on what happens around the coordinator, one of
                   \* which a behaviour keeps to

\* What a budget allows so many of: draws of water, wrong values shown,
\* replacements, failed queries, crashes and reloads, turns of the year.
Happenings == {"water", "glitches", "replacements", "failures", "crashes", "years"}

ASSUME YearToDateAssumption ==
  /\ Meter \in Meters
  /\ Household \in Households
  /\ FirstRegister \in Nat /\ FirstDrawn \in Nat /\ NewRegister \in Nat
  /\ Glitches \subseteq Int
  /\ MaxUnseen \in Nat
  /\ \A budget \in Budgets : budget \in [Happenings -> Nat]

VARIABLES
  register,   \* what the meter has measured
  shown,      \* the meter's state in Home Assistant, None while unavailable
  drawn,      \* the water really drawn, by year
  compiled,   \* the recorder's statistics of it, by year
  arbitrate,  \* self._ytd_arbitrate
  dirty,      \* self._cycle_dirty
  data,       \* self.data: [m3], the published figure; None before the first
  pc,         \* the await the running refresh is behind, "idle" without one
  tick,       \* what that refresh has read so far
  store,      \* the record in the Store's file, NoCycle before any
  delayed,    \* whether an async_delay_save is pending
  left        \* how much of the behaviour's budget is left

meterVars == <<register, shown, drawn, compiled>>
roundVars == <<ytd, pending, last_fold_at, recorder_ok>>
ownVars   == <<arbitrate, dirty, data, store, delayed>>
allvars   == <<vars, meterVars, ownVars, pc, tick, left>>

NoTick == [year |-> None, live |-> None, answer |-> None, m3 |-> None, saved |-> None]

Spend(what) ==
  /\ left[what] > 0
  /\ left' = [left EXCEPT ![what] = @ - 1]

\* The figure a fold of e hands back.
Outcome(e) == Fold(ytd, pending, e)

-----------------------------------------------------------------------------
(* Folding and publishing.                                                 *)

FoldAndForget(e, asked) ==
  /\ FoldCycle(e)
  /\ dirty' = (dirty \/ Compared(ytd') # Compared(ytd))
  /\ arbitrate' = asked

\* _fold_cycle, with what it marks: a changed record is dirty, and a round
\* that replaced the meter or wants the recorder asks for it.
FoldAndMark(e, asked) ==
  /\ FoldCycle(e)
  /\ dirty' = (dirty \/ Compared(ytd') # Compared(ytd))
  /\ arbitrate' = (asked \/ Outcome(e).swapped \/ Outcome(e).arbitrate)

\* _publish_ytd: nothing is published for nothing known or nothing changed;
\* a publication of an unsaved record arms the delayed save.
Publish(m3) ==
  IF m3 = None \/ m3 = data.m3
    THEN UNCHANGED <<data, delayed>>
    ELSE /\ data' = [m3 |-> m3]
         /\ delayed' = (delayed \/ dirty')

\* _recompute_live_ytd: the event of the meter's new state.
MeterEvent(state) ==
  IF data = None \/ state = None
    THEN UNCHANGED <<roundVars, arbitrate, dirty, data, delayed>>
    ELSE LET e == Evidence(year, Meter, state, Household, NoAnswer, recorder_ok)
         IN /\ FoldAndMark(e, arbitrate)
            /\ Publish(Outcome(e).m3)
            /\ UNCHANGED recorder_ok

\* Home Assistant sets the meter's state and runs the listener at once.
Show(state) ==
  /\ shown' = state
  /\ MeterEvent(state)
  /\ UNCHANGED <<store, pc, tick, clock, year>>

-----------------------------------------------------------------------------
(* The meter and the recorder.                                             *)

\* While the meter is in sight the statistics, and an answer read from them,
\* trail it by no more than the lag the code allows for (ytd_fold.py,
\* _RECORDER_LAG_M3).
Trail == IF shown = None THEN MaxUnseen ELSE Lag

Recorded ==
  IF tick.answer \in {None, NoAnswer} \/ tick.year # year
    THEN compiled[year] ELSE tick.answer.m3

Draw ==
  /\ drawn[year] - Recorded < Trail
  /\ Spend("water")
  /\ drawn' = [drawn EXCEPT ![year] = @ + 1]
  /\ register' = register + 1
  /\ Show(IF shown = None THEN None ELSE register')
  /\ UNCHANGED compiled

GoOutOfSight ==
  /\ shown # None
  /\ Show(None)
  /\ UNCHANGED <<register, drawn, compiled, left>>

\* The meter comes back, or corrects a value it showed wrongly.
ShowRegister ==
  /\ shown # register
  /\ Show(register)
  /\ UNCHANGED <<register, drawn, compiled, left>>

Glitch ==
  /\ Spend("glitches")
  /\ \E value \in Glitches \ {shown} : Show(value)
  /\ UNCHANGED <<register, drawn, compiled>>

\* A new register is fitted once the old one was seen at its last: Home
\* Assistant's statistics run through the replacement, and water no register
\* ever showed is nobody's.
Replace ==
  /\ shown = register \/ compiled = drawn
  /\ Spend("replacements")
  /\ register' = NewRegister
  /\ Show(NewRegister)
  /\ UNCHANGED <<drawn, compiled>>

\* The same reading reported again, an attribute of the meter moved.
Report ==
  /\ shown # None
  /\ Show(shown)
  /\ UNCHANGED <<register, drawn, compiled, left>>

\* Statistics are compiled from what the meter has shown.
Compile ==
  /\ shown = register
  /\ compiled # drawn
  /\ compiled' = drawn
  /\ UNCHANGED <<vars, register, shown, drawn, ownVars, pc, tick, left>>

\* The meter is in sight at midnight: water drawn before it and shown after it
\* would be the new year's to Home Assistant, and the old one's to the bill.
\* No tick lasts a year.
Turn ==
  /\ shown # None
  /\ tick.year \in {None, year}
  /\ Spend("years")
  /\ NewYear
  /\ UNCHANGED <<meterVars, ownVars, pc, tick>>

Wait ==
  /\ PassTime
  /\ UNCHANGED <<meterVars, ownVars, pc, tick, left>>

-----------------------------------------------------------------------------
(* The tick: _compute_ytd, which holds the lock, and _read_ytd.            *)

\* The meter is resolved and its history read, behind an await.
TickStart ==
  /\ pc = "idle"
  /\ pc' = "history"
  /\ tick' = NoTick
  /\ UNCHANGED <<vars, meterVars, ownVars, left>>

AsksNobodyElse(reading) == ~AnswersAlone(Meter, reading)

\* Whether the tick puts a question to the recorder.
Asks(reading) == ~AnswersAlone(Meter, reading) \/ arbitrate

AfterFoldKeepsDelayed(m3, y) ==
  IF dirty \/ Compared(ytd') # Compared(ytd)
    THEN /\ pc' = "save"
         /\ tick' = [NoTick EXCEPT !.year = y, !.m3 = m3, !.saved = ytd']
         /\ dirty' = FALSE
         /\ UNCHANGED <<data, delayed>>
    ELSE /\ pc' = "idle"
         /\ tick' = NoTick
         /\ data' = [m3 |-> m3]
         /\ UNCHANGED <<dirty, delayed>>

\* The end of a fold of the tick: the record is saved if it changed, or the
\* refresh returns its figures.
AfterFold(m3, y) ==
  IF dirty \/ Compared(ytd') # Compared(ytd)
    THEN /\ pc' = "save"
         /\ tick' = [NoTick EXCEPT !.year = y, !.m3 = m3, !.saved = ytd']
         /\ dirty' = FALSE
         /\ delayed' = FALSE
         /\ UNCHANGED data
    ELSE /\ pc' = "idle"
         /\ tick' = NoTick
         /\ data' = [m3 |-> m3]
         /\ UNCHANGED <<dirty, delayed>>

\* The record answers on its own: the tick folds the reading at once.
TickUnasked ==
  /\ pc = "history"
  /\ ~Asks(shown)
  /\ LET e == Evidence(year, Meter, shown, Household, NoAnswer, None)
     IN /\ recorder_ok' = None
        /\ FoldCycle(e)
        /\ arbitrate' = (arbitrate \/ Outcome(e).swapped \/ Outcome(e).arbitrate)
        /\ AfterFold(Outcome(e).m3, year)
  /\ UNCHANGED <<meterVars, store, left, clock, year>>

\* It does not: the tick notes the year and asks, behind an await.
TickAsks ==
  /\ pc = "history"
  /\ Asks(shown)
  /\ arbitrate' = FALSE
  /\ pc' = "query"
  /\ tick' = [tick EXCEPT !.year = year, !.live = shown]
  /\ UNCHANGED <<vars, meterVars, dirty, data, store, delayed, left>>

\* The recorder's executor reads the statistics of the tick's year.
RecorderAnswers ==
  /\ pc = "query"
  /\ tick.answer = None
  /\ tick' = [tick EXCEPT !.answer =
                [m3 |-> compiled[tick.year], taken_back |-> 0, has_statistic |-> TRUE]]
  /\ UNCHANGED <<vars, meterVars, ownVars, pc, left>>

QueryFails ==
  /\ pc = "query"
  /\ tick.answer = None
  /\ Spend("failures")
  /\ tick' = [tick EXCEPT !.answer = NoAnswer]
  /\ UNCHANGED <<vars, meterVars, ownVars, pc>>

TickReadingBefore == tick.live

\* The reading the meter shows as the tick folds the recorder's answer.
TickReading == shown

\* Back from the query the meter is read again, and the round is folded.
TickFold ==
  /\ pc = "query"
  /\ tick.answer # None
  /\ LET ok == tick.answer # NoAnswer
         e  == Evidence(tick.year, Meter, TickReading, Household, tick.answer, ok)
     IN /\ recorder_ok' = ok
        /\ FoldCycle(e)
        /\ arbitrate' = (arbitrate \/ Outcome(e).swapped \/ Outcome(e).arbitrate)
        /\ AfterFold(Outcome(e).m3, tick.year)
  /\ UNCHANGED <<meterVars, store, left, clock, year>>

TickSavedStale ==
  /\ pc = "save"
  /\ store' = tick.saved
  /\ pc' = "idle"
  /\ tick' = NoTick
  /\ data' = [m3 |-> tick.m3]
  /\ UNCHANGED <<roundVars, arbitrate, dirty, delayed, meterVars, left, clock, year>>

TickSavedClean ==
  /\ pc = "save"
  /\ store' = tick.saved
  /\ pc' = "idle"
  /\ tick' = NoTick
  /\ data' = [m3 |-> ytd.m3]
  /\ dirty' = FALSE
  /\ UNCHANGED <<roundVars, arbitrate, delayed, meterVars, left, clock, year>>

\* The save is written.  A meter event handled meanwhile moved the record on,
\* and then the tick publishes the record as it stands.
TickSaved ==
  /\ pc = "save"
  /\ store' = tick.saved
  /\ pc' = "idle"
  /\ tick' = NoTick
  /\ IF Compared(ytd) = Compared(tick.saved)
       THEN /\ data' = [m3 |-> tick.m3]
            /\ UNCHANGED <<roundVars, arbitrate, dirty>>
       ELSE LET e == Evidence(tick.year, Meter, None, Household, NoAnswer, recorder_ok)
            IN /\ FoldAndMark(e, arbitrate)
               /\ data' = [m3 |-> Outcome(e).m3]
               /\ UNCHANGED recorder_ok
  /\ UNCHANGED <<delayed, meterVars, left, clock, year>>

\* The delayed save fires; the Store writes one file at a time.
DelayedSave ==
  /\ delayed
  /\ pc # "save"
  /\ store' = ytd
  /\ delayed' = FALSE
  /\ UNCHANGED <<vars, meterVars, arbitrate, dirty, data, pc, tick, left>>

-----------------------------------------------------------------------------
(* The coordinator's end and its successor.                                *)

LoadKeepsHolds(cycle) ==
  /\ ytd' = cycle
  /\ arbitrate' = (cycle.started_at # None /\ cycle.recorder_hwm = None)
  /\ dirty' = FALSE
  /\ data' = None
  /\ delayed' = FALSE
  /\ pc' = "idle"
  /\ tick' = NoTick
  /\ UNCHANGED <<pending, last_fold_at, recorder_ok, meterVars, clock, year>>

\* async_load_ytd_state in a new coordinator.  A record that shows a swap the
\* recorder has not spoken for since is put to it.
Load(cycle) ==
  /\ ytd' = cycle
  /\ pending' = NothingHeld
  /\ last_fold_at' = None
  /\ recorder_ok' = None
  /\ arbitrate' = (cycle.started_at # None /\ cycle.recorder_hwm = None)
  /\ dirty' = FALSE
  /\ data' = None
  /\ delayed' = FALSE
  /\ pc' = "idle"
  /\ tick' = NoTick
  /\ UNCHANGED <<meterVars, clock, year>>

\* A reload: the live subscription ends, then async_save_ytd_state flushes
\* what no save has written, and setup loads it again.
Unload ==
  /\ Spend("crashes")
  /\ pc = "idle"
  /\ data # None
  /\ store' = IF dirty THEN ytd ELSE store
  /\ Load(store')

\* Home Assistant dies: a save that was being written may be on disk or not.
Crash ==
  /\ Spend("crashes")
  /\ store' \in {store} \cup (IF pc = "save" THEN {tick.saved} ELSE {})
  /\ Load(store')

-----------------------------------------------------------------------------
YTDInit ==
  /\ Init
  /\ register = FirstRegister
  /\ shown \in {None, FirstRegister}
  /\ drawn = [y \in Years |-> IF y = year THEN FirstDrawn ELSE 0]
  /\ compiled = drawn
  /\ arbitrate = FALSE
  /\ dirty = FALSE
  /\ data = None
  /\ pc = "idle"
  /\ tick = NoTick
  /\ store = NoCycle
  /\ delayed = FALSE
  /\ left \in Budgets

Environment ==
  Draw \/ GoOutOfSight \/ ShowRegister \/ Glitch \/ Replace \/ Report \/ Turn \/ Wait

Tick ==
  TickStart \/ TickUnasked \/ TickAsks \/ RecorderAnswers \/ QueryFails
    \/ TickFold \/ TickSaved

YTDNext == Environment \/ Compile \/ Tick \/ DelayedSave \/ Unload \/ Crash

YTDSpec == YTDInit /\ [][YTDNext]_allvars

\* The tick leaves the await it is behind.
TickMoves ==
  \/ pc = "idle" /\ pc' = "history"
  \/ pc = "history" /\ pc' \in {"idle", "query", "save"}
  \/ pc = "query" /\ tick.answer # None /\ pc' \in {"idle", "save"}
  \/ pc = "save" /\ pc' = "idle"

\* The daily timer comes round and every await ends; statistics are compiled
\* every five minutes while the meter is in sight.  Nothing is asked of the
\* meter, and nothing of how often a query succeeds.
Fairness ==
  /\ WF_pc(TickMoves)
  /\ WF_allvars(RecorderAnswers)
  /\ WF_allvars(Compile)

FairSpec == YTDSpec /\ Fairness

-----------------------------------------------------------------------------
(* What the coordinator promises.                                          *)

\* The published figure is the record's, except while a tick's save is being
\* written: no await lets an older figure overwrite the one a meter event
\* published, and none is published that the record does not hold.
PublishedIsTheRecord ==
  (pc # "save" /\ data # None) => data.m3 \in {None, ytd.m3}

\* A record that is not marked dirty is in the file, or on its way there, and no
\* delayed save stands behind it: an update that lands while a save is being written
\* is not taken for saved, and the flush of an unload cancels what could write the
\* file after the entry is gone (coordinator_ytd.py, _read_ytd and
\* async_save_ytd_state).
CleanIsSaved ==
  ~dirty =>
    /\ ~delayed
    /\ Compared(ytd) = Compared(IF pc = "save" THEN tick.saved ELSE store)

\* The year never counts more water than was drawn in it, whatever is read,
\* lost, delayed, replaced, crashed or folded in between, while what the meter
\* shows wrongly lies further off than the step bound.  (A tick that crosses
\* midnight may count the closing year a draw of its last seconds more; the
\* year in progress never.)
NeverOverbills == ytd.year = year => ytd.m3 <= drawn[year]

\* The rounds are those of YtdRounds: awaits add no behaviour to the record
\* but a fall back to what was saved.
AtomicRounds == INSTANCE YtdRounds WITH Records <- {c \in Cycles : WellDated(c)}
ImplementsRounds == AtomicRounds!Spec

\* Every year, the one a replaced meter restarted included, keeps coming back
\* to what the recorder holds (README.md, "A swap holds the figure at 0 only
\* until the next daily tick"), within the lag the answer it was framed on may
\* have had and the lag of the statistics since.
ComesBackToTheRecorder ==
  []<>(ytd.year = year /\ ytd.m3 # None /\ ytd.m3 + 2 * Lag >= compiled[year])

\* A question a round put to the recorder is asked, unless a restart loses it
\* first (coordinator.py, _ytd_arbitrate); a coordinator that has published
\* nothing yet is one just loaded.
QuestionsAreAsked == arbitrate ~> (pc = "query" \/ data = None)
=============================================================================
