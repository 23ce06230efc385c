------------------------------ MODULE YtdFold ------------------------------
(***************************************************************************)
(* The rule of the running year: ytd_fold.py, which folds one round of     *)
(* evidence about the water meter into the persisted cycle and says what   *)
(* to publish.  The rule is pure, so it is a set of operators; the modules *)
(* that keep its answer are YtdRounds and YearToDate.                      *)
(*                                                                         *)
(* Volumes are whole units of m3 and times whole units of time, so the     *)
(* 1e-6 the code allows for binary residue is zero here.  A figure that is *)
(* not known is None.                                                      *)
(*                                                                         *)
(* A definition that stands just before the one it is a variant of, and    *)
(* that no other uses, is a plausible mistake in that code; the runs must  *)
(* tell it from the real one.                                              *)
(***************************************************************************)
EXTENDS Integers, FiniteSetsExt

CONSTANTS
  None,            \* Python's None: no reading, no frame, no figure
  SwapReadings,    \* _SWAP_CONFIRM_READINGS
  SwapSpan,        \* _SWAP_CONFIRM_SPAN_S, in units of time
  Jump,            \* _IMPLAUSIBLE_JUMP_M3
  MaxStep,         \* _MAX_STEP_M3
  AwayRate,        \* _AWAY_M3_PER_DAY, in m3 per unit of time
  Lag              \* _RECORDER_LAG_M3

ASSUME NoneAssumption == None \notin Int
ASSUME BoundsAssumption ==
  /\ SwapReadings \in Nat /\ SwapReadings >= 2
  /\ {SwapSpan, Jump, MaxStep, AwayRate, Lag} \subseteq Nat

Opt(S) == S \cup {None}

\* [figure for figure in (...) if figure is not None]
Known(S) == S \ {None}

Distance(a, b) == IF a >= b THEN a - b ELSE b - a

NonNegative(n) == IF n >= 0 THEN n ELSE 0

-----------------------------------------------------------------------------
(* The records.                                                            *)

\* _YtdCycle(meter=meter): a record that knows nothing but its meter.
FreshCycle(meter) ==
  [meter |-> meter, year |-> None, m3 |-> None, cost |-> None,
   offset_m3 |-> None, basis |-> None, recorder_hwm |-> None,
   seen_at |-> None, started_at |-> None]

\* What the coordinator holds between rounds and never persists.
NothingHeld ==
  [hold_m3 |-> None, hold_run |-> 0, hold_span |-> 0,
   run_m3 |-> None, high_m3 |-> None]

\* cost_of(m3): the bill of the volume on the card in force, or None when
\* that card cannot price the household.
Bill(price, m3) == IF price = None THEN None ELSE price.rate * m3 + price.fee

\* What one report may add: the ordinary bound plus what the household could
\* have drawn while the meter was out of sight.
StepBound(seen_at, now) ==
  MaxStep + (IF seen_at = None THEN 0 ELSE NonNegative(now - seen_at)) * AwayRate

-----------------------------------------------------------------------------
(* The round, as a record that is carried through the stages of the code.  *)

\* The year's own start: the old cycle's unless the year is another, and now
\* for a record without a year whose meter the recorder holds nothing for.
StartedAtEveryBlank(c, e) ==
  IF ~e.has_statistic THEN e.now
  ELSE IF c.year = e.year THEN c.started_at ELSE None

StartedAtJanuary(c, e) == IF c.year = e.year THEN c.started_at ELSE None

StartedAt(c, e) ==
  IF c.year = None /\ ~e.has_statistic THEN e.now
  ELSE IF c.year = e.year THEN c.started_at ELSE None

\* What the year has published, for a record of the year in hand.
Mark(c, e) == IF c.year = e.year THEN c.m3 ELSE None

Opening(cycle, pending, e) ==
  LET c       == IF cycle.meter = e.meter THEN cycle ELSE FreshCycle(e.meter)
      current == c.year = e.year
      mark    == Mark(c, e)
      offset  == IF current THEN c.offset_m3 ELSE None
      seen    == Known({mark, e.recorder_m3})
      held    == IF current THEN pending
                 ELSE [NothingHeld EXCEPT !.run_m3 = pending.run_m3]
  IN [mark         |-> mark,
      floor        |-> IF current /\ c.basis = e.basis THEN c.cost ELSE None,
      offset_m3    |-> offset,
      recorder_hwm |-> IF current THEN c.recorder_hwm ELSE None,
      started_at   |-> StartedAt(c, e),
      seen_at      |-> c.seen_at,
      held         |-> held,
      candidate    |-> None,
      swapped      |-> FALSE,
      arbitrate    |-> FALSE,
      seen         |-> seen,
      bar          |-> IF offset # None THEN offset
                       ELSE IF seen # {} THEN Max(seen) ELSE None,
      step_bound   |-> StepBound(c.seen_at, e.now),
      was_high     |-> held.high_m3,
      after_swap   |-> current /\ c.started_at # None,
      known_meter  |-> c.year # None]

\* An honest reading ends the run of low ones.
EndRunKept(held) == held

EndRun(held) == [held EXCEPT !.hold_run = 0, !.hold_span = 0]

\* A low reading joins the run it stands near, or starts one of its own.
CountLow(held, e) ==
  LET joins == /\ held.hold_run # 0
               /\ held.run_m3 # None
               /\ Distance(e.reading, held.run_m3) <= Jump
  IN IF joins
       THEN [held EXCEPT !.hold_m3 = None, !.hold_run = @ + 1,
                         !.hold_span = @ + NonNegative(e.elapsed)]
       ELSE [held EXCEPT !.hold_m3 = None, !.hold_run = 1, !.hold_span = 0,
                         !.run_m3 = e.reading]

ReframedUnspoken(r, e) ==
  [r EXCEPT !.offset_m3 = e.reading - Max(r.seen), !.arbitrate = TRUE,
            !.recorder_hwm = None]

\* A frame built too high gives way under a sustained lower reading.
Reframed(r, e) ==
  [r EXCEPT !.offset_m3 = e.reading - Max(r.seen), !.arbitrate = TRUE]

\* The register is a new one: the year restarts on it.
Replaced(r, e) ==
  [r EXCEPT !.swapped = TRUE, !.started_at = e.now, !.offset_m3 = e.reading,
            !.mark = 0, !.floor = None, !.candidate = 0,
            !.recorder_hwm = None]

BelowBar(r, e) ==
  LET held == CountLow(r.held, e)
      low  == [r EXCEPT !.held = held]
      done == [r EXCEPT !.held = [EndRun(held) EXCEPT !.high_m3 = e.reading]]
      served_by_recorder == r.offset_m3 = None /\ r.recorder_hwm # None
  IN IF held.hold_run < SwapReadings \/ held.hold_span < SwapSpan THEN low
     ELSE IF r.seen # {} /\ (e.reading >= Max(r.seen) \/ served_by_recorder)
       THEN Reframed(done, e)
       ELSE Replaced(done, e)

BuildFrameUnread(r, e) ==
  LET ended == [r EXCEPT !.held = EndRun(@)]
  IN IF r.seen # {}
       THEN [ended EXCEPT
               !.offset_m3 = e.reading - Max(r.seen),
               !.candidate = Max(r.seen),
               !.arbitrate = e.recorder_m3 # None \/ r.recorder_hwm # None]
       ELSE [ended EXCEPT !.offset_m3 = e.reading, !.candidate = 0]

\* No frame this year yet, and the reading clears the bar.
BuildFrame(r, e) ==
  LET ended == [r EXCEPT !.held = EndRun(@)]
  IN IF r.seen # {}
       THEN [ended EXCEPT
               !.offset_m3 = e.reading - Max(r.seen),
               !.candidate = Max(r.seen),
               !.arbitrate = e.recorder_m3 # None \/ r.recorder_hwm # None]
     ELSE IF r.known_meter /\ e.recorder_ok # FALSE
       THEN [ended EXCEPT !.offset_m3 = e.reading, !.candidate = 0]
       ELSE ended

InFrameOnSight(r, e) ==
  [r EXCEPT !.held = [EndRun(@) EXCEPT !.hold_m3 = None],
            !.candidate = e.reading - r.offset_m3]

\* A reading that sits in the frame: admitted, held for the next one to
\* confirm, or put to the recorder.
InFrame(r, e) ==
  LET ended  == [r EXCEPT !.held = [EndRun(@) EXCEPT !.hold_m3 = None]]
      framed == e.reading - r.offset_m3
      corroborated == /\ r.held.hold_m3 # None
                      /\ e.reading >= r.held.hold_m3 - Jump
      beyond(figure) == framed - figure > r.step_bound
  IN IF corroborated /\ r.seen # {} /\ beyond(Max(r.seen))
       THEN IF e.recorder_m3 # None
              THEN [ended EXCEPT !.offset_m3 = e.reading - Max(r.seen)]
              ELSE [ended EXCEPT !.arbitrate = TRUE]
     ELSE IF ~corroborated /\ r.mark # None /\ beyond(r.mark)
       THEN [ended EXCEPT !.held.hold_m3 = e.reading]
       ELSE [ended EXCEPT !.candidate = framed]

PlaceReading(r, e) ==
  CASE e.reading = None -> [r EXCEPT !.held.hold_m3 = None]
    [] e.reading # None /\ r.bar # None /\ e.reading < r.bar -> BelowBar(r, e)
    [] e.reading # None /\ (r.bar = None \/ e.reading >= r.bar) ->
         IF r.offset_m3 = None THEN BuildFrame(r, e) ELSE InFrame(r, e)

\* The answer with what the reader took out of misread days put back in.
WholeNetOfMisreads(e) == e.recorder_m3 - e.taken_back

Whole(e) == e.recorder_m3 + e.taken_back

\* Whether the database has lost none of the year, as far as it has told.
Intact(r, e) ==
  /\ e.has_statistic
  /\ e.recorder_m3 # None
  /\ r.recorder_hwm = None \/ Whole(e) >= r.recorder_hwm

\* Whether the answer takes back a mark the meter no longer supports.
TakesBackUnspoken(r, e) ==
  /\ e.reading # None
  /\ e.reading > 0
  /\ r.bar = None \/ e.reading >= r.bar
  /\ r.mark # None
  /\ r.mark - e.recorder_m3 > Lag

TakesBack(r, e) ==
  /\ r.recorder_hwm # None
  /\ e.reading # None
  /\ e.reading > 0
  /\ r.bar = None \/ e.reading >= r.bar
  /\ r.mark # None
  /\ r.mark - e.recorder_m3 > Lag

\* The answer of a database that has lost none of the year: it settles the
\* reading's figure, and takes back a mark the meter no longer supports.
HeedRecorder(r, e) ==
  LET overruled == /\ r.candidate # None
                   /\ r.candidate - e.recorder_m3 > Lag
                   /\ \/ r.recorder_hwm # None
                      \/ r.mark = None
                      \/ e.recorder_m3 >= r.mark
      heard == [r EXCEPT
                  !.recorder_hwm = Max(Known({@, Whole(e)})),
                  !.candidate = IF overruled THEN None ELSE @]
  IN IF ~Intact(r, e) THEN r
     ELSE IF ~TakesBack(r, e) THEN heard
     ELSE [heard EXCEPT !.mark = e.recorder_m3, !.floor = None,
                        !.offset_m3 = e.reading - e.recorder_m3,
                        !.held.high_m3 = e.reading]

\* An admitted reading dates the meter and raises its high-water mark.
StampReading(r, e) ==
  IF r.candidate # None /\ e.reading # None
    THEN [r EXCEPT !.seen_at = e.now,
                   !.held.high_m3 = Max(Known({@, e.reading}))]
    ELSE r

\* The recorder figure a round still counts: none of it after a replacement.
RecorderFigure(r, e) == IF r.swapped THEN None ELSE e.recorder_m3

Figures(r, e) == Known({r.mark, r.candidate, RecorderFigure(r, e)})

\* The frame is corrected only by a reading and a recorder figure of one
\* round, and only by a reading no lower than any the meter has shown.
CorrectedOffset(r, e, published) ==
  IF /\ r.offset_m3 # None
     /\ e.reading # None
     /\ RecorderFigure(r, e) # None
     /\ r.candidate # None
     /\ r.was_high # None
     /\ e.reading >= r.was_high
     /\ published > e.reading - r.offset_m3
     /\ e.reading >= published \/ r.after_swap
  THEN e.reading - published
  ELSE r.offset_m3

UnflooredBill(floor, cost) == cost

\* The bill of the figure, never below the floor of the same household.
FlooredBill(floor, cost) ==
  IF cost # None /\ floor # None /\ cost < floor THEN floor ELSE cost

Verdict(r, cycle, m3, cost) ==
  [cycle |-> cycle, m3 |-> m3, cost |-> cost, pending |-> r.held,
   swapped |-> r.swapped, arbitrate |-> r.arbitrate]

\* What the round makes of the cycle, once its figures are in.
Published(r, e) ==
  LET m3   == Max(Figures(r, e))
      cost == FlooredBill(r.floor, Bill(e.price, m3))
      next == [meter |-> e.meter, year |-> e.year, m3 |-> m3,
               cost |-> IF cost = None THEN r.floor ELSE cost,
               offset_m3 |-> CorrectedOffset(r, e, m3), basis |-> e.basis,
               recorder_hwm |-> r.recorder_hwm, seen_at |-> r.seen_at,
               started_at |-> r.started_at]
  IN Verdict(r, next, m3, cost)

\* A round that knows nothing about the year leaves the record as it found
\* it; a repointed meter's record is gone all the same.
KeptStamped(cycle, e) ==
  [(IF cycle.meter = e.meter THEN cycle ELSE FreshCycle(e.meter)) EXCEPT !.year = e.year]

Kept(cycle, e) == IF cycle.meter = e.meter THEN cycle ELSE FreshCycle(e.meter)

\* _fold.
Fold(cycle, pending, e) ==
  LET settled == StampReading(HeedRecorder(PlaceReading(Opening(cycle, pending, e), e), e), e)
  IN IF Figures(settled, e) = {} THEN Verdict(settled, Kept(cycle, e), None, None)
                                 ELSE Published(settled, e)

\* What makes a record "changed" for the coordinator: everything compared by
\* the dataclass, which leaves seen_at out.
Compared(cycle) == [f \in DOMAIN cycle \ {"seen_at"} |-> cycle[f]]
=============================================================================
