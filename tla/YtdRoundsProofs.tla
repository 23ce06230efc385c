--------------------------- MODULE YtdRoundsProofs ---------------------------
(***************************************************************************)
(* Theorems of YtdRounds, for every household, meter, recorder and bound:  *)
(* the record is well typed and dated, and what a round may do to it.      *)
(*                                                                         *)
(* The rule of ytd_fold.py is a pipeline of stages.  Each stage has a      *)
(* lemma that says which rounds it maps to which, and the lemma on Fold    *)
(* puts them together; an invariant of the coordinator then needs only     *)
(* that lemma, whichever of its callers folds.                             *)
(***************************************************************************)
EXTENDS YtdRounds, TLAPS

-----------------------------------------------------------------------------
(* Figures that may be unknown.                                            *)

\* Max over the known ones of three figures is one of them and none
\* is larger.
LEMMA MaxKnown ==
  ASSUME NEW a \in Opt(Int), NEW b \in Opt(Int), NEW c \in Opt(Int),
         Known({a, b, c}) # {}
  PROVE  /\ Max(Known({a, b, c})) \in Known({a, b, c})
         /\ Max(Known({a, b, c})) \in Int
         /\ \A x \in Known({a, b, c}) : x <= Max(Known({a, b, c}))
<1> DEFINE S == Known({a, b, c})
<1>1. S \subseteq Int
  BY DEF Known, Opt
<1>2. \E x \in S : \A y \in S : x >= y
  BY <1>1 DEF Known
<1> QED
  BY <1>1, <1>2 DEF Max

\* The same of two figures, one of them known.
LEMMA MaxKnownTwo ==
  ASSUME NEW a \in Opt(Int), NEW b \in Opt(Int), Known({a, b}) # {}
  PROVE  /\ Max(Known({a, b})) \in Known({a, b})
         /\ Max(Known({a, b})) \in Int
         /\ \A x \in Known({a, b}) : x <= Max(Known({a, b}))
<1>1. Known({a, b}) = Known({a, b, a})
  OBVIOUS
<1> QED
  BY <1>1, MaxKnown

-----------------------------------------------------------------------------
(* What the stages hand each other.                                        *)

Bases == {h.basis : h \in Households}
Prices == {h.price : h \in Households}

\* The evidence of a round: a recorder that holds no statistic says nothing
\* or zero.
Evidences ==
  {e \in [year : Years, meter : Meters, reading : Opt(Int),
           recorder_m3 : Opt(Nat), taken_back : Nat, has_statistic : BOOLEAN,
           recorder_ok : Opt(BOOLEAN), elapsed : Int, now : Nat,
           basis : Bases, price : Prices] :
     e.has_statistic \/ e.recorder_m3 \in {None, 0}}

Stages ==
  [mark : Opt(Nat), floor : Opt(Nat), offset_m3 : Opt(Int),
   recorder_hwm : Opt(Nat), started_at : Opt(Nat), seen_at : Opt(Nat),
   held : Holds, candidate : Opt(Nat), swapped : BOOLEAN, arbitrate : BOOLEAN,
   seen : SUBSET Nat, bar : Opt(Int), step_bound : Nat, was_high : Opt(Int),
   after_swap : BOOLEAN, known_meter : BOOLEAN]

\* A record that knows nothing but its meter is one the file may hold.
LEMMA FreshCycleType ==
  ASSUME NEW meter \in Opt(Meters)
  PROVE  FreshCycle(meter) \in Cycles
  BY DEF FreshCycle, Cycles, Opt

\* A coordinator that has just been set up holds nothing.
LEMMA NothingHeldType == NothingHeld \in Holds
  BY DEF NothingHeld, Holds, Opt

\* What one report may add is never negative.
LEMMA StepBoundType ==
  ASSUME NEW s \in Opt(Nat), NEW n \in Nat
  PROVE  StepBound(s, n) \in Nat
<1>1. NonNegative(0) \in Nat /\ \A k \in Int : NonNegative(k) \in Nat
  BY DEF NonNegative
<1>2. \A i, j \in Nat : i * j \in Nat
  OBVIOUS
<1> QED
  BY <1>1, <1>2, NoneAssumption, BoundsAssumption DEF StepBound, Opt

\* A round opens with figures of the right types.
LEMMA OpeningType ==
  ASSUME NEW c \in Cycles, NEW p \in Holds, NEW e \in Evidences
  PROVE  Opening(c, p, e) \in Stages
<1> DEFINE c0 == IF c.meter = e.meter THEN c ELSE FreshCycle(e.meter)
           mark == Mark(c0, e)
           seen == Known({mark, e.recorder_m3})
           offset == IF c0.year = e.year THEN c0.offset_m3 ELSE None
           held == IF c0.year = e.year THEN p ELSE [NothingHeld EXCEPT !.run_m3 = p.run_m3]
<1>1. c0 \in Cycles
  BY FreshCycleType DEF Evidences, Opt
<1>2. mark \in Opt(Nat)
  BY <1>1 DEF Mark, Cycles, Opt
<1>3. seen \subseteq Nat
  BY <1>2 DEF Known, Opt, Evidences
<1>4. held \in Holds
  BY DEF Holds, NothingHeld, Opt
<1>5. (IF offset # None THEN offset ELSE IF seen # {} THEN Max(seen) ELSE None) \in Opt(Int)
  <2>1. offset \in Opt(Int)
    BY <1>1 DEF Cycles, Opt
  <2>2. mark \in Opt(Int) /\ e.recorder_m3 \in Opt(Int)
    BY <1>2 DEF Evidences, Opt
  <2>3. seen # {} => Max(seen) \in Int
    <3> HIDE DEF mark
    <3> QED
      BY <2>2, MaxKnownTwo
  <2> QED
    BY <2>1, <2>3 DEF Opt
<1>6. StartedAt(c0, e) \in Opt(Nat)
  BY <1>1 DEF StartedAt, Cycles, Evidences, Opt
<1>7. StepBound(c0.seen_at, e.now) \in Nat
  BY <1>1, StepBoundType DEF Cycles, Evidences
<1> QED
  BY <1>1, <1>2, <1>3, <1>4, <1>5, <1>6, <1>7
     DEF Opening, Stages, Cycles, Holds, Opt

\* What Opening hands to PlaceReading.
Opened(o, e) ==
  /\ o \in Stages
  /\ ~o.swapped
  /\ o.candidate = None
  /\ o.seen = Known({o.mark, e.recorder_m3})
  /\ o.offset_m3 # None => o.mark # None /\ o.bar = o.offset_m3

\* A round opens unreplaced and without a candidate, and with a mark wherever
\* it has a frame.
LEMMA OpeningOpens ==
  ASSUME NEW c \in Cycles, WellDated(c), NEW p \in Holds, NEW e \in Evidences
  PROVE  Opened(Opening(c, p, e), e)
<1> DEFINE o == Opening(c, p, e)
<1>1. o \in Stages
  BY OpeningType
<1>2. /\ ~o.swapped
      /\ o.candidate = None
      /\ o.seen = Known({o.mark, e.recorder_m3})
  BY DEF Opening
<1>3. ASSUME o.offset_m3 # None
      PROVE  o.mark # None /\ o.bar = o.offset_m3
  <2>1. o.bar = o.offset_m3
    BY <1>3 DEF Opening
  <2>2. c.meter = e.meter /\ c.year = e.year /\ o.mark = c.m3
    BY <1>3 DEF Opening, Mark, FreshCycle
  <2>3. c.year # None
    <3>1. e.year \in Nat
      BY RoundsAssumption DEF Evidences
    <3> QED
      BY <2>2, <3>1, NoneAssumption
  <2> QED
    BY <2>1, <2>2, <2>3 DEF WellDated
<1> QED
  BY <1>1, <1>2, <1>3 DEF Opened

-----------------------------------------------------------------------------
(* Placing the reading.                                                    *)

\* What PlaceReading makes of o: the year goes on, its figure as it was and
\* the reading's own within the step bound of what is known, or it restarts
\* on a run of SwapReadings low readings.
GoesOn(o, r) ==
  /\ ~r.swapped
  /\ r.mark = o.mark
  /\ r.floor = o.floor
  /\ r.recorder_hwm = o.recorder_hwm
  /\ r.started_at = o.started_at
  /\ r.candidate # None =>
       \/ o.seen = {} /\ r.candidate = 0
       \/ o.seen # {} /\ r.candidate <= Max(o.seen) + o.step_bound

Restarts(o, r, e) ==
  /\ r.swapped
  /\ r.mark = 0
  /\ r.floor = None
  /\ r.recorder_hwm = None
  /\ r.started_at = e.now
  /\ r.candidate = 0
  /\ o.held.hold_run >= SwapReadings - 1

Placed(o, r, e) ==
  /\ r \in Stages
  /\ r.seen_at = o.seen_at
  /\ GoesOn(o, r) \/ Restarts(o, r, e)

\* A run of low readings stays a run, one longer or one long.
LEMMA CountLowType ==
  ASSUME NEW h \in Holds, NEW e \in Evidences, e.reading # None
  PROVE  /\ CountLow(h, e) \in Holds
         /\ CountLow(h, e).hold_run <= h.hold_run + 1
<1> DEFINE more == NonNegative(e.elapsed)
           joined == [h EXCEPT !.hold_m3 = None, !.hold_run = @ + 1, !.hold_span = @ + more]
           first == [h EXCEPT !.hold_m3 = None, !.hold_run = 1, !.hold_span = 0,
                              !.run_m3 = e.reading]
<1>1. more \in Nat
  BY DEF NonNegative, Evidences
<1>2. joined \in Holds /\ joined.hold_run <= h.hold_run + 1
  <2> HIDE DEF more
  <2>1. h.hold_run + 1 \in Nat /\ h.hold_span + more \in Nat
    BY <1>1 DEF Holds
  <2>2. joined \in Holds
    BY <2>1 DEF Holds, Opt
  <2>3. joined.hold_run = h.hold_run + 1
    BY DEF Holds
  <2> QED
    BY <2>1, <2>2, <2>3
<1>3. first \in Holds /\ first.hold_run <= h.hold_run + 1
  <2>1. e.reading \in Opt(Int)
    BY DEF Evidences
  <2>2. first \in Holds
    BY <2>1 DEF Holds, Opt
  <2>3. first.hold_run = 1 /\ h.hold_run \in Nat
    BY DEF Holds
  <2> QED
    BY <2>2, <2>3
<1> QED
  BY <1>2, <1>3 DEF CountLow

\* A reading below the bar is counted, re-frames the year or replaces the meter.
LEMMA BelowBarPlaces ==
  ASSUME NEW o, NEW e \in Evidences, Opened(o, e),
         e.reading # None, o.bar # None, e.reading < o.bar
  PROVE  Placed(o, BelowBar(o, e), e)
<1> DEFINE held == CountLow(o.held, e)
           done == [o EXCEPT !.held = [EndRun(held) EXCEPT !.high_m3 = e.reading]]
<1>1. o \in Stages /\ ~o.swapped /\ o.candidate = None
  BY DEF Opened
<1>2. held \in Holds /\ held.hold_run <= o.held.hold_run + 1
  BY <1>1, CountLowType DEF Stages
<1>3. done \in Stages /\ done.held \in Holds
  BY <1>1, <1>2 DEF Stages, Holds, EndRun, Evidences, Opt
<1>4. ASSUME NEW h \in Holds
      PROVE  Placed(o, [o EXCEPT !.held = h], e)
  BY <1>1, <1>4 DEF Placed, GoesOn, Stages
<1>5. ASSUME o.seen # {}
      PROVE  Placed(o, Reframed(done, e), e)
  <2>1. Max(o.seen) \in Int
    <3>1. o.mark \in Opt(Int) /\ e.recorder_m3 \in Opt(Int)
      BY <1>1 DEF Stages, Evidences, Opt
    <3>2. o.seen = Known({o.mark, e.recorder_m3})
      BY DEF Opened
    <3> QED
      BY <1>5, <3>1, <3>2, MaxKnownTwo
  <2>2. e.reading - Max(o.seen) \in Opt(Int)
    BY <2>1 DEF Evidences, Opt
  <2>3. Reframed(done, e) \in Stages
    BY <1>3, <2>2 DEF Reframed, Stages
  <2> QED
    BY <1>1, <2>3 DEF Placed, GoesOn, Reframed, Stages
<1>6. ASSUME held.hold_run >= SwapReadings
      PROVE  Placed(o, Replaced(done, e), e)
  <2>1. Replaced(done, e) \in Stages
    BY <1>3 DEF Replaced, Stages, Evidences, Opt
  <2>2. o.held.hold_run >= SwapReadings - 1
    BY <1>1, <1>2, <1>6, BoundsAssumption DEF Stages, Holds
  <2> QED
    BY <1>1, <2>1, <2>2 DEF Placed, Restarts, Replaced, Stages
<1>7. held.hold_run < SwapReadings \/ held.hold_run >= SwapReadings
  BY <1>2, BoundsAssumption DEF Holds
<1> QED
  BY <1>2, <1>4, <1>5, <1>6, <1>7 DEF BelowBar

\* The largest figure the year has is a natural number.
LEMMA SeenMax ==
  ASSUME NEW o, NEW e \in Evidences, Opened(o, e), o.seen # {}
  PROVE  Max(o.seen) \in Nat
<1>1. o.mark \in Opt(Int) /\ e.recorder_m3 \in Opt(Int)
  BY DEF Opened, Stages, Evidences, Opt
<1>2. o.seen = Known({o.mark, e.recorder_m3}) /\ o.seen \subseteq Nat
  BY DEF Opened, Stages
<1> QED
  BY <1>1, <1>2, MaxKnownTwo

\* Ending a run of low readings leaves the other holds alone.
LEMMA EndRunType ==
  ASSUME NEW h \in Holds
  PROVE  EndRun(h) \in Holds
  BY DEF EndRun, Holds

\* The first reading of a year builds its frame at the figure the year has.
LEMMA BuildFramePlaces ==
  ASSUME NEW o, NEW e \in Evidences, Opened(o, e),
         e.reading # None, o.offset_m3 = None
  PROVE  Placed(o, BuildFrame(o, e), e)
<1> DEFINE ended == [o EXCEPT !.held = EndRun(@)]
           asks  == e.recorder_m3 # None \/ o.recorder_hwm # None
<1>1. o \in Stages /\ ~o.swapped /\ o.candidate = None
  BY DEF Opened
<1>2. ended \in Stages
  BY <1>1, EndRunType DEF Stages
<1>3. e.reading \in Int
  BY DEF Evidences, Opt
<1>4. CASE o.seen # {}
  <2> DEFINE r == [ended EXCEPT !.offset_m3 = e.reading - Max(o.seen),
                                !.candidate = Max(o.seen), !.arbitrate = asks]
  <2>1. Max(o.seen) \in Nat /\ o.step_bound \in Nat
    BY <1>1, <1>4, SeenMax DEF Stages
  <2>2. e.reading - Max(o.seen) \in Opt(Int) /\ Max(o.seen) \in Opt(Nat)
    BY <1>3, <2>1 DEF Opt
  <2>3. r \in Stages
    BY <1>2, <2>2 DEF Stages
  <2>4. Max(o.seen) <= Max(o.seen) + o.step_bound
    BY <2>1
  <2>5. Placed(o, r, e)
    BY <1>1, <1>4, <2>3, <2>4 DEF Placed, GoesOn, Stages
  <2> QED
    BY <1>4, <2>5 DEF BuildFrame
<1>5. CASE o.seen = {}
  <2> DEFINE r == [ended EXCEPT !.offset_m3 = e.reading, !.candidate = 0]
  <2>1. r \in Stages
    BY <1>2, <1>3 DEF Stages, Opt
  <2>2. Placed(o, r, e)
    BY <1>1, <1>5, <2>1 DEF Placed, GoesOn, Stages
  <2>3. Placed(o, ended, e)
    BY <1>1, <1>2 DEF Placed, GoesOn, Stages
  <2> QED
    BY <1>5, <2>2, <2>3 DEF BuildFrame
<1> QED
  BY <1>4, <1>5

\* A reading in its frame is admitted within the step bound, held, or put to
\* the recorder.
LEMMA InFramePlaces ==
  ASSUME NEW o, NEW e \in Evidences, Opened(o, e),
         e.reading # None, o.offset_m3 # None, e.reading >= o.bar
  PROVE  Placed(o, InFrame(o, e), e)
<1> DEFINE ended == [o EXCEPT !.held = [EndRun(@) EXCEPT !.hold_m3 = None]]
           framed == e.reading - o.offset_m3
           corroborated == /\ o.held.hold_m3 # None
                           /\ e.reading >= o.held.hold_m3 - Jump
           beyond(figure) == framed - figure > o.step_bound
<1>1. o \in Stages /\ ~o.swapped /\ o.candidate = None
  BY DEF Opened
<1>2. ended \in Stages
  <2>1. [EndRun(o.held) EXCEPT !.hold_m3 = None] \in Holds
    BY <1>1, EndRunType DEF Stages, Holds, Opt
  <2> QED
    BY <1>1, <2>1 DEF Stages
<1>3. e.reading \in Int /\ o.step_bound \in Nat /\ o.offset_m3 \in Int
  BY <1>1 DEF Evidences, Opt, Stages
<1>4. framed \in Nat
  BY <1>3 DEF Opened
<1>5. o.mark # None /\ o.mark \in Nat /\ o.seen = Known({o.mark, e.recorder_m3})
  BY <1>1 DEF Opened, Stages, Opt
<1>6. o.seen # {} /\ o.mark \in o.seen
  BY <1>5 DEF Known
<1>7. Max(o.seen) \in Nat /\ o.mark <= Max(o.seen)
  <2>1. Max(o.seen) \in Nat
    BY <1>6, SeenMax
  <2>2. o.mark \in Opt(Int) /\ e.recorder_m3 \in Opt(Int)
    BY <1>1 DEF Stages, Evidences, Opt
  <2> QED
    BY <1>5, <1>6, <2>1, <2>2, MaxKnownTwo
<1>8. Placed(o, ended, e)
  BY <1>1, <1>2 DEF Placed, GoesOn, Stages
<1>9. CASE corroborated /\ beyond(Max(o.seen))
  <2> DEFINE reframed == [ended EXCEPT !.offset_m3 = e.reading - Max(o.seen)]
             asked == [ended EXCEPT !.arbitrate = TRUE]
  <2>1. reframed \in Stages /\ asked \in Stages
    <3>1. e.reading - Max(o.seen) \in Opt(Int)
      BY <1>3, <1>7 DEF Opt
    <3> QED
      BY <1>2, <3>1 DEF Stages
  <2>2. Placed(o, reframed, e) /\ Placed(o, asked, e)
    BY <1>1, <2>1 DEF Placed, GoesOn, Stages
  <2> QED
    BY <1>6, <1>9, <2>2 DEF InFrame
<1>10. CASE ~corroborated /\ beyond(o.mark)
  <2> DEFINE held == [ended EXCEPT !.held.hold_m3 = e.reading]
  <2>1. held \in Stages
    BY <1>2, <1>3 DEF Stages, Holds, Opt
  <2>2. Placed(o, held, e)
    BY <1>1, <2>1 DEF Placed, GoesOn, Stages
  <2> QED
    BY <1>5, <1>10, <2>2 DEF InFrame
<1>11. CASE /\ ~(corroborated /\ beyond(Max(o.seen)))
            /\ ~(~corroborated /\ beyond(o.mark))
  <2> DEFINE admitted == [ended EXCEPT !.candidate = framed]
  <2>1. admitted \in Stages
    <3> HIDE DEF framed
    <3> QED
      BY <1>2, <1>4 DEF Stages, Opt
  <2>2. framed <= Max(o.seen) + o.step_bound
    BY <1>3, <1>4, <1>5, <1>7, <1>11
  <2>3. Placed(o, admitted, e)
    <3> HIDE DEF framed
    <3> QED
      BY <1>1, <1>6, <2>1, <2>2 DEF Placed, GoesOn, Stages
  <2> QED
    BY <1>5, <1>6, <1>11, <2>3 DEF InFrame
<1> QED
  BY <1>9, <1>10, <1>11

\* Wherever the reading stands, the year goes on or restarts.
LEMMA PlaceReadingPlaces ==
  ASSUME NEW o, NEW e \in Evidences, Opened(o, e)
  PROVE  Placed(o, PlaceReading(o, e), e)
<1>1. o \in Stages /\ ~o.swapped /\ o.candidate = None
  BY DEF Opened
<1>2. CASE e.reading = None
  <2> DEFINE r == [o EXCEPT !.held.hold_m3 = None]
  <2>1. r \in Stages
    BY <1>1 DEF Stages, Holds, Opt
  <2>2. Placed(o, r, e)
    BY <1>1, <2>1 DEF Placed, GoesOn, Stages
  <2> QED
    BY <1>2, <2>2 DEF PlaceReading
<1>3. CASE e.reading # None /\ o.bar # None /\ e.reading < o.bar
  <2>1. e.reading \in Int /\ o.bar \in Int
    BY <1>1, <1>3 DEF Stages, Evidences, Opt
  <2>2. ~(e.reading >= o.bar)
    BY <1>3, <2>1
  <2>3. PlaceReading(o, e) = BelowBar(o, e)
    BY <1>3, <2>2 DEF PlaceReading
  <2> QED
    BY <1>3, <2>3, BelowBarPlaces
<1>4. CASE e.reading # None /\ (o.bar = None \/ e.reading >= o.bar)
  <2>1. CASE o.offset_m3 = None
    BY <1>4, <2>1, BuildFramePlaces DEF PlaceReading
  <2>2. CASE o.offset_m3 # None
    <3>1. o.bar # None /\ e.reading >= o.bar
      BY <1>4, <2>2 DEF Opened
    <3>2. Placed(o, InFrame(o, e), e)
      BY <1>4, <2>2, <3>1, InFramePlaces
    <3>3. ~(e.reading < o.bar)
      BY <1>1, <1>4, <3>1 DEF Stages, Evidences, Opt
    <3> QED
      BY <1>4, <2>2, <3>1, <3>2, <3>3 DEF PlaceReading
  <2> QED
    BY <2>1, <2>2
<1>5. e.reading \in Int \/ e.reading = None
  BY DEF Evidences, Opt
<1>6. o.bar \in Int \/ o.bar = None
  BY <1>1 DEF Stages, Opt
<1> QED
  BY <1>2, <1>3, <1>4, <1>5, <1>6

-----------------------------------------------------------------------------
(* Hearing the recorder.                                                   *)

\* What HeedRecorder makes of r: nothing the recorder has said is forgotten,
\* and the mark and the floor move only when it takes the mark back.
TookBack(r, h, e) ==
  /\ r.recorder_hwm # None
  /\ e.recorder_m3 # None
  /\ h.mark = e.recorder_m3
  /\ h.offset_m3 # None
  /\ h.candidate # None => h.candidate <= e.recorder_m3 + Lag

Heard(r, h, e) ==
  /\ h \in Stages
  /\ h.swapped = r.swapped
  /\ h.started_at = r.started_at
  /\ h.candidate \in {None, r.candidate}
  /\ r.recorder_hwm # None =>
       h.recorder_hwm # None /\ h.recorder_hwm >= r.recorder_hwm
  /\ e.has_statistic /\ e.recorder_m3 # None =>
       h.recorder_hwm # None /\ h.recorder_hwm >= e.recorder_m3
  /\ (h.mark = r.mark /\ h.floor = r.floor) \/ TookBack(r, h, e)

\* The recorder settles a reading, and takes the mark back only if it had
\* spoken for the year before.
LEMMA HeedRecorderHears ==
  ASSUME NEW r \in Stages, NEW e \in Evidences
  PROVE  Heard(r, HeedRecorder(r, e), e)
<1> DEFINE overruled == /\ r.candidate # None
                        /\ r.candidate - e.recorder_m3 > Lag
                        /\ \/ r.recorder_hwm # None
                           \/ r.mark = None
                           \/ e.recorder_m3 >= r.mark
           high == Max(Known({r.recorder_hwm, Whole(e)}))
           cand == IF overruled THEN None ELSE r.candidate
           heard == [r EXCEPT !.recorder_hwm = high, !.candidate = cand]
<1>1. CASE ~Intact(r, e)
  <2>1. HeedRecorder(r, e) = r
    BY <1>1 DEF HeedRecorder
  <2>2. ASSUME e.has_statistic, e.recorder_m3 # None
        PROVE  r.recorder_hwm # None /\ r.recorder_hwm >= e.recorder_m3
    BY <1>1, <2>2 DEF Intact, Whole, Stages, Evidences, Opt
  <2>3. r.recorder_hwm # None => r.recorder_hwm >= r.recorder_hwm
    BY DEF Stages, Opt
  <2> QED
    BY <2>1, <2>2, <2>3 DEF Heard
<1>2. CASE Intact(r, e)
  <2>1. e.recorder_m3 # None /\ e.recorder_m3 \in Nat
    BY <1>2 DEF Intact, Evidences, Opt
  <2>2. Whole(e) \in Nat /\ Whole(e) >= e.recorder_m3
    BY <2>1 DEF Whole, Evidences
  <2>3. /\ high \in Nat
        /\ high >= Whole(e)
        /\ r.recorder_hwm # None => high >= r.recorder_hwm
    <3>1. r.recorder_hwm \in Opt(Int) /\ Whole(e) \in Opt(Int)
      BY <2>2 DEF Stages, Opt
    <3>2. Whole(e) \in Known({r.recorder_hwm, Whole(e)})
      BY <2>2, NoneAssumption DEF Known
    <3>3. Known({r.recorder_hwm, Whole(e)}) \subseteq Nat
      BY <2>2 DEF Known, Stages, Opt
    <3>4. /\ high \in Known({r.recorder_hwm, Whole(e)})
          /\ \A x \in Known({r.recorder_hwm, Whole(e)}) : x <= high
      BY <3>1, <3>2, MaxKnownTwo
    <3>5. r.recorder_hwm # None => r.recorder_hwm \in Known({r.recorder_hwm, Whole(e)})
      BY DEF Known
    <3> HIDE DEF high
    <3> QED
      BY <3>2, <3>3, <3>4, <3>5
  <2>4. cand \in Opt(Nat) /\ cand \in {None, r.candidate}
    BY DEF Stages, Opt
  <2>5. high \in Opt(Nat) /\ high # None
    BY <2>3, NoneAssumption DEF Opt
  <2> HIDE DEF high
  <2>6. CASE ~TakesBack(r, e)
    <3>1. HeedRecorder(r, e) = heard
      BY <1>2, <2>6 DEF HeedRecorder, high
    <3> HIDE DEF overruled
    <3>2. heard \in Stages
      BY <2>4, <2>5 DEF Stages
    <3>3. /\ heard.recorder_hwm = high
          /\ heard.candidate = cand
          /\ heard.swapped = r.swapped
          /\ heard.started_at = r.started_at
          /\ heard.mark = r.mark
          /\ heard.floor = r.floor
      BY DEF Stages
    <3> HIDE DEF heard, cand
    <3>4. high >= e.recorder_m3
      BY <2>1, <2>2, <2>3
    <3> QED
      BY <2>3, <2>4, <2>5, <3>1, <3>2, <3>3, <3>4 DEF Heard
  <2>7. CASE TakesBack(r, e)
    <3> DEFINE taken == [heard EXCEPT !.mark = e.recorder_m3, !.floor = None,
                                      !.offset_m3 = e.reading - e.recorder_m3,
                                      !.held.high_m3 = e.reading]
    <3>1. HeedRecorder(r, e) = taken
      BY <1>2, <2>7 DEF HeedRecorder, high
    <3>2. r.recorder_hwm # None /\ e.reading \in Int
      BY <2>7 DEF TakesBack, Evidences, Opt
    <3>3. e.reading - e.recorder_m3 \in Int /\ e.reading - e.recorder_m3 # None
      BY <2>1, <3>2, NoneAssumption
    <3>4. cand # None => cand <= e.recorder_m3 + Lag
      BY <2>1, <3>2, BoundsAssumption DEF Stages, Opt
    <3> HIDE DEF overruled, cand
    <3>5. taken \in Stages
      BY <2>1, <2>4, <2>5, <3>2, <3>3 DEF Stages, Holds, Opt
    <3>6. /\ taken.recorder_hwm = high
          /\ taken.candidate = cand
          /\ taken.swapped = r.swapped
          /\ taken.started_at = r.started_at
          /\ taken.mark = e.recorder_m3
          /\ taken.offset_m3 = e.reading - e.recorder_m3
      BY DEF Stages
    <3> HIDE DEF taken
    <3>7. high >= e.recorder_m3
      BY <2>1, <2>2, <2>3
    <3>8. TookBack(r, taken, e)
      BY <2>1, <3>2, <3>3, <3>4, <3>6 DEF TookBack
    <3> QED
      BY <2>3, <2>4, <2>5, <3>1, <3>5, <3>6, <3>7, <3>8 DEF Heard
  <2> QED
    BY <2>6, <2>7
<1> QED
  BY <1>1, <1>2

\* Dating a reading changes neither the year's figure nor its frame.
LEMMA StampReadingStamps ==
  ASSUME NEW h \in Stages, NEW e \in Evidences
  PROVE  LET s == StampReading(h, e)
         IN /\ s \in Stages
            /\ s = [h EXCEPT !.seen_at = s.seen_at, !.held = s.held]
<1> DEFINE top == Max(Known({h.held.high_m3, e.reading}))
           stamped == [h EXCEPT !.seen_at = e.now, !.held.high_m3 = top]
<1>1. CASE h.candidate # None /\ e.reading # None
  <2>1. h.held.high_m3 \in Opt(Int) /\ e.reading \in Opt(Int)
    BY DEF Stages, Holds, Evidences
  <2>2. e.reading \in Known({h.held.high_m3, e.reading})
    BY <1>1 DEF Known
  <2>3. top \in Int
    BY <2>1, <2>2, MaxKnownTwo
  <2> HIDE DEF top
  <2>4. stamped \in Stages
    BY <2>3 DEF Stages, Holds, Evidences, Opt
  <2>5. stamped = [h EXCEPT !.seen_at = stamped.seen_at, !.held = stamped.held]
    BY DEF Stages
  <2>6. StampReading(h, e) = stamped
    BY <1>1 DEF StampReading, top
  <2> QED
    BY <2>4, <2>5, <2>6
<1>2. CASE ~(h.candidate # None /\ e.reading # None)
  <2>1. h = [h EXCEPT !.seen_at = h.seen_at, !.held = h.held]
    BY DEF Stages
  <2>2. StampReading(h, e) = h
    BY <1>2 DEF StampReading
  <2> QED
    BY <2>1, <2>2
<1> QED
  BY <1>1, <1>2

-----------------------------------------------------------------------------
(* The whole rule.                                                         *)

Settled(c, p, e) ==
  StampReading(HeedRecorder(PlaceReading(Opening(c, p, e), e), e), e)

\* The year's figure before the round, after it, and what settles it.
LEMMA SettledType ==
  ASSUME NEW c \in Cycles, WellDated(c), NEW p \in Holds, NEW e \in Evidences
  PROVE  LET o == Opening(c, p, e)
             r == PlaceReading(o, e)
             h == HeedRecorder(r, e)
             s == Settled(c, p, e)
         IN /\ Opened(o, e)
            /\ Placed(o, r, e)
            /\ Heard(r, h, e)
            /\ s \in Stages
            /\ s = [h EXCEPT !.seen_at = s.seen_at, !.held = s.held]
<1> DEFINE o == Opening(c, p, e)
           r == PlaceReading(o, e)
           h == HeedRecorder(r, e)
<1>1. Opened(o, e)
  BY OpeningOpens
<1>2. Placed(o, r, e)
  BY <1>1, PlaceReadingPlaces
<1>3. Heard(r, h, e)
  BY <1>2, HeedRecorderHears DEF Placed
<1>4. h \in Stages
  BY <1>3 DEF Heard
<1> HIDE DEF h
<1>5. LET s == StampReading(h, e)
      IN /\ s \in Stages
         /\ s = [h EXCEPT !.seen_at = s.seen_at, !.held = s.held]
  BY <1>4, StampReadingStamps
<1> QED
  BY <1>1, <1>2, <1>3, <1>5 DEF Settled, h

\* The figures a round chooses from are natural numbers.
LEMMA FiguresType ==
  ASSUME NEW s \in Stages, NEW e \in Evidences
  PROVE  /\ Figures(s, e) \subseteq Nat
         /\ Figures(s, e) # {} =>
              /\ Max(Figures(s, e)) \in Figures(s, e)
              /\ Max(Figures(s, e)) \in Nat
              /\ \A x \in Figures(s, e) : x <= Max(Figures(s, e))
<1> DEFINE f == RecorderFigure(s, e)
<1>1. s.mark \in Opt(Nat) /\ s.candidate \in Opt(Nat) /\ f \in Opt(Nat)
  BY DEF Stages, RecorderFigure, Evidences, Opt
<1>2. Figures(s, e) = Known({s.mark, s.candidate, f})
  BY DEF Figures
<1> HIDE DEF f
<1>3. Figures(s, e) \subseteq Nat
  BY <1>1, <1>2 DEF Known, Opt
<1>4. s.mark \in Opt(Int) /\ s.candidate \in Opt(Int) /\ f \in Opt(Int)
  BY <1>1 DEF Opt
<1> QED
  BY <1>2, <1>3, <1>4, MaxKnown

\* A bill is never negative.
LEMMA BillType ==
  ASSUME NEW price \in Prices, NEW m3 \in Nat
  PROVE  Bill(price, m3) \in Opt(Nat)
<1>1. price = None \/ (price.rate \in Nat /\ price.fee \in Nat)
  BY RoundsAssumption DEF Prices
<1>2. \A a, b \in Nat : a * b \in Nat
  OBVIOUS
<1>3. ASSUME price # None
      PROVE  price.rate * m3 + price.fee \in Nat
  <2> DEFINE product == price.rate * m3
  <2>1. product \in Nat
    BY <1>1, <1>2, <1>3
  <2> HIDE DEF product
  <2>2. product + price.fee \in Nat
    BY <1>1, <1>3, <2>1
  <2> QED
    BY <2>2 DEF product
<1> QED
  BY <1>3 DEF Bill, Opt

\* What a round publishes is a record the file may hold.
LEMMA PublishedType ==
  ASSUME NEW s \in Stages, NEW e \in Evidences, Figures(s, e) # {}
  PROVE  /\ Published(s, e).cycle \in Cycles
         /\ WellDated(Published(s, e).cycle)
         /\ Published(s, e).cycle.m3 = Max(Figures(s, e))
         /\ Published(s, e).pending \in Holds
<1> DEFINE m3 == Max(Figures(s, e))
           cost == FlooredBill(s.floor, Bill(e.price, m3))
           offset == CorrectedOffset(s, e, m3)
           floored == IF cost = None THEN s.floor ELSE cost
           next == [meter |-> e.meter, year |-> e.year, m3 |-> m3, cost |-> floored,
                    offset_m3 |-> offset, basis |-> e.basis,
                    recorder_hwm |-> s.recorder_hwm, seen_at |-> s.seen_at,
                    started_at |-> s.started_at]
<1>1. m3 \in Nat
  BY FiguresType
<1> HIDE DEF m3
<1>2. Bill(e.price, m3) \in Opt(Nat)
  BY <1>1, BillType DEF Evidences
<1>3. cost \in Opt(Nat)
  BY <1>2 DEF FlooredBill, Stages
<1>4. floored \in Opt(Nat)
  BY <1>3 DEF Stages
<1>5. offset \in Opt(Int)
  BY <1>1 DEF CorrectedOffset, Stages, Evidences, Opt
<1> HIDE DEF cost, offset, floored
<1>6. next \in Cycles
  BY <1>1, <1>4, <1>5 DEF Cycles, Stages, Evidences, Bases, Opt
<1>7. e.year # None /\ e.meter # None /\ m3 # None
  <2>1. e.year \in Nat /\ e.meter \in Meters
    BY RoundsAssumption DEF Evidences
  <2> QED
    BY <1>1, <2>1, NoneAssumption, RoundsAssumption
<1>8. WellDated(next)
  BY <1>7 DEF WellDated
<1>9. Published(s, e).cycle = next /\ Published(s, e).pending = s.held
  BY DEF Published, Verdict, m3, cost, offset, floored
<1> QED
  BY <1>6, <1>8, <1>9 DEF Stages, m3

\* The rule keeps the record well typed and dated, whatever the evidence.
LEMMA FoldType ==
  ASSUME NEW c \in Cycles, WellDated(c), NEW p \in Holds, NEW e \in Evidences
  PROVE  /\ Fold(c, p, e).cycle \in Cycles
         /\ WellDated(Fold(c, p, e).cycle)
         /\ Fold(c, p, e).pending \in Holds
<1> DEFINE s == Settled(c, p, e)
<1>1. s \in Stages
  BY SettledType
<1>2. CASE Figures(s, e) = {}
  <2>1. Fold(c, p, e) = Verdict(s, Kept(c, e), None, None)
    BY <1>2 DEF Fold, Settled
  <2>2. Kept(c, e) \in Cycles /\ WellDated(Kept(c, e))
    <3>1. FreshCycle(e.meter) \in Cycles
      BY FreshCycleType DEF Evidences, Opt
    <3>2. WellDated(FreshCycle(e.meter))
      BY DEF WellDated, FreshCycle
    <3> QED
      BY <3>1, <3>2 DEF Kept
  <2> QED
    BY <1>1, <2>1, <2>2 DEF Verdict, Stages
<1>3. CASE Figures(s, e) # {}
  <2>1. Fold(c, p, e) = Published(s, e)
    BY <1>3 DEF Fold, Settled
  <2> QED
    BY <1>1, <1>3, <2>1, PublishedType
<1> QED
  BY <1>2, <1>3

-----------------------------------------------------------------------------
(* What a round does to the record of the year in hand.                    *)

\* The year restarts on a new register.
Restarted(c, n, p, e) ==
  /\ n.m3 = 0
  /\ n.started_at = e.now
  /\ p.hold_run >= SwapReadings - 1

\* The figure stands, and with it the bill of the household it is for.
Stands(c, n) ==
  /\ n.m3 >= c.m3
  /\ n.basis = c.basis /\ c.cost # None => n.cost # None /\ n.cost >= c.cost

\* The recorder takes the year's figure back.
TakenBackTo(c, n) ==
  /\ c.recorder_hwm # None
  /\ n.m3 <= n.recorder_hwm + Lag
  /\ n.offset_m3 # None

\* What a round may do to the figure, the recorder's mark and the start of the
\* year in hand: the heart of the action properties.
LEMMA FoldOfTheYear ==
  ASSUME NEW c \in Cycles, WellDated(c), NEW p \in Holds, NEW e \in Evidences,
         c.meter = e.meter, c.year = e.year
  PROVE  LET n == Fold(c, p, e).cycle
         IN /\ n.m3 # None
            /\ \/ Restarted(c, n, p, e)
               \/ /\ n.started_at = c.started_at
                  /\ c.recorder_hwm # None =>
                       n.recorder_hwm # None /\ n.recorder_hwm >= c.recorder_hwm
                  /\ Stands(c, n) \/ TakenBackTo(c, n)
            /\ n.m3 <= Max(Known({c.m3, n.recorder_hwm})) + StepBound(c.seen_at, e.now)
<1> DEFINE o == Opening(c, p, e)
           r == PlaceReading(o, e)
           h == HeedRecorder(r, e)
           s == Settled(c, p, e)
           n == Fold(c, p, e).cycle
           m3 == Max(Figures(s, e))
           bound == StepBound(c.seen_at, e.now)
<1>1. /\ Opened(o, e) /\ Placed(o, r, e) /\ Heard(r, h, e)
      /\ s \in Stages
      /\ s = [h EXCEPT !.seen_at = s.seen_at, !.held = s.held]
  BY SettledType
<1>2. c.m3 \in Nat /\ c.m3 # None
  <2>1. c.year # None
    <3>1. e.year \in Nat
      BY RoundsAssumption DEF Evidences
    <3> QED
      BY <3>1, NoneAssumption
  <2> QED
    BY <2>1 DEF WellDated, Cycles, Opt
<1>3. /\ o.mark = c.m3
      /\ o.recorder_hwm = c.recorder_hwm
      /\ o.started_at = c.started_at
      /\ o.step_bound = bound
      /\ o.held = p
      /\ c.basis = e.basis => o.floor = c.cost
  <2>1. c.year # None
    BY <1>2 DEF WellDated
  <2> QED
    BY <2>1 DEF Opening, Mark, StartedAt
<1>4. /\ s.mark = h.mark /\ s.candidate = h.candidate /\ s.swapped = h.swapped
      /\ s.started_at = h.started_at /\ s.recorder_hwm = h.recorder_hwm
      /\ s.offset_m3 = h.offset_m3 /\ s.floor = h.floor
  BY <1>1 DEF Heard, Stages
<1>5. bound \in Nat
  BY StepBoundType DEF Cycles, Evidences
<1>6. o \in Stages /\ r \in Stages /\ h \in Stages
  BY <1>1 DEF Opened, Placed, Heard
<1> HIDE DEF o, r, h, s, bound
<1>7. s.mark # None
  BY <1>1, <1>2, <1>3, <1>4, NoneAssumption
     DEF Placed, GoesOn, Restarts, Heard, TookBack
<1>8. /\ s.mark \in Figures(s, e)
      /\ m3 \in Figures(s, e)
      /\ m3 \in Nat
      /\ \A x \in Figures(s, e) : x <= m3
      /\ Figures(s, e) # {}
  <2>1. s.mark \in Figures(s, e)
    BY <1>7 DEF Figures, Known
  <2> QED
    BY <2>1, <1>1, FiguresType
<1>9. /\ n.m3 = m3
      /\ n.started_at = s.started_at
      /\ n.recorder_hwm = s.recorder_hwm
      /\ n.offset_m3 = CorrectedOffset(s, e, m3)
      /\ n.basis = e.basis
      /\ LET cost == FlooredBill(s.floor, Bill(e.price, m3))
         IN n.cost = IF cost = None THEN s.floor ELSE cost
  <2>1. Fold(c, p, e) = Published(s, e)
    BY <1>8 DEF Fold, Settled, s
  <2> QED
    BY <2>1 DEF Published, Verdict
<1> HIDE DEF m3, n
<1>10. m3 \in Known({s.mark, s.candidate, RecorderFigure(s, e)})
  BY <1>8 DEF Figures
<1>11. CASE Restarts(o, r, e)
  <2>1. r.recorder_hwm = None /\ r.swapped /\ r.mark = 0 /\ r.started_at = e.now
    BY <1>11 DEF Restarts
  <2>2. s.swapped /\ s.mark = 0 /\ s.candidate \in {None, 0} /\ s.started_at = e.now
    BY <1>1, <1>4, <1>11, <2>1 DEF Heard, TookBack, Restarts
  <2>3. m3 = 0
    BY <1>10, <2>2 DEF RecorderFigure, Known
  <2>4. Restarted(c, n, p, e)
    BY <1>3, <1>9, <1>11, <2>2, <2>3 DEF Restarted, Restarts
  <2>5. 0 <= Max(Known({c.m3, n.recorder_hwm})) + bound
    <3>1. c.m3 \in Opt(Int) /\ n.recorder_hwm \in Opt(Int)
      BY <1>1, <1>2, <1>9 DEF Stages, Opt
    <3>2. c.m3 \in Known({c.m3, n.recorder_hwm})
      BY <1>2 DEF Known
    <3>3. Max(Known({c.m3, n.recorder_hwm})) \in Int
          /\ c.m3 <= Max(Known({c.m3, n.recorder_hwm}))
      BY <3>1, <3>2, MaxKnownTwo
    <3> QED
      BY <1>2, <1>5, <3>3
  <2> QED
    BY <1>8, <1>9, <2>3, <2>4, <2>5, NoneAssumption DEF n, bound
<1>12. CASE GoesOn(o, r)
  <2>1. s.started_at = c.started_at /\ ~s.swapped
    BY <1>1, <1>3, <1>4, <1>12 DEF Heard, GoesOn
  <2>2. c.recorder_hwm # None =>
          s.recorder_hwm # None /\ s.recorder_hwm >= c.recorder_hwm
    BY <1>1, <1>3, <1>4, <1>12 DEF Heard, GoesOn
  <2>3. ASSUME TookBack(r, h, e)
        PROVE  TakenBackTo(c, n)
    <3>1. TookBack(r, h, e)
      BY <2>3
    <3>2. e.recorder_m3 # None /\ e.recorder_m3 \in Nat
      BY <3>1 DEF TookBack, Evidences, Opt
    <3>3. m3 <= e.recorder_m3 + Lag
      BY <1>4, <1>10, <2>1, <3>1, <3>2, BoundsAssumption
         DEF RecorderFigure, Known, TookBack
    <3>4. c.recorder_hwm # None /\ s.recorder_hwm \in Nat
      BY <1>1, <1>3, <1>12, <2>2, <3>1 DEF TookBack, GoesOn, Stages, Opt
    <3>5. s.recorder_hwm >= e.recorder_m3
      <4>1. e.has_statistic \/ e.recorder_m3 = 0
        BY <3>2 DEF Evidences
      <4> QED
        BY <1>1, <1>4, <3>2, <3>4, <4>1 DEF Heard
    <3>6. CorrectedOffset(s, e, m3) # None
      <4>1. s.offset_m3 # None
        BY <1>4, <3>1 DEF TookBack
      <4>2. e.reading # None => e.reading - m3 \in Int
        BY <1>8 DEF Evidences, Opt
      <4> QED
        BY <4>1, <4>2, NoneAssumption DEF CorrectedOffset
    <3>7. m3 <= s.recorder_hwm + Lag
      BY <1>8, <3>2, <3>3, <3>4, <3>5, BoundsAssumption
    <3> QED
      BY <1>9, <3>4, <3>6, <3>7 DEF TakenBackTo
  <2>4. Stands(c, n) \/ TakenBackTo(c, n)
    <3> SUFFICES ASSUME ~TookBack(r, h, e)
                 PROVE  Stands(c, n)
      BY <2>3
    <3>1. s.mark = c.m3 /\ s.floor = o.floor
      BY <1>1, <1>3, <1>4, <1>12 DEF Heard, GoesOn
    <3>2. n.m3 >= c.m3
      BY <1>2, <1>8, <1>9, <3>1
    <3>3. ASSUME n.basis = c.basis, c.cost # None
          PROVE  n.cost # None /\ n.cost >= c.cost
      <4>1. s.floor = c.cost /\ c.cost \in Nat
        BY <1>3, <1>9, <3>1, <3>3 DEF Cycles, Opt
      <4>2. Bill(e.price, m3) \in Opt(Nat)
        BY <1>8, BillType DEF Evidences
      <4> DEFINE bill == Bill(e.price, m3)
      <4> HIDE DEF bill
      <4>3. bill \in Opt(Nat) /\ n.cost = IF FlooredBill(c.cost, bill) = None THEN c.cost
                                            ELSE FlooredBill(c.cost, bill)
        BY <1>9, <4>1, <4>2 DEF bill
      <4> QED
        BY <3>3, <4>1, <4>3, NoneAssumption DEF FlooredBill, Opt
    <3> QED
      BY <3>2, <3>3 DEF Stands
  <2> DEFINE top == Max(Known({c.m3, n.recorder_hwm}))
  <2>5. /\ top \in Int
        /\ c.m3 <= top
        /\ n.recorder_hwm # None => n.recorder_hwm <= top
    <3>1. c.m3 \in Opt(Int) /\ n.recorder_hwm \in Opt(Int)
      BY <1>1, <1>2, <1>9 DEF Stages, Opt
    <3>2. c.m3 \in Known({c.m3, n.recorder_hwm})
      BY <1>2 DEF Known
    <3>3. n.recorder_hwm # None => n.recorder_hwm \in Known({c.m3, n.recorder_hwm})
      BY DEF Known
    <3> QED
      BY <3>1, <3>2, <3>3, MaxKnownTwo
  <2> HIDE DEF top
  <2>6. e.recorder_m3 # None => e.recorder_m3 \in Nat /\ e.recorder_m3 <= top
    <3>1. ASSUME e.recorder_m3 # None
          PROVE  e.recorder_m3 \in Nat
      BY <3>1 DEF Evidences, Opt
    <3>2. ASSUME e.recorder_m3 # None, e.has_statistic
          PROVE  s.recorder_hwm # None /\ s.recorder_hwm >= e.recorder_m3
                   /\ s.recorder_hwm \in Nat
      BY <1>1, <1>4, <3>2 DEF Heard, Stages, Opt
    <3>3. ASSUME e.recorder_m3 # None, ~e.has_statistic
          PROVE  e.recorder_m3 = 0
      BY <3>3 DEF Evidences
    <3> QED
      BY <1>2, <1>9, <2>5, <3>1, <3>2, <3>3
  <2>7. o.seen # {} /\ Max(o.seen) <= top /\ Max(o.seen) \in Nat
    <3>1. o.seen = Known({c.m3, e.recorder_m3}) /\ c.m3 \in o.seen
      BY <1>1, <1>2, <1>3 DEF Opened, Known
    <3>2. c.m3 \in Opt(Int) /\ e.recorder_m3 \in Opt(Int)
      BY <1>2 DEF Evidences, Opt
    <3>3. Max(o.seen) \in o.seen
      BY <3>1, <3>2, MaxKnownTwo
    <3>4. Max(o.seen) \in Nat
      BY <1>1, <3>1, SeenMax
    <3> QED
      BY <2>5, <2>6, <3>1, <3>3, <3>4 DEF Known
  <2>8. s.candidate # None => s.candidate \in Nat /\ s.candidate <= top + bound
    <3>1. s.candidate \in {None, r.candidate}
      BY <1>1, <1>4 DEF Heard
    <3>2. s.candidate # None => s.candidate \in Nat
      BY <1>1 DEF Stages, Opt
    <3>3. r.candidate # None => r.candidate <= Max(o.seen) + bound
      BY <1>3, <1>12, <2>7 DEF GoesOn
    <3> QED
      BY <1>5, <2>5, <2>7, <3>1, <3>2, <3>3
  <2>9. s.mark = c.m3 \/ (s.mark = e.recorder_m3 /\ e.recorder_m3 # None)
    BY <1>1, <1>3, <1>4, <1>12 DEF Heard, GoesOn, TookBack
  <2>10. m3 <= top + bound
    BY <1>2, <1>5, <1>8, <1>10, <2>1, <2>5, <2>6, <2>8, <2>9 DEF RecorderFigure, Known
  <2> QED
    BY <1>8, <1>9, <2>1, <2>2, <2>4, <2>10, NoneAssumption DEF n, bound, top
<1> QED
  BY <1>1, <1>11, <1>12 DEF Placed

\* A round that leaves meter and year as they were is of that year, or knew
\* nothing and changed nothing.
LEMMA FoldOfAnyYear ==
  ASSUME NEW c \in Cycles, WellDated(c), NEW p \in Holds, NEW e \in Evidences,
         Fold(c, p, e).cycle.meter = c.meter,
         Fold(c, p, e).cycle.year = c.year
  PROVE  /\ c.meter = e.meter
         /\ c.year = e.year \/ Fold(c, p, e).cycle = c
<1> DEFINE s == Settled(c, p, e)
<1>1. CASE Figures(s, e) = {}
  <2>1. Fold(c, p, e).cycle = Kept(c, e)
    BY <1>1 DEF Fold, Settled, Verdict
  <2>2. Kept(c, e).meter = e.meter
    BY DEF Kept, FreshCycle
  <2> QED
    BY <2>1, <2>2 DEF Kept
<1>2. CASE Figures(s, e) # {}
  <2>1. Fold(c, p, e) = Published(s, e)
    BY <1>2 DEF Fold, Settled
  <2> QED
    BY <2>1 DEF Published, Verdict
<1> QED
  BY <1>1, <1>2

-----------------------------------------------------------------------------
(* The invariant of the coordinator.                                       *)

Inv == TypeOK /\ Dated

\* What a recorder may say of a year.
RecorderSays ==
  {a \in [m3 : Opt(Nat), taken_back : Nat, has_statistic : BOOLEAN] :
     a.has_statistic \/ a.m3 \in {None, 0}}

\* The answers of YtdRounds are among them.
LEMMA AnswerType == {NoAnswer} \cup Answers \subseteq RecorderSays
<1> SUFFICES ASSUME NEW answer \in {NoAnswer} \cup Answers
             PROVE  answer \in RecorderSays
  OBVIOUS
<1>1. CASE answer = NoAnswer
  BY <1>1 DEF NoAnswer, RecorderSays, Opt
<1>2. CASE answer = NoStatistic
  BY <1>2 DEF NoStatistic, RecorderSays, Opt
<1>3. CASE answer \in [m3 : RecorderFigures, taken_back : TakenBack, has_statistic : {TRUE}]
  <2>1. /\ answer.m3 \in RecorderFigures
        /\ answer.taken_back \in TakenBack
        /\ answer.has_statistic = TRUE
    BY <1>3
  <2>2. answer \in [m3 : Opt(Nat), taken_back : Nat, has_statistic : BOOLEAN]
    BY <1>3, RoundsAssumption DEF Opt
  <2> QED
    BY <2>1, <2>2 DEF RecorderSays
<1> QED
  BY <1>1, <1>2, <1>3 DEF Answers

\* The evidence of every caller is of the types the rule expects.
LEMMA EvidenceType ==
  ASSUME TypeOK, NEW y \in Years, NEW meter \in Meters, NEW reading \in Opt(Int),
         NEW household \in Households, NEW answer \in RecorderSays,
         NEW ok \in Opt(BOOLEAN)
  PROVE  /\ Evidence(y, meter, reading, household, answer, ok) \in Evidences
         /\ Evidence(y, meter, reading, household, answer, ok).now = clock
         /\ Evidence(y, meter, reading, household, answer, ok).recorder_ok = ok
         /\ Evidence(y, meter, reading, household, answer, ok).recorder_m3 = answer.m3
<1> DEFINE elapsed == IF last_fold_at = None THEN 0 ELSE clock - last_fold_at
<1>1. elapsed \in Int /\ clock \in Nat
  BY DEF TypeOK, Opt
<1>2. /\ answer.m3 \in Opt(Nat)
      /\ answer.taken_back \in Nat
      /\ answer.has_statistic \in BOOLEAN
      /\ answer.has_statistic \/ answer.m3 \in {None, 0}
  BY DEF RecorderSays
<1>3. household.basis \in Bases /\ household.price \in Prices
  BY DEF Bases, Prices
<1> HIDE DEF elapsed
<1>4. [year |-> y, meter |-> meter, reading |-> reading,
       recorder_m3 |-> answer.m3, taken_back |-> answer.taken_back,
       has_statistic |-> answer.has_statistic, recorder_ok |-> ok,
       elapsed |-> elapsed, now |-> clock,
       basis |-> household.basis, price |-> household.price] \in Evidences
  BY <1>1, <1>2, <1>3 DEF Evidences
<1> QED
  BY <1>4 DEF Evidence, elapsed

\* Whichever caller it has, a round folds one piece of evidence.
Folds(e) ==
  /\ e.now = clock
  /\ e.recorder_ok = recorder_ok'
  /\ e.recorder_m3 # None => e.recorder_ok # FALSE
  /\ ytd' = Fold(ytd, pending, e).cycle
  /\ pending' = Fold(ytd, pending, e).pending

\* Every round is one fold of well-typed evidence.
LEMMA RoundFolds ==
  ASSUME TypeOK, Rounds
  PROVE  /\ \E e \in Evidences : Folds(e)
         /\ last_fold_at' = clock
         /\ recorder_ok' \in Opt(BOOLEAN)
         /\ clock' = clock /\ year' = year
<1>1. year \in Years /\ recorder_ok \in Opt(BOOLEAN)
  BY DEF TypeOK
<1>2. \A reading \in Readings : reading \in Opt(Int)
  BY RoundsAssumption DEF Opt
<1>3. TickYears \subseteq Years
  BY DEF TickYears
<1>4. NoAnswer \in RecorderSays
  BY AnswerType
<1>5. /\ None \in Opt(Int) /\ None \in Opt(BOOLEAN) /\ {TRUE, FALSE} \subseteq Opt(BOOLEAN)
      /\ NoAnswer.m3 = None
  BY DEF Opt, NoAnswer
<1>6. PICK meter \in Meters, household \in Households :
        \/ \E reading \in Readings : LiveRound(meter, reading, household)
        \/ \E reading \in Readings : UnaskedRound(meter, reading, household)
        \/ \E y \in TickYears, reading \in Opt(Readings), answer \in {NoAnswer} \cup Answers :
             AskedRound(y, meter, reading, household, answer)
        \/ \E y \in TickYears : Refold(y, meter, household)
  BY DEF Rounds
<1>7. CASE \E reading \in Readings : LiveRound(meter, reading, household)
  <2>1. PICK reading \in Readings : LiveRound(meter, reading, household)
    BY <1>7
  <2> DEFINE e == Evidence(year, meter, reading, household, NoAnswer, recorder_ok)
  <2>2. /\ e \in Evidences /\ e.now = clock
        /\ e.recorder_ok = recorder_ok /\ e.recorder_m3 = None
    BY <1>1, <1>2, <1>4, <1>5, EvidenceType
  <2>3. FoldCycle(e) /\ UNCHANGED <<recorder_ok, clock, year>>
    BY <2>1 DEF LiveRound
  <2> HIDE DEF e
  <2>4. Folds(e)
    BY <2>2, <2>3 DEF FoldCycle, Folds
  <2> QED
    BY <1>1, <2>2, <2>3, <2>4 DEF FoldCycle
<1>8. CASE \E reading \in Readings : UnaskedRound(meter, reading, household)
  <2>1. PICK reading \in Readings : UnaskedRound(meter, reading, household)
    BY <1>8
  <2> DEFINE e == Evidence(year, meter, reading, household, NoAnswer, None)
  <2>2. /\ e \in Evidences /\ e.now = clock
        /\ e.recorder_ok = None /\ e.recorder_m3 = None
    BY <1>1, <1>2, <1>4, <1>5, EvidenceType
  <2>3. FoldCycle(e) /\ recorder_ok' = None /\ UNCHANGED <<clock, year>>
    BY <2>1 DEF UnaskedRound
  <2> HIDE DEF e
  <2>4. Folds(e)
    BY <2>2, <2>3 DEF FoldCycle, Folds
  <2> QED
    BY <1>5, <2>2, <2>3, <2>4 DEF FoldCycle
<1>9. CASE \E y \in TickYears, reading \in Opt(Readings), answer \in {NoAnswer} \cup Answers :
             AskedRound(y, meter, reading, household, answer)
  <2>1. PICK y \in TickYears, reading \in Opt(Readings), answer \in {NoAnswer} \cup Answers :
          AskedRound(y, meter, reading, household, answer)
    BY <1>9
  <2> DEFINE ok == answer # NoAnswer
             e == Evidence(y, meter, reading, household, answer, ok)
  <2>2. ok \in Opt(BOOLEAN) /\ reading \in Opt(Int) /\ y \in Years
    BY <1>2, <1>3, <1>5 DEF Opt
  <2>3. FoldCycle(e) /\ recorder_ok' = ok /\ UNCHANGED <<clock, year>>
    BY <2>1 DEF AskedRound
  <2>4. ASSUME answer.m3 # None
        PROVE  ok # FALSE
    <3>1. answer # NoAnswer
      BY <1>5, <2>4
    <3> QED
      BY <3>1
  <2> HIDE DEF ok
  <2>5. /\ e \in Evidences /\ e.now = clock
        /\ e.recorder_ok = ok /\ e.recorder_m3 = answer.m3
    BY <2>2, AnswerType, EvidenceType
  <2> HIDE DEF e
  <2>6. Folds(e)
    BY <2>3, <2>4, <2>5 DEF FoldCycle, Folds
  <2> QED
    BY <2>2, <2>3, <2>5, <2>6 DEF FoldCycle
<1>10. CASE \E y \in TickYears : Refold(y, meter, household)
  <2>1. PICK y \in TickYears : Refold(y, meter, household)
    BY <1>10
  <2> DEFINE e == Evidence(y, meter, None, household, NoAnswer, recorder_ok)
  <2>2. /\ e \in Evidences /\ e.now = clock
        /\ e.recorder_ok = recorder_ok /\ e.recorder_m3 = None
    BY <1>1, <1>3, <1>4, <1>5, EvidenceType
  <2>3. FoldCycle(e) /\ UNCHANGED <<recorder_ok, clock, year>>
    BY <2>1 DEF Refold
  <2> HIDE DEF e
  <2>4. Folds(e)
    BY <2>2, <2>3 DEF FoldCycle, Folds
  <2> QED
    BY <1>1, <2>2, <2>3, <2>4 DEF FoldCycle
<1> QED
  BY <1>6, <1>7, <1>8, <1>9, <1>10

\* The initial state satisfies the invariant.
LEMMA InitInv == Init => Inv
<1> SUFFICES ASSUME Init
             PROVE  Inv
  OBVIOUS
<1>1. NoCycle \in Cycles /\ WellDated(NoCycle)
  BY FreshCycleType DEF NoCycle, Opt, WellDated, FreshCycle
<1> QED
  BY <1>1, NothingHeldType DEF Init, Inv, TypeOK, Dated, Opt

\* Every step keeps the invariant.
LEMMA NextInv == Inv /\ [Next]_vars => Inv'
<1> SUFFICES ASSUME Inv, [Next]_vars
             PROVE  Inv'
  OBVIOUS
<1>1. TypeOK /\ Dated /\ ytd \in Cycles /\ WellDated(ytd) /\ pending \in Holds
  BY DEF Inv, TypeOK, Dated
<1>2. CASE Rounds
  <2>1. PICK e \in Evidences : Folds(e)
    BY <1>1, <1>2, RoundFolds
  <2>2. ytd' \in Cycles /\ WellDated(ytd') /\ pending' \in Holds
    BY <1>1, <2>1, FoldType DEF Folds
  <2>3. /\ last_fold_at' \in Opt(Nat)
        /\ recorder_ok' \in Opt(BOOLEAN)
        /\ clock' \in Nat
        /\ year' \in Years
    BY <1>1, <1>2, RoundFolds DEF TypeOK, Opt
  <2> QED
    BY <2>2, <2>3 DEF Inv, TypeOK, Dated
<1>3. CASE Reload
  <2>1. ytd' \in Cycles /\ WellDated(ytd')
    BY <1>1, <1>3, RecordsAssumption DEF Reload
  <2> QED
    BY <1>1, <1>3, <2>1, NothingHeldType DEF Reload, Inv, TypeOK, Dated, Opt
<1>4. CASE PassTime
  BY <1>1, <1>4 DEF PassTime, Inv, TypeOK, Dated
<1>5. CASE NewYear
  BY <1>1, <1>5 DEF NewYear, Inv, TypeOK, Dated
<1>6. CASE UNCHANGED vars
  BY <1>1, <1>6 DEF vars, Inv, TypeOK, Dated
<1> QED
  BY <1>2, <1>3, <1>4, <1>5, <1>6 DEF Next

\* The invariant holds of every reachable state, whatever the meter shows and the
\* recorder answers.
THEOREM Invariance == Spec => []Inv
  BY InitInv, NextInv, PTL DEF Spec

\* The record, what is held between rounds and the stamps have their types:
\* no volume, bill or recorder figure ever goes below zero.
THEOREM TypeCorrect == Spec => []TypeOK
<1>1. Inv => TypeOK
  BY DEF Inv
<1> QED
  BY <1>1, Invariance, PTL

\* A record has a year exactly when it has a figure.
THEOREM RecordIsDated == Spec => []Dated
<1>1. Inv => Dated
  BY DEF Inv
<1> QED
  BY <1>1, Invariance, PTL

-----------------------------------------------------------------------------
(* What a step never does to the year in hand.                             *)

\* A step that keeps meter and year is a round of that year, a reload, or
\* leaves the record alone.
LEMMA StepOfTheYear ==
  ASSUME Inv, [Next]_vars, SameYear, ~Reload, ytd' # ytd
  PROVE  \E e \in Evidences :
           /\ Folds(e)
           /\ ytd.meter = e.meter
           /\ ytd.year = e.year
<1>1. TypeOK /\ Dated /\ ytd \in Cycles /\ WellDated(ytd) /\ pending \in Holds
  BY DEF Inv, TypeOK, Dated
<1>2. Rounds
  BY DEF Next, PassTime, NewYear, vars
<1>3. PICK e \in Evidences : Folds(e)
  BY <1>1, <1>2, RoundFolds
<1>4. /\ Fold(ytd, pending, e).cycle.meter = ytd.meter
      /\ Fold(ytd, pending, e).cycle.year = ytd.year
  BY <1>3 DEF SameYear, Folds
<1>5. ytd.meter = e.meter /\ (ytd.year = e.year \/ ytd' = ytd)
  BY <1>1, <1>3, <1>4, FoldOfAnyYear DEF Folds
<1> QED
  BY <1>3, <1>5

\* The same, with what the rule made of the record.
LEMMA StepFolds ==
  ASSUME Inv, [Next]_vars, SameYear, ~Reload, ytd' # ytd
  PROVE  /\ \/ YearRestarts
            \/ /\ ytd'.started_at = ytd.started_at
               /\ ytd.recorder_hwm # None =>
                    ytd'.recorder_hwm # None /\ ytd'.recorder_hwm >= ytd.recorder_hwm
               /\ Stands(ytd, ytd') \/ TakenBackTo(ytd, ytd')
         /\ ytd'.m3 <= Max(Known({ytd.m3, ytd'.recorder_hwm})) + StepBound(ytd.seen_at, clock)
<1>1. ytd \in Cycles /\ WellDated(ytd) /\ pending \in Holds
  BY DEF Inv, TypeOK, Dated
<1>2. PICK e \in Evidences : Folds(e) /\ ytd.meter = e.meter /\ ytd.year = e.year
  BY StepOfTheYear
<1>3. e.now = clock /\ ytd' = Fold(ytd, pending, e).cycle
  BY <1>2 DEF Folds
<1>4. /\ \/ Restarted(ytd, ytd', pending, e)
         \/ /\ ytd'.started_at = ytd.started_at
            /\ ytd.recorder_hwm # None =>
                 ytd'.recorder_hwm # None /\ ytd'.recorder_hwm >= ytd.recorder_hwm
            /\ Stands(ytd, ytd') \/ TakenBackTo(ytd, ytd')
      /\ ytd'.m3 <= Max(Known({ytd.m3, ytd'.recorder_hwm})) + StepBound(ytd.seen_at, e.now)
  BY <1>1, <1>2, <1>3, FoldOfTheYear
<1> QED
  BY <1>3, <1>4 DEF Restarted, YearRestarts

\* The figure of a year in hand is known, and does not exceed itself.
LEMMA FigureOfTheYear ==
  ASSUME Inv, ytd.year # None
  PROVE  ytd.m3 \in Nat
  BY DEF Inv, TypeOK, Dated, WellDated, Cycles, Opt

\* Whatever readings and answers come, the year's figure falls only when a run
\* of low readings restarts it, when a recorder that has lost nothing takes a
\* misread back, or when a reload falls back to what was saved.
THEOREM FallsForAReason == Spec => FallsOnlyForAReason
<1>1. ASSUME Inv, [Next]_vars, SameYear, ytd'.m3 < ytd.m3, ~Reload
      PROVE  YearRestarts \/ RecorderTakesBack
  <2>1. ytd.m3 \in Nat
    BY <1>1, FigureOfTheYear DEF SameYear
  <2>2. ytd' # ytd
    BY <1>1, <2>1
  <2>3. ytd' \in Cycles /\ WellDated(ytd')
    BY <1>1, NextInv DEF Inv, TypeOK, Dated
  <2>4. ytd'.m3 \in Nat
    BY <1>1, <2>3 DEF SameYear, WellDated, Cycles, Opt
  <2>5. CASE YearRestarts
    BY <2>5
  <2>6. CASE ~YearRestarts
    <3>1. /\ TakenBackTo(ytd, ytd')
          /\ ytd'.recorder_hwm # None
          /\ ytd'.recorder_hwm >= ytd.recorder_hwm
      BY <1>1, <2>1, <2>2, <2>4, <2>6, StepFolds DEF TakenBackTo, Stands
    <3> QED
      BY <3>1 DEF TakenBackTo, RecorderTakesBack
  <2> QED
    BY <2>5, <2>6
<1>2. Inv /\ [Next]_vars =>
        [(SameYear /\ ytd'.m3 < ytd.m3) =>
           YearRestarts \/ RecorderTakesBack \/ Reload]_vars
  BY <1>1
<1> QED
  BY <1>2, Invariance, PTL DEF Spec, FallsOnlyForAReason

\* No round adds more than the step bound to what the year, or the recorder,
\* already knew.
THEOREM Climbs == Spec => ClimbIsBounded
<1>1. ASSUME Inv, [Next]_vars, SameYear, ~Reload
      PROVE  ytd'.m3 <= Max(Known({ytd.m3, ytd'.recorder_hwm}))
                          + StepBound(ytd.seen_at, clock)
  <2>1. CASE ytd' # ytd
    BY <1>1, <2>1, StepFolds
  <2>2. CASE ytd' = ytd
    <3>1. ytd.m3 \in Nat
      BY <1>1, FigureOfTheYear DEF SameYear
    <3>2. ytd.m3 \in Opt(Int) /\ ytd.recorder_hwm \in Opt(Int)
      BY <1>1, <3>1 DEF Inv, TypeOK, Cycles, Opt
    <3>3. ytd.m3 \in Known({ytd.m3, ytd.recorder_hwm})
      BY <3>1, NoneAssumption DEF Known
    <3>4. /\ Max(Known({ytd.m3, ytd.recorder_hwm})) \in Int
          /\ ytd.m3 <= Max(Known({ytd.m3, ytd.recorder_hwm}))
      BY <3>2, <3>3, MaxKnownTwo
    <3>5. StepBound(ytd.seen_at, clock) \in Nat
      BY <1>1, StepBoundType DEF Inv, TypeOK, Cycles
    <3> QED
      BY <2>2, <3>1, <3>4, <3>5
  <2> QED
    BY <2>1, <2>2
<1>2. Inv /\ [Next]_vars =>
        [(SameYear /\ ~Reload) =>
           ytd'.m3 <= Max(Known({ytd.m3, ytd'.recorder_hwm}))
                        + StepBound(ytd.seen_at, clock)]_vars
  BY <1>1
<1> QED
  BY <1>2, Invariance, PTL DEF Spec, ClimbIsBounded

\* What the recorder has said of a year stands while the year runs on one
\* register.
THEOREM RecorderMark == Spec => RecorderMarkStands
<1>1. ASSUME Inv, [Next]_vars, SameYear, ytd.recorder_hwm # None, ~YearRestarts, ~Reload
      PROVE  ytd'.recorder_hwm # None /\ ytd'.recorder_hwm >= ytd.recorder_hwm
  <2>1. CASE ytd' # ytd
    BY <1>1, <2>1, StepFolds
  <2>2. CASE ytd' = ytd
    BY <1>1, <2>2 DEF Inv, TypeOK, Cycles, Opt
  <2> QED
    BY <2>1, <2>2
<1>2. Inv /\ [Next]_vars =>
        [SameYear /\ ytd.recorder_hwm # None =>
           \/ ytd'.recorder_hwm # None /\ ytd'.recorder_hwm >= ytd.recorder_hwm
           \/ YearRestarts
           \/ Reload]_vars
  BY <1>1
<1> QED
  BY <1>2, Invariance, PTL DEF Spec, RecorderMarkStands

\* The moment the figure started counting moves only with a restart.
THEOREM Start == Spec => StartStands
<1>1. ASSUME Inv, [Next]_vars, SameYear, ~YearRestarts, ~Reload
      PROVE  ytd'.started_at = ytd.started_at
  <2>1. CASE ytd' # ytd
    BY <1>1, <2>1, StepFolds
  <2>2. CASE ytd' = ytd
    BY <2>2
  <2> QED
    BY <2>1, <2>2
<1>2. Inv /\ [Next]_vars =>
        [SameYear => \/ ytd'.started_at = ytd.started_at
                     \/ YearRestarts
                     \/ Reload]_vars
  BY <1>1
<1> QED
  BY <1>2, Invariance, PTL DEF Spec, StartStands

\* The cost floor of one household falls only with the volume it priced.
THEOREM BillFalls == Spec => BillFallsOnlyWithTheYear
<1>1. ASSUME Inv, [Next]_vars, SameYear, ytd'.basis = ytd.basis, ytd.cost # None,
             ytd'.cost = None \/ ytd'.cost < ytd.cost, ~YearRestarts, ~Reload
      PROVE  RecorderTakesBack
  <2>1. ytd \in Cycles /\ ytd' \in Cycles /\ WellDated(ytd')
    BY <1>1, NextInv DEF Inv, TypeOK, Dated
  <2>2. ytd.cost \in Nat /\ ytd'.cost \in Opt(Nat)
    BY <1>1, <2>1 DEF Cycles, Opt
  <2>3. ytd' # ytd
    BY <1>1, <2>2
  <2>4. ~Stands(ytd, ytd')
    BY <1>1, <2>2 DEF Stands, Opt
  <2>5. /\ TakenBackTo(ytd, ytd')
        /\ ytd'.recorder_hwm # None
        /\ ytd'.recorder_hwm >= ytd.recorder_hwm
    BY <1>1, <2>3, <2>4, StepFolds DEF TakenBackTo
  <2> QED
    BY <2>5 DEF TakenBackTo, RecorderTakesBack
<1>2. Inv /\ [Next]_vars =>
        [(/\ SameYear /\ ytd'.basis = ytd.basis
          /\ ytd.cost # None /\ (ytd'.cost = None \/ ytd'.cost < ytd.cost)) =>
           YearRestarts \/ RecorderTakesBack \/ Reload]_vars
  BY <1>1
<1> QED
  BY <1>2, Invariance, PTL DEF Spec, BillFallsOnlyWithTheYear

-----------------------------------------------------------------------------
(* What a step makes of a year, or a meter, that is not the record's.      *)

\* A round is of some year.
LEMMA YearIsKnown ==
  ASSUME NEW e \in Evidences
  PROVE  e.year # None
<1>1. e.year \in Nat
  BY RoundsAssumption DEF Evidences
<1> QED
  BY <1>1, NoneAssumption

\* Opening a year the record is not of: nothing is known of it but what the
\* recorder says, and no run of low readings has begun.
OpensAnew(c, o, e) ==
  /\ o.mark = None
  /\ o.offset_m3 = None
  /\ o.recorder_hwm = None
  /\ o.held.hold_run = 0
  /\ o.started_at = IF c.year = None /\ ~e.has_statistic THEN e.now ELSE None
  /\ o.known_meter = (c.year # None)

LEMMA OpeningAnew ==
  ASSUME NEW c \in Cycles, NEW p \in Holds, NEW e \in Evidences, Kept(c, e).year # e.year
  PROVE  OpensAnew(Kept(c, e), Opening(c, p, e), e)
  BY DEF OpensAnew, Opening, Kept, Mark, StartedAt, NothingHeld

\* The first reading of such a year counts from what the recorder says, or
\* from nothing on a meter that has a record and a recorder that did not fail;
\* a reading below what the recorder says cannot replace the register.
LEMMA PlacedAnew ==
  ASSUME NEW c, NEW o, NEW e \in Evidences, Opened(o, e), OpensAnew(c, o, e)
  PROVE  LET r == PlaceReading(o, e)
         IN /\ GoesOn(o, r)
            /\ r.candidate # None =>
                 \/ o.seen # {} /\ r.candidate = Max(o.seen)
                 \/ /\ o.seen = {} /\ r.candidate = 0
                    /\ c.year # None /\ e.recorder_ok # FALSE
<1> DEFINE r == PlaceReading(o, e)
<1>1. o \in Stages /\ o.candidate = None
  BY DEF Opened
<1>2. Placed(o, r, e)
  BY PlaceReadingPlaces
<1>3. ~Restarts(o, r, e)
  BY BoundsAssumption DEF Restarts, OpensAnew
<1>4. CASE e.reading = None
  <2>1. r.candidate = None
    BY <1>1, <1>4 DEF PlaceReading, Stages
  <2> QED
    BY <1>2, <1>3, <2>1 DEF Placed
<1>5. CASE e.reading # None /\ o.bar # None /\ e.reading < o.bar
  <2>1. e.reading \in Int /\ o.bar \in Int
    BY <1>1, <1>5 DEF Stages, Evidences, Opt
  <2>2. ~(e.reading >= o.bar)
    BY <1>5, <2>1
  <2>3. r = BelowBar(o, e)
    BY <1>5, <2>2 DEF PlaceReading
  <2>4. CountLow(o.held, e).hold_run = 1
    BY <1>1 DEF CountLow, OpensAnew, Stages, Holds
  <2>5. r = [o EXCEPT !.held = CountLow(o.held, e)]
    BY <2>3, <2>4, BoundsAssumption DEF BelowBar
  <2>6. r.candidate = None
    BY <1>1, <2>5 DEF Stages
  <2> QED
    BY <1>2, <1>3, <2>6 DEF Placed
<1>6. CASE e.reading # None /\ (o.bar = None \/ e.reading >= o.bar)
  <2>1. ~(o.bar # None /\ e.reading < o.bar)
    BY <1>1, <1>6 DEF Stages, Evidences, Opt
  <2>2. r = BuildFrame(o, e)
    BY <1>6, <2>1 DEF PlaceReading, OpensAnew
  <2>3. CASE o.seen # {}
    <3>1. r.candidate = Max(o.seen)
      BY <1>1, <2>2, <2>3 DEF BuildFrame, Stages
    <3> QED
      BY <1>2, <1>3, <2>3, <3>1 DEF Placed
  <2>4. CASE o.seen = {}
    <3>1. CASE o.known_meter /\ e.recorder_ok # FALSE
      <4>1. r.candidate = 0
        BY <1>1, <2>2, <2>4, <3>1 DEF BuildFrame, Stages
      <4> QED
        BY <1>2, <1>3, <2>4, <3>1, <4>1 DEF Placed, OpensAnew
    <3>2. CASE ~(o.known_meter /\ e.recorder_ok # FALSE)
      <4>1. r.candidate = None
        BY <1>1, <2>2, <2>4, <3>2 DEF BuildFrame, Stages
      <4> QED
        BY <1>2, <1>3, <4>1 DEF Placed
    <3> QED
      BY <3>1, <3>2
  <2> QED
    BY <2>3, <2>4
<1>7. e.reading # None => o.bar = None \/ e.reading < o.bar \/ e.reading >= o.bar
  BY <1>1 DEF Stages, Evidences, Opt
<1> HIDE DEF r
<1> QED
  BY <1>4, <1>5, <1>6, <1>7 DEF r

\* What the first figure of a year comes from: the recorder's statistics, its
\* word that there are none, or a reading on a meter that has a record.
FromStatistics(n) ==
  /\ n.recorder_hwm # None
  /\ n.m3 <= n.recorder_hwm
  /\ n.started_at = None

FromNoStatistic(c, n, e) ==
  /\ n.m3 = 0
  /\ e.recorder_m3 # None
  /\ n.started_at = IF c.year = None THEN e.now ELSE None

FromReading(c, n, e) ==
  /\ n.m3 = 0
  /\ c.year # None
  /\ e.recorder_ok # FALSE

\* A round of a year the record is not of starts that year on one of the
\* three, or leaves the record without it.
LEMMA FoldOfAnotherYear ==
  ASSUME NEW c \in Cycles, WellDated(c), NEW p \in Holds, NEW e \in Evidences,
         Kept(c, e).year # e.year
  PROVE  LET k == Kept(c, e)
             n == Fold(c, p, e).cycle
         IN \/ n = k
            \/ FromStatistics(n)
            \/ FromNoStatistic(k, n, e)
            \/ FromReading(k, n, e)
<1> DEFINE k == Kept(c, e)
           o == Opening(c, p, e)
           r == PlaceReading(o, e)
           h == HeedRecorder(r, e)
           s == Settled(c, p, e)
           n == Fold(c, p, e).cycle
           m3 == Max(Figures(s, e))
<1>1. /\ Opened(o, e) /\ Placed(o, r, e) /\ Heard(r, h, e)
      /\ s \in Stages
      /\ s = [h EXCEPT !.seen_at = s.seen_at, !.held = s.held]
  BY SettledType
<1>2. OpensAnew(k, o, e)
  BY OpeningAnew
<1>3. /\ GoesOn(o, r)
      /\ r.candidate # None =>
           \/ o.seen # {} /\ r.candidate = Max(o.seen)
           \/ /\ o.seen = {} /\ r.candidate = 0
              /\ k.year # None /\ e.recorder_ok # FALSE
  BY <1>1, <1>2, PlacedAnew
<1>4. /\ s.mark = h.mark /\ s.candidate = h.candidate /\ s.swapped = h.swapped
      /\ s.started_at = h.started_at /\ s.recorder_hwm = h.recorder_hwm
  BY <1>1 DEF Heard, Stages
<1>5. CASE Figures(s, e) = {}
  BY <1>5 DEF Fold, Settled, Verdict
<1>6. CASE Figures(s, e) # {}
  <2>1. /\ n.m3 = m3
        /\ n.started_at = s.started_at
        /\ n.recorder_hwm = s.recorder_hwm
    BY <1>6 DEF Fold, Settled, Published, Verdict
  <2>2. m3 \in Figures(s, e) /\ m3 \in Nat
    BY <1>1, <1>6, FiguresType
  <2> HIDE DEF o, r, h, s, n, k, m3
  <2>3. /\ s.mark = None /\ ~s.swapped
        /\ s.candidate \in {None, r.candidate}
        /\ s.started_at = IF k.year = None /\ ~e.has_statistic THEN e.now ELSE None
    BY <1>1, <1>2, <1>3, <1>4 DEF Heard, TookBack, GoesOn, OpensAnew
  <2>4. m3 \in Known({s.candidate, e.recorder_m3})
    BY <2>2, <2>3 DEF Figures, RecorderFigure, Known
  <2>5. o.seen = Known({e.recorder_m3})
    BY <1>1, <1>2 DEF Opened, OpensAnew, Known
  <2>6. CASE e.recorder_m3 # None
    <3>1. o.seen = {e.recorder_m3} /\ e.recorder_m3 \in Nat
      BY <2>5, <2>6 DEF Known, Evidences, Opt
    <3>2. Max(o.seen) = e.recorder_m3
      BY <3>1 DEF Max
    <3>3. m3 = e.recorder_m3
      BY <1>3, <2>3, <2>4, <3>1, <3>2 DEF Known
    <3>4. CASE e.has_statistic
      <4>1. s.recorder_hwm # None /\ s.recorder_hwm >= e.recorder_m3 /\ s.recorder_hwm \in Nat
        BY <1>1, <1>4, <2>6, <3>4 DEF Heard, Stages, Opt
      <4>2. n.recorder_hwm # None /\ n.m3 <= n.recorder_hwm /\ n.started_at = None
        BY <2>1, <2>3, <3>1, <3>3, <3>4, <4>1
      <4> QED
        BY <4>2 DEF FromStatistics, n, k
    <3>5. CASE ~e.has_statistic
      <4>1. e.recorder_m3 = 0
        BY <2>6, <3>5 DEF Evidences
      <4>2. FromNoStatistic(k, n, e)
        BY <2>1, <2>3, <2>6, <3>3, <3>5, <4>1 DEF FromNoStatistic
      <4> QED
        BY <4>2 DEF n, k
    <3> QED
      BY <3>4, <3>5
  <2>7. CASE e.recorder_m3 = None
    <3>1. o.seen = {}
      BY <2>5, <2>7 DEF Known
    <3>2. m3 = s.candidate /\ s.candidate # None
      BY <2>4, <2>7 DEF Known
    <3>3. m3 = 0 /\ k.year # None /\ e.recorder_ok # FALSE
      BY <1>3, <2>3, <3>1, <3>2
    <3>4. FromReading(k, n, e)
      BY <2>1, <3>3 DEF FromReading
    <3> QED
      BY <3>4 DEF n, k
  <2> QED
    BY <2>6, <2>7
<1> QED
  BY <1>5, <1>6

\* A step that starts a year folds a round of it.
LEMMA StepOfAnotherYear ==
  ASSUME Inv, [Next]_vars, ~Reload, ytd'.year # None,
         ytd'.year # ytd.year \/ ytd'.meter # ytd.meter
  PROVE  \E e \in Evidences :
           /\ Folds(e)
           /\ Kept(ytd, e).year = IF ytd'.meter = ytd.meter THEN ytd.year ELSE None
           /\ FromStatistics(ytd') \/ FromNoStatistic(Kept(ytd, e), ytd', e)
                \/ FromReading(Kept(ytd, e), ytd', e)
<1>1. TypeOK /\ ytd \in Cycles /\ WellDated(ytd) /\ pending \in Holds
  BY DEF Inv, TypeOK, Dated
<1>2. Rounds
  BY DEF Next, PassTime, NewYear, vars
<1>3. PICK e \in Evidences : Folds(e)
  BY <1>1, <1>2, RoundFolds
<1> DEFINE k == Kept(ytd, e)
<1>4. ytd' = Fold(ytd, pending, e).cycle
  BY <1>3 DEF Folds
<1>5. k.meter = e.meter /\ k.year = IF e.meter = ytd.meter THEN ytd.year ELSE None
  BY DEF Kept, FreshCycle
<1>6. ytd' = k \/ (ytd'.meter = e.meter /\ ytd'.year = e.year)
  BY <1>4 DEF Fold, Published, Verdict
<1>7. ytd' # k
  <2> HIDE DEF k
  <2>1. ASSUME ytd' = k
        PROVE  FALSE
    <3>1. ytd'.meter = e.meter /\ e.meter = ytd.meter /\ ytd'.year = ytd.year
      BY <1>5, <2>1
    <3> QED
      BY <3>1
  <2> QED
    BY <2>1
<1>8. k.year = IF ytd'.meter = ytd.meter THEN ytd.year ELSE None
  BY <1>5, <1>6, <1>7
<1>9. k.year # e.year
  <2>1. e.year # None
    BY YearIsKnown
  <2> QED
    BY <1>6, <1>7, <1>8, <2>1
<1>10. \/ ytd' = k \/ FromStatistics(ytd') \/ FromNoStatistic(k, ytd', e)
       \/ FromReading(k, ytd', e)
  BY <1>1, <1>4, <1>9, FoldOfAnotherYear
<1> QED
  BY <1>3, <1>7, <1>8, <1>10

\* Another year of the same meter starts at nothing or at what the recorder says
\* of it, and no failed query starts one.
THEOREM YearStarts == Spec => YearStartsFresh
<1>1. ASSUME Inv, [Next]_vars, ytd.year # None, ytd'.meter = ytd.meter,
             ytd'.year # ytd.year, ~Reload
      PROVE  \/ ytd'.m3 = 0 /\ recorder_ok' # FALSE
             \/ ytd'.recorder_hwm # None /\ ytd'.m3 <= ytd'.recorder_hwm
  <2>1. CASE ytd'.year # None
    <3>1. PICK e \in Evidences :
            /\ Folds(e)
            /\ FromStatistics(ytd') \/ FromNoStatistic(Kept(ytd, e), ytd', e)
                 \/ FromReading(Kept(ytd, e), ytd', e)
      BY <1>1, <2>1, StepOfAnotherYear
    <3>2. e.recorder_ok = recorder_ok' /\ (e.recorder_m3 # None => e.recorder_ok # FALSE)
      BY <3>1 DEF Folds
    <3> QED
      BY <3>1, <3>2 DEF FromStatistics, FromNoStatistic, FromReading
  <2>2. CASE ytd'.year = None
    <3>1. Rounds
      BY <1>1 DEF Next, PassTime, NewYear, vars
    <3>2. PICK e \in Evidences : Folds(e)
      BY <1>1, <3>1, RoundFolds DEF Inv
    <3>3. ytd' = Kept(ytd, e) \/ ytd'.year = e.year
      BY <3>2 DEF Folds, Fold, Published, Verdict
    <3>4. e.year # None
      BY YearIsKnown
    <3> QED
      BY <1>1, <2>2, <3>3, <3>4 DEF Kept, FreshCycle
  <2> QED
    BY <2>1, <2>2
<1>2. Inv /\ [Next]_vars =>
        [(/\ ytd.year # None /\ ytd'.meter = ytd.meter /\ ytd'.year # ytd.year
          /\ ~Reload) =>
           \/ ytd'.m3 = 0 /\ recorder_ok' # FALSE
           \/ ytd'.recorder_hwm # None /\ ytd'.m3 <= ytd'.recorder_hwm]_vars
  BY <1>1
<1> QED
  BY <1>2, Invariance, PTL DEF Spec, YearStartsFresh

\* A record without history takes its first figure from a recorder answer, never
\* from a reading.
THEOREM FirstFigure == Spec => FirstFigureIsEarned
<1>1. ASSUME Inv, [Next]_vars, ytd.year = None \/ ytd'.meter # ytd.meter,
             ytd'.year # None, ~Reload
      PROVE  \/ ytd'.recorder_hwm # None /\ ytd'.started_at = None
                  /\ ytd'.m3 <= ytd'.recorder_hwm
             \/ ytd'.m3 = 0 /\ ytd'.started_at = clock
  <2>1. PICK e \in Evidences :
          /\ Folds(e)
          /\ Kept(ytd, e).year = IF ytd'.meter = ytd.meter THEN ytd.year ELSE None
          /\ FromStatistics(ytd') \/ FromNoStatistic(Kept(ytd, e), ytd', e)
               \/ FromReading(Kept(ytd, e), ytd', e)
    BY <1>1, StepOfAnotherYear
  <2>2. Kept(ytd, e).year = None /\ e.now = clock
    BY <1>1, <2>1 DEF Folds
  <2> QED
    BY <2>1, <2>2 DEF FromStatistics, FromNoStatistic, FromReading
<1>2. Inv /\ [Next]_vars =>
        [(/\ ytd.year = None \/ ytd'.meter # ytd.meter
          /\ ytd'.year # None /\ ~Reload) =>
           \/ ytd'.recorder_hwm # None /\ ytd'.started_at = None
                /\ ytd'.m3 <= ytd'.recorder_hwm
           \/ ytd'.m3 = 0 /\ ytd'.started_at = clock]_vars
  BY <1>1
<1> QED
  BY <1>2, Invariance, PTL DEF Spec, FirstFigureIsEarned
=============================================================================
