-------------------------- MODULE YearToDateProofs --------------------------
(***************************************************************************)
(* Theorems of YearToDate, for any water, lags, budgets and interleavings  *)
(* of the tick's awaits with the meter's events, reloads and crashes: what *)
(* is published is the record, what is not marked dirty is in the file,    *)
(* and every step is one of YtdRounds.                                     *)
(***************************************************************************)
EXTENDS YearToDate, YtdRoundsProofs

-----------------------------------------------------------------------------
(* The types.                                                              *)

\* The records of the meter, as memory and the file hold them.
Files == {c \in Cycles : WellDated(c) /\ c.meter \in {None, Meter}}

\* What the meter may show, and the recorder answer.
Sights == Opt(Nat \cup Glitches)
Statistics == [m3 : Nat, taken_back : {0}, has_statistic : {TRUE}]

Asking ==
  [year : TickYears, live : Sights, answer : {None, NoAnswer} \cup Statistics,
   m3 : {None}, saved : {None}]

Saving ==
  [year : TickYears, live : {None}, answer : {None}, m3 : Opt(Nat), saved : Files]

TickType ==
  /\ pc \in {"idle", "history", "query", "save"}
  /\ pc \in {"idle", "history"} => tick = NoTick
  /\ pc = "query" => tick \in Asking
  /\ pc = "save" => tick \in Saving

YTDType ==
  /\ TypeOK
  /\ ytd \in Files /\ store \in Files
  /\ register \in Nat /\ shown \in Sights
  /\ drawn \in [Years -> Nat] /\ compiled \in [Years -> Nat]
  /\ arbitrate \in BOOLEAN /\ dirty \in BOOLEAN /\ delayed \in BOOLEAN
  /\ left \in [Happenings -> Nat]
  /\ TickType

LEMMA SightsType == Sights \subseteq Opt(Int)
<1>1. \A n \in Nat \cup Glitches : n \in Int
  BY YearToDateAssumption
<1> QED
  BY <1>1 DEF Sights, Opt

LEMMA StatisticsType == {NoAnswer} \cup Statistics \subseteq RecorderSays
<1> SUFFICES ASSUME NEW answer \in Statistics
             PROVE  answer \in RecorderSays
  BY AnswerType
<1>1. answer.m3 \in Nat /\ answer.taken_back = 0 /\ answer.has_statistic = TRUE
  BY DEF Statistics
<1> DEFINE bools == {TRUE}
<1>2. answer \in [m3 : Nat, taken_back : {0}, has_statistic : bools] /\ bools \subseteq BOOLEAN
  BY DEF Statistics
<1>3. answer \in [m3 : Opt(Nat), taken_back : Nat, has_statistic : BOOLEAN]
  <2> HIDE DEF bools
  <2> QED
    BY <1>2 DEF Opt
<1> QED
  BY <1>1, <1>3 DEF RecorderSays

\* A record before any is one of the meter's.
LEMMA NoCycleFile == NoCycle \in Files
  BY FreshCycleType DEF NoCycle, Files, Opt, WellDated, FreshCycle

\* A round gives back the figure of the record it leaves, or none and the
\* figure as it was.
LEMMA FoldFiles ==
  ASSUME YTDType, NEW e \in Evidences, e.meter = Meter, FoldCycle(e)
  PROVE  /\ ytd' \in Files /\ pending' \in Holds /\ last_fold_at' = clock
         /\ Outcome(e).m3 \in {None, ytd'.m3}
         /\ Outcome(e).m3 = None => ytd'.m3 = ytd.m3
<1>1. ytd \in Cycles /\ WellDated(ytd) /\ pending \in Holds /\ ytd.meter \in {None, Meter}
  BY DEF YTDType, TypeOK, Files
<1>2. ytd' = Fold(ytd, pending, e).cycle /\ pending' = Fold(ytd, pending, e).pending
      /\ last_fold_at' = clock
  BY DEF FoldCycle
<1>3. ytd' \in Cycles /\ WellDated(ytd') /\ pending' \in Holds
  BY <1>1, <1>2, FoldType
<1> DEFINE s == Settled(ytd, pending, e)
<1>4. CASE Figures(s, e) = {}
  <2>1. Fold(ytd, pending, e) = Verdict(s, Kept(ytd, e), None, None)
    BY <1>4 DEF Fold, Settled
  <2>2. ytd' = Kept(ytd, e) /\ Outcome(e).m3 = None
    BY <1>2, <2>1 DEF Verdict, Outcome
  <2>3. ytd.meter = None => ytd.m3 = None
    BY <1>1 DEF WellDated
  <2>4. Kept(ytd, e).m3 = ytd.m3 /\ Kept(ytd, e).meter = Meter
    BY <1>1, <2>3 DEF Kept, FreshCycle
  <2> QED
    BY <1>2, <1>3, <2>2, <2>4 DEF Files
<1>5. CASE Figures(s, e) # {}
  <2>1. Fold(ytd, pending, e) = Published(s, e)
    BY <1>5 DEF Fold, Settled
  <2>2. ytd'.m3 = Outcome(e).m3 /\ ytd'.meter = Meter
    BY <1>2, <2>1 DEF Published, Verdict, Outcome
  <2>3. ytd'.m3 # None
    <3>1. s \in Stages
      BY <1>1, SettledType
    <3>2. Max(Figures(s, e)) \in Nat
      BY <1>5, <3>1, FiguresType
    <3> QED
      BY <1>2, <2>1, <3>2, NoneAssumption DEF Published, Verdict
  <2> QED
    BY <1>2, <1>3, <2>2, <2>3 DEF Files
<1> QED
  BY <1>4, <1>5

-----------------------------------------------------------------------------
(* What the callers fold.                                                  *)

\* A live round: the meter event's evidence, folded and published.
LiveFold(e, state) ==
  /\ e.meter = Meter /\ e.year = year /\ e.reading = state /\ e.recorder_m3 = None
  /\ e.now = clock
  /\ FoldCycle(e)
  /\ dirty' = (dirty \/ Compared(ytd') # Compared(ytd))
  /\ arbitrate' \in BOOLEAN
  /\ Publish(Outcome(e).m3)
  /\ UNCHANGED recorder_ok

NoFold == UNCHANGED <<ytd, pending, last_fold_at, recorder_ok, arbitrate, dirty, data, delayed>>

LEMMA ShowFolds ==
  ASSUME YTDType, NEW state \in Opt(Int), Show(state)
  PROVE  /\ NoFold \/ (data # None /\ \E e \in Evidences : LiveFold(e, state))
         /\ shown' = state /\ UNCHANGED <<store, pc, tick, clock, year>>
<1>1. MeterEvent(state) /\ shown' = state /\ UNCHANGED <<store, pc, tick, clock, year>>
  BY DEF Show
<1>2. CASE data = None \/ state = None
  BY <1>1, <1>2 DEF MeterEvent, NoFold, roundVars
<1>3. CASE ~(data = None \/ state = None)
  <2> DEFINE e == Evidence(year, Meter, state, Household, NoAnswer, recorder_ok)
  <2>1. /\ FoldAndMark(e, arbitrate)
        /\ Publish(Outcome(e).m3)
        /\ UNCHANGED recorder_ok
    BY <1>1, <1>3 DEF MeterEvent
  <2>2. /\ TypeOK /\ year \in Years /\ recorder_ok \in Opt(BOOLEAN)
        /\ Meter \in Meters /\ Household \in Households
    BY YearToDateAssumption DEF YTDType, TypeOK
  <2>3. NoAnswer \in RecorderSays
    BY AnswerType
  <2>4. e \in Evidences /\ e.now = clock
    BY <2>2, <2>3, EvidenceType
  <2>5. e.meter = Meter /\ e.year = year /\ e.reading = state /\ e.recorder_m3 = None
    BY DEF Evidence, NoAnswer
  <2> HIDE DEF e
  <2>6. FoldCycle(e) /\ dirty' = (dirty \/ Compared(ytd') # Compared(ytd)) /\ arbitrate' \in BOOLEAN
    BY <2>1 DEF FoldAndMark
  <2>7. LiveFold(e, state)
    BY <2>1, <2>4, <2>5, <2>6 DEF LiveFold
  <2> QED
    BY <1>1, <1>3, <2>4, <2>7
<1> QED
  BY <1>2, <1>3

\* A tick's round, on what the meter shows and, where it was asked, on the
\* recorder's answer for the tick's year.
TickFolds(e) ==
  /\ e.meter = Meter /\ e.year \in TickYears /\ e.reading = shown /\ e.now = clock
  /\ \/ e.recorder_m3 = None
     \/ pc = "query" /\ tick.answer # None /\ e.year = tick.year /\ e.recorder_m3 = tick.answer.m3
  /\ FoldCycle(e)
  /\ arbitrate' \in BOOLEAN /\ recorder_ok' \in Opt(BOOLEAN)
  /\ AfterFold(Outcome(e).m3, e.year)
  /\ UNCHANGED <<register, shown, drawn, compiled, store, left, clock, year>>

LEMMA TickRounds ==
  ASSUME YTDType, TickUnasked \/ TickFold
  PROVE  pc \in {"history", "query"} /\ \E e \in Evidences : TickFolds(e)
<1>1. /\ TypeOK /\ year \in Years /\ year \in TickYears /\ shown \in Opt(Int)
      /\ Meter \in Meters /\ Household \in Households
  BY YearToDateAssumption, SightsType DEF YTDType, TypeOK, TickYears
<1>2. CASE TickUnasked
  <2> DEFINE e == Evidence(year, Meter, shown, Household, NoAnswer, None)
  <2>1. /\ pc = "history" /\ recorder_ok' = None /\ FoldCycle(e)
        /\ arbitrate' = (arbitrate \/ Outcome(e).swapped \/ Outcome(e).arbitrate)
        /\ AfterFold(Outcome(e).m3, year)
        /\ UNCHANGED <<register, shown, drawn, compiled, store, left, clock, year>>
    BY <1>2 DEF TickUnasked, meterVars
  <2>2. NoAnswer \in RecorderSays /\ None \in Opt(BOOLEAN)
    BY AnswerType DEF Opt
  <2>3. e \in Evidences /\ e.now = clock
    BY <1>1, <2>2, EvidenceType
  <2>4. e.meter = Meter /\ e.year = year /\ e.reading = shown /\ e.recorder_m3 = None
    BY DEF Evidence, NoAnswer
  <2> HIDE DEF e
  <2>5. TickFolds(e)
    BY <1>1, <2>1, <2>2, <2>3, <2>4 DEF TickFolds
  <2> QED
    BY <2>1, <2>3, <2>5
<1>3. CASE TickFold
  <2> DEFINE ok == tick.answer # NoAnswer
             e == Evidence(tick.year, Meter, shown, Household, tick.answer, ok)
  <2>1. /\ pc = "query" /\ tick.answer # None /\ recorder_ok' = ok /\ FoldCycle(e)
        /\ arbitrate' = (arbitrate \/ Outcome(e).swapped \/ Outcome(e).arbitrate)
        /\ AfterFold(Outcome(e).m3, tick.year)
        /\ UNCHANGED <<register, shown, drawn, compiled, store, left, clock, year>>
    BY <1>3 DEF TickFold, TickReading, meterVars
  <2>2. tick \in Asking
    BY <2>1 DEF YTDType, TickType
  <2>3. tick.year \in TickYears /\ tick.answer \in RecorderSays
    BY <2>1, <2>2, StatisticsType DEF Asking
  <2>4. ok \in Opt(BOOLEAN)
    BY DEF Opt
  <2>5. tick.year \in Years
    BY <2>3 DEF TickYears
  <2> HIDE DEF ok
  <2>6. e \in Evidences /\ e.now = clock
    BY <1>1, <2>3, <2>4, <2>5, EvidenceType
  <2>7. e.meter = Meter /\ e.year = tick.year /\ e.reading = shown
        /\ e.recorder_m3 = tick.answer.m3
    BY DEF Evidence
  <2> HIDE DEF e
  <2>8. TickFolds(e)
    BY <2>1, <2>3, <2>4, <2>6, <2>7 DEF TickFolds
  <2> QED
    BY <2>1, <2>6, <2>8
<1> QED
  BY <1>2, <1>3

\* The end of a save: the record as it was saved is published, or a round on no
\* evidence publishes the record a meter event moved on.
SavedFold(e) ==
  /\ e.meter = Meter /\ e.year \in TickYears /\ e.reading = None /\ e.recorder_m3 = None
  /\ e.now = clock
  /\ FoldCycle(e)
  /\ dirty' = (dirty \/ Compared(ytd') # Compared(ytd))
  /\ arbitrate' \in BOOLEAN
  /\ data' = [m3 |-> Outcome(e).m3]
  /\ UNCHANGED recorder_ok

LEMMA SavedFolds ==
  ASSUME YTDType, TickSaved
  PROVE  /\ pc = "save" /\ pc' = "idle" /\ tick' = NoTick /\ tick \in Saving
         /\ store' = tick.saved
         /\ UNCHANGED <<delayed, register, shown, drawn, compiled, left, clock, year>>
         /\ \/ /\ Compared(ytd) = Compared(tick.saved)
               /\ data' = [m3 |-> tick.m3]
               /\ UNCHANGED <<ytd, pending, last_fold_at, recorder_ok, arbitrate, dirty>>
            \/ /\ Compared(ytd) # Compared(tick.saved)
               /\ \E e \in Evidences : SavedFold(e)
<1>1. /\ pc = "save" /\ pc' = "idle" /\ tick' = NoTick /\ tick \in Saving
      /\ store' = tick.saved
      /\ UNCHANGED <<delayed, register, shown, drawn, compiled, left, clock, year>>
  BY DEF TickSaved, YTDType, TickType, meterVars
<1>2. CASE Compared(ytd) = Compared(tick.saved)
  BY <1>1, <1>2 DEF TickSaved, roundVars
<1>3. CASE Compared(ytd) # Compared(tick.saved)
  <2> DEFINE e == Evidence(tick.year, Meter, None, Household, NoAnswer, recorder_ok)
  <2>1. FoldAndMark(e, arbitrate) /\ data' = [m3 |-> Outcome(e).m3] /\ UNCHANGED recorder_ok
    BY <1>3 DEF TickSaved
  <2>2. /\ TypeOK /\ recorder_ok \in Opt(BOOLEAN)
        /\ Meter \in Meters /\ Household \in Households
    BY YearToDateAssumption DEF YTDType, TypeOK
  <2>3. NoAnswer \in RecorderSays /\ None \in Opt(Int)
    BY AnswerType DEF Opt
  <2>4. tick.year \in TickYears /\ tick.year \in Years
    BY <1>1 DEF Saving, TickYears
  <2>5. e \in Evidences /\ e.now = clock
    BY <2>2, <2>3, <2>4, EvidenceType
  <2>6. e.meter = Meter /\ e.year = tick.year /\ e.reading = None /\ e.recorder_m3 = None
    BY DEF Evidence, NoAnswer
  <2> HIDE DEF e
  <2>7. SavedFold(e)
    BY <2>1, <2>4, <2>5, <2>6 DEF FoldAndMark, SavedFold
  <2> QED
    BY <1>1, <1>3, <2>5, <2>7
<1> QED
  BY <1>2, <1>3

\* What the world does around the coordinator, as far as the coordinator sees it.
LEMMA EnvironmentShows ==
  ASSUME YTDType, Environment
  PROVE  /\ \/ \E state \in Sights : Show(state)
            \/ Turn
            \/ Wait
         /\ register' \in Nat /\ drawn' \in [Years -> Nat] /\ compiled' = compiled
         /\ shown' \in Sights /\ left' \in [Happenings -> Nat]
<1>1. /\ register \in Nat /\ shown \in Sights /\ drawn \in [Years -> Nat]
      /\ left \in [Happenings -> Nat] /\ year \in Years
  BY DEF YTDType, TypeOK
<1>2. None \in Sights /\ \A n \in Nat \cup Glitches : n \in Sights
  BY DEF Sights, Opt
<1>3. \A what \in Happenings : Spend(what) => left' \in [Happenings -> Nat]
  <2> SUFFICES ASSUME NEW what \in Happenings, Spend(what)
               PROVE  left' \in [Happenings -> Nat]
    OBVIOUS
  <2>1. left[what] - 1 \in Nat
    BY <1>1 DEF Spend
  <2> QED
    BY <1>1, <2>1 DEF Spend
<1>4. CASE Draw
  <2>1. left' \in [Happenings -> Nat] /\ compiled' = compiled /\ register' = register + 1
    BY <1>3, <1>4 DEF Draw, Happenings
  <2>2. register' \in Nat /\ (IF shown = None THEN None ELSE register') \in Sights
    BY <1>1, <1>2, <2>1
  <2>3. drawn' \in [Years -> Nat]
    BY <1>1, <1>4 DEF Draw
  <2>4. Show(IF shown = None THEN None ELSE register')
    BY <1>4 DEF Draw
  <2>5. shown' \in Sights
    BY <2>2, <2>4 DEF Show
  <2> QED
    BY <2>1, <2>2, <2>3, <2>4, <2>5
<1>5. CASE GoOutOfSight
  BY <1>1, <1>2, <1>5 DEF GoOutOfSight, Show
<1>6. CASE ShowRegister
  BY <1>1, <1>2, <1>6 DEF ShowRegister, Show
<1>7. CASE Glitch
  <2>1. left' \in [Happenings -> Nat]
    BY <1>3, <1>7 DEF Glitch, Happenings
  <2>2. PICK value \in Glitches : Show(value)
    BY <1>7 DEF Glitch
  <2>3. value \in Sights
    BY <1>2
  <2> QED
    BY <1>1, <1>7, <2>1, <2>2, <2>3 DEF Glitch, Show
<1>8. CASE Replace
  <2>1. left' \in [Happenings -> Nat]
    BY <1>3, <1>8 DEF Replace, Happenings
  <2>2. NewRegister \in Nat /\ NewRegister \in Sights
    BY <1>2, YearToDateAssumption
  <2> QED
    BY <1>1, <1>8, <2>1, <2>2 DEF Replace, Show
<1>9. CASE Report
  BY <1>1, <1>9 DEF Report, Show
<1>10. CASE Turn
  <2>1. left' \in [Happenings -> Nat]
    BY <1>3, <1>10 DEF Turn, Happenings
  <2> QED
    BY <1>1, <1>10, <2>1 DEF Turn, meterVars
<1>11. CASE Wait
  BY <1>1, <1>11 DEF Wait, meterVars
<1> QED
  BY <1>4, <1>5, <1>6, <1>7, <1>8, <1>9, <1>10, <1>11 DEF Environment

-----------------------------------------------------------------------------
(* Types are kept.                                                         *)

LEMMA TypeInit == YTDInit => YTDType
<1> SUFFICES ASSUME YTDInit
             PROVE  YTDType
  OBVIOUS
<1>1. year \in Years /\ year \in Nat
  BY RoundsAssumption DEF YTDInit, Init
<1>2. ytd \in Files /\ store \in Files /\ ytd \in Cycles
  BY NoCycleFile DEF YTDInit, Init, Files
<1>3. TypeOK
  BY <1>1, <1>2, NothingHeldType DEF YTDInit, Init, TypeOK, Opt
<1>4. register \in Nat /\ shown \in Sights
  BY YearToDateAssumption DEF YTDInit, Sights, Opt
<1>5. drawn \in [Years -> Nat] /\ compiled \in [Years -> Nat]
  <2>1. [y \in Years |-> IF y = year THEN FirstDrawn ELSE 0] \in [Years -> Nat]
    BY YearToDateAssumption
  <2> QED
    BY <2>1 DEF YTDInit
<1>6. left \in [Happenings -> Nat]
  BY YearToDateAssumption DEF YTDInit
<1>7. TickType
  BY DEF YTDInit, TickType
<1>8. arbitrate \in BOOLEAN /\ dirty \in BOOLEAN /\ delayed \in BOOLEAN
  BY DEF YTDInit
<1> QED
  BY <1>2, <1>3, <1>4, <1>5, <1>6, <1>7, <1>8 DEF YTDType

\* What the tick has read keeps its type when the year stays as it is.
LEMMA TickTypeStands ==
  ASSUME TickType, UNCHANGED <<pc, tick, year>>
  PROVE  TickType'
<1>1. TickYears' = TickYears
  BY DEF TickYears
<1>2. Asking' = Asking /\ Saving' = Saving
  BY <1>1 DEF Asking, Saving
<1> QED
  BY <1>2 DEF TickType

\* The tick of a year that turns meanwhile is the year before's.
LEMMA TickTypeTurns ==
  ASSUME YTDType, Turn
  PROVE  TickType'
<1>1. /\ UNCHANGED <<pc, tick>> /\ year' = year + 1 /\ tick.year \in {None, year}
      /\ year \in Years /\ year \in Nat
  BY RoundsAssumption DEF Turn, NewYear, YTDType, TypeOK
<1>2. year \in TickYears'
  BY <1>1 DEF TickYears
<1>3. \A y \in TickYears : y # None
  BY NoneAssumption, RoundsAssumption DEF TickYears
<1>4. CASE pc = "query"
  <2>1. tick \in Asking
    BY <1>4 DEF YTDType, TickType
  <2>2. tick.year \in TickYears'
    BY <1>1, <1>2, <1>3, <2>1 DEF Asking
  <2>3. tick \in Asking'
    BY <2>1, <2>2 DEF Asking
  <2> QED
    BY <1>1, <1>4, <2>3 DEF TickType
<1>5. CASE pc = "save"
  <2>1. tick \in Saving
    BY <1>5 DEF YTDType, TickType
  <2>2. tick.year \in TickYears'
    BY <1>1, <1>2, <1>3, <2>1 DEF Saving
  <2>3. tick \in Saving'
    BY <2>1, <2>2 DEF Saving
  <2> QED
    BY <1>1, <1>5, <2>3 DEF TickType
<1>6. CASE pc \in {"idle", "history"}
  BY <1>1, <1>6 DEF YTDType, TickType
<1> QED
  BY <1>4, <1>5, <1>6 DEF YTDType, TickType

\* What a round leaves has the types of the record and its holds.
LEMMA FoldKeepsTypes ==
  ASSUME YTDType, NEW e \in Evidences, e.meter = Meter, FoldCycle(e),
         recorder_ok' \in Opt(BOOLEAN), UNCHANGED <<clock, year>>
  PROVE  TypeOK' /\ ytd' \in Files
<1>1. ytd' \in Files /\ pending' \in Holds /\ last_fold_at' = clock
  BY FoldFiles
<1> QED
  BY <1>1 DEF YTDType, TypeOK, Files, Opt

LEMMA ShowKeepsTypes ==
  ASSUME YTDType, NEW state \in Opt(Int), Show(state)
  PROVE  /\ TypeOK' /\ ytd' \in Files /\ store' = store /\ TickType'
         /\ arbitrate' \in BOOLEAN /\ dirty' \in BOOLEAN /\ delayed' \in BOOLEAN
<1>1. /\ NoFold \/ (\E e \in Evidences : LiveFold(e, state))
      /\ UNCHANGED <<store, pc, tick, clock, year>>
  BY ShowFolds
<1>2. TickType'
  BY <1>1, TickTypeStands DEF YTDType
<1>3. CASE NoFold
  BY <1>1, <1>2, <1>3 DEF YTDType, TypeOK, NoFold
<1>4. CASE \E e \in Evidences : LiveFold(e, state)
  <2>1. PICK e \in Evidences : LiveFold(e, state)
    BY <1>4
  <2>2. recorder_ok' \in Opt(BOOLEAN)
    BY <2>1 DEF LiveFold, YTDType, TypeOK
  <2>3. TypeOK' /\ ytd' \in Files
    BY <1>1, <2>1, <2>2, FoldKeepsTypes DEF LiveFold
  <2>4. arbitrate' \in BOOLEAN /\ dirty' \in BOOLEAN
    BY <2>1 DEF LiveFold, YTDType
  <2>5. delayed' \in BOOLEAN
    <3>1. delayed' = delayed \/ delayed' = (delayed \/ dirty')
      BY <2>1 DEF LiveFold, Publish
    <3> QED
      BY <3>1, <2>4 DEF YTDType
  <2> QED
    BY <1>1, <1>2, <2>3, <2>4, <2>5
<1> QED
  BY <1>1, <1>3, <1>4

\* A round of the tick ends it or leaves it with a record to save.
LEMMA TickFoldKeepsTypes ==
  ASSUME YTDType, NEW e \in Evidences, TickFolds(e)
  PROVE  YTDType'
<1>1. /\ e.meter = Meter /\ e.year \in TickYears /\ FoldCycle(e)
      /\ arbitrate' \in BOOLEAN /\ recorder_ok' \in Opt(BOOLEAN)
      /\ AfterFold(Outcome(e).m3, e.year)
      /\ UNCHANGED <<register, shown, drawn, compiled, store, left, clock, year>>
  BY DEF TickFolds
<1>2. TypeOK' /\ ytd' \in Files /\ Outcome(e).m3 \in {None, ytd'.m3}
  BY <1>1, FoldKeepsTypes, FoldFiles
<1>3. Outcome(e).m3 \in Opt(Nat)
  BY <1>2 DEF Files, Cycles, Opt
<1>4. dirty' \in BOOLEAN /\ delayed' \in BOOLEAN /\ TickType'
  <2>1. CASE dirty \/ Compared(ytd') # Compared(ytd)
    <3>1. /\ pc' = "save" /\ dirty' = FALSE /\ delayed' = FALSE
          /\ tick' = [year |-> e.year, live |-> None, answer |-> None,
                      m3 |-> Outcome(e).m3, saved |-> ytd']
      BY <1>1, <2>1 DEF AfterFold, NoTick
    <3>2. TickYears' = TickYears
      BY <1>1 DEF TickYears
    <3>3. tick' \in Saving'
      BY <1>1, <1>2, <1>3, <3>1, <3>2 DEF Saving
    <3> QED
      BY <3>1, <3>3 DEF TickType
  <2>2. CASE ~(dirty \/ Compared(ytd') # Compared(ytd))
    BY <1>1, <2>2 DEF AfterFold, TickType, YTDType
  <2> QED
    BY <2>1, <2>2
<1> QED
  BY <1>1, <1>2, <1>4 DEF YTDType

\* A record that is loaded is a record of the file.
LEMMA LoadKeepsTypes ==
  ASSUME YTDType, store' \in Files, left' \in [Happenings -> Nat], Load(store')
  PROVE  YTDType'
<1>1. ytd' = store' /\ TypeOK'
  BY NothingHeldType DEF Load, YTDType, TypeOK, Files, Opt
<1>2. arbitrate' \in BOOLEAN /\ dirty' \in BOOLEAN /\ delayed' \in BOOLEAN /\ TickType'
  BY DEF Load, TickType
<1> QED
  BY <1>1, <1>2 DEF YTDType, Load, meterVars

LEMMA SpendKeepsTypes ==
  ASSUME YTDType, NEW what \in Happenings, Spend(what)
  PROVE  left' \in [Happenings -> Nat]
<1>1. left \in [Happenings -> Nat] /\ left[what] - 1 \in Nat
  BY DEF YTDType, Spend
<1> QED
  BY <1>1 DEF Spend

LEMMA TypeNext == YTDType /\ [YTDNext]_allvars => YTDType'
<1> SUFFICES ASSUME YTDType, [YTDNext]_allvars
             PROVE  YTDType'
  OBVIOUS
<1>1. CASE Environment
  <2>1. /\ register' \in Nat /\ drawn' \in [Years -> Nat] /\ compiled' \in [Years -> Nat]
        /\ shown' \in Sights /\ left' \in [Happenings -> Nat]
    BY <1>1, EnvironmentShows DEF YTDType
  <2>2. CASE \E state \in Sights : Show(state)
    BY <2>1, <2>2, SightsType, ShowKeepsTypes DEF YTDType
  <2>3. CASE Turn
    <3>1. TypeOK'
      BY <2>3 DEF Turn, NewYear, YTDType, TypeOK
    <3> QED
      BY <2>1, <2>3, <3>1, TickTypeTurns DEF Turn, NewYear, YTDType, ownVars
  <2>4. CASE Wait
    <3>1. TypeOK'
      BY <2>4 DEF Wait, PassTime, YTDType, TypeOK
    <3>2. TickType'
      BY <2>4, TickTypeStands DEF Wait, PassTime, YTDType
    <3> QED
      BY <2>1, <2>4, <3>1, <3>2 DEF Wait, PassTime, YTDType, ownVars
  <2> QED
    BY <1>1, <2>2, <2>3, <2>4, EnvironmentShows
<1>2. CASE Compile \/ DelayedSave
  <2>1. UNCHANGED vars /\ UNCHANGED <<pc, tick, year>>
    BY <1>2 DEF Compile, DelayedSave, vars
  <2>2. TypeOK' /\ TickType'
    BY <2>1, TickTypeStands DEF YTDType, TypeOK, vars
  <2> QED
    BY <1>2, <2>1, <2>2 DEF Compile, DelayedSave, YTDType, vars, meterVars, ownVars
<1>3. CASE TickUnasked \/ TickFold
  BY <1>3, TickRounds, TickFoldKeepsTypes
<1>4. CASE TickStart
  <2>1. TypeOK' /\ TickType'
    BY <1>4 DEF TickStart, vars, YTDType, TypeOK, TickType
  <2> QED
    BY <1>4, <2>1 DEF TickStart, vars, meterVars, ownVars, YTDType
<1>5. CASE TickAsks
  <2>1. TypeOK' /\ TickYears' = TickYears /\ year \in TickYears
    BY <1>5 DEF TickAsks, vars, YTDType, TypeOK, TickYears
  <2>2. tick' = [year |-> year, live |-> shown, answer |-> None, m3 |-> None, saved |-> None]
    <3>1. tick = NoTick /\ tick' = [tick EXCEPT !.year = year, !.live = shown]
      BY <1>5 DEF TickAsks, YTDType, TickType
    <3> QED
      BY <3>1 DEF NoTick
  <2>3. tick' \in Asking'
    BY <2>1, <2>2 DEF Asking, YTDType
  <2> QED
    BY <1>5, <2>1, <2>3 DEF TickAsks, vars, meterVars, YTDType, TickType
<1>6. CASE RecorderAnswers \/ QueryFails
  <2>1. /\ pc = "query" /\ UNCHANGED <<vars, meterVars, ownVars, pc>>
        /\ \E answer \in {NoAnswer} \cup Statistics : tick' = [tick EXCEPT !.answer = answer]
    <3>1. CASE RecorderAnswers
      <4>1. tick.year \in Years
        BY <3>1 DEF RecorderAnswers, YTDType, TickType, Asking, TickYears
      <4>2. compiled[tick.year] \in Nat
        BY <4>1 DEF YTDType
      <4>3. [m3 |-> compiled[tick.year], taken_back |-> 0, has_statistic |-> TRUE]
              \in Statistics
        BY <4>2 DEF Statistics
      <4> QED
        BY <3>1, <4>3 DEF RecorderAnswers
    <3>2. CASE QueryFails
      BY <3>2 DEF QueryFails
    <3> QED
      BY <1>6, <3>1, <3>2
  <2>2. left' \in [Happenings -> Nat]
    BY <1>6, SpendKeepsTypes DEF RecorderAnswers, QueryFails, YTDType, Happenings
  <2>3. TypeOK' /\ TickYears' = TickYears
    BY <2>1 DEF vars, YTDType, TypeOK, TickYears
  <2>4. tick' \in Asking'
    <3>1. tick \in Asking
      BY <2>1 DEF YTDType, TickType
    <3> QED
      BY <2>1, <2>3, <3>1 DEF Asking
  <2> QED
    BY <2>1, <2>2, <2>3, <2>4 DEF vars, meterVars, ownVars, YTDType, TickType
<1>7. CASE TickSaved
  <2>1. /\ pc' = "idle" /\ tick' = NoTick /\ tick \in Saving /\ store' = tick.saved
        /\ UNCHANGED <<delayed, register, shown, drawn, compiled, left, clock, year>>
    BY <1>7, SavedFolds
  <2>2. store' \in Files /\ TickType'
    BY <2>1 DEF Saving, TickType
  <2>3. CASE UNCHANGED <<ytd, pending, last_fold_at, recorder_ok, arbitrate, dirty>>
    BY <2>1, <2>2, <2>3 DEF YTDType, TypeOK
  <2>4. CASE \E e \in Evidences : SavedFold(e)
    <3>1. PICK e \in Evidences : SavedFold(e)
      BY <2>4
    <3>2. recorder_ok' \in Opt(BOOLEAN)
      BY <3>1 DEF SavedFold, YTDType, TypeOK
    <3>3. TypeOK' /\ ytd' \in Files
      BY <2>1, <3>1, <3>2, FoldKeepsTypes DEF SavedFold
    <3>4. arbitrate' \in BOOLEAN /\ dirty' \in BOOLEAN
      BY <3>1 DEF SavedFold, YTDType
    <3> QED
      BY <2>1, <2>2, <3>3, <3>4 DEF YTDType
  <2> QED
    BY <1>7, <2>3, <2>4, SavedFolds
<1>8. CASE Unload
  <2>1. left' \in [Happenings -> Nat] /\ store' \in Files /\ Load(store')
    BY <1>8, SpendKeepsTypes DEF Unload, Happenings, YTDType
  <2> QED
    BY <2>1, LoadKeepsTypes
<1>9. CASE Crash
  <2>1. left' \in [Happenings -> Nat] /\ Load(store')
    BY <1>9, SpendKeepsTypes DEF Crash, Happenings
  <2>2. store' = store \/ (pc = "save" /\ store' = tick.saved)
    BY <1>9 DEF Crash
  <2>3. store' \in Files
    BY <2>2 DEF YTDType, TickType, Saving
  <2> QED
    BY <2>1, <2>3, LoadKeepsTypes
<1>10. CASE UNCHANGED allvars
  <2>1. TypeOK' /\ TickType'
    BY <1>10, TickTypeStands DEF allvars, vars, YTDType, TypeOK
  <2> QED
    BY <1>10, <2>1 DEF allvars, meterVars, ownVars, vars, YTDType
<1> QED
  BY <1>1, <1>2, <1>3, <1>4, <1>5, <1>6, <1>7, <1>8, <1>9, <1>10 DEF YTDNext, Tick

\* The record, the file and what the tick has read keep their types, whatever
\* is interleaved: a tick never holds anything of a year but its own and the
\* one in hand, and only records of the meter are saved.
THEOREM TypesAreKept == YTDSpec => []YTDType
  BY TypeInit, TypeNext, PTL DEF YTDSpec

-----------------------------------------------------------------------------
(* What is published is the record.                                        *)

\* A tick that saves has the figure of what it saves, or none.
SaveIsOfTheRecord == pc = "save" => tick.m3 \in {None, tick.saved.m3}

Publishes == PublishedIsTheRecord /\ SaveIsOfTheRecord

LEMMA PublishesNext ==
  ASSUME YTDType, Publishes, [YTDNext]_allvars
  PROVE  Publishes'
<1>1. ASSUME NEW state \in Opt(Int), Show(state)
      PROVE  Publishes'
  <2>1. UNCHANGED <<pc, tick>>
    BY <1>1 DEF Show
  <2>2. CASE NoFold
    BY <2>1, <2>2 DEF NoFold, Publishes, PublishedIsTheRecord, SaveIsOfTheRecord
  <2>3. CASE data # None /\ \E e \in Evidences : LiveFold(e, state)
    <3>1. PICK e \in Evidences : LiveFold(e, state)
      BY <2>3
    <3> DEFINE m3 == Outcome(e).m3
    <3>2. m3 \in {None, ytd'.m3} /\ (m3 = None => ytd'.m3 = ytd.m3)
      BY <3>1, FoldFiles DEF LiveFold
    <3>3. IF m3 = None \/ m3 = data.m3 THEN data' = data ELSE data' = [m3 |-> m3]
      BY <3>1 DEF LiveFold, Publish
    <3> HIDE DEF m3
    <3>4. pc # "save" => data'.m3 \in {None, ytd'.m3}
      <4>1. CASE m3 = None
        BY <2>3, <3>2, <3>3, <4>1 DEF Publishes, PublishedIsTheRecord
      <4>2. CASE m3 # None /\ m3 = data.m3
        BY <3>2, <3>3, <4>2
      <4>3. CASE m3 # None /\ m3 # data.m3
        BY <3>2, <3>3, <4>3
      <4> QED
        BY <4>1, <4>2, <4>3
    <3> QED
      BY <2>1, <3>4 DEF Publishes, PublishedIsTheRecord, SaveIsOfTheRecord
  <2> QED
    BY <1>1, <2>2, <2>3, ShowFolds
<1>2. CASE Environment
  <2>1. CASE Turn \/ Wait
    <3>1. UNCHANGED <<ytd, data, pc, tick>>
      BY <2>1 DEF Turn, Wait, NewYear, PassTime, ownVars
    <3> QED
      BY <3>1 DEF Publishes, PublishedIsTheRecord, SaveIsOfTheRecord
  <2> QED
    BY <1>1, <1>2, <2>1, SightsType, EnvironmentShows
<1>3. CASE TickUnasked \/ TickFold
  <2>1. PICK e \in Evidences : TickFolds(e)
    BY <1>3, TickRounds
  <2>2. Outcome(e).m3 \in {None, ytd'.m3}
    BY <2>1, FoldFiles DEF TickFolds
  <2> DEFINE m3 == Outcome(e).m3
  <2>3. \/ /\ pc' = "save"
           /\ tick' = [year |-> e.year, live |-> None, answer |-> None, m3 |-> m3, saved |-> ytd']
        \/ pc' = "idle" /\ data' = [m3 |-> m3]
    BY <2>1 DEF TickFolds, AfterFold, NoTick
  <2> HIDE DEF m3
  <2>4. \/ pc' = "save" /\ tick'.m3 = m3 /\ tick'.saved = ytd'
        \/ pc' = "idle" /\ data'.m3 = m3
    BY <2>3
  <2> QED
    BY <2>2, <2>4 DEF Publishes, PublishedIsTheRecord, SaveIsOfTheRecord, m3
<1>4. CASE TickSaved
  <2>1. pc = "save" /\ pc' = "idle" /\ tick \in Saving
    BY <1>4, SavedFolds
  <2>2. CASE /\ Compared(ytd) = Compared(tick.saved)
             /\ data' = [m3 |-> tick.m3]
             /\ UNCHANGED ytd
    <3>1. ytd \in Cycles /\ tick.saved \in Cycles
      BY <2>1 DEF Saving, Files, YTDType
    <3>2. Compared(ytd)["m3"] = ytd.m3 /\ Compared(tick.saved)["m3"] = tick.saved.m3
      BY <3>1 DEF Compared, Cycles
    <3>3. ytd.m3 = tick.saved.m3
      BY <2>2, <3>2
    <3> QED
      BY <2>1, <2>2, <3>3 DEF Publishes, PublishedIsTheRecord, SaveIsOfTheRecord
  <2>3. CASE \E e \in Evidences : SavedFold(e)
    <3>1. PICK e \in Evidences : SavedFold(e)
      BY <2>3
    <3>2. Outcome(e).m3 \in {None, ytd'.m3} /\ data' = [m3 |-> Outcome(e).m3]
      BY <3>1, FoldFiles DEF SavedFold
    <3> QED
      BY <2>1, <3>2 DEF Publishes, PublishedIsTheRecord, SaveIsOfTheRecord
  <2> QED
    BY <1>4, <2>2, <2>3, SavedFolds
<1>5. CASE Unload \/ Crash
  BY <1>5 DEF Unload, Crash, Load, Publishes, PublishedIsTheRecord, SaveIsOfTheRecord
<1>6. CASE TickStart \/ TickAsks \/ RecorderAnswers \/ QueryFails
  BY <1>6 DEF TickStart, TickAsks, RecorderAnswers, QueryFails, vars, ownVars,
              Publishes, PublishedIsTheRecord, SaveIsOfTheRecord
<1>7. CASE Compile \/ DelayedSave \/ UNCHANGED allvars
  BY <1>7 DEF Compile, DelayedSave, allvars, vars, ownVars,
              Publishes, PublishedIsTheRecord, SaveIsOfTheRecord
<1> QED
  BY <1>2, <1>3, <1>4, <1>5, <1>6, <1>7 DEF YTDNext, Tick

\* Whatever a tick waits behind and whatever the meter shows meanwhile, the
\* figure published outside a save is the record's, or none.
THEOREM PublishedRecord == YTDSpec => []PublishedIsTheRecord
<1>1. YTDInit => Publishes
  BY DEF YTDInit, Publishes, PublishedIsTheRecord, SaveIsOfTheRecord
<1>2. YTDType /\ Publishes /\ [YTDNext]_allvars => Publishes'
  BY PublishesNext
<1>3. Publishes => PublishedIsTheRecord
  BY DEF Publishes
<1> QED
  BY <1>1, <1>2, <1>3, TypesAreKept, PTL DEF YTDSpec

-----------------------------------------------------------------------------
(* What is not marked dirty is in the file.                                *)

LEMMA CleanNext ==
  ASSUME YTDType, CleanIsSaved, [YTDNext]_allvars
  PROVE  CleanIsSaved'
<1> DEFINE written == IF pc = "save" THEN tick.saved ELSE store
<1>1. ASSUME NEW state \in Opt(Int), Show(state)
      PROVE  CleanIsSaved'
  <2>1. UNCHANGED <<pc, tick, store>>
    BY <1>1 DEF Show
  <2>2. CASE NoFold
    BY <2>1, <2>2 DEF NoFold, CleanIsSaved
  <2>3. CASE \E e \in Evidences : LiveFold(e, state)
    <3>1. PICK e \in Evidences : LiveFold(e, state)
      BY <2>3
    <3> SUFFICES ASSUME ~dirty'
                 PROVE  ~delayed' /\ Compared(ytd') = Compared(written')
      BY DEF CleanIsSaved
    <3>2. ~dirty /\ Compared(ytd') = Compared(ytd)
      BY <3>1 DEF LiveFold
    <3>3. ~delayed /\ Compared(ytd) = Compared(written)
      BY <3>2 DEF CleanIsSaved
    <3>4. ~delayed'
      BY <3>1, <3>3 DEF LiveFold, Publish
    <3>5. written' = written
      BY <2>1
    <3> HIDE DEF written
    <3> QED
      BY <3>2, <3>3, <3>4, <3>5
  <2> QED
    BY <1>1, <2>2, <2>3, ShowFolds
<1>2. CASE Environment
  <2>1. CASE Turn \/ Wait
    <3>1. UNCHANGED <<ytd, pc, tick, store, dirty, delayed>>
      BY <2>1 DEF Turn, Wait, NewYear, PassTime, ownVars
    <3> QED
      BY <3>1 DEF CleanIsSaved
  <2> QED
    BY <1>1, <1>2, <2>1, SightsType, EnvironmentShows
<1>3. CASE TickUnasked \/ TickFold
  <2>1. PICK e \in Evidences : TickFolds(e)
    BY <1>3, TickRounds
  <2>2. pc \in {"history", "query"} /\ store' = store
    BY <1>3, <2>1, TickRounds DEF TickFolds
  <2>3. CASE dirty \/ Compared(ytd') # Compared(ytd)
    <3>1. /\ pc' = "save" /\ delayed' = FALSE
          /\ tick' = [NoTick EXCEPT !.year = e.year, !.m3 = Outcome(e).m3, !.saved = ytd']
      BY <2>1, <2>3 DEF TickFolds, AfterFold
    <3>2. tick'.saved = ytd'
      BY <3>1 DEF NoTick
    <3> QED
      BY <3>1, <3>2 DEF CleanIsSaved
  <2>4. CASE ~(dirty \/ Compared(ytd') # Compared(ytd))
    <3>1. /\ pc' = "idle" /\ delayed' = delayed /\ ~dirty /\ Compared(ytd') = Compared(ytd)
      BY <2>1, <2>4 DEF TickFolds, AfterFold
    <3>2. ~delayed /\ Compared(ytd) = Compared(store)
      BY <2>2, <3>1 DEF CleanIsSaved
    <3> QED
      BY <2>2, <3>1, <3>2 DEF CleanIsSaved
  <2> QED
    BY <2>3, <2>4
<1>4. CASE TickSaved
  <2>1. /\ pc = "save" /\ pc' = "idle" /\ store' = tick.saved /\ delayed' = delayed
    BY <1>4, SavedFolds
  <2>2. CASE /\ Compared(ytd) = Compared(tick.saved)
             /\ UNCHANGED <<ytd, dirty>>
    BY <2>1, <2>2 DEF CleanIsSaved
  <2>3. CASE Compared(ytd) # Compared(tick.saved) /\ \E e \in Evidences : SavedFold(e)
    <3>1. PICK e \in Evidences : SavedFold(e)
      BY <2>3
    <3>2. dirty
      BY <2>1, <2>3 DEF CleanIsSaved
    <3>3. dirty'
      BY <3>1, <3>2 DEF SavedFold
    <3> QED
      BY <3>3 DEF CleanIsSaved
  <2> QED
    BY <1>4, <2>2, <2>3, SavedFolds
<1>5. CASE Unload \/ Crash
  BY <1>5 DEF Unload, Crash, Load, CleanIsSaved
<1>6. CASE DelayedSave
  <2>1. dirty /\ dirty' = dirty
    BY <1>6 DEF DelayedSave, CleanIsSaved
  <2> QED
    BY <2>1 DEF CleanIsSaved
<1>7. CASE TickStart \/ TickAsks \/ RecorderAnswers \/ QueryFails \/ Compile
  <2>1. /\ UNCHANGED <<ytd, dirty, delayed, store>>
        /\ (pc # "save" /\ pc' # "save") \/ UNCHANGED <<pc, tick>>
    BY <1>7 DEF TickStart, TickAsks, RecorderAnswers, QueryFails, Compile, vars, ownVars
  <2> QED
    BY <2>1 DEF CleanIsSaved
<1>8. CASE UNCHANGED allvars
  BY <1>8 DEF allvars, vars, ownVars, CleanIsSaved
<1> QED
  BY <1>2, <1>3, <1>4, <1>5, <1>6, <1>7, <1>8 DEF YTDNext, Tick

\* Whatever the saves race with, a record that is not marked dirty is in the
\* file or on its way there, and no delayed save is pending behind it.
THEOREM CleanSaved == YTDSpec => []CleanIsSaved
<1>1. YTDInit => CleanIsSaved
  BY DEF YTDInit, Init, CleanIsSaved
<1>2. YTDType /\ CleanIsSaved /\ [YTDNext]_allvars => CleanIsSaved'
  BY CleanNext
<1> QED
  BY <1>1, <1>2, TypesAreKept, PTL DEF YTDSpec

-----------------------------------------------------------------------------
(* The rounds are those of YtdRounds.  Its instance has every definition   *)
(* of the rule over again; each is the one it is an instance of.           *)

LEMMA AtomicOpening == \A c, p, e : AtomicRounds!Opening(c, p, e) = Opening(c, p, e)
  BY DEF Opening, AtomicRounds!Opening, FreshCycle,
       AtomicRounds!FreshCycle, Mark, AtomicRounds!Mark, StartedAt,
       AtomicRounds!StartedAt, Known, AtomicRounds!Known, Max,
       AtomicRounds!Max, StepBound, AtomicRounds!StepBound, NonNegative,
       AtomicRounds!NonNegative, NothingHeld, AtomicRounds!NothingHeld

LEMMA AtomicPlaceReading == \A r, e : AtomicRounds!PlaceReading(r, e) = PlaceReading(r, e)
  BY DEF PlaceReading, AtomicRounds!PlaceReading, BelowBar,
       AtomicRounds!BelowBar, CountLow, AtomicRounds!CountLow, EndRun,
       AtomicRounds!EndRun, Distance, AtomicRounds!Distance, NonNegative,
       AtomicRounds!NonNegative, Reframed, AtomicRounds!Reframed, Replaced,
       AtomicRounds!Replaced, BuildFrame, AtomicRounds!BuildFrame, InFrame,
       AtomicRounds!InFrame, Max, AtomicRounds!Max

LEMMA AtomicHeedRecorder == \A r, e : AtomicRounds!HeedRecorder(r, e) = HeedRecorder(r, e)
  BY DEF HeedRecorder, AtomicRounds!HeedRecorder, Whole,
       AtomicRounds!Whole, Intact, AtomicRounds!Intact, TakesBack,
       AtomicRounds!TakesBack, Max, AtomicRounds!Max, Known,
       AtomicRounds!Known

LEMMA AtomicStampReading == \A r, e : AtomicRounds!StampReading(r, e) = StampReading(r, e)
  BY DEF StampReading, AtomicRounds!StampReading, Max, AtomicRounds!Max,
       Known, AtomicRounds!Known

LEMMA AtomicPublished == \A r, e : AtomicRounds!Published(r, e) = Published(r, e)
  BY DEF Published, AtomicRounds!Published, Max, AtomicRounds!Max, Figures,
       AtomicRounds!Figures, Known, AtomicRounds!Known, RecorderFigure,
       AtomicRounds!RecorderFigure, FlooredBill, AtomicRounds!FlooredBill,
       Bill, AtomicRounds!Bill, CorrectedOffset,
       AtomicRounds!CorrectedOffset, Verdict, AtomicRounds!Verdict

LEMMA AtomicFigures == \A r, e : AtomicRounds!Figures(r, e) = Figures(r, e)
  BY DEF Figures, AtomicRounds!Figures, Known, AtomicRounds!Known,
       RecorderFigure, AtomicRounds!RecorderFigure

LEMMA AtomicFold == \A c, p, e : AtomicRounds!Fold(c, p, e) = Fold(c, p, e)
  BY AtomicOpening, AtomicPlaceReading, AtomicHeedRecorder,
       AtomicStampReading, AtomicPublished, AtomicFigures DEF Fold,
       AtomicRounds!Fold, Verdict, AtomicRounds!Verdict, Kept,
       AtomicRounds!Kept, FreshCycle, AtomicRounds!FreshCycle

LEMMA AtomicEvidence ==
  \A y, meter, reading, household, answer, ok :
    AtomicRounds!Evidence(y, meter, reading, household, answer, ok)
      = Evidence(y, meter, reading, household, answer, ok)
  BY DEF Evidence, AtomicRounds!Evidence

LEMMA AtomicFoldCycle == \A e : AtomicRounds!FoldCycle(e) = FoldCycle(e)
  BY AtomicFold DEF FoldCycle, AtomicRounds!FoldCycle, Known,
       AtomicRounds!Known

\* The instance allows what the meter may show and the recorder may say.
AnyEvidence ==
  /\ Nat \cup Glitches \subseteq Readings
  /\ Nat \subseteq RecorderFigures
  /\ 0 \in TakenBack

\* A meter event is a live round of the instance, or nothing to it.
LEMMA ShowRefines ==
  ASSUME YTDType, AnyEvidence, NEW state \in Sights, Show(state)
  PROVE  AtomicRounds!Rounds \/ UNCHANGED vars
<1>1. MeterEvent(state) /\ UNCHANGED <<clock, year>>
  BY DEF Show
<1>2. CASE data = None \/ state = None
  BY <1>1, <1>2 DEF MeterEvent, roundVars, vars
<1>3. CASE ~(data = None \/ state = None)
  <2>1. /\ FoldCycle(Evidence(year, Meter, state, Household, NoAnswer, recorder_ok))
        /\ UNCHANGED <<recorder_ok, clock, year>>
    BY <1>1, <1>3 DEF MeterEvent, FoldAndMark
  <2>2. AtomicRounds!LiveRound(Meter, state, Household)
    BY <2>1, AtomicEvidence, AtomicFoldCycle
       DEF AtomicRounds!LiveRound, AtomicRounds!NoAnswer, NoAnswer
  <2>3. state \in Readings /\ Meter \in Meters /\ Household \in Households
    BY <1>3, YearToDateAssumption DEF Sights, Opt, AnyEvidence
  <2> QED
    BY <2>2, <2>3 DEF AtomicRounds!Rounds
<1> QED
  BY <1>2, <1>3

\* A tick that asks nobody is an unasked round.
LEMMA UnaskedRefines ==
  ASSUME YTDType, AnyEvidence, TickUnasked
  PROVE  AtomicRounds!Rounds
<1>1. /\ AnswersAlone(Meter, shown)
      /\ recorder_ok' = None
      /\ FoldCycle(Evidence(year, Meter, shown, Household, NoAnswer, None))
      /\ UNCHANGED <<clock, year>>
  BY DEF TickUnasked, Asks
<1>2. AtomicRounds!UnaskedRound(Meter, shown, Household)
  BY <1>1, AtomicEvidence, AtomicFoldCycle
     DEF AtomicRounds!UnaskedRound, AtomicRounds!NoAnswer, NoAnswer,
         AtomicRounds!AnswersAlone, AnswersAlone, AtomicRounds!StaleFrame, StaleFrame
<1>3. shown \in Readings /\ Meter \in Meters /\ Household \in Households
  BY <1>1, YearToDateAssumption DEF AnswersAlone, YTDType, Sights, Opt, AnyEvidence
<1> QED
  BY <1>2, <1>3 DEF AtomicRounds!Rounds

\* A tick that asked is an asked round of the year it began in.
LEMMA AskedRefines ==
  ASSUME YTDType, AnyEvidence, TickFold
  PROVE  AtomicRounds!Rounds
<1>1. /\ pc = "query" /\ tick.answer # None
      /\ recorder_ok' = (tick.answer # NoAnswer)
      /\ FoldCycle(Evidence(tick.year, Meter, shown, Household, tick.answer,
                            tick.answer # NoAnswer))
      /\ UNCHANGED <<clock, year>>
  BY DEF TickFold, TickReading
<1>2. AtomicRounds!AskedRound(tick.year, Meter, shown, Household, tick.answer)
  BY <1>1, AtomicEvidence, AtomicFoldCycle
     DEF AtomicRounds!AskedRound, AtomicRounds!NoAnswer, NoAnswer
<1>3. shown \in Opt(Readings) /\ Meter \in Meters /\ Household \in Households
  BY YearToDateAssumption DEF YTDType, Sights, Opt, AnyEvidence
<1>4. tick \in Asking
  BY <1>1 DEF YTDType, TickType
<1>5. tick.year \in TickYears /\ tick.answer \in {NoAnswer} \cup Statistics
  BY <1>1, <1>4 DEF Asking
<1>6. tick.answer \in {NoAnswer} \cup Answers
  <2> SUFFICES ASSUME tick.answer \in Statistics
               PROVE  tick.answer \in [m3 : RecorderFigures, taken_back : TakenBack,
                                       has_statistic : {TRUE}]
    BY <1>5 DEF Answers
  <2> QED
    BY DEF Statistics, AnyEvidence
<1>7. AtomicRounds!TickYears = TickYears /\ AtomicRounds!Answers = Answers
      /\ AtomicRounds!NoAnswer = NoAnswer /\ AtomicRounds!Opt(Readings) = Opt(Readings)
  BY DEF AtomicRounds!TickYears, TickYears, AtomicRounds!Answers, Answers,
         AtomicRounds!NoStatistic, NoStatistic, AtomicRounds!NoAnswer, NoAnswer,
         AtomicRounds!Opt, Opt
<1> QED
  BY <1>2, <1>3, <1>5, <1>6, <1>7 DEF AtomicRounds!Rounds

\* The end of a save folds again on nothing, or is nothing to the instance.
LEMMA SavedRefines ==
  ASSUME YTDType, TickSaved
  PROVE  AtomicRounds!Rounds \/ UNCHANGED vars
<1>1. tick \in Saving /\ UNCHANGED <<clock, year>>
  BY SavedFolds
<1>2. CASE Compared(ytd) = Compared(tick.saved)
  BY <1>1, <1>2 DEF TickSaved, roundVars, vars
<1>3. CASE Compared(ytd) # Compared(tick.saved)
  <2>1. /\ FoldCycle(Evidence(tick.year, Meter, None, Household, NoAnswer, recorder_ok))
        /\ UNCHANGED recorder_ok
    BY <1>3 DEF TickSaved, FoldAndMark
  <2>2. AtomicRounds!Refold(tick.year, Meter, Household)
    BY <1>1, <2>1, AtomicEvidence, AtomicFoldCycle
       DEF AtomicRounds!Refold, AtomicRounds!NoAnswer, NoAnswer
  <2>3. tick.year \in AtomicRounds!TickYears /\ Meter \in Meters /\ Household \in Households
    BY <1>1, YearToDateAssumption DEF Saving, AtomicRounds!TickYears, TickYears
  <2> QED
    BY <2>2, <2>3 DEF AtomicRounds!Rounds
<1> QED
  BY <1>2, <1>3

\* A coordinator that is set up anew reads a record of the file, whichever it is.
LEMMA LoadRefines ==
  ASSUME YTDType', Load(store')
  PROVE  AtomicRounds!Reload
<1>1. ytd' \in Cycles /\ WellDated(ytd')
  BY DEF YTDType, Files
<1> QED
  BY <1>1 DEF Load, AtomicRounds!Reload, AtomicRounds!NothingHeld, NothingHeld

LEMMA StepRefines ==
  ASSUME YTDType, YTDType', AnyEvidence, [YTDNext]_allvars
  PROVE  AtomicRounds!Next \/ UNCHANGED vars
<1>1. CASE Environment
  <2>1. CASE Turn
    <3>1. AtomicRounds!NewYear
      BY <2>1 DEF Turn, NewYear, AtomicRounds!NewYear
    <3> QED
      BY <3>1 DEF AtomicRounds!Next
  <2>2. CASE Wait
    <3>1. AtomicRounds!PassTime
      BY <2>2 DEF Wait, PassTime, AtomicRounds!PassTime
    <3> QED
      BY <3>1 DEF AtomicRounds!Next
  <2> QED
    BY <1>1, <2>1, <2>2, EnvironmentShows, ShowRefines DEF AtomicRounds!Next
<1>2. CASE TickUnasked \/ TickFold \/ TickSaved
  BY <1>2, UnaskedRefines, AskedRefines, SavedRefines DEF AtomicRounds!Next
<1>3. CASE Unload \/ Crash
  BY <1>3, LoadRefines DEF Unload, Crash, AtomicRounds!Next
<1>4. CASE TickStart \/ TickAsks \/ RecorderAnswers \/ QueryFails \/ Compile \/ DelayedSave
  BY <1>4 DEF TickStart, TickAsks, RecorderAnswers, QueryFails, Compile, DelayedSave
<1>5. CASE UNCHANGED allvars
  BY <1>5 DEF allvars
<1> QED
  BY <1>1, <1>2, <1>3, <1>4, <1>5 DEF YTDNext, Tick

\* Wherever the awaits let a meter event, a crash or midnight in, what happens
\* to the record is a sequence of whole rounds and of falls back to a record
\* saved earlier: what YtdRoundsProofs proves of those holds of the coordinator.
THEOREM AwaitsAddNothing ==
  ASSUME AnyEvidence
  PROVE  YTDSpec => ImplementsRounds
<1>1. YTDInit => AtomicRounds!Init
  BY DEF YTDInit, Init, AtomicRounds!Init, NoCycle, AtomicRounds!NoCycle,
         FreshCycle, AtomicRounds!FreshCycle, NothingHeld, AtomicRounds!NothingHeld
<1>2. YTDType /\ YTDType' /\ [YTDNext]_allvars => [AtomicRounds!Next]_(AtomicRounds!vars)
  BY StepRefines DEF vars, AtomicRounds!vars
<1> QED
  BY <1>1, <1>2, TypesAreKept, PTL DEF YTDSpec, ImplementsRounds, AtomicRounds!Spec

-----------------------------------------------------------------------------
(* A round counts no more than was drawn, as long as the frame it is given *)
(* puts the reading within the year's water or beyond what one report may  *)
(* add to it.                                                              *)

Within(figure, water) == figure # None => figure <= water

\* What a stage makes of the figures and the frame of o, the round's opening.
Counts(o, r, e, water) ==
  /\ Within(r.mark, water) /\ Within(r.candidate, water)
  /\ \/ r.offset_m3 \in {None, o.offset_m3}
     \/ e.reading # None /\ e.reading - r.offset_m3 \in 0 .. water

\* What the opening of such a round has.
Knows(o, e, water) ==
  /\ Opened(o, e)
  /\ Within(o.mark, water) /\ Within(e.recorder_m3, water)
  /\ e.reading # None /\ o.offset_m3 # None =>
       \/ e.reading - o.offset_m3 <= water
       \/ e.reading - o.offset_m3 > water + o.step_bound

LEMMA SeenWithin ==
  ASSUME NEW o, NEW e \in Evidences, NEW water \in Nat, Knows(o, e, water), o.seen # {}
  PROVE  Max(o.seen) \in 0 .. water
<1>1. Opened(o, e) /\ o.seen = Known({o.mark, e.recorder_m3}) /\ o \in Stages
  BY DEF Knows, Opened
<1>2. Max(o.seen) \in Nat
  BY <1>1, SeenMax
<1>3. o.mark \in Opt(Int) /\ e.recorder_m3 \in Opt(Int)
  BY <1>1 DEF Stages, Evidences, Opt
<1>4. Max(o.seen) \in o.seen
  BY <1>1, <1>3, MaxKnownTwo
<1>5. Max(o.seen) <= water
  BY <1>1, <1>4 DEF Known, Knows, Within
<1> QED
  BY <1>2, <1>5

LEMMA BelowBarCounts ==
  ASSUME NEW o, NEW e \in Evidences, NEW water \in Nat, Knows(o, e, water), e.reading # None
  PROVE  Counts(o, BelowBar(o, e), e, water)
<1> DEFINE held == CountLow(o.held, e)
           low  == [o EXCEPT !.held = held]
           done == [o EXCEPT !.held = [EndRun(held) EXCEPT !.high_m3 = e.reading]]
<1>1. o \in Stages /\ o.candidate = None /\ Within(o.mark, water) /\ e.reading \in Int
  BY DEF Knows, Opened, Evidences, Opt
<1>2. done.mark = o.mark /\ done.candidate = None /\ done.seen = o.seen /\ done.offset_m3 = o.offset_m3
  BY <1>1 DEF Stages
<1>3. Counts(o, low, e, water)
  BY <1>1 DEF Counts, Within, Stages
<1>4. ASSUME o.seen # {}
      PROVE  Counts(o, Reframed(done, e), e, water)
  <2> DEFINE top == Max(o.seen)
  <2>1. top \in 0 .. water
    BY <1>4, SeenWithin
  <2>2. /\ Reframed(done, e).mark = o.mark /\ Reframed(done, e).candidate = None
        /\ Reframed(done, e).offset_m3 = e.reading - top
    BY <1>1, <1>2 DEF Reframed, Stages
  <2> HIDE DEF top
  <2>3. e.reading - (e.reading - top) = top
    BY <1>1, <2>1
  <2> QED
    BY <1>1, <2>1, <2>2, <2>3 DEF Counts, Within
<1>5. Counts(o, Replaced(done, e), e, water)
  <2>1. /\ Replaced(done, e).mark = 0 /\ Replaced(done, e).candidate = 0
        /\ Replaced(done, e).offset_m3 = e.reading
    BY <1>1, <1>2 DEF Replaced, Stages
  <2>2. e.reading - e.reading = 0 /\ 0 <= water /\ 0 \in 0 .. water
    BY <1>1
  <2> QED
    BY <2>1, <2>2 DEF Counts, Within
<1> QED
  BY <1>3, <1>4, <1>5 DEF BelowBar

LEMMA BuildFrameCounts ==
  ASSUME NEW o, NEW e \in Evidences, NEW water \in Nat, Knows(o, e, water), e.reading # None
  PROVE  Counts(o, BuildFrame(o, e), e, water)
<1> DEFINE ended == [o EXCEPT !.held = EndRun(@)]
           asks  == e.recorder_m3 # None \/ o.recorder_hwm # None
<1>1. o \in Stages /\ o.candidate = None /\ Within(o.mark, water) /\ e.reading \in Int
  BY DEF Knows, Opened, Evidences, Opt
<1>2. Counts(o, ended, e, water)
  BY <1>1 DEF Counts, Within, Stages
<1>3. CASE o.seen # {}
  <2> DEFINE top == Max(o.seen)
             r == [ended EXCEPT !.offset_m3 = e.reading - top, !.candidate = top,
                                !.arbitrate = asks]
  <2>1. top \in 0 .. water
    BY <1>3, SeenWithin
  <2> HIDE DEF top
  <2>2. r.mark = o.mark /\ r.candidate = top /\ r.offset_m3 = e.reading - top
    BY <1>1 DEF Stages
  <2>3. e.reading - (e.reading - top) = top /\ top <= water
    BY <1>1, <2>1
  <2> HIDE DEF r
  <2>4. Counts(o, r, e, water)
    BY <1>1, <2>1, <2>2, <2>3 DEF Counts, Within
  <2> QED
    BY <1>3, <2>4 DEF BuildFrame, r, top
<1>4. CASE o.seen = {}
  <2> DEFINE r == [ended EXCEPT !.offset_m3 = e.reading, !.candidate = 0]
  <2>1. r.mark = o.mark /\ r.candidate = 0 /\ r.offset_m3 = e.reading
    BY <1>1 DEF Stages
  <2>2. e.reading - e.reading = 0 /\ 0 <= water /\ 0 \in 0 .. water
    BY <1>1
  <2>3. Counts(o, r, e, water)
    BY <1>1, <2>1, <2>2 DEF Counts, Within
  <2> QED
    BY <1>2, <1>4, <2>3 DEF BuildFrame
<1> QED
  BY <1>3, <1>4

\* In the frame a reading beyond the year's water is beyond every figure the
\* round knows, so it is held, put to the recorder or the frame gives way.
LEMMA InFrameCounts ==
  ASSUME NEW o, NEW e \in Evidences, NEW water \in Nat, Knows(o, e, water),
         e.reading # None, o.offset_m3 # None
  PROVE  Counts(o, InFrame(o, e), e, water)
<1> DEFINE ended == [o EXCEPT !.held = [EndRun(@) EXCEPT !.hold_m3 = None]]
           framed == e.reading - o.offset_m3
           corroborated == /\ o.held.hold_m3 # None
                           /\ e.reading >= o.held.hold_m3 - Jump
           top == Max(o.seen)
           reframed == [ended EXCEPT !.offset_m3 = e.reading - top]
           asked    == [ended EXCEPT !.arbitrate = TRUE]
           waiting  == [ended EXCEPT !.held.hold_m3 = e.reading]
           admitted == [ended EXCEPT !.candidate = framed]
<1>1. /\ o \in Stages /\ o.candidate = None /\ Within(o.mark, water)
      /\ e.reading \in Int /\ o.step_bound \in Nat /\ o.offset_m3 \in Int
  BY DEF Knows, Opened, Evidences, Opt, Stages
<1>2. o.mark # None /\ o.mark \in 0 .. water /\ o.seen = Known({o.mark, e.recorder_m3})
  BY <1>1 DEF Knows, Opened, Stages, Opt, Within
<1>3. o.seen # {}
  BY <1>2 DEF Known
<1>4. top \in 0 .. water
  BY <1>3, SeenWithin
<1>5. framed \in Int /\ (framed <= water \/ framed > water + o.step_bound)
  BY <1>1 DEF Knows
<1> HIDE DEF top, framed
<1>6. Counts(o, reframed, e, water)
  <2>1. reframed.mark = o.mark /\ reframed.candidate = None /\ reframed.offset_m3 = e.reading - top
    BY <1>1 DEF Stages
  <2>2. e.reading - (e.reading - top) = top
    BY <1>1, <1>4
  <2> HIDE DEF reframed
  <2> QED
    BY <1>1, <1>4, <2>1, <2>2 DEF Counts, Within
<1>7. Counts(o, asked, e, water) /\ Counts(o, waiting, e, water)
  BY <1>1 DEF Counts, Within, Stages
<1>8. framed <= water => Counts(o, admitted, e, water)
  <2>1. admitted.mark = o.mark /\ admitted.candidate = framed /\ admitted.offset_m3 = o.offset_m3
    BY <1>1 DEF Stages
  <2> QED
    BY <1>1, <2>1 DEF Counts, Within
<1>9. framed > water => framed - top > o.step_bound /\ framed - o.mark > o.step_bound
  BY <1>1, <1>2, <1>4, <1>5
<1>10. InFrame(o, e) =
         IF corroborated /\ o.seen # {} /\ framed - top > o.step_bound
           THEN IF e.recorder_m3 # None THEN reframed ELSE asked
         ELSE IF ~corroborated /\ o.mark # None /\ framed - o.mark > o.step_bound
           THEN waiting
         ELSE admitted
  BY DEF InFrame, framed, top
<1>11. framed <= water \/ framed > water
  BY <1>5
<1> HIDE DEF reframed, asked, waiting, admitted, corroborated
<1> QED
  BY <1>2, <1>3, <1>6, <1>7, <1>8, <1>9, <1>10, <1>11

LEMMA PlacedCounts ==
  ASSUME NEW o, NEW e \in Evidences, NEW water \in Nat, Knows(o, e, water)
  PROVE  Counts(o, PlaceReading(o, e), e, water)
<1>1. o \in Stages /\ o.candidate = None /\ Within(o.mark, water)
  BY DEF Knows, Opened
<1>2. CASE e.reading = None
  <2>1. Counts(o, [o EXCEPT !.held.hold_m3 = None], e, water)
    BY <1>1 DEF Counts, Within, Stages
  <2> QED
    BY <1>2, <2>1 DEF PlaceReading
<1>3. CASE e.reading # None
  <2>1. e.reading \in Int /\ (o.bar = None \/ o.bar \in Int)
    BY <1>1, <1>3 DEF Stages, Evidences, Opt
  <2>2. CASE o.bar # None /\ e.reading < o.bar
    <3>1. ~(e.reading >= o.bar)
      BY <2>1, <2>2
    <3>2. PlaceReading(o, e) = BelowBar(o, e)
      BY <1>3, <2>2, <3>1 DEF PlaceReading
    <3> QED
      BY <1>3, <3>2, BelowBarCounts
  <2>3. CASE o.bar = None \/ ~(e.reading < o.bar)
    <3>1. o.bar = None \/ e.reading >= o.bar
      BY <2>1, <2>3
    <3>2. PlaceReading(o, e) = IF o.offset_m3 = None THEN BuildFrame(o, e) ELSE InFrame(o, e)
      BY <1>3, <2>3, <3>1 DEF PlaceReading
    <3> QED
      BY <1>3, <3>2, BuildFrameCounts, InFrameCounts
  <2> QED
    BY <2>2, <2>3
<1> QED
  BY <1>2, <1>3

LEMMA HeardCounts ==
  ASSUME NEW o, NEW r \in Stages, NEW e \in Evidences, NEW water \in Nat,
         Within(e.recorder_m3, water), Counts(o, r, e, water)
  PROVE  Counts(o, HeedRecorder(r, e), e, water)
<1> DEFINE overruled == /\ r.candidate # None
                        /\ r.candidate - e.recorder_m3 > Lag
                        /\ \/ r.recorder_hwm # None
                           \/ r.mark = None
                           \/ e.recorder_m3 >= r.mark
           heard == [r EXCEPT !.recorder_hwm = Max(Known({@, Whole(e)})),
                              !.candidate = IF overruled THEN None ELSE @]
           taken == [heard EXCEPT !.mark = e.recorder_m3, !.floor = None,
                                  !.offset_m3 = e.reading - e.recorder_m3,
                                  !.held.high_m3 = e.reading]
<1>1. CASE ~Intact(r, e)
  BY <1>1 DEF HeedRecorder
<1>2. CASE Intact(r, e) /\ ~TakesBack(r, e)
  <2>1. /\ heard.mark = r.mark /\ heard.candidate \in {None, r.candidate}
        /\ heard.offset_m3 = r.offset_m3
    <3> HIDE DEF overruled
    <3> QED
      BY DEF Stages
  <2>2. HeedRecorder(r, e) = heard
    BY <1>2 DEF HeedRecorder
  <2> HIDE DEF heard
  <2> QED
    BY <2>1, <2>2 DEF Counts, Within
<1>3. CASE Intact(r, e) /\ TakesBack(r, e)
  <2>1. e.recorder_m3 \in Nat /\ e.recorder_m3 # None /\ e.reading \in Int /\ e.reading # None
    BY <1>3 DEF Intact, TakesBack, Evidences, Opt
  <2>2. /\ taken.mark = e.recorder_m3 /\ taken.candidate \in {None, r.candidate}
        /\ taken.offset_m3 = e.reading - e.recorder_m3
    <3> HIDE DEF overruled
    <3> QED
      BY DEF Stages
  <2>3. HeedRecorder(r, e) = taken
    BY <1>3 DEF HeedRecorder
  <2>4. e.reading - (e.reading - e.recorder_m3) \in 0 .. water /\ e.recorder_m3 <= water
    BY <2>1 DEF Within
  <2> HIDE DEF taken
  <2> QED
    BY <2>1, <2>2, <2>3, <2>4 DEF Counts, Within
<1> QED
  BY <1>1, <1>2, <1>3

\* The record of the year e is of.
Current(c, e) == c.meter = e.meter /\ c.year = e.year

\* The whole rule: the record it leaves is the one it found, or of the
\* evidence's year, within its water, on the frame it had or on one that puts
\* the reading within that water.
LEMMA FoldCounts ==
  ASSUME NEW c \in Cycles, WellDated(c), NEW p \in Holds, NEW e \in Evidences,
         NEW water \in Nat, Within(e.recorder_m3, water),
         Current(c, e) => c.m3 <= water,
         Current(c, e) /\ c.offset_m3 # None /\ e.reading # None =>
           \/ e.reading - c.offset_m3 <= water
           \/ e.reading - c.offset_m3 > water + StepBound(c.seen_at, e.now)
  PROVE  LET n == Fold(c, p, e).cycle
         IN \/ n = Kept(c, e)
            \/ /\ n.year = e.year /\ n.m3 <= water
               /\ \/ n.offset_m3 = None
                  \/ Current(c, e) /\ n.offset_m3 = c.offset_m3
                  \/ e.reading # None /\ e.reading - n.offset_m3 \in 0 .. water
<1> DEFINE o == Opening(c, p, e)
           r == PlaceReading(o, e)
           h == HeedRecorder(r, e)
           s == Settled(c, p, e)
           n == Fold(c, p, e).cycle
           m3 == Max(Figures(s, e))
<1>1. /\ Opened(o, e) /\ r \in Stages /\ h \in Stages /\ s \in Stages
      /\ s = [h EXCEPT !.seen_at = s.seen_at, !.held = s.held]
  BY SettledType DEF Placed, Heard
<1>2. e.year # None
  BY YearIsKnown
<1>3. /\ o.mark = IF Current(c, e) THEN c.m3 ELSE None
      /\ o.offset_m3 = IF Current(c, e) THEN c.offset_m3 ELSE None
      /\ Current(c, e) => o.step_bound = StepBound(c.seen_at, e.now)
  BY <1>2 DEF Opening, Mark, Current, FreshCycle
<1> HIDE DEF o, r, h, s
<1>4. Knows(o, e, water)
  BY <1>1, <1>3 DEF Knows, Within
<1>5. Counts(o, r, e, water)
  BY <1>4, PlacedCounts DEF r
<1>6. Counts(o, h, e, water)
  BY <1>1, <1>5, HeardCounts DEF h
<1>7. s.mark = h.mark /\ s.candidate = h.candidate /\ s.offset_m3 = h.offset_m3
  BY <1>1 DEF Stages
<1>8. Counts(o, s, e, water)
  BY <1>6, <1>7 DEF Counts
<1>9. CASE Figures(s, e) = {}
  <2>1. Fold(c, p, e) = Verdict(s, Kept(c, e), None, None)
    BY <1>9 DEF Fold, Settled, s
  <2> QED
    BY <2>1 DEF Verdict
<1>10. CASE Figures(s, e) # {}
  <2>1. m3 \in Figures(s, e) /\ m3 \in Nat
    BY <1>1, <1>10, FiguresType
  <2>2. /\ n.year = e.year /\ n.m3 = m3 /\ n.offset_m3 = CorrectedOffset(s, e, m3)
    <3>1. Fold(c, p, e) = Published(s, e)
      BY <1>10 DEF Fold, Settled, s
    <3> QED
      BY <3>1 DEF Published, Verdict
  <2> HIDE DEF m3, n
  <2>3. m3 <= water
    BY <1>8, <2>1 DEF Figures, Known, RecorderFigure, Counts, Within
  <2>4. \/ n.offset_m3 = s.offset_m3
        \/ e.reading # None /\ e.reading - n.offset_m3 \in 0 .. water
    <3>1. CASE n.offset_m3 = e.reading - m3 /\ e.reading # None
      <4>1. e.reading \in Int
        BY <3>1 DEF Evidences, Opt
      <4>2. e.reading - (e.reading - m3) = m3
        BY <2>1, <4>1
      <4> QED
        BY <2>1, <2>3, <3>1, <4>2
    <3> QED
      BY <2>2, <3>1 DEF CorrectedOffset
  <2>5. \/ n.offset_m3 = None
        \/ Current(c, e) /\ n.offset_m3 = c.offset_m3
        \/ e.reading # None /\ e.reading - n.offset_m3 \in 0 .. water
    BY <1>3, <1>8, <2>4 DEF Counts
  <2> QED
    BY <2>2, <2>3, <2>5 DEF n
<1> QED
  BY <1>9, <1>10

-----------------------------------------------------------------------------
(* What a step may do to the records, the water and the year.              *)

\* A round of the coordinator, on what the meter shows or on nothing, and on
\* the recorder's answer to the tick or on none.
RoundOn(e) ==
  /\ e.meter = Meter /\ e.year \in TickYears /\ e.now = clock
  /\ e.reading \in {None, shown'}
  /\ \/ e.recorder_m3 = None
     \/ /\ pc = "query" /\ tick.answer # None
        /\ e.year = tick.year /\ e.recorder_m3 = tick.answer.m3
  /\ FoldCycle(e)
  /\ UNCHANGED <<clock, year>>

\* The record is kept, moved by a round or read back from the file; the file
\* is kept or overwritten with the record or with what the tick saves; and
\* what a tick saves is the record of its round.
Moves ==
  /\ \/ ytd' = ytd
     \/ \E e \in Evidences : RoundOn(e)
     \/ ytd' = store'
  /\ \/ store' \in {store, ytd}
     \/ pc = "save" /\ store' = tick.saved
  /\ pc' = "save" => (pc = "save" /\ tick' = tick) \/ tick'.saved = ytd'
  /\ year' \in {year, year + 1}

LEMMA StepMoves ==
  ASSUME YTDType, [YTDNext]_allvars
  PROVE  Moves
<1>1. year \in TickYears
  BY DEF YTDType, TypeOK, TickYears
<1>2. ASSUME NEW state \in Sights, Show(state)
      PROVE  Moves
  <2>1. shown' = state /\ UNCHANGED <<store, pc, tick, clock, year>>
    BY <1>2 DEF Show
  <2>2. state \in Opt(Int)
    BY SightsType
  <2>3. CASE NoFold
    BY <2>1, <2>3 DEF NoFold, Moves
  <2>4. CASE \E e \in Evidences : LiveFold(e, state)
    <3>1. PICK e \in Evidences : LiveFold(e, state)
      BY <2>4
    <3>2. RoundOn(e)
      BY <1>1, <2>1, <3>1 DEF LiveFold, RoundOn
    <3> QED
      BY <2>1, <3>2 DEF Moves
  <2> QED
    BY <1>2, <2>2, <2>3, <2>4, ShowFolds
<1>3. CASE Environment
  <2>1. CASE Turn \/ Wait
    BY <2>1 DEF Turn, Wait, NewYear, PassTime, ownVars, Moves
  <2> QED
    BY <1>2, <1>3, <2>1, EnvironmentShows
<1>4. CASE TickUnasked \/ TickFold
  <2>1. PICK e \in Evidences : TickFolds(e)
    BY <1>4, TickRounds
  <2>2. RoundOn(e) /\ store' = store /\ year' = year
    BY <2>1 DEF TickFolds, RoundOn
  <2>3. \/ /\ pc' = "save"
           /\ tick' = [NoTick EXCEPT !.year = e.year, !.m3 = Outcome(e).m3, !.saved = ytd']
        \/ pc' = "idle"
    BY <2>1 DEF TickFolds, AfterFold
  <2>4. pc' = "save" => tick'.saved = ytd'
    BY <2>3 DEF NoTick
  <2> QED
    BY <2>2, <2>4 DEF Moves
<1>5. CASE TickSaved
  <2>1. pc = "save" /\ pc' = "idle" /\ store' = tick.saved /\ UNCHANGED <<shown, clock, year>>
    BY <1>5, SavedFolds
  <2>2. CASE ytd' = ytd
    BY <2>1, <2>2 DEF Moves
  <2>3. CASE \E e \in Evidences : SavedFold(e)
    <3>1. PICK e \in Evidences : SavedFold(e)
      BY <2>3
    <3>2. RoundOn(e)
      BY <2>1, <3>1 DEF SavedFold, RoundOn
    <3> QED
      BY <2>1, <3>2 DEF Moves
  <2> QED
    BY <1>5, <2>2, <2>3, SavedFolds
<1>6. CASE Unload \/ Crash
  <2>1. ytd' = store' /\ pc' = "idle" /\ year' = year
    BY <1>6 DEF Unload, Crash, Load
  <2>2. store' \in {store, ytd} \/ (pc = "save" /\ store' = tick.saved)
    BY <1>6 DEF Unload, Crash
  <2> QED
    BY <2>1, <2>2 DEF Moves
<1>7. CASE TickStart \/ TickAsks \/ RecorderAnswers \/ QueryFails \/ Compile \/ DelayedSave
  <2>1. UNCHANGED <<ytd, year>> /\ store' \in {store, ytd}
    BY <1>7 DEF TickStart, TickAsks, RecorderAnswers, QueryFails, Compile, DelayedSave,
                vars, ownVars
  <2>2. pc' = "save" => pc = "save" /\ tick' = tick
    BY <1>7 DEF TickStart, TickAsks, RecorderAnswers, QueryFails, Compile, DelayedSave
  <2> QED
    BY <2>1, <2>2 DEF Moves
<1>8. CASE UNCHANGED allvars
  BY <1>8 DEF allvars, vars, ownVars, Moves
<1> QED
  BY <1>3, <1>4, <1>5, <1>6, <1>7, <1>8 DEF YTDNext, Tick

\* Water is only ever drawn.
LEMMA WaterFlows ==
  ASSUME YTDType, [YTDNext]_allvars
  PROVE  \A y \in Years : drawn[y] <= drawn'[y]
<1>1. drawn \in [Years -> Nat] /\ year \in Years
  BY DEF YTDType, TypeOK
<1>2. CASE Draw
  BY <1>1, <1>2 DEF Draw
<1>3. CASE drawn' = drawn
  BY <1>1, <1>3
<1>4. Draw \/ drawn' = drawn
  BY DEF YTDNext, Environment, Tick, GoOutOfSight, ShowRegister, Glitch, Replace, Report,
         Turn, Wait, Compile, TickStart, TickUnasked, TickAsks, RecorderAnswers, QueryFails,
         TickFold, TickSaved, DelayedSave, Unload, Crash, Load, meterVars, allvars
<1> QED
  BY <1>2, <1>3, <1>4

\* The recorder says no more of a year than was drawn in it.
RecorderIsBehind ==
  /\ \A y \in Years : compiled[y] <= drawn[y]
  /\ pc = "query" /\ tick.answer \notin {None, NoAnswer} =>
       tick.answer.m3 <= drawn[tick.year]

LEMMA RecorderNext ==
  ASSUME YTDType, YTDType', RecorderIsBehind, [YTDNext]_allvars
  PROVE  RecorderIsBehind'
<1>1. /\ drawn \in [Years -> Nat] /\ drawn' \in [Years -> Nat] /\ compiled \in [Years -> Nat]
      /\ \A y \in Years : drawn[y] <= drawn'[y]
  BY WaterFlows DEF YTDType
<1>2. compiled' = compiled \/ compiled' = drawn
  BY DEF YTDNext, Environment, Tick, Draw, GoOutOfSight, ShowRegister, Glitch, Replace, Report,
         Turn, Wait, Compile, TickStart, TickUnasked, TickAsks, RecorderAnswers, QueryFails,
         TickFold, TickSaved, DelayedSave, Unload, Crash, Load, meterVars, allvars
<1>3. \A y \in Years : compiled'[y] <= drawn'[y]
  <2> SUFFICES ASSUME NEW y \in Years
               PROVE  compiled'[y] <= drawn'[y]
    OBVIOUS
  <2>1. compiled[y] <= drawn[y] /\ drawn[y] <= drawn'[y]
        /\ compiled[y] \in Nat /\ drawn[y] \in Nat /\ drawn'[y] \in Nat
    BY <1>1 DEF RecorderIsBehind
  <2>2. compiled'[y] = compiled[y] \/ compiled'[y] = drawn[y]
    BY <1>2
  <2> QED
    BY <2>1, <2>2
<1>4. ASSUME pc' = "query", tick'.answer \notin {None, NoAnswer}
      PROVE  tick'.answer.m3 <= drawn'[tick'.year]
  <2>1. CASE RecorderAnswers
    <3>1. tick \in Asking /\ drawn' = drawn
      BY <2>1 DEF RecorderAnswers, YTDType, TickType, meterVars
    <3>2. tick'.year = tick.year /\ tick'.answer.m3 = compiled[tick.year] /\ tick.year \in Years
      BY <2>1, <3>1 DEF RecorderAnswers, Asking, TickYears
    <3> QED
      BY <3>1, <3>2 DEF RecorderIsBehind
  <2>2. CASE QueryFails
    <3>1. tick \in Asking
      BY <2>2 DEF QueryFails, YTDType, TickType
    <3>2. tick'.answer = NoAnswer
      BY <2>2, <3>1 DEF QueryFails, Asking
    <3> QED
      BY <1>4, <3>2
  <2>3. CASE TickAsks
    <3>1. tick = NoTick /\ tick' = [tick EXCEPT !.year = year, !.live = shown]
      BY <2>3 DEF TickAsks, YTDType, TickType
    <3>2. tick'.answer = None
      BY <3>1 DEF NoTick
    <3> QED
      BY <1>4, <3>2
  <2>4. CASE UNCHANGED <<pc, tick>>
    <3>1. tick \in Asking
      BY <1>4, <2>4 DEF YTDType, TickType
    <3>2. tick.year \in Years /\ tick.answer \in Statistics
      BY <1>4, <2>4, <3>1 DEF Asking, TickYears
    <3>3. tick.answer.m3 \in Nat /\ tick.answer.m3 <= drawn[tick.year]
      BY <1>4, <2>4, <3>2 DEF RecorderIsBehind, Statistics
    <3>4. drawn[tick.year] \in Nat /\ drawn'[tick.year] \in Nat /\ drawn[tick.year] <= drawn'[tick.year]
      BY <1>1, <3>2
    <3> QED
      BY <2>4, <3>3, <3>4
  <2>5. ASSUME ~TickAsks, ~RecorderAnswers, ~QueryFails
        PROVE  UNCHANGED <<pc, tick>> \/ pc' # "query"
    <3>1. CASE TickUnasked \/ TickFold
      <4>1. PICK e \in Evidences : TickFolds(e)
        BY <3>1, TickRounds
      <4> QED
        BY <4>1 DEF TickFolds, AfterFold
    <3>2. CASE Environment
      BY <3>2, EnvironmentShows DEF Show, Turn, Wait
    <3>3. CASE TickStart \/ TickSaved \/ Unload \/ Crash \/ Compile \/ DelayedSave
                 \/ UNCHANGED allvars
      BY <3>3 DEF TickStart, TickSaved, Unload, Crash, Load, Compile, DelayedSave, allvars
    <3> QED
      BY <2>5, <3>1, <3>2, <3>3 DEF YTDNext, Tick
  <2> QED
    BY <1>4, <2>1, <2>2, <2>3, <2>4, <2>5
<1> QED
  BY <1>3, <1>4 DEF RecorderIsBehind

LEMMA RecorderBehind == YTDSpec => []RecorderIsBehind
<1>1. YTDInit => RecorderIsBehind
  <2> SUFFICES ASSUME YTDInit
               PROVE  RecorderIsBehind
    OBVIOUS
  <2>1. drawn \in [Years -> Nat] /\ compiled = drawn /\ pc = "idle"
    BY TypeInit DEF YTDType, YTDInit
  <2>2. \A y \in Years : compiled[y] <= drawn[y]
    BY <2>1
  <2> QED
    BY <2>1, <2>2 DEF RecorderIsBehind
<1>2. YTDType /\ YTDType' /\ RecorderIsBehind /\ [YTDNext]_allvars => RecorderIsBehind'
  BY RecorderNext
<1> QED
  BY <1>1, <1>2, TypesAreKept, PTL DEF YTDSpec

-----------------------------------------------------------------------------
(* No record is of a year to come.                                         *)

NotAhead(c, y) == c.year # None => c.year <= y

NoneAhead ==
  /\ NotAhead(ytd, year) /\ NotAhead(store, year)
  /\ pc = "save" => NotAhead(tick.saved, year)

\* A round leaves the record of the meter as it was, or of its own year.
LEMMA RoundYear ==
  ASSUME YTDType, NEW e \in Evidences, RoundOn(e)
  PROVE  \/ ytd' = ytd
         \/ ytd'.year \in {None, e.year}
<1>1. ytd' = Fold(ytd, pending, e).cycle /\ e.meter = Meter /\ ytd \in Files
  BY DEF RoundOn, FoldCycle, YTDType
<1>2. Kept(ytd, e) = ytd \/ Kept(ytd, e).year = None
  BY DEF Kept, FreshCycle
<1> DEFINE s == Settled(ytd, pending, e)
<1>3. CASE Figures(s, e) = {}
  <2>1. Fold(ytd, pending, e) = Verdict(s, Kept(ytd, e), None, None)
    BY <1>3 DEF Fold, Settled
  <2> QED
    BY <1>1, <1>2, <2>1 DEF Verdict
<1>4. CASE Figures(s, e) # {}
  <2>1. Fold(ytd, pending, e) = Published(s, e)
    BY <1>4 DEF Fold, Settled
  <2> QED
    BY <1>1, <2>1 DEF Published, Verdict
<1> QED
  BY <1>3, <1>4

LEMMA AheadNext ==
  ASSUME YTDType, NoneAhead, [YTDNext]_allvars
  PROVE  NoneAhead'
<1>1. Moves /\ year \in Nat /\ year' \in Nat /\ year <= year'
  <2>1. Moves
    BY StepMoves
  <2>2. year \in Nat
    BY RoundsAssumption DEF YTDType, TypeOK
  <2> QED
    BY <2>1, <2>2 DEF Moves
<1>2. ASSUME NEW c \in Files, NotAhead(c, year)
      PROVE  NotAhead(c, year')
  <2>1. c.year # None => c.year \in Nat
    BY RoundsAssumption DEF Files, Cycles, Opt
  <2> QED
    BY <1>1, <1>2, <2>1 DEF NotAhead
<1>3. /\ ytd \in Files /\ store \in Files
      /\ pc = "save" => tick.saved \in Files
  BY DEF YTDType, TickType, Saving
<1>4. NotAhead(store', year')
  BY <1>1, <1>2, <1>3 DEF Moves, NoneAhead
<1>5. NotAhead(ytd', year')
  <2>1. CASE \E e \in Evidences : RoundOn(e)
    <3>1. PICK e \in Evidences : RoundOn(e)
      BY <2>1
    <3>2. e.year \in Nat /\ e.year <= year /\ year' = year
      BY <1>1, <3>1, RoundsAssumption DEF RoundOn, TickYears
    <3>3. CASE ytd' = ytd
      BY <1>2, <1>3, <3>3 DEF NoneAhead
    <3>4. CASE ytd'.year \in {None, e.year}
      BY <3>2, <3>4 DEF NotAhead
    <3> QED
      BY <3>1, <3>3, <3>4, RoundYear
  <2>2. CASE ytd' = ytd
    BY <1>2, <1>3, <2>2 DEF NoneAhead
  <2> QED
    BY <1>1, <1>4, <2>1, <2>2 DEF Moves
<1>6. pc' = "save" => NotAhead(tick'.saved, year')
  BY <1>1, <1>2, <1>3, <1>5 DEF Moves, NoneAhead
<1> QED
  BY <1>4, <1>5, <1>6 DEF NoneAhead

LEMMA NoRecordAhead == YTDSpec => []NoneAhead
<1>1. YTDInit => NoneAhead
  BY DEF YTDInit, Init, NoneAhead, NotAhead, NoCycle, FreshCycle
<1>2. YTDType /\ NoneAhead /\ [YTDNext]_allvars => NoneAhead'
  BY AheadNext
<1> QED
  BY <1>1, <1>2, TypesAreKept, PTL DEF YTDSpec

-----------------------------------------------------------------------------
(* The running year stays within its water, for frames out of a set.       *)

\* A record of the year y counts at most the water, on a frame of the set.
Sound(c, y, water, frames) ==
  c.year = y => c.m3 <= water /\ (c.offset_m3 # None => c.offset_m3 \in frames)

\* A reading fits the frames: in each it is within the water or beyond what one
\* report may add, and those that put it within the water are among them.
Fits(reading, water, frames, now) ==
  /\ \A f \in frames :
       \/ reading - f <= water
       \/ \A seen_at \in Opt(Nat) : reading - f > water + StepBound(seen_at, now)
  /\ \A f \in Int : reading - f \in 0 .. water => f \in frames

\* A record that is sound stays so while water is drawn and frames join.
LEMMA SoundStands ==
  ASSUME NEW c \in Files, NEW y \in Years, NEW w \in Nat, NEW v \in Nat, w <= v,
         NEW S \in SUBSET Int, NEW T \in SUBSET Int, S \subseteq T, Sound(c, y, w, S)
  PROVE  Sound(c, y, v, T)
<1>1. c.year = y => c.m3 \in Nat
  <2>1. y # None
    BY RoundsAssumption, NoneAssumption
  <2> QED
    BY <2>1 DEF Files, Cycles, WellDated, Opt
<1>2. ASSUME c.year = y
      PROVE  c.m3 <= v
  BY <1>1, <1>2 DEF Sound
<1>3. ASSUME c.year = y, c.offset_m3 # None
      PROVE  c.offset_m3 \in T
  BY <1>3 DEF Sound
<1> QED
  BY <1>2, <1>3 DEF Sound

\* A round of the running year keeps it sound; one of a year that is over
\* leaves the running year's record alone.
LEMMA RoundIsSound ==
  ASSUME YTDType, RecorderIsBehind, NEW e \in Evidences, RoundOn(e),
         NEW water \in Nat, drawn[year] <= water,
         NEW frames \in SUBSET Int, Sound(ytd, year, water, frames),
         shown' # None => Fits(shown', water, frames, clock)
  PROVE  Sound(ytd', year, water, frames)
<1>1. /\ ytd \in Cycles /\ WellDated(ytd) /\ pending \in Holds
      /\ ytd' = Fold(ytd, pending, e).cycle /\ e.now = clock
      /\ year \in Years /\ drawn[year] \in Nat /\ ytd.seen_at \in Opt(Nat)
  BY DEF YTDType, TypeOK, Files, RoundOn, FoldCycle, Cycles
<1>2. year # None
  BY <1>1, RoundsAssumption, NoneAssumption
<1>3. CASE e.year # year
  BY <1>2, <1>3, RoundYear DEF Sound
<1>4. CASE e.year = year
  <2>1. Within(e.recorder_m3, water)
    <3> SUFFICES ASSUME e.recorder_m3 # None
                 PROVE  e.recorder_m3 <= water
      BY DEF Within
    <3>1. /\ pc = "query" /\ tick.answer # None /\ tick.year = year
          /\ e.recorder_m3 = tick.answer.m3
      BY <1>4 DEF RoundOn
    <3>2. tick \in Asking
      BY <3>1 DEF YTDType, TickType
    <3>3. tick.answer # NoAnswer
      BY <3>1 DEF NoAnswer
    <3>4. tick.answer.m3 \in Nat /\ tick.answer.m3 <= drawn[year]
      BY <3>1, <3>2, <3>3 DEF Asking, Statistics, RecorderIsBehind
    <3> QED
      BY <1>1, <3>1, <3>4
  <2>2. Current(ytd, e) => ytd.m3 <= water
    BY <1>4 DEF Current, Sound
  <2>3. Current(ytd, e) /\ ytd.offset_m3 # None /\ e.reading # None =>
          \/ e.reading - ytd.offset_m3 <= water
          \/ e.reading - ytd.offset_m3 > water + StepBound(ytd.seen_at, e.now)
    <3> SUFFICES ASSUME Current(ytd, e), ytd.offset_m3 # None, e.reading # None
                 PROVE  \/ e.reading - ytd.offset_m3 <= water
                        \/ e.reading - ytd.offset_m3 > water + StepBound(ytd.seen_at, e.now)
      OBVIOUS
    <3>1. ytd.offset_m3 \in frames
      BY <1>4 DEF Current, Sound
    <3>2. e.reading = shown' /\ Fits(shown', water, frames, clock)
      BY DEF RoundOn
    <3> QED
      BY <1>1, <3>1, <3>2 DEF Fits
  <2>4. \/ ytd' = Kept(ytd, e)
        \/ /\ ytd'.year = e.year /\ ytd'.m3 <= water
           /\ \/ ytd'.offset_m3 = None
              \/ Current(ytd, e) /\ ytd'.offset_m3 = ytd.offset_m3
              \/ e.reading # None /\ e.reading - ytd'.offset_m3 \in 0 .. water
    BY <1>1, <2>1, <2>2, <2>3, FoldCounts
  <2>5. CASE ytd' = Kept(ytd, e)
    BY <1>2, <2>5 DEF Kept, FreshCycle, Sound
  <2>6. CASE /\ ytd'.year = e.year /\ ytd'.m3 <= water
             /\ \/ ytd'.offset_m3 = None
                \/ Current(ytd, e) /\ ytd'.offset_m3 = ytd.offset_m3
                \/ e.reading # None /\ e.reading - ytd'.offset_m3 \in 0 .. water
    <3>1. ytd'.offset_m3 # None => ytd'.offset_m3 \in Int
      BY FoldFiles DEF RoundOn, Files, Cycles, Opt
    <3>2. e.reading # None /\ e.reading - ytd'.offset_m3 \in 0 .. water
            /\ ytd'.offset_m3 # None => ytd'.offset_m3 \in frames
      BY <3>1 DEF RoundOn, Fits
    <3> QED
      BY <1>4, <2>6, <3>2 DEF Sound, Current
  <2> QED
    BY <2>4, <2>5, <2>6
<1> QED
  BY <1>3, <1>4

\* Every record the coordinator may go on from.
AllSound(y, water, frames) ==
  /\ Sound(ytd, y, water, frames) /\ Sound(store, y, water, frames)
  /\ pc = "save" => Sound(tick.saved, y, water, frames)

\* A step keeps every record sound, for frames that join as the step's reading
\* fits them; a year that turns has no record yet.
LEMMA SoundNext ==
  ASSUME YTDType, YTDType', RecorderIsBehind, NoneAhead, [YTDNext]_allvars,
         NEW S \in SUBSET Int, NEW T \in SUBSET Int, year' = year => S \subseteq T,
         AllSound(year, drawn[year], S),
         UNCHANGED <<clock, year>> /\ shown' # None => Fits(shown', drawn'[year'], T, clock)
  PROVE  /\ Sound(ytd', year', drawn'[year'], T) /\ Sound(store', year', drawn'[year'], T)
         /\ pc' = "save" => Sound(tick'.saved, year', drawn'[year'], T)
<1> DEFINE water == drawn'[year']
<1>1. /\ Moves /\ year \in Years /\ year' \in Years /\ year \in Nat /\ year' \in Nat
      /\ drawn[year] \in Nat /\ water \in Nat /\ drawn[year] <= drawn'[year]
  BY StepMoves, WaterFlows, RoundsAssumption DEF YTDType, TypeOK
<1>2. /\ ytd \in Files /\ store \in Files
      /\ pc = "save" => tick.saved \in Files
  BY DEF YTDType, TickType, Saving
<1>3. ASSUME NEW c \in Files, NotAhead(c, year), Sound(c, year, drawn[year], S)
      PROVE  Sound(c, year', water, T)
  <2>1. CASE year' = year
    BY <1>1, <1>3, <2>1, SoundStands
  <2>2. CASE year' # year
    <3>1. year' = year + 1
      BY <1>1, <2>2 DEF Moves
    <3>2. c.year # year'
      BY <1>1, <1>3, <3>1, NoneAssumption DEF NotAhead
    <3> QED
      BY <3>2 DEF Sound
  <2> QED
    BY <2>1, <2>2
<1>4. /\ Sound(ytd, year', water, T) /\ Sound(store, year', water, T)
      /\ pc = "save" => Sound(tick.saved, year', water, T)
  BY <1>2, <1>3 DEF AllSound, NoneAhead
<1>5. Sound(store', year', water, T)
  BY <1>1, <1>4 DEF Moves
<1>6. Sound(ytd', year', water, T)
  <2>1. CASE \E e \in Evidences : RoundOn(e)
    <3>1. PICK e \in Evidences : RoundOn(e)
      BY <2>1
    <3>2. UNCHANGED <<clock, year>>
      BY <3>1 DEF RoundOn
    <3>3. Sound(ytd, year, water, T) /\ drawn[year] <= water
      BY <1>1, <1>4, <3>2
    <3>4. shown' # None => Fits(shown', water, T, clock)
      BY <3>2
    <3> HIDE DEF water
    <3>5. Sound(ytd', year, water, T)
      BY <1>1, <3>1, <3>3, <3>4, RoundIsSound
    <3> QED
      BY <3>2, <3>5
  <2> QED
    BY <1>1, <1>4, <1>5, <2>1 DEF Moves
<1>7. pc' = "save" => Sound(tick'.saved, year', water, T)
  BY <1>1, <1>4, <1>6 DEF Moves
<1> QED
  BY <1>5, <1>6, <1>7

\* What the meter and its budget do in a step.
LEMMA MeterMoves ==
  ASSUME YTDType, [YTDNext]_allvars
  PROVE  /\ \/ /\ UNCHANGED <<register, drawn>>
               /\ \/ shown' \in {shown, None, register}
                  \/ Spend("glitches") /\ shown' \in Glitches
            \/ /\ register' = register + 1 /\ shown' \in {None, register'}
               /\ year' = year /\ drawn'[year] = drawn[year] + 1
            \/ /\ Spend("replacements")
               /\ register' = NewRegister /\ shown' = NewRegister /\ drawn' = drawn
         /\ left' = left \/ \E what \in Happenings : Spend(what)
<1>1. drawn \in [Years -> Nat] /\ year \in Years
  BY DEF YTDType, TypeOK
<1>2. CASE Draw
  <2>1. drawn'[year] = drawn[year] + 1
    BY <1>1, <1>2 DEF Draw
  <2>2. shown' \in {None, register'} /\ register' = register + 1 /\ year' = year
    BY <1>2 DEF Draw, Show
  <2>3. \E what \in Happenings : Spend(what)
    BY <1>2 DEF Draw, Happenings
  <2> QED
    BY <2>1, <2>2, <2>3
<1>3. CASE Replace
  <2>1. \E what \in Happenings : Spend(what)
    BY <1>3 DEF Replace, Happenings
  <2> QED
    BY <1>3, <2>1 DEF Replace, Show
<1>4. CASE Glitch
  <2>1. \E what \in Happenings : Spend(what)
    BY <1>4 DEF Glitch, Happenings
  <2>2. Spend("glitches") /\ shown' \in Glitches /\ UNCHANGED <<register, drawn>>
    BY <1>4 DEF Glitch, Show
  <2> QED
    BY <2>1, <2>2
<1>5. CASE GoOutOfSight \/ ShowRegister \/ Report
  BY <1>5 DEF GoOutOfSight, ShowRegister, Report, Show
<1>6. CASE Turn \/ Unload \/ Crash \/ QueryFails
  <2>1. \E what \in Happenings : Spend(what)
    BY <1>6 DEF Turn, Unload, Crash, QueryFails, Happenings
  <2>2. UNCHANGED <<register, drawn, shown>>
    BY <1>6 DEF Turn, Unload, Crash, QueryFails, Load, meterVars
  <2> QED
    BY <2>1, <2>2
<1>7. CASE TickUnasked \/ TickFold \/ TickSaved
  BY <1>7 DEF TickUnasked, TickFold, TickSaved, meterVars
<1>8. CASE Wait \/ TickStart \/ TickAsks \/ RecorderAnswers \/ Compile \/ DelayedSave
  BY <1>8 DEF Wait, TickStart, TickAsks, RecorderAnswers, Compile, DelayedSave, meterVars
<1>9. CASE UNCHANGED allvars
  BY <1>9 DEF allvars, meterVars
<1> QED
  BY <1>2, <1>3, <1>4, <1>5, <1>6, <1>7, <1>8, <1>9 DEF YTDNext, Environment, Tick

\* A budget that has none of a happening left never has.
LEMMA SpentStaysSpent ==
  ASSUME YTDType, [YTDNext]_allvars, NEW what \in Happenings, left[what] = 0
  PROVE  left'[what] = 0 /\ ~Spend(what)
<1>1. left \in [Happenings -> Nat] /\ ~Spend(what)
  BY DEF YTDType, Spend
<1>2. ASSUME NEW other \in Happenings, Spend(other)
      PROVE  left'[what] = 0
  BY <1>1, <1>2 DEF Spend
<1> QED
  BY <1>1, <1>2, MeterMoves

-----------------------------------------------------------------------------
(* A meter that shows no wrong value.                                      *)

HonestMeter ==
  /\ \A budget \in Budgets : budget["glitches"] = 0
  /\ NewRegister <= FirstRegister

\* The frames in which the register is within the year's water.
Frames == {f \in Int : register - f <= drawn[year]}

Honest ==
  /\ left["glitches"] = 0
  /\ shown \in {None, register}
  /\ register >= NewRegister
  /\ AllSound(year, drawn[year], Frames)

LEMMA HonestNext ==
  ASSUME YTDType, YTDType', RecorderIsBehind, NoneAhead, Honest, [YTDNext]_allvars
  PROVE  Honest'
<1> DEFINE T == {f \in Int : register' - f <= drawn'[year']}
<1>1. /\ register \in Nat /\ register' \in Nat /\ NewRegister \in Nat
      /\ drawn[year] \in Nat /\ drawn'[year'] \in Nat
  BY YearToDateAssumption DEF YTDType, TypeOK
<1>2. left'["glitches"] = 0 /\ ~Spend("glitches")
  BY SpentStaysSpent DEF Honest, Happenings
<1>3. \/ UNCHANGED <<register, drawn>> /\ shown' \in {shown, None, register}
      \/ /\ register' = register + 1 /\ shown' \in {None, register'}
         /\ year' = year /\ drawn'[year] = drawn[year] + 1
      \/ register' = NewRegister /\ shown' = NewRegister /\ drawn' = drawn
  BY <1>2, MeterMoves
<1>4. shown' \in {None, register'} /\ register' >= NewRegister
  BY <1>1, <1>3 DEF Honest
<1>5. year' = year => Frames \subseteq T
  <2> SUFFICES ASSUME year' = year, NEW f \in Frames
               PROVE  f \in T
    OBVIOUS
  <2>1. f \in Int /\ register - f <= drawn[year]
    BY DEF Frames
  <2>2. register' - f <= drawn'[year']
    BY <1>1, <1>3, <2>1 DEF Honest
  <2> QED
    BY <2>1, <2>2
<1>6. UNCHANGED <<clock, year>> /\ shown' # None => Fits(shown', drawn'[year], T, clock)
  <2> SUFFICES ASSUME UNCHANGED <<clock, year>>, shown' # None
               PROVE  Fits(shown', drawn'[year], T, clock)
    OBVIOUS
  <2>1. shown' = register' /\ drawn'[year] = drawn'[year']
    BY <1>4
  <2> QED
    BY <1>1, <2>1 DEF Fits
<1>7. Frames \in SUBSET Int /\ T \in SUBSET Int
  BY DEF Frames
<1>8. AllSound(year, drawn[year], Frames)
  BY DEF Honest
<1> HIDE DEF T
<1>9. /\ Sound(ytd', year', drawn'[year'], T) /\ Sound(store', year', drawn'[year'], T)
      /\ pc' = "save" => Sound(tick'.saved, year', drawn'[year'], T)
  BY <1>5, <1>6, <1>7, <1>8, SoundNext
<1>10. AllSound(year, drawn[year], Frames)'
  BY <1>9 DEF AllSound, Frames, T
<1> QED
  BY <1>2, <1>4, <1>10 DEF Honest

\* No record is of a year before the first round.
LEMMA SoundInit ==
  ASSUME YTDInit, NEW water, NEW frames
  PROVE  AllSound(year, water, frames)
<1>1. ytd.year = None /\ store.year = None /\ pc = "idle"
  BY DEF YTDInit, Init, NoCycle, FreshCycle
<1>2. year # None
  BY RoundsAssumption, NoneAssumption DEF YTDInit, Init
<1> QED
  BY <1>1, <1>2 DEF AllSound, Sound

\* While the meter shows nothing but its register, however late, however often
\* replaced, and through any crash, reload, failed query, late answer and turn
\* of the year, the running year never counts more water than was drawn in it.
THEOREM HonestMeterIsNeverOverbilled ==
  ASSUME HonestMeter
  PROVE  YTDSpec => []NeverOverbills
<1>1. YTDInit => Honest
  <2> SUFFICES ASSUME YTDInit
               PROVE  Honest
    OBVIOUS
  <2>1. left["glitches"] = 0
    BY DEF YTDInit, HonestMeter
  <2>2. shown \in {None, register} /\ register >= NewRegister
    BY YearToDateAssumption DEF YTDInit, HonestMeter
  <2> QED
    BY <2>1, <2>2, SoundInit DEF Honest
<1>2. YTDType /\ YTDType' /\ RecorderIsBehind /\ NoneAhead /\ Honest /\ [YTDNext]_allvars
        => Honest'
  BY HonestNext
<1>3. Honest => NeverOverbills
  BY DEF Honest, AllSound, Sound, NeverOverbills
<1> QED
  BY <1>1, <1>2, <1>3, TypesAreKept, RecorderBehind, NoRecordAhead, PTL DEF YTDSpec

-----------------------------------------------------------------------------
(* A meter that shows wrong values, and is not replaced.                   *)

NeverReplaced == \A budget \in Budgets : budget["replacements"] = 0

\* What the meter may show.
Shown == Glitches \cup {register}

\* Of two values the meter may show, the higher lies further off than the
\* year's water and what one report may add to it.
Apart ==
  \A low \in Shown, high \in Shown :
    high > low => \A seen_at \in Opt(Nat) :
                    high - low > drawn[year] + StepBound(seen_at, clock)

\* The frames in which some value is within the year's water.
WrongFrames == {f \in Int : \E low \in Shown : low - f \in 0 .. drawn[year]}

Wrong ==
  /\ left["replacements"] = 0
  /\ shown \in {None} \cup Shown
  /\ AllSound(year, drawn[year], WrongFrames)

LEMMA WrongNext ==
  ASSUME YTDType, YTDType', RecorderIsBehind, NoneAhead, Apart', Wrong, [YTDNext]_allvars
  PROVE  Wrong'
<1> DEFINE T == {f \in Int : \E low \in Shown' : low - f \in 0 .. drawn'[year']}
<1>1. /\ register \in Nat /\ register' \in Nat /\ Glitches \subseteq Int
      /\ drawn[year] \in Nat /\ drawn'[year'] \in Nat /\ clock \in Nat
  BY YearToDateAssumption DEF YTDType, TypeOK
<1>2. left'["replacements"] = 0 /\ ~Spend("replacements")
  BY SpentStaysSpent DEF Wrong, Happenings
<1>3. \/ UNCHANGED <<register, drawn>> /\ shown' \in {shown, None, register} \cup Glitches
      \/ /\ register' = register + 1 /\ shown' \in {None, register'}
         /\ year' = year /\ drawn'[year] = drawn[year] + 1
  BY <1>2, MeterMoves
<1>4. shown' \in {None} \cup Shown' /\ Shown' \subseteq Int
  BY <1>1, <1>3 DEF Wrong, Shown
<1>5. year' = year => WrongFrames \subseteq T
  <2> SUFFICES ASSUME year' = year, NEW f \in WrongFrames
               PROVE  f \in T
    OBVIOUS
  <2>1. PICK low \in Shown : low - f \in 0 .. drawn[year]
    BY DEF WrongFrames
  <2>2. f \in Int /\ low \in Int
    BY <1>1 DEF WrongFrames, Shown
  <2>3. CASE low \in Glitches
    <3>1. low - f \in 0 .. drawn'[year']
      BY <1>1, <1>3, <2>1, <2>2
    <3> QED
      BY <2>2, <2>3, <3>1 DEF Shown
  <2>4. CASE low = register
    <3>1. register - f \in Int /\ 0 <= register - f /\ register - f <= drawn[year]
      BY <1>1, <2>1, <2>2, <2>4
    <3>2. \/ register' = register /\ drawn'[year'] = drawn[year]
          \/ register' = register + 1 /\ drawn'[year'] = drawn[year] + 1
      BY <1>3
    <3>3. register' - f \in 0 .. drawn'[year']
      BY <1>1, <2>2, <3>1, <3>2
    <3> QED
      BY <2>2, <3>3 DEF Shown
  <2> QED
    BY <2>3, <2>4 DEF Shown
<1>6. UNCHANGED <<clock, year>> /\ shown' # None => Fits(shown', drawn'[year], T, clock)
  <2> SUFFICES ASSUME UNCHANGED <<clock, year>>, shown' # None
               PROVE  Fits(shown', drawn'[year], T, clock)
    OBVIOUS
  <2>1. shown' \in Shown' /\ shown' \in Int
    BY <1>4
  <2> DEFINE water == drawn'[year]
  <2>2. water \in Nat /\ water = drawn'[year']
    BY <1>1
  <2>3. ASSUME NEW f \in T
        PROVE  \/ shown' - f <= water
               \/ \A seen_at \in Opt(Nat) : shown' - f > water + StepBound(seen_at, clock)
    <3>1. PICK low \in Shown' : low - f \in 0 .. water
      BY <2>2
    <3>2. f \in Int /\ low \in Int
      BY <1>4
    <3>3. CASE shown' <= low
      BY <2>1, <2>2, <3>1, <3>2, <3>3
    <3>4. CASE shown' > low
      <4> SUFFICES ASSUME NEW seen_at \in Opt(Nat)
                   PROVE  shown' - f > water + StepBound(seen_at, clock)
        OBVIOUS
      <4>1. shown' - low > water + StepBound(seen_at, clock)
        BY <2>1, <2>2, <3>4 DEF Apart
      <4>2. StepBound(seen_at, clock) \in Nat
        BY <1>1, StepBoundType
      <4> QED
        BY <2>1, <2>2, <3>1, <3>2, <4>1, <4>2
    <3> QED
      BY <2>1, <3>2, <3>3, <3>4
  <2>4. \A f \in Int : shown' - f \in 0 .. water => f \in T
    BY <2>1, <2>2
  <2> HIDE DEF T, water
  <2>5. Fits(shown', water, T, clock)
    BY <2>3, <2>4 DEF Fits
  <2> QED
    BY <2>5 DEF water
<1>7. WrongFrames \in SUBSET Int /\ T \in SUBSET Int
  BY DEF WrongFrames
<1>8. AllSound(year, drawn[year], WrongFrames)
  BY DEF Wrong
<1> HIDE DEF T
<1>9. /\ Sound(ytd', year', drawn'[year'], T) /\ Sound(store', year', drawn'[year'], T)
      /\ pc' = "save" => Sound(tick'.saved, year', drawn'[year'], T)
  BY <1>5, <1>6, <1>7, <1>8, SoundNext
<1>10. AllSound(year, drawn[year], WrongFrames)'
  BY <1>9 DEF AllSound, WrongFrames, T
<1> QED
  BY <1>2, <1>4, <1>10 DEF Wrong

\* Wrong values that lie apart, shown once or again and again and folded in any
\* order with crashes, late answers and turns of the year, never bill the
\* running year a drop that was not drawn in it.
THEOREM WrongValuesAreNeverBilled ==
  ASSUME NeverReplaced
  PROVE  YTDSpec /\ []Apart => []NeverOverbills
<1>1. YTDInit => Wrong
  <2> SUFFICES ASSUME YTDInit
               PROVE  Wrong
    OBVIOUS
  <2>1. left["replacements"] = 0
    BY DEF YTDInit, NeverReplaced
  <2>2. shown \in {None} \cup Shown
    BY DEF YTDInit, Shown
  <2> QED
    BY <2>1, <2>2, SoundInit DEF Wrong
<1>2. YTDType /\ YTDType' /\ RecorderIsBehind /\ NoneAhead /\ Apart' /\ Wrong
        /\ [YTDNext]_allvars
        => Wrong'
  BY WrongNext
<1>3. Wrong => NeverOverbills
  BY DEF Wrong, AllSound, Sound, NeverOverbills
<1> QED
  BY <1>1, <1>2, <1>3, TypesAreKept, RecorderBehind, NoRecordAhead, PTL DEF YTDSpec
=============================================================================
