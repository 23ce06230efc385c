------------------------- MODULE PriceBackfillProofs ------------------------
(***************************************************************************)
(* Theorems of PriceBackfill, for any places, cards, keys, hours and       *)
(* callers: no hour is written before the recorder compiled it, a stamped  *)
(* gate is of the line under it, and no operator's rows are left behind.   *)
(***************************************************************************)
EXTENDS PriceBackfill, TLAPS

-----------------------------------------------------------------------------
(* The types.                                                              *)

Datas == [place : Places, card : Cards, stale : BOOLEAN]

\* What a run under way knows at each of its awaits.
JobType(t) ==
  /\ pc[t] \in {"idle", "due", "orphans", "until", "rows"}
  /\ pc[t] \in {"idle", "due"} => job[t] = NoJob
  /\ Busy(t) =>
       /\ job[t] \in [gate : Rates, data : Datas \cup {None}, end : Nat, todo : SUBSET Keys]
       /\ pc[t] = "orphans" => job[t].data = None /\ job[t].end = 0 /\ job[t].todo # {}
       /\ pc[t] # "orphans" => job[t].data # None
       /\ pc[t] = "rows" => job[t].todo \subseteq Produces[job[t].data.place.utility]

PriceType ==
  /\ place \in Places
  /\ gate \in Rates \cup {None}
  /\ state \in {"down", "setup", "loaded"} /\ reload \in BOOLEAN
  /\ newest \in [Places -> Nat]
  /\ data \in Datas \cup {None} /\ (data # None <=> state # "down")
  /\ registered \subseteq Keys /\ older \subseteq Keys
  /\ ended \in 0 .. Hours /\ compiled \in 0 .. ended
  /\ line \in [Keys -> [HourSet -> {None, Live} \cup Rates]]
  /\ left \in [refresh : Nat, change : Nat, crash : Nat, fail : Nat]
  /\ DOMAIN pc = Callers /\ DOMAIN job = Callers
  /\ \A t \in Callers : JobType(t)

\* A run writes compiled hours only, and so does the line.
Compiled ==
  /\ \A t \in Callers : pc[t] = "rows" => job[t].end <= compiled
  /\ \A k \in Keys, h \in HourSet : h >= compiled => line[k][h] = None
  /\ lost = {}

LostInv == PriceType /\ Compiled

-----------------------------------------------------------------------------
(* What each step of a run is.                                             *)

\* The other runs stand still.
Others(t) ==
  /\ DOMAIN pc' = Callers /\ DOMAIN job' = Callers
  /\ \A u \in Callers : u # t => pc'[u] = pc[u] /\ job'[u] = job[u]

Ended(t) == pc'[t] = "idle" /\ job'[t] = NoJob

\* The run goes on to the recorder's marker with the data in hand.
GoesOn(t, g) ==
  /\ data # None /\ ~data.stale
  /\ pc'[t] = "until"
  /\ job'[t] = [gate |-> g, data |-> data, end |-> 0, todo |-> {}]

LEMMA EndsIs ==
  ASSUME PriceType, NEW t \in Callers, Ends(t)
  PROVE  Others(t) /\ Ended(t)
BY DEF PriceType, Ends, Others, Ended

LEMMA PrepareIs ==
  ASSUME PriceType, NEW t \in Callers, NEW g, NEW d,
         Prepare(t, [gate |-> g, data |-> d, end |-> 0, todo |-> {}])
  PROVE  Others(t) /\ (Ended(t) \/ GoesOn(t, g))
<1>1. CASE Defers
  BY <1>1, EndsIs DEF Prepare
<1>2. CASE ~Defers
  <2>1. data # None /\ ~data.stale
    BY <1>2 DEF Defers
  <2>2. /\ pc' = [pc EXCEPT ![t] = "until"]
        /\ job' = [job EXCEPT ![t] = [gate |-> g, data |-> data, end |-> 0, todo |-> {}]]
    BY <1>2 DEF Prepare
  <2> QED
    BY <2>1, <2>2 DEF PriceType, Others, GoesOn
<1> QED
  BY <1>1, <1>2

LEMMA BeginIs ==
  ASSUME PriceType, NEW t \in Callers, Begin(t)
  PROVE  /\ pc[t] = "due" /\ (~Overlaps => Alone) /\ UNCHANGED <<entry, recorder, left>>
         /\ Others(t)
         /\ \/ /\ gate = GateNow \/ ~(MovedOperator /\ data # None /\ Orphans # {})
               /\ Ended(t)
            \/ /\ gate # GateNow /\ MovedOperator /\ data # None /\ Orphans # {}
               /\ pc'[t] = "orphans"
               /\ job'[t] = [gate |-> GateNow, data |-> None, end |-> 0, todo |-> Orphans]
            \/ /\ gate # GateNow /\ ~(MovedOperator /\ data # None /\ Orphans # {})
               /\ GoesOn(t, GateNow)
<1> DEFINE j == [gate |-> GateNow, data |-> None, end |-> 0, todo |-> {}]
<1>1. pc[t] = "due" /\ (~Overlaps => Alone) /\ UNCHANGED <<entry, recorder, left>>
  BY DEF Begin
<1>2. [NoJob EXCEPT !.gate = GateNow] = j
  BY DEF NoJob
<1>3. \/ gate = GateNow /\ Ends(t)
      \/ /\ gate # GateNow /\ MovedOperator /\ data # None
         /\ Orphans # {}
         /\ pc' = [pc EXCEPT ![t] = "orphans"]
         /\ job' = [job EXCEPT ![t] = [j EXCEPT !.todo = Orphans]]
      \/ /\ gate # GateNow
         /\ ~(MovedOperator /\ data # None /\ Orphans # {})
         /\ Prepare(t, j)
  BY <1>2 DEF Begin
<1>4. CASE gate = GateNow /\ Ends(t)
  BY <1>1, <1>4, EndsIs
<1>5. CASE /\ gate # GateNow /\ MovedOperator /\ data # None
           /\ Orphans # {}
           /\ pc' = [pc EXCEPT ![t] = "orphans"]
           /\ job' = [job EXCEPT ![t] = [j EXCEPT !.todo = Orphans]]
  <2>1. [j EXCEPT !.todo = Orphans]
          = [gate |-> GateNow, data |-> None, end |-> 0, todo |-> Orphans]
    OBVIOUS
  <2>2. Others(t) /\ pc'[t] = "orphans"
        /\ job'[t] = [gate |-> GateNow, data |-> None, end |-> 0, todo |-> Orphans]
    BY <1>5, <2>1 DEF PriceType, Others
  <2> QED
    BY <1>1, <1>5, <2>2
<1>6. CASE /\ gate # GateNow
           /\ ~(MovedOperator /\ data # None /\ Orphans # {})
           /\ Prepare(t, j)
  BY <1>1, <1>6, PrepareIs
<1> QED
  BY <1>3, <1>4, <1>5, <1>6

\* The cleanup's key k is cleared or kept.
Cleans(k, told) ==
  /\ told \in BOOLEAN
  /\ told => left' = left
  /\ ~told => left.fail > 0 /\ left' = [left EXCEPT !.fail = @ - 1]
  /\ Clears(k, told) => line' = [line EXCEPT ![k] = [h \in HourSet |-> None]]
  /\ ~Clears(k, told) => line' = line

LEMMA CleanOrphanIs ==
  ASSUME PriceType, NEW t \in Callers, CleanOrphan(t)
  PROVE  /\ pc[t] = "orphans"
         /\ UNCHANGED <<entry, ended, compiled, older, lost, cut>>
         /\ Others(t)
         /\ \E k \in job[t].todo :
              /\ \E told \in BOOLEAN : Cleans(k, told)
              /\ \/ /\ job[t].todo # {k}
                    /\ pc'[t] = "orphans"
                    /\ job'[t] = [gate |-> job[t].gate, data |-> None, end |-> 0,
                                  todo |-> job[t].todo \ {k}]
                 \/ job[t].todo = {k} /\ (Ended(t) \/ GoesOn(t, job[t].gate))

<1>1. pc[t] = "orphans" /\ UNCHANGED <<entry, ended, compiled, older, lost, cut>>
  BY DEF CleanOrphan
<1>2. PICK k \in job[t].todo :
        LET rest == [job[t] EXCEPT !.todo = @ \ {k}]
        IN /\ \E told \in {TRUE} \cup (IF left.fail > 0 THEN {FALSE} ELSE {}) :
                /\ left' = [left EXCEPT !.fail = IF told THEN @ ELSE @ - 1]
                /\ IF Clears(k, told)
                   THEN line' = [line EXCEPT ![k] = [h \in HourSet |-> None]]
                   ELSE UNCHANGED line
           /\ \/ /\ rest.todo # {}
                 /\ job' = [job EXCEPT ![t] = rest] /\ UNCHANGED pc
              \/ rest.todo = {} /\ Prepare(t, rest)
  BY DEF CleanOrphan
<1> DEFINE rest == [gate |-> job[t].gate, data |-> None, end |-> 0, todo |-> job[t].todo \ {k}]
<1>3. /\ job[t] \in [gate : Rates, data : Datas \cup {None}, end : Nat, todo : SUBSET Keys]
      /\ job[t].data = None /\ job[t].end = 0
  BY <1>1 DEF PriceType, JobType, Busy
<1>4. [job[t] EXCEPT !.todo = @ \ {k}] = rest
  BY <1>3
<1>5. \E told \in BOOLEAN : Cleans(k, told)
  <2>1. PICK told \in {TRUE} \cup (IF left.fail > 0 THEN {FALSE} ELSE {}) :
          /\ left' = [left EXCEPT !.fail = IF told THEN @ ELSE @ - 1]
          /\ IF Clears(k, told)
             THEN line' = [line EXCEPT ![k] = [h \in HourSet |-> None]]
             ELSE UNCHANGED line
    BY <1>2
  <2>2. Clears(k, told) => line' = [line EXCEPT ![k] = [h \in HourSet |-> None]]
    BY <2>1
  <2>3. ~Clears(k, told) => line' = line
    BY <2>1
  <2>4. told \in BOOLEAN
    BY <2>1
  <2>5. CASE told = TRUE
    <3>1. left' = [left EXCEPT !.fail = left.fail]
      BY <2>1, <2>5
    <3>2. left' = left
      BY <3>1 DEF PriceType
    <3> QED
      BY <2>2, <2>3, <2>5, <3>2 DEF Cleans
  <2>6. CASE told = FALSE
    <3>1. left.fail > 0 /\ left' = [left EXCEPT !.fail = @ - 1]
      BY <2>1, <2>6
    <3> QED
      BY <2>2, <2>3, <2>6, <3>1 DEF Cleans
  <2> QED
    BY <2>4, <2>5, <2>6
<1>6. CASE job[t].todo # {k}
  <2>1. rest.todo # {}
    BY <1>2, <1>6
  <2>2. job' = [job EXCEPT ![t] = rest] /\ pc' = pc
    BY <1>2, <1>4, <2>1
  <2>3. Others(t) /\ pc'[t] = "orphans" /\ job'[t] = rest
    BY <1>1, <2>2 DEF PriceType, Others
  <2> QED
    BY <1>1, <1>5, <1>6, <2>3
<1>7. CASE job[t].todo = {k}
  <2>1. rest.todo = {} /\ rest = [gate |-> job[t].gate, data |-> None, end |-> 0, todo |-> {}]
    BY <1>7
  <2>2. Prepare(t, rest)
    BY <1>2, <1>4, <2>1
  <2>3. Others(t) /\ (Ended(t) \/ GoesOn(t, job[t].gate))
    BY <2>1, <2>2, PrepareIs
  <2> QED
    BY <1>1, <1>5, <1>7, <2>3
<1> QED
  BY <1>6, <1>7

\* The job of a run that knows its window and its keys.
LEMMA Planned ==
  ASSUME NEW j, NEW end, NEW keys, NEW gates, NEW datas, NEW todos,
         j \in [gate : gates, data : datas, end : Nat, todo : todos]
  PROVE  [j EXCEPT !.end = end, !.todo = keys]
           = [gate |-> j.gate, data |-> j.data, end |-> end, todo |-> keys]
<1> DEFINE m == [j EXCEPT !.end = end]
<1>1. m = [gate |-> j.gate, data |-> j.data, end |-> end, todo |-> j.todo]
  OBVIOUS
<1>2. [m EXCEPT !.todo = keys] = [gate |-> j.gate, data |-> j.data, end |-> end, todo |-> keys]
  <2> HIDE DEF m
  <2> QED
    BY <1>1
<1>3. [j EXCEPT !.end = end, !.todo = keys] = [m EXCEPT !.todo = keys]
  BY Zenon
<1> QED
  BY <1>2, <1>3

LEMMA PlanIs ==
  ASSUME PriceType, NEW t \in Callers, pc[t] = "until", NEW end, Plan(t, end)
  PROVE  /\ Others(t)
         /\ \/ Ended(t)
            \/ /\ end > From[job[t].data.card]
               /\ pc'[t] = "rows"
               /\ job'[t] = [gate |-> job[t].gate, data |-> job[t].data, end |-> end,
                             todo |-> registered \cap Produces[job[t].data.place.utility]]
               /\ job'[t].todo # {}
<1> DEFINE keys == registered \cap Produces[job[t].data.place.utility]
           new == [gate |-> job[t].gate, data |-> job[t].data, end |-> end, todo |-> keys]
<1>1. CASE Ends(t)
  BY <1>1, EndsIs
<1>2. CASE /\ end > From[job[t].data.card] /\ keys # {}
           /\ pc' = [pc EXCEPT ![t] = "rows"]
           /\ job' = [job EXCEPT ![t] = [@ EXCEPT !.end = end, !.todo = keys]]
  <2>1. job[t] \in [gate : Rates, data : Datas \cup {None}, end : Nat, todo : SUBSET Keys]
    BY DEF PriceType, JobType, Busy
  <2>2. job' = [job EXCEPT ![t] = [job[t] EXCEPT !.end = end, !.todo = keys]]
    BY <1>2
  <2>3. [job[t] EXCEPT !.end = end, !.todo = keys] = new
    BY <2>1, Planned
  <2>4. job'[t] = new
    BY <2>2, <2>3 DEF PriceType
  <2>5. Others(t) /\ pc'[t] = "rows"
    BY <1>2, <2>2 DEF PriceType, Others
  <2> QED
    BY <1>2, <2>4, <2>5
<1> QED
  BY <1>1, <1>2 DEF Plan

\* The row of an hour that card's rates are written over, up to the end.
Written(t, k, h) ==
  IF h \in From[job[t].data.card] .. job[t].end - 1
  THEN [place |-> job[t].data.place, card |-> job[t].data.card] ELSE line[k][h]

LEMMA WriteKeyIs ==
  ASSUME PriceType, NEW t \in Callers, WriteKey(t)
  PROVE  /\ pc[t] = "rows"
         /\ UNCHANGED <<place, state, newest, data, registered, ended, compiled, older, lost,
                        cut, left>>
         /\ Others(t)
         /\ \E k \in job[t].todo :
              /\ line' = [line EXCEPT ![k] = [h \in HourSet |-> Written(t, k, h)]]
              /\ \/ /\ job[t].todo # {k}
                    /\ pc'[t] = "rows"
                    /\ job'[t] = [gate |-> job[t].gate, data |-> job[t].data,
                                  end |-> job[t].end, todo |-> job[t].todo \ {k}]
                    /\ UNCHANGED <<gate, reload>>
                 \/ /\ job[t].todo = {k}
                    /\ Ended(t)
                    /\ gate' = job[t].gate /\ reload' = (state # "down")
<1>1. /\ pc[t] = "rows"
      /\ UNCHANGED <<place, state, newest, data, registered, ended, compiled, older, lost,
                     cut, left>>
  BY DEF WriteKey
<1>2. PICK k \in job[t].todo :
        LET d == job[t].data
            rates == [place |-> d.place, card |-> d.card]
        IN /\ line' = [line EXCEPT ![k] = [h \in HourSet |->
                         IF h \in From[d.card] .. job[t].end - 1 THEN rates ELSE @[h]]]
           /\ \/ /\ job[t].todo # {k}
                 /\ job' = [job EXCEPT ![t].todo = @ \ {k}]
                 /\ UNCHANGED <<gate, reload, pc>>
              \/ /\ job[t].todo = {k}
                 /\ gate' = Stamped(t)
                 /\ reload' = (state # "down")
                 /\ Ends(t)
  BY DEF WriteKey
<1>3. job[t] \in [gate : Rates, data : Datas \cup {None}, end : Nat, todo : SUBSET Keys]
  BY <1>1 DEF PriceType, JobType, Busy
<1>4. k \in Keys
  BY <1>3
<1>5. line' = [line EXCEPT ![k] = [h \in HourSet |-> Written(t, k, h)]]
  BY <1>2, <1>4 DEF Written, PriceType
<1>6. CASE job[t].todo # {k}
  <2>1. job' = [job EXCEPT ![t] = [job[t] EXCEPT !.todo = @ \ {k}]] /\ UNCHANGED <<gate, reload, pc>>
    BY <1>2, <1>6 DEF PriceType
  <2>2. [job[t] EXCEPT !.todo = @ \ {k}]
          = [gate |-> job[t].gate, data |-> job[t].data, end |-> job[t].end,
             todo |-> job[t].todo \ {k}]
    BY <1>3
  <2>3. Others(t) /\ pc'[t] = "rows"
    BY <1>1, <2>1 DEF PriceType, Others
  <2>4. job'[t] = [gate |-> job[t].gate, data |-> job[t].data, end |-> job[t].end,
                   todo |-> job[t].todo \ {k}]
    BY <2>1, <2>2 DEF PriceType
  <2> QED
    BY <1>1, <1>5, <1>6, <2>1, <2>3, <2>4
<1>7. CASE job[t].todo = {k}
  <2>1. Others(t) /\ Ended(t) /\ gate' = job[t].gate /\ reload' = (state # "down")
    BY <1>2, <1>7, EndsIs DEF Stamped
  <2> QED
    BY <1>1, <1>5, <1>7, <2>1
<1> QED
  BY <1>6, <1>7

-----------------------------------------------------------------------------
(* The types hold, and no hour is lost.                                    *)

LEMMA IdleType == ASSUME NEW t, Ended(t) PROVE JobType(t)'
BY DEF Ended, JobType, Busy

\* The types of a step of run t, by those of what it is.
LEMMA RunType ==
  ASSUME PriceType, NEW t \in Callers, Others(t), JobType(t)'
  PROVE  DOMAIN pc' = Callers /\ DOMAIN job' = Callers /\ \A u \in Callers : JobType(u)'
<1>1. \A u \in Callers : u # t => JobType(u)'
  BY DEF PriceType, Others, JobType, Busy
<1> QED
  BY <1>1 DEF Others

LEMMA NoData == PriceAssumption => None \notin Datas
BY DEF PriceAssumption, Datas

LEMMA PublishType ==
  ASSUME PriceAssumption, PriceType, NEW p \in Places, Publish(p)
  PROVE  /\ data' \in Datas /\ data'.place = p /\ data'.card >= newest[p]
         /\ newest' \in [Places -> Nat] /\ newest'[p] = data'.card
         /\ \A q \in Places : newest'[q] >= newest[q] /\ (q # p => newest'[q] = newest[q])
<1>1. PICK c \in {d \in Cards : d >= newest[p]}, stale \in BOOLEAN :
        /\ data' = [place |-> p, card |-> c, stale |-> stale]
        /\ newest' = [newest EXCEPT ![p] = c]
  BY DEF Publish
<1>2. c \in Nat
  BY DEF PriceAssumption
<1> QED
  BY <1>1, <1>2 DEF PriceType, Datas

LEMMA GateType ==
  ASSUME PriceType, data # None
  PROVE  GateNow = [place |-> place, card |-> data.card] /\ GateNow \in Rates /\ data \in Datas
BY DEF PriceType, GateNow, Rates, Datas

LEMMA BeginType == ASSUME PriceType, NEW t \in Callers, Begin(t) PROVE PriceType'
<1>1. /\ UNCHANGED <<entry, recorder, left>> /\ Others(t)
      /\ \/ Ended(t)
         \/ /\ data # None /\ Orphans # {}
            /\ pc'[t] = "orphans"
            /\ job'[t] = [gate |-> GateNow, data |-> None, end |-> 0, todo |-> Orphans]
         \/ GoesOn(t, GateNow)
  BY BeginIs
<1>2. JobType(t)'
  <2>1. CASE Ended(t)
    BY <2>1, IdleType
  <2>2. CASE /\ data # None /\ Orphans # {}
             /\ pc'[t] = "orphans"
             /\ job'[t] = [gate |-> GateNow, data |-> None, end |-> 0, todo |-> Orphans]
    BY <2>2, GateType DEF JobType, Busy, Orphans
  <2>3. CASE GoesOn(t, GateNow)
    BY <2>3, GateType DEF JobType, Busy, GoesOn
  <2> QED
    BY <1>1, <2>1, <2>2, <2>3
<1>3. DOMAIN pc' = Callers /\ DOMAIN job' = Callers /\ \A u \in Callers : JobType(u)'
  BY <1>1, <1>2, RunType
<1> QED
  BY <1>1, <1>3 DEF PriceType, entry, recorder

LEMMA CleansType ==
  ASSUME PriceType, NEW k \in Keys, NEW told, Cleans(k, told)
  PROVE  /\ line' \in [Keys -> [HourSet -> {None, Live} \cup Rates]]
         /\ left' \in [refresh : Nat, change : Nat, crash : Nat, fail : Nat]
         /\ left'.fail <= left.fail /\ (~told => left'.fail < left.fail)
         /\ \A i \in Keys, h \in HourSet : line'[i][h] \in {None, line[i][h]}
<1>1. CASE told
  <2>1. left' = left /\ left.fail \in Nat
    BY <1>1 DEF PriceType, Cleans
  <2>2. line' = line \/ line' = [line EXCEPT ![k] = [h \in HourSet |-> None]]
    BY DEF Cleans
  <2>3. /\ line' \in [Keys -> [HourSet -> {None, Live} \cup Rates]]
        /\ \A i \in Keys, h \in HourSet : line'[i][h] \in {None, line[i][h]}
    <3>1. CASE line' = line
      BY <3>1 DEF PriceType
    <3>2. CASE line' = [line EXCEPT ![k] = [h \in HourSet |-> None]]
      BY <3>2 DEF PriceType
    <3> QED
      BY <2>2, <3>1, <3>2
  <2> QED
    BY <1>1, <2>1, <2>3 DEF PriceType
<1>2. CASE ~told
  <2>1. left.fail \in Nat /\ left.fail > 0 /\ left' = [left EXCEPT !.fail = @ - 1]
    BY <1>2 DEF PriceType, Cleans
  <2>2. /\ left' \in [refresh : Nat, change : Nat, crash : Nat, fail : Nat]
        /\ left'.fail = left.fail - 1
    BY <2>1 DEF PriceType
  <2>3. line' = line
    BY <1>2 DEF Cleans, Clears
  <2> QED
    BY <1>2, <2>1, <2>2, <2>3 DEF PriceType
<1> QED
  BY <1>1, <1>2

LEMMA CleanOrphanType == ASSUME PriceType, NEW t \in Callers, CleanOrphan(t) PROVE PriceType'
<1>1. /\ pc[t] = "orphans" /\ UNCHANGED <<entry, ended, compiled, older, lost, cut>> /\ Others(t)
  BY CleanOrphanIs
<1>2. /\ job[t] \in [gate : Rates, data : Datas \cup {None}, end : Nat, todo : SUBSET Keys]
  BY <1>1 DEF PriceType, JobType, Busy
<1>3. PICK k \in job[t].todo :
        /\ \E told \in BOOLEAN : Cleans(k, told)
        /\ \/ /\ job[t].todo # {k}
              /\ pc'[t] = "orphans"
              /\ job'[t] = [gate |-> job[t].gate, data |-> None, end |-> 0,
                            todo |-> job[t].todo \ {k}]
           \/ job[t].todo = {k} /\ (Ended(t) \/ GoesOn(t, job[t].gate))
  BY CleanOrphanIs
<1>4. /\ line' \in [Keys -> [HourSet -> {None, Live} \cup Rates]]
      /\ left' \in [refresh : Nat, change : Nat, crash : Nat, fail : Nat]
  BY <1>2, <1>3, CleansType
<1>5. JobType(t)'
  <2>1. CASE Ended(t)
    BY <2>1, IdleType
  <2>2. CASE /\ job[t].todo # {k}
             /\ pc'[t] = "orphans"
             /\ job'[t] = [gate |-> job[t].gate, data |-> None, end |-> 0,
                           todo |-> job[t].todo \ {k}]
    <3>1. job[t].todo \ {k} # {} /\ job[t].todo \ {k} \subseteq Keys
      BY <1>2, <1>3, <2>2
    <3> QED
      BY <1>2, <2>2, <3>1 DEF JobType, Busy
  <2>3. CASE GoesOn(t, job[t].gate)
    BY <1>2, <2>3, GateType DEF JobType, Busy, GoesOn
  <2> QED
    BY <1>3, <2>1, <2>2, <2>3
<1>6. DOMAIN pc' = Callers /\ DOMAIN job' = Callers /\ \A u \in Callers : JobType(u)'
  BY <1>1, <1>5, RunType
<1> QED
  BY <1>1, <1>4, <1>6 DEF PriceType, entry

LEMMA PlanType ==
  ASSUME PriceAssumption, PriceType, NEW t \in Callers, pc[t] = "until",
         NEW end \in Int, end <= compiled, Plan(t, end)
  PROVE  Others(t) /\ JobType(t)' /\ (pc'[t] = "rows" => job'[t].end <= compiled)
<1>1. job[t] \in [gate : Rates, data : Datas, end : Nat, todo : SUBSET Keys]
  BY DEF PriceType, JobType, Busy
<1>2. From[job[t].data.card] \in Nat
  BY <1>1 DEF PriceAssumption, Datas
<1>3. CASE Ended(t)
  BY <1>3, PlanIs, IdleType DEF Ended
<1>4. CASE /\ end > From[job[t].data.card]
           /\ pc'[t] = "rows"
           /\ job'[t] = [gate |-> job[t].gate, data |-> job[t].data, end |-> end,
                         todo |-> registered \cap Produces[job[t].data.place.utility]]
  <2>1. end \in Nat
    BY <1>2, <1>4
  <2>2. registered \subseteq Keys
    BY DEF PriceType
  <2>3. job[t].data # None
    BY DEF PriceType, JobType, Busy
  <2>4. JobType(t)'
    BY <1>1, <1>4, <2>1, <2>2, <2>3 DEF JobType, Busy
  <2> QED
    BY <1>4, <2>4, PlanIs
<1> QED
  BY <1>3, <1>4, PlanIs

LEMMA ReadsType ==
  ASSUME PriceAssumption, PriceType, NEW t \in Callers, ReadMarker(t) \/ MarkerUnread(t)
  PROVE  /\ PriceType' /\ pc[t] = "until" /\ Others(t)
         /\ UNCHANGED <<entry, recorder>>
         /\ pc'[t] = "rows" => job'[t].end <= compiled
         /\ left'.fail <= left.fail /\ (MarkerUnread(t) => left'.fail < left.fail)
<1>1. compiled \in Nat /\ ended \in Nat /\ left.fail \in Nat
  BY DEF PriceAssumption, PriceType
<1>2. PICK end \in Int : end <= compiled /\ Plan(t, end)
  BY <1>1 DEF ReadMarker, MarkerUnread, CompiledUntil
<1>3. /\ pc[t] = "until" /\ UNCHANGED <<entry, recorder>>
      /\ left' \in [refresh : Nat, change : Nat, crash : Nat, fail : Nat]
      /\ left'.fail <= left.fail /\ (MarkerUnread(t) => left'.fail < left.fail)
  <2>1. CASE ReadMarker(t)
    BY <2>1, <1>1 DEF ReadMarker, PriceType, MarkerUnread
  <2>2. CASE MarkerUnread(t)
    <3>1. /\ left.fail > 0 /\ left' = [left EXCEPT !.fail = @ - 1]
          /\ pc[t] = "until" /\ UNCHANGED <<entry, recorder>>
      BY <2>2 DEF MarkerUnread
    <3> QED
      BY <1>1, <3>1 DEF PriceType
  <2> QED
    BY <2>1, <2>2
<1>4. Others(t) /\ JobType(t)' /\ (pc'[t] = "rows" => job'[t].end <= compiled)
  BY <1>2, <1>3, PlanType
<1>5. DOMAIN pc' = Callers /\ DOMAIN job' = Callers /\ \A u \in Callers : JobType(u)'
  BY <1>4, RunType
<1> QED
  BY <1>3, <1>4, <1>5 DEF PriceType, entry, recorder

\* The rows a run writes are its card's, over its hours.
LEMMA WrittenType ==
  ASSUME PriceAssumption, PriceType, NEW t \in Callers, pc[t] = "rows", NEW k \in job[t].todo
  PROVE  LET now == [line EXCEPT ![k] = [h \in HourSet |-> Written(t, k, h)]]
             d == job[t].data
         IN /\ now \in [Keys -> [HourSet -> {None, Live} \cup Rates]]
            /\ k \in Keys /\ k \in Produces[d.place.utility]
            /\ \A h \in HourSet :
                 now[k][h] = IF h >= From[d.card] /\ h < job[t].end
                             THEN [place |-> d.place, card |-> d.card] ELSE line[k][h]
            /\ \A i \in Keys : i # k => now[i] = line[i]
<1>1. /\ job[t] \in [gate : Rates, data : Datas, end : Nat, todo : SUBSET Keys]
      /\ job[t].todo \subseteq Produces[job[t].data.place.utility]
  BY DEF PriceType, JobType, Busy
<1> DEFINE d == job[t].data
           rates == [place |-> d.place, card |-> d.card]
           now == [line EXCEPT ![k] = [h \in HourSet |-> Written(t, k, h)]]
<1>2. k \in Keys /\ k \in Produces[d.place.utility] /\ d \in Datas /\ rates \in Rates
  BY <1>1 DEF Datas, Rates
<1>3. From[d.card] \in Nat /\ job[t].end \in Nat
  BY <1>1, <1>2 DEF PriceAssumption, Datas
<1>4. \A h \in HourSet :
        /\ Written(t, k, h) = IF h >= From[d.card] /\ h < job[t].end THEN rates ELSE line[k][h]
        /\ Written(t, k, h) \in {None, Live} \cup Rates
  <2> SUFFICES ASSUME NEW h \in HourSet
               PROVE  /\ Written(t, k, h) = IF h >= From[d.card] /\ h < job[t].end
                                            THEN rates ELSE line[k][h]
                      /\ Written(t, k, h) \in {None, Live} \cup Rates
    OBVIOUS
  <2>0. line[k][h] \in {None, Live} \cup Rates
    BY <1>2 DEF PriceType
  <2>1. h \in Int /\ line[k][h] \in {None, Live} \cup Rates
    BY <2>0 DEF HourSet, PriceAssumption
  <2>2. h \in From[d.card] .. job[t].end - 1 <=> h >= From[d.card] /\ h < job[t].end
    BY <1>3, <2>1
  <2> QED
    BY <1>2, <2>1, <2>2 DEF Written
<1>5. line \in [Keys -> [HourSet -> {None, Live} \cup Rates]]
  BY DEF PriceType
<1>6. [h \in HourSet |-> Written(t, k, h)] \in [HourSet -> {None, Live} \cup Rates]
  BY <1>4
<1>7. now \in [Keys -> [HourSet -> {None, Live} \cup Rates]]
  BY <1>2, <1>5, <1>6
<1>8. now[k] = [h \in HourSet |-> Written(t, k, h)] /\ \A i \in Keys : i # k => now[i] = line[i]
  BY <1>2, <1>5
<1> QED
  BY <1>2, <1>4, <1>7, <1>8

LEMMA WriteKeyType ==
  ASSUME PriceAssumption, PriceType, NEW t \in Callers, WriteKey(t)
  PROVE  PriceType'
<1>1. /\ pc[t] = "rows" /\ Others(t)
      /\ UNCHANGED <<place, state, newest, data, registered, ended, compiled, older, lost,
                     cut, left>>
  BY WriteKeyIs
<1>2. /\ job[t] \in [gate : Rates, data : Datas, end : Nat, todo : SUBSET Keys]
      /\ job[t].data # None
      /\ job[t].todo \subseteq Produces[job[t].data.place.utility]
  BY <1>1 DEF PriceType, JobType, Busy
<1>3. PICK k \in job[t].todo :
        /\ line' = [line EXCEPT ![k] = [h \in HourSet |-> Written(t, k, h)]]
        /\ \/ /\ job[t].todo # {k}
              /\ pc'[t] = "rows"
              /\ job'[t] = [gate |-> job[t].gate, data |-> job[t].data,
                            end |-> job[t].end, todo |-> job[t].todo \ {k}]
              /\ UNCHANGED <<gate, reload>>
           \/ /\ job[t].todo = {k}
              /\ Ended(t)
              /\ gate' = job[t].gate /\ reload' = (state # "down")
  BY WriteKeyIs
<1>4. line' \in [Keys -> [HourSet -> {None, Live} \cup Rates]]
  BY <1>1, <1>3, WrittenType
<1>5. JobType(t)' /\ gate' \in Rates \cup {None} /\ reload' \in BOOLEAN
  <2>1. CASE Ended(t) /\ gate' = job[t].gate /\ reload' = (state # "down")
    BY <1>2, <2>1, IdleType
  <2>2. CASE /\ pc'[t] = "rows"
             /\ job'[t] = [gate |-> job[t].gate, data |-> job[t].data,
                           end |-> job[t].end, todo |-> job[t].todo \ {k}]
             /\ UNCHANGED <<gate, reload>>
    <3>1. JobType(t)'
      BY <1>2, <2>2 DEF JobType, Busy
    <3> QED
      BY <2>2, <3>1 DEF PriceType
  <2> QED
    BY <1>3, <2>1, <2>2
<1>6. DOMAIN pc' = Callers /\ DOMAIN job' = Callers /\ \A u \in Callers : JobType(u)'
  BY <1>1, <1>5, RunType
<1> QED
  BY <1>1, <1>4, <1>5, <1>6 DEF PriceType

\* The steps of a run.
RunStep(t) == Begin(t) \/ CleanOrphan(t) \/ ReadMarker(t) \/ MarkerUnread(t) \/ WriteKey(t)

LEMMA InitType == ASSUME PriceAssumption, Init PROVE PriceType
<1>1. PICK c \in Cards : gate \in {None, [place |-> place, card |-> c]}
  BY DEF Init
<1>2. place \in Places /\ c \in Nat /\ ended \in {0, 1} /\ compiled = ended
  BY DEF Init, PriceAssumption
<1>3. gate \in Rates \cup {None} /\ (gate # None => gate.card \in Nat)
  BY <1>1, <1>2 DEF Rates
<1>4. newest \in [Places -> Nat]
  BY <1>3 DEF Init
<1>5. registered \subseteq Keys /\ older \subseteq Keys
  BY <1>2 DEF Init, PriceAssumption, Utilities
<1>6. ended \in 0 .. Hours /\ compiled \in 0 .. ended
  BY <1>2 DEF PriceAssumption
<1>7. line \in [Keys -> [HourSet -> {None, Live} \cup Rates]]
  BY DEF Init
<1>8. left \in [refresh : Nat, change : Nat, crash : Nat, fail : Nat]
  BY DEF Init, PriceAssumption
<1>9. DOMAIN pc = Callers /\ DOMAIN job = Callers /\ \A t \in Callers : JobType(t)
  BY DEF Init, JobType, Busy
<1>10. /\ state \in {"down", "setup", "loaded"} /\ reload \in BOOLEAN
       /\ data \in Datas \cup {None} /\ (data # None <=> state # "down")
  BY DEF Init
<1> QED
  BY <1>2, <1>3, <1>4, <1>5, <1>6, <1>7, <1>8, <1>9, <1>10 DEF PriceType

\* What no step of the recorder or of the entry touches.
LEMMA JobsStand ==
  ASSUME PriceType, UNCHANGED tasks
  PROVE  DOMAIN pc' = Callers /\ DOMAIN job' = Callers /\ \A t \in Callers : JobType(t)'
BY DEF PriceType, JobType, Busy, tasks

LEMMA DueType ==
  ASSUME PriceType, NEW t \in Callers, pc[t] = "idle", pc' = [pc EXCEPT ![t] = "due"], job' = job
  PROVE  /\ Others(t) /\ pc'[t] = "due" /\ job'[t] = NoJob
         /\ DOMAIN pc' = Callers /\ DOMAIN job' = Callers /\ \A u \in Callers : JobType(u)'
<1>1. Others(t) /\ pc'[t] = "due" /\ job'[t] = NoJob
  BY DEF PriceType, JobType, Others
<1>2. JobType(t)'
  BY <1>1 DEF JobType, Busy
<1> QED
  BY <1>1, <1>2, RunType

LEMMA RecorderType ==
  ASSUME PriceAssumption, PriceType, HourEnds \/ Compile
  PROVE  PriceType'
<1>1. UNCHANGED <<entry, older, left>> /\ UNCHANGED tasks
  BY DEF HourEnds, Compile
<1>2. Hours \in Nat /\ ended \in Nat /\ compiled \in Nat /\ compiled <= ended /\ ended <= Hours
  BY DEF PriceAssumption, PriceType
<1>3. CASE HourEnds
  <2>1. ended < Hours /\ ended' = ended + 1 /\ compiled' = compiled /\ line' = line
    BY <1>3 DEF HourEnds
  <2>2. ended' \in 0 .. Hours /\ compiled' \in 0 .. ended'
    BY <1>2, <2>1
  <2> QED
    BY <1>1, <2>1, <2>2, JobsStand DEF PriceType, entry
<1>4. CASE Compile
  <2>1. compiled < ended /\ compiled' = compiled + 1 /\ ended' = ended
    BY <1>4 DEF Compile
  <2>2. ended' \in 0 .. Hours /\ compiled' \in 0 .. ended'
    BY <1>2, <2>1
  <2>3. line \in [Keys -> [HourSet -> {None, Live} \cup Rates]]
    BY DEF PriceType
  <2>4. \/ line' = line
        \/ line' = [k \in Keys |-> IF state = "loaded" /\ k \in registered
                                   THEN [line[k] EXCEPT ![compiled] = Live] ELSE line[k]]
    BY <1>4 DEF Compile
  <2>5. line' \in [Keys -> [HourSet -> {None, Live} \cup Rates]]
    BY <2>3, <2>4
  <2> QED
    BY <1>1, <2>1, <2>2, <2>5, JobsStand DEF PriceType, entry
<1> QED
  BY <1>3, <1>4

LEMMA EntryType ==
  ASSUME PriceAssumption, PriceType,
         SetupStarts \/ SetupDone \/ Reconfigure \/ Unload \/ Crash \/ (\E t \in Ticks : Refresh(t))
  PROVE  PriceType'
<1>1. CASE SetupStarts
  <2>1. /\ data' \in Datas /\ newest' \in [Places -> Nat]
    BY <1>1, PublishType DEF SetupStarts, PriceType
  <2>2. registered' \subseteq Keys
    BY <1>1 DEF SetupStarts, AddedAtSetup, PriceType, PriceAssumption, Utilities
  <2>3. DOMAIN pc' = Callers /\ DOMAIN job' = Callers /\ \A u \in Callers : JobType(u)'
    <3>1. /\ pc["setup"] = "idle" /\ pc' = [pc EXCEPT !["setup"] = "due"] /\ job' = job
          /\ "setup" \in Callers
      BY <1>1 DEF SetupStarts, Callers
    <3> QED
      BY <3>1, DueType
  <2> QED
    BY <1>1, <2>1, <2>2, <2>3, NoData DEF SetupStarts, PriceType, recorder
<1>2. CASE SetupDone
  <2>1. registered' \subseteq Keys
    BY <1>2 DEF SetupDone, PriceType
  <2> QED
    BY <1>2, <2>1, JobsStand DEF SetupDone, PriceType, recorder
<1>3. CASE Reconfigure
  <2>1. left' \in [refresh : Nat, change : Nat, crash : Nat, fail : Nat]
    BY <1>3 DEF Reconfigure, PriceType
  <2> QED
    BY <1>3, <2>1, JobsStand DEF Reconfigure, PriceType, recorder
<1>4. CASE Unload
  BY <1>4, JobsStand DEF Unload, PriceType, recorder
<1>5. CASE Crash
  <2>1. left' \in [refresh : Nat, change : Nat, crash : Nat, fail : Nat]
    BY <1>5 DEF Crash, PriceType
  <2>2. DOMAIN pc' = Callers /\ DOMAIN job' = Callers /\ \A u \in Callers : JobType(u)'
    BY <1>5 DEF Crash, JobType, Busy
  <2> QED
    BY <1>5, <2>1, <2>2 DEF Crash, PriceType
<1>6. ASSUME NEW t \in Ticks, Refresh(t)
      PROVE  PriceType'
  <2>1. state = "loaded" /\ t \in Callers
    BY <1>6 DEF Refresh, Callers
  <2>2. data.place \in Places
    BY <2>1 DEF PriceType, Datas
  <2>3. PriceType'
    <3>1. data' \in Datas /\ newest' \in [Places -> Nat]
      BY <1>6, <2>2, PublishType DEF Refresh
    <3>2. DOMAIN pc' = Callers /\ DOMAIN job' = Callers /\ \A u \in Callers : JobType(u)'
      BY <1>6, <2>1, DueType DEF Refresh
    <3>3. left' \in [refresh : Nat, change : Nat, crash : Nat, fail : Nat]
      BY <1>6 DEF Refresh, PriceType
    <3> QED
      BY <1>6, <2>1, <3>1, <3>2, <3>3, NoData DEF Refresh, PriceType, recorder
  <2> QED
    BY <2>3
<1> QED
  BY <1>1, <1>2, <1>3, <1>4, <1>5, <1>6

LEMMA RunStepType ==
  ASSUME PriceAssumption, PriceType, NEW t \in Callers, RunStep(t)
  PROVE  PriceType'
BY BeginType, CleanOrphanType, ReadsType, WriteKeyType DEF RunStep

LEMMA Stuttering ==
  ASSUME PriceType, UNCHANGED vars
  PROVE  /\ PriceType'
         /\ UNCHANGED <<place, gate, state, reload, newest, data, registered, ended, compiled,
                        line, older, lost, cut, pc, job, left>>
BY DEF PriceType, JobType, Busy, vars, entry, recorder, tasks

\* The steps there are.
LEMMA StepIs ==
  ASSUME [Next \/ Done]_vars
  PROVE  \/ HourEnds \/ Compile
         \/ SetupStarts \/ SetupDone \/ Reconfigure \/ Unload \/ Crash
         \/ \E t \in Ticks : Refresh(t)
         \/ \E t \in Callers : RunStep(t)
         \/ UNCHANGED vars
BY DEF Next, Done, RunStep

LEMMA TypeNext ==
  ASSUME PriceAssumption, PriceType, [Next \/ Done]_vars
  PROVE  PriceType'
BY StepIs, RecorderType, EntryType, RunStepType, Stuttering

\* The rows of a run are of hours the recorder has compiled.
LEMMA RunStepCompiled ==
  ASSUME PriceAssumption, LostInv, NEW t \in Callers, RunStep(t)
  PROVE  Compiled'
<1>1. PriceType /\ Compiled
  BY DEF LostInv
<1>2. compiled' = compiled /\ lost' = lost /\ Others(t)
  BY <1>1, BeginIs, CleanOrphanIs, ReadsType, WriteKeyIs DEF RunStep, recorder
<1>3. pc'[t] = "rows" => job'[t].end <= compiled
  <2>1. CASE Begin(t)
    BY <1>1, <2>1, BeginIs DEF Ended, GoesOn
  <2>2. CASE CleanOrphan(t)
    BY <1>1, <2>2, CleanOrphanIs DEF Ended, GoesOn
  <2>3. CASE ReadMarker(t) \/ MarkerUnread(t)
    BY <1>1, <2>3, ReadsType
  <2>4. CASE WriteKey(t)
    <3>1. pc[t] = "rows" /\ (Ended(t) \/ job'[t].end = job[t].end)
      <4>1. pc[t] = "rows"
            /\ \E k \in job[t].todo :
                 \/ job'[t] = [gate |-> job[t].gate, data |-> job[t].data,
                               end |-> job[t].end, todo |-> job[t].todo \ {k}]
                 \/ Ended(t)
        BY <1>1, <2>4, WriteKeyIs
      <4> QED
        BY <4>1
    <3> QED
      BY <1>1, <3>1 DEF Ended, Compiled
  <2> QED
    BY <2>1, <2>2, <2>3, <2>4 DEF RunStep
<1>4. \A u \in Callers : pc'[u] = "rows" => job'[u].end <= compiled'
  BY <1>1, <1>2, <1>3 DEF Others, Compiled
<1>5. \A k \in Keys, h \in HourSet : h >= compiled => line'[k][h] = None
  <2>1. CASE Begin(t) \/ ReadMarker(t) \/ MarkerUnread(t)
    <3>1. line' = line
      BY <1>1, <2>1, BeginIs, ReadsType DEF recorder
    <3> QED
      BY <1>1, <3>1 DEF Compiled
  <2>2. CASE CleanOrphan(t)
    <3>1. \A k \in Keys, h \in HourSet : line'[k][h] \in {None, line[k][h]}
      <4>1. pc[t] = "orphans" /\ \E k \in job[t].todo : \E told \in BOOLEAN : Cleans(k, told)
        BY <1>1, <2>2, CleanOrphanIs
      <4>2. job[t].todo \subseteq Keys
        BY <1>1, <4>1 DEF PriceType, JobType, Busy
      <4> QED
        BY <1>1, <4>1, <4>2, CleansType
    <3> QED
      BY <1>1, <3>1 DEF Compiled
  <2>3. CASE WriteKey(t)
    <3>1. PICK k \in job[t].todo :
            pc[t] = "rows" /\ line' = [line EXCEPT ![k] = [h \in HourSet |-> Written(t, k, h)]]
      BY <1>1, <2>3, WriteKeyIs
    <3>2. /\ job[t].end <= compiled /\ job[t].end \in Nat /\ compiled \in Nat
      BY <1>1, <3>1 DEF PriceType, JobType, Busy, Compiled, PriceAssumption
    <3> SUFFICES ASSUME NEW i \in Keys, NEW h \in HourSet, h >= compiled
                 PROVE  line'[i][h] = None
      OBVIOUS
    <3>3. line[i][h] = None
      BY <1>1 DEF Compiled
    <3>4. h \in Int /\ ~(h < job[t].end)
      BY <3>2 DEF HourSet, PriceAssumption
    <3>5. line'[i][h] = line[i][h]
      <4>1. CASE i = k
        <5>1. line'[k][h] = IF h >= From[job[t].data.card] /\ h < job[t].end
                            THEN [place |-> job[t].data.place, card |-> job[t].data.card]
                            ELSE line[k][h]
          BY <1>1, <3>1, WrittenType
        <5> QED
          BY <3>4, <4>1, <5>1
      <4>2. CASE i # k
        BY <1>1, <3>1, <4>2 DEF PriceType
      <4> QED
        BY <4>1, <4>2
    <3> QED
      BY <3>3, <3>5
  <2> QED
    BY <2>1, <2>2, <2>3 DEF RunStep
<1> QED
  BY <1>1, <1>2, <1>4, <1>5 DEF Compiled

LEMMA CompiledNext ==
  ASSUME PriceAssumption, LostInv, [Next \/ Done]_vars
  PROVE  LostInv'
<1>1. PriceType /\ Compiled /\ PriceType'
  BY TypeNext DEF LostInv
<1>2. compiled \in Nat /\ ended \in Nat /\ ended <= Hours /\ Hours \in Nat /\ compiled <= ended
  BY <1>1 DEF PriceType, PriceAssumption
<1>3. CASE HourEnds \/ SetupDone \/ Reconfigure \/ Unload \/ UNCHANGED vars
  <2>1. UNCHANGED <<compiled, line, lost, pc, job>>
    BY <1>3, Stuttering, <1>1
       DEF HourEnds, SetupDone, Reconfigure, Unload, recorder, tasks
  <2> QED
    BY <1>1, <2>1 DEF LostInv, Compiled
<1>4. CASE SetupStarts \/ Crash \/ \E t \in Ticks : Refresh(t)
  <2>1. UNCHANGED <<compiled, line, lost>>
    BY <1>4 DEF SetupStarts, Crash, Refresh, recorder
  <2>2. \A u \in Callers : pc'[u] = "rows" => pc[u] = "rows" /\ job'[u] = job[u]
    <3>1. CASE SetupStarts
      BY <1>1, <3>1 DEF SetupStarts, PriceType
    <3>2. CASE Crash
      BY <3>2 DEF Crash
    <3>3. CASE \E t \in Ticks : Refresh(t)
      BY <1>1, <3>3 DEF Refresh, PriceType
    <3> QED
      BY <1>4, <3>1, <3>2, <3>3
  <2> QED
    BY <1>1, <2>1, <2>2 DEF LostInv, Compiled
<1>5. CASE Compile
  <2>1. compiled < ended /\ compiled' = compiled + 1 /\ UNCHANGED tasks
    BY <1>5 DEF Compile
  <2>2. compiled \in HourSet
    BY <1>2, <2>1 DEF HourSet
  <2>3. \A k \in Keys : line[k][compiled] = None
    BY <1>1, <1>2, <2>2 DEF Compiled
  <2>4. /\ lost' = lost
        /\ line' = [k \in Keys |-> IF state = "loaded" /\ k \in registered
                                   THEN [line[k] EXCEPT ![compiled] = Live] ELSE line[k]]
    BY <1>5, <2>3 DEF Compile
  <2>5. \A k \in Keys, h \in HourSet : h >= compiled' => line'[k][h] = None
    <3> SUFFICES ASSUME NEW k \in Keys, NEW h \in HourSet, h >= compiled'
                 PROVE  line'[k][h] = None
      OBVIOUS
    <3>1. h \in Int
      BY <1>2 DEF HourSet
    <3>2. h # compiled /\ h >= compiled
      BY <1>2, <2>1, <3>1
    <3>3. line[k] \in [HourSet -> {None, Live} \cup Rates]
      BY <1>1 DEF PriceType
    <3>4. line'[k][h] = line[k][h]
      BY <2>4, <3>2, <3>3
    <3> QED
      BY <1>1, <3>2, <3>4 DEF Compiled
  <2>6. \A u \in Callers : pc'[u] = "rows" => job'[u].end <= compiled'
    <3> SUFFICES ASSUME NEW u \in Callers, pc[u] = "rows"
                 PROVE  job[u].end <= compiled'
      BY <2>1 DEF tasks
    <3>1. job[u].end <= compiled /\ job[u].end \in Nat
      BY <1>1 DEF Compiled, PriceType, JobType, Busy
    <3> QED
      BY <1>2, <2>1, <3>1
  <2> QED
    BY <1>1, <2>4, <2>5, <2>6 DEF LostInv, Compiled
<1>6. CASE \E t \in Callers : RunStep(t)
  BY <1>1, <1>6, RunStepCompiled DEF LostInv
<1> QED
  BY <1>3, <1>4, <1>5, <1>6, StepIs

LEMMA LostInit == ASSUME PriceAssumption, Init PROVE LostInv
<1>1. Compiled
  BY DEF Init, Compiled
<1> QED
  BY <1>1, InitType DEF LostInv

\* Whatever runs overlap, and whatever reads fail, no run writes an hour the
\* recorder has not compiled, and none is rolled back (statistics.py,
\* _async_compiled_until).
THEOREM NoHourIsLost ==
  ASSUME PriceAssumption
  PROVE  Spec => []NothingLost
<1>1. LostInv => NothingLost
  BY DEF LostInv, Compiled, NothingLost
<1> QED
  BY <1>1, LostInit, CompiledNext, PTL DEF Spec

-----------------------------------------------------------------------------
(* One run at a time.                                                      *)

OneBusy == \A t, u \in Callers : Busy(t) /\ Busy(u) => t = u

\* The coordinator is of the entry as it is set up, until that changes.
Setting ==
  /\ state = "setup" => data.place = place
  /\ state = "loaded" /\ ~reload => data.place = place
  /\ pc["setup"] # "idle" => state = "setup"

\* What a step of a run does to the rest, and to what it knows itself.
LEMMA RunIs ==
  ASSUME PriceAssumption, PriceType, NEW t \in Callers, RunStep(t)
  PROVE  /\ UNCHANGED <<place, state, newest, data, registered, ended, compiled, older, lost, cut>>
         /\ Others(t) /\ pc[t] # "idle" /\ left'.fail <= left.fail
         /\ \/ Ended(t)
            \/ /\ pc[t] = "due" /\ (~Overlaps => Alone) /\ data # None /\ gate # GateNow
               /\ Busy(t)' /\ job'[t].gate = GateNow
               /\ job'[t].data \in {None, data}
            \/ /\ Busy(t) /\ Busy(t)'
               /\ job'[t].gate = job[t].gate
               /\ job'[t].data \in {job[t].data, data}
         /\ \/ gate' = gate /\ reload' = reload
            \/ /\ pc[t] = "rows" /\ Ended(t)
               /\ gate' = job[t].gate /\ reload' = (state # "down")
<1>1. left.fail \in Nat
  BY DEF PriceType
<1>2. CASE Begin(t)
  <2>1. /\ pc[t] = "due" /\ (~Overlaps => Alone) /\ UNCHANGED <<entry, recorder, left>>
        /\ Others(t)
        /\ \/ Ended(t)
           \/ /\ data # None /\ gate # GateNow /\ pc'[t] = "orphans"
              /\ job'[t] = [gate |-> GateNow, data |-> None, end |-> 0, todo |-> Orphans]
           \/ gate # GateNow /\ GoesOn(t, GateNow)
    BY <1>2, BeginIs
  <2>2. \/ Ended(t)
        \/ /\ data # None /\ gate # GateNow /\ Busy(t)' /\ job'[t].gate = GateNow
           /\ job'[t].data \in {None, data}
    BY <2>1 DEF GoesOn, Busy
  <2> QED
    BY <1>1, <2>1, <2>2 DEF entry, recorder
<1>3. CASE CleanOrphan(t)
  <2>1. /\ pc[t] = "orphans" /\ UNCHANGED <<entry, ended, compiled, older, lost, cut>> /\ Others(t)
        /\ \E k \in job[t].todo :
             /\ \E told \in BOOLEAN : Cleans(k, told)
             /\ \/ /\ pc'[t] = "orphans"
                   /\ job'[t] = [gate |-> job[t].gate, data |-> None, end |-> 0,
                                 todo |-> job[t].todo \ {k}]
                \/ Ended(t) \/ GoesOn(t, job[t].gate)
    BY <1>3, CleanOrphanIs
  <2>2. job[t].data = None /\ job[t].todo \subseteq Keys
    BY <2>1 DEF PriceType, JobType, Busy
  <2>3. \/ Ended(t)
        \/ /\ Busy(t) /\ Busy(t)'
           /\ job'[t].gate = job[t].gate
           /\ job'[t].data \in {job[t].data, data}
    BY <2>1, <2>2 DEF GoesOn, Busy
  <2>4. left'.fail <= left.fail
    BY <2>1, <2>2, CleansType
  <2> QED
    BY <2>1, <2>3, <2>4 DEF entry
<1>4. CASE ReadMarker(t) \/ MarkerUnread(t)
  <2>1. /\ pc[t] = "until" /\ Others(t) /\ UNCHANGED <<entry, recorder>> /\ left'.fail <= left.fail
    BY <1>4, ReadsType
  <2>2. PICK end : Plan(t, end)
    BY <1>4 DEF ReadMarker, MarkerUnread
  <2>3. \/ Ended(t)
        \/ /\ pc'[t] = "rows"
           /\ job'[t] = [gate |-> job[t].gate, data |-> job[t].data, end |-> end,
                         todo |-> registered \cap Produces[job[t].data.place.utility]]
    BY <2>1, <2>2, PlanIs
  <2>4. \/ Ended(t)
        \/ /\ Busy(t) /\ Busy(t)'
           /\ job'[t].gate = job[t].gate
           /\ job'[t].data \in {job[t].data, data}
    BY <2>1, <2>3 DEF Busy
  <2> QED
    BY <2>1, <2>4 DEF entry, recorder
<1>5. CASE WriteKey(t)
  <2>1. /\ pc[t] = "rows" /\ Others(t)
        /\ UNCHANGED <<place, state, newest, data, registered, ended, compiled, older, lost,
                       cut, left>>
    BY <1>5, WriteKeyIs
  <2>2. PICK k \in job[t].todo :
          \/ /\ pc'[t] = "rows"
             /\ job'[t] = [gate |-> job[t].gate, data |-> job[t].data,
                           end |-> job[t].end, todo |-> job[t].todo \ {k}]
             /\ UNCHANGED <<gate, reload>>
          \/ /\ Ended(t)
             /\ gate' = job[t].gate /\ reload' = (state # "down")
    BY <1>5, WriteKeyIs
  <2>3. CASE Ended(t) /\ gate' = job[t].gate /\ reload' = (state # "down")
    BY <1>1, <2>1, <2>3
  <2>4. CASE /\ pc'[t] = "rows"
             /\ job'[t] = [gate |-> job[t].gate, data |-> job[t].data,
                           end |-> job[t].end, todo |-> job[t].todo \ {k}]
             /\ UNCHANGED <<gate, reload>>
    <3>1. Busy(t) /\ Busy(t)' /\ job'[t].gate = job[t].gate /\ job'[t].data = job[t].data
      BY <2>1, <2>4 DEF Busy
    <3> QED
      BY <1>1, <2>1, <2>4, <3>1
  <2> QED
    BY <2>2, <2>3, <2>4
<1> QED
  BY <1>2, <1>3, <1>4, <1>5 DEF RunStep

LEMMA RunBusy == ASSUME NEW t, Ended(t) PROVE ~Busy(t)'
BY DEF Ended, Busy

\* The runs of a step that is none of theirs: no run begins.
LEMMA NoneBegins ==
  ASSUME PriceType,
         \/ HourEnds \/ Compile \/ SetupStarts \/ SetupDone \/ Reconfigure \/ Unload \/ Crash
         \/ (\E t \in Ticks : Refresh(t)) \/ UNCHANGED vars
  PROVE  /\ \A u \in Callers : Busy(u)' => Busy(u) /\ pc'[u] = pc[u] /\ job'[u] = job[u]
         /\ gate' = gate /\ left'.fail = left.fail
<1>1. CASE HourEnds \/ Compile \/ SetupDone \/ Reconfigure \/ Unload \/ UNCHANGED vars
  <2>1. UNCHANGED <<pc, job, gate>> /\ (left' = left \/ left' = [left EXCEPT !.change = @ - 1])
    BY <1>1, Stuttering
       DEF HourEnds, Compile, SetupDone, Reconfigure, Unload, recorder, tasks, entry
  <2>2. left'.fail = left.fail
    BY <2>1 DEF PriceType
  <2> QED
    BY <2>1, <2>2 DEF Busy
<1>2. CASE SetupStarts
  <2>1. /\ pc' = [pc EXCEPT !["setup"] = "due"] /\ UNCHANGED <<job, gate, left>>
    BY <1>2 DEF SetupStarts
  <2> QED
    BY <2>1 DEF Busy, PriceType
<1>3. CASE Crash
  <2>1. /\ pc' = [t \in Callers |-> "idle"] /\ gate' = gate
        /\ left' = [left EXCEPT !.crash = @ - 1]
    BY <1>3 DEF Crash
  <2>2. left'.fail = left.fail
    BY <2>1 DEF PriceType
  <2> QED
    BY <2>1, <2>2 DEF Busy
<1>4. ASSUME NEW t \in Ticks, Refresh(t)
      PROVE  /\ \A u \in Callers : Busy(u)' => Busy(u) /\ pc'[u] = pc[u] /\ job'[u] = job[u]
             /\ gate' = gate /\ left'.fail = left.fail
  <2>1. /\ pc' = [pc EXCEPT ![t] = "due"] /\ UNCHANGED <<job, gate>>
        /\ left' = [left EXCEPT !.refresh = @ - 1]
    BY <1>4 DEF Refresh
  <2>2. left'.fail = left.fail
    BY <2>1 DEF PriceType
  <2>3. \A u \in Callers : Busy(u)' => Busy(u) /\ pc'[u] = pc[u]
    BY <2>1 DEF Busy, PriceType
  <2> QED
    BY <2>1, <2>2, <2>3
<1> QED
  BY <1>1, <1>2, <1>3, <1>4

LEMMA OneBusyNext ==
  ASSUME PriceAssumption, ~Overlaps, PriceType, OneBusy, [Next \/ Done]_vars
  PROVE  OneBusy'
<1>1. ASSUME NEW t \in Callers, RunStep(t)
      PROVE  OneBusy'
  <2>1. /\ Others(t)
        /\ \/ ~Busy(t)'
           \/ Alone
           \/ Busy(t)
    BY <1>1, RunIs, RunBusy
  <2>2. \A u \in Callers : u # t /\ Busy(u)' => Busy(u)
    BY <2>1 DEF Others, Busy
  <2>3. \A u \in Callers : u # t /\ Busy(u)' => ~Busy(t)'
    BY <2>1, <2>2 DEF OneBusy, Alone
  <2> SUFFICES ASSUME NEW u \in Callers, NEW v \in Callers, Busy(u)', Busy(v)'
               PROVE  u = v
    BY Zenon DEF OneBusy
  <2>4. CASE u = t \/ v = t
    BY <2>3, <2>4
  <2>5. CASE u # t /\ v # t
    BY <2>2, <2>5 DEF OneBusy
  <2> QED
    BY <2>4, <2>5
<1>2. CASE ~\E t \in Callers : RunStep(t)
  <2>1. \A u \in Callers : Busy(u)' => Busy(u)
    BY <1>2, StepIs, NoneBegins
  <2> QED
    BY <2>1 DEF OneBusy
<1> QED
  BY <1>1, <1>2

LEMMA SettingNext ==
  ASSUME PriceAssumption, PriceType, Setting, [Next \/ Done]_vars
  PROVE  Setting'
<1>1. ASSUME NEW t \in Callers, RunStep(t)
      PROVE  Setting'
  <2>1. /\ UNCHANGED <<place, state, data>> /\ Others(t) /\ pc[t] # "idle"
        /\ reload' = reload \/ reload' = (state # "down")
    BY <1>1, RunIs
  <2>2. pc'["setup"] # "idle" => pc["setup"] # "idle"
    BY <2>1 DEF Others, Callers
  <2>3. state' = "loaded" /\ ~reload' => ~reload
    <3>1. CASE reload' = reload
      BY <3>1
    <3>2. CASE reload' = (state # "down")
      BY <2>1, <3>2
    <3> QED
      BY <2>1, <3>1, <3>2
  <2> QED
    BY <2>1, <2>2, <2>3 DEF Setting
<1>2. CASE HourEnds \/ Compile \/ UNCHANGED vars
  <2>1. UNCHANGED <<place, state, data, reload, pc>>
    BY <1>2, Stuttering DEF HourEnds, Compile, entry, tasks
  <2> QED
    BY <2>1 DEF Setting
<1>3. CASE SetupStarts
  <2>1. state' = "setup" /\ place' = place /\ data'.place = place
    BY <1>3, PublishType DEF SetupStarts, PriceType
  <2> QED
    BY <2>1 DEF Setting
<1>4. CASE SetupDone \/ Reconfigure \/ Unload
  BY <1>4 DEF SetupDone, Reconfigure, Unload, Setting, tasks
<1>5. CASE Crash
  BY <1>5 DEF Crash, Setting, Callers
<1>6. ASSUME NEW t \in Ticks, Refresh(t)
      PROVE  Setting'
  <2>1. /\ state = "loaded" /\ UNCHANGED <<place, state, reload>>
        /\ pc' = [pc EXCEPT ![t] = "due"] /\ Publish(data.place)
    BY <1>6 DEF Refresh
  <2>2. data # None /\ data.place \in Places
    BY <2>1 DEF PriceType, Datas
  <2>3. data'.place = data.place
    BY <2>1, <2>2, PublishType
  <2>4. t # "setup"
    BY DEF PriceAssumption
  <2>5. pc'["setup"] = pc["setup"]
    BY <2>1, <2>4 DEF PriceType
  <2> QED
    BY <2>1, <2>3, <2>5 DEF Setting
<1> QED
  BY <1>1, <1>2, <1>3, <1>4, <1>5, <1>6, StepIs

-----------------------------------------------------------------------------
(* The stamped line. The entry never returns to a place it has left: each  *)
(* place has a rank, and the entry only moves to one of a higher rank.     *)

Onward(rank) == place' = place \/ rank[place'] > rank[place]

\* Place p is the entry's, or one it has left for good.
Past(p, rank) == p = place \/ rank[p] < rank[place]

\* The gate is the one a run would find today.
Current(g) == g.place = place /\ g.card = newest[g.place]

\* The entities of the operator are in the registry.
Added == Produces[place.utility] \subseteq registered

DataKnown(rank) ==
  data # None =>
    /\ Past(data.place, rank) /\ data.card = newest[data.place]
    /\ data.place = place => Added

GateKnown(rank) ==
  gate # None => Past(gate.place, rank) /\ gate.card <= newest[gate.place]

\* A run of the present place has its data, of the gate's card or a newer one.
RunKnown(t, rank) ==
  Busy(t) =>
    /\ Past(job[t].gate.place, rank) /\ job[t].gate.card <= newest[job[t].gate.place]
    /\ gate # None => ~Current(gate)
    /\ job[t].gate.place = place =>
         /\ data # None => data.place = place
         /\ job[t].data # None =>
              /\ job[t].data.place = place
              /\ job[t].gate.card <= job[t].data.card /\ job[t].data.card <= newest[place]
         /\ Added

Known(rank) ==
  DataKnown(rank) /\ GateKnown(rank) /\ \A t \in Callers : RunKnown(t, rank)

\* What is known survives the steps that neither publish nor move.
LEMMA KnownStands ==
  ASSUME NEW rank, Known(rank), UNCHANGED <<place, newest, data, gate>>,
         Added => Added', NEW t \in Callers, Busy(t)' => Busy(t) /\ job'[t] = job[t]
  PROVE  DataKnown(rank)' /\ GateKnown(rank)' /\ RunKnown(t, rank)'
<1>1. \A p : Past(p, rank)' <=> Past(p, rank)
  BY DEF Past
<1>2. DataKnown(rank)' /\ GateKnown(rank)'
  BY <1>1 DEF Known, DataKnown, GateKnown
<1>3. RunKnown(t, rank)'
  BY <1>1 DEF Known, RunKnown, Current
<1> QED
  BY <1>2, <1>3

\* A card published for a place known keeps what is known.
LEMMA KnownPublished ==
  ASSUME PriceAssumption, PriceType, NEW rank, Known(rank), NEW p \in Places, Publish(p),
         place' = place, gate' = gate, Added => Added', p = place => Added',
         Past(p, rank), data # None => data.place = p,
         state = "down" => p = place,
         \A u \in Callers : Busy(u)' => Busy(u) /\ job'[u] = job[u]
  PROVE  Known(rank)'
<1>1. /\ data' \in Datas /\ data'.place = p /\ newest' \in [Places -> Nat]
      /\ newest'[p] = data'.card
      /\ \A q \in Places : newest'[q] >= newest[q]
  BY PublishType
<1>2. \A q : Past(q, rank)' <=> Past(q, rank)
  BY DEF Past
<1>3. DataKnown(rank)'
  BY <1>1, <1>2 DEF DataKnown
<1>4. GateKnown(rank)' /\ (gate # None => gate.place \in Places /\ gate.card <= newest[gate.place]
                                          /\ gate.card \in Nat)
  <2>1. CASE gate = None
    BY <2>1 DEF GateKnown
  <2>2. CASE gate # None
    <3>1. /\ gate.place \in Places /\ gate.card \in Nat /\ newest[gate.place] \in Nat
          /\ newest'[gate.place] \in Nat
          /\ newest'[gate.place] >= newest[gate.place]
      BY <1>1, <2>2 DEF PriceType, Rates, PriceAssumption
    <3>2. Past(gate.place, rank) /\ gate.card <= newest[gate.place]
      BY <2>2 DEF Known, GateKnown
    <3>3. gate.card <= newest'[gate.place]
      BY <3>1, <3>2
    <3> QED
      BY <1>2, <3>1, <3>2, <3>3 DEF GateKnown
  <2> QED
    BY <2>1, <2>2
<1>5. gate # None /\ Current(gate)' => Current(gate)
  <2> SUFFICES ASSUME gate # None, Current(gate)'
               PROVE  Current(gate)
    OBVIOUS
  <2>1. gate.place = place /\ gate.card = newest'[place]
    BY DEF Current
  <2>2. newest'[place] >= newest[place] /\ newest[place] \in Nat /\ newest'[place] \in Nat
    BY <1>1 DEF PriceType
  <2> QED
    BY <1>4, <2>1, <2>2 DEF Current
<1>6. ASSUME NEW u \in Callers
      PROVE  RunKnown(u, rank)'
  <2> SUFFICES ASSUME Busy(u)'
               PROVE  RunKnown(u, rank)'
    BY DEF RunKnown
  <2>1. Busy(u) /\ job'[u] = job[u]
    OBVIOUS
  <2>2. job[u] \in [gate : Rates, data : Datas \cup {None}, end : Nat, todo : SUBSET Keys]
    BY <2>1 DEF PriceType, JobType
  <2> DEFINE g == job[u].gate
             d == job[u].data
  <2>3. /\ g.place \in Places /\ g.card \in Nat /\ place \in Places
        /\ d # None => d.place \in Places /\ d.card \in Nat
    BY <2>2 DEF Rates, Datas, PriceAssumption, PriceType
  <2>4. /\ Past(g.place, rank) /\ g.card <= newest[g.place]
        /\ gate # None => ~Current(gate)
        /\ g.place = place =>
             /\ data # None => data.place = place
             /\ d # None => d.place = place /\ g.card <= d.card /\ d.card <= newest[place]
             /\ Added
    BY <2>1 DEF Known, RunKnown
  <2>9. g' = g
    BY <2>1
  <2> HIDE DEF g, d
  <2>5. \A q \in Places : newest[q] \in Nat /\ newest'[q] \in Nat /\ newest'[q] >= newest[q]
    BY <1>1 DEF PriceType
  <2>6. g.card <= newest'[g.place] /\ (g.place = place /\ d # None => d.card <= newest'[place])
    BY <2>3, <2>4, <2>5
  <2>7. g.place = place => p = place
    <3>1. CASE data = None
      BY <3>1 DEF PriceType
    <3>2. CASE data # None
      BY <2>4, <3>2
    <3> QED
      BY <3>1, <3>2
  <2>8. /\ Past(g.place, rank)' /\ g.card <= newest'[g.place]
        /\ gate' # None => ~Current(gate)'
        /\ g.place = place' =>
             /\ data' # None => data'.place = place'
             /\ d # None => d.place = place' /\ g.card <= d.card /\ d.card <= newest'[place']
             /\ Added'
    <3>1. Past(g.place, rank)' <=> Past(g.place, rank)
      BY <2>9 DEF Past
    <3>2. gate' # None => ~Current(gate)'
      BY <1>5, <2>4
    <3>3. g.place = place => Added' /\ data'.place = place
      BY <1>1, <2>4, <2>7
    <3> QED
      BY <2>4, <2>6, <3>1, <3>2, <3>3
  <2> QED
    BY <2>1, <2>8 DEF RunKnown, g, d
<1> QED
  BY <1>3, <1>4, <1>6 DEF Known

\* A run begins for the place as it is, and keeps what it began with.
LEMMA RunStepKnown ==
  ASSUME PriceAssumption, ~Overlaps, PriceType, OneBusy, NEW rank, Known(rank),
         NEW t \in Callers, RunStep(t)
  PROVE  Known(rank)'
<1>1. /\ UNCHANGED <<place, state, newest, data, registered>> /\ Others(t)
      /\ \/ Ended(t)
         \/ /\ pc[t] = "due" /\ Alone /\ data # None /\ gate # GateNow
            /\ Busy(t)' /\ job'[t].gate = GateNow /\ job'[t].data \in {None, data}
         \/ /\ Busy(t) /\ Busy(t)' /\ job'[t].gate = job[t].gate
            /\ job'[t].data \in {job[t].data, data}
      /\ \/ gate' = gate
         \/ pc[t] = "rows" /\ Ended(t) /\ gate' = job[t].gate
  BY RunIs
<1>2. \A p : Past(p, rank)' <=> Past(p, rank)
  BY <1>1 DEF Past
<1>3. DataKnown(rank)' /\ (Added' <=> Added)
  BY <1>1, <1>2 DEF Known, DataKnown, Added
<1>4. GateKnown(rank)'
  <2>1. CASE gate' = gate
    BY <1>1, <1>2, <2>1 DEF Known, GateKnown
  <2>2. CASE pc[t] = "rows" /\ gate' = job[t].gate
    <3>1. RunKnown(t, rank) /\ Busy(t)
      BY <2>2 DEF Known, Busy
    <3> QED
      BY <1>1, <1>2, <2>2, <3>1 DEF GateKnown, RunKnown
  <2> QED
    BY <1>1, <2>1, <2>2
<1>5. ASSUME NEW u \in Callers, u # t
      PROVE  RunKnown(u, rank)'
  <2> SUFFICES ASSUME Busy(u)'
               PROVE  RunKnown(u, rank)'
    BY DEF RunKnown
  <2>1. Busy(u) /\ job'[u] = job[u]
    BY <1>1, <1>5 DEF Others, Busy
  <2>2. ~Busy(t)
    BY <1>5, <2>1 DEF OneBusy
  <2>3. gate' = gate
    BY <1>1, <2>2 DEF Busy
  <2> QED
    BY <1>1, <1>3, <2>1, <2>3, KnownStands
<1>6. RunKnown(t, rank)'
  <2>1. CASE Ended(t)
    BY <2>1, RunBusy DEF RunKnown
  <2>2. CASE /\ Alone /\ data # None /\ gate # GateNow /\ gate' = gate
             /\ Busy(t)' /\ job'[t].gate = GateNow /\ job'[t].data \in {None, data}
    <3>1. /\ GateNow = [place |-> place, card |-> data.card]
          /\ data \in Datas /\ data.place = place /\ data.card \in Nat
      BY <2>2, GateType DEF Alone, Datas, PriceAssumption
    <3>2. Past(place, rank) /\ data.card = newest[place] /\ Added
      BY <2>2, <3>1 DEF Known, DataKnown, Past
    <3>3. gate # None => ~Current(gate)
      BY <2>2, <3>1, <3>2 DEF PriceType, Rates, Current
    <3>4. Current(gate)' <=> Current(gate)
      BY <1>1, <2>2 DEF Current
    <3>5. job'[t].gate.place = place /\ job'[t].gate.card = data.card
      BY <2>2, <3>1
    <3>6. job'[t].data # None => job'[t].data = data
      BY <2>2
    <3> QED
      BY <1>1, <1>2, <1>3, <2>2, <3>1, <3>2, <3>3, <3>4, <3>5, <3>6 DEF RunKnown
  <2>3. CASE /\ Busy(t) /\ Busy(t)' /\ job'[t].gate = job[t].gate
             /\ job'[t].data \in {job[t].data, data} /\ gate' = gate
    <3>1. job[t] \in [gate : Rates, data : Datas \cup {None}, end : Nat, todo : SUBSET Keys]
      BY <2>3 DEF PriceType, JobType
    <3> DEFINE g == job[t].gate
    <3>2. g.place \in Places /\ g.card \in Nat
      BY <3>1 DEF Rates, PriceAssumption
    <3>3. /\ Past(g.place, rank) /\ g.card <= newest[g.place]
          /\ gate # None => ~Current(gate)
          /\ g.place = place =>
               /\ data # None => data.place = place
               /\ job[t].data # None =>
                    /\ job[t].data.place = place
                    /\ g.card <= job[t].data.card /\ job[t].data.card <= newest[place]
               /\ Added
      BY <2>3 DEF Known, RunKnown
    <3>4. ASSUME g.place = place, data # None
          PROVE  data.place = place /\ g.card <= data.card /\ data.card <= newest[place]
      <4>1. data.place = place
        BY <3>3, <3>4
      <4>2. data.card = newest[place] /\ newest[place] \in Nat
        BY <3>4, <4>1 DEF Known, DataKnown, PriceType
      <4> QED
        BY <3>2, <3>3, <3>4, <4>1, <4>2
    <3>5. Current(gate)' <=> Current(gate)
      BY <1>1, <2>3 DEF Current
    <3>6. g.place = place /\ job'[t].data # None =>
            /\ job'[t].data.place = place
            /\ g.card <= job'[t].data.card /\ job'[t].data.card <= newest[place]
      BY <2>3, <3>3, <3>4
    <3>7. job'[t].gate = g /\ (Past(g.place, rank)' <=> Past(g.place, rank))
      BY <1>1, <2>3 DEF Past
    <3> HIDE DEF g
    <3>8. /\ Past(job[t].gate.place, rank)' /\ job'[t].gate.card <= newest'[job'[t].gate.place]
          /\ gate' # None => ~Current(gate)'
          /\ job'[t].gate.place = place' =>
               /\ data' # None => data'.place = place'
               /\ job'[t].data # None =>
                    /\ job'[t].data.place = place'
                    /\ job'[t].gate.card <= job'[t].data.card
                    /\ job'[t].data.card <= newest'[place']
               /\ Added'
      <4>1. Past(job[t].gate.place, rank)'
        BY <1>1, <3>3, <3>7 DEF Past
      <4>2. job'[t].gate.place = place' => Added' /\ (data' # None => data'.place = place')
        BY <1>1, <1>3, <3>3, <3>7
      <4>3. gate' # None => ~Current(gate)'
        BY <2>3, <3>3, <3>5
      <4> QED
        BY <1>1, <3>3, <3>6, <3>7, <4>1, <4>2, <4>3
    <3> QED
      BY <3>8 DEF RunKnown
  <2> QED
    BY <1>1, <2>1, <2>2, <2>3
<1> QED
  BY <1>3, <1>4, <1>5, <1>6 DEF Known

LEMMA KnownNext ==
  ASSUME PriceAssumption, ~Overlaps, PriceType, OneBusy, Setting,
         NEW rank \in [Places -> Nat], Known(rank), [Next \/ Done]_vars, Onward(rank)
  PROVE  Known(rank)'
<1>1. CASE \E t \in Callers : RunStep(t)
  BY <1>1, RunStepKnown
<1>2. CASE HourEnds \/ Compile \/ SetupDone \/ UNCHANGED vars
  <2>1. UNCHANGED <<place, newest, data, gate>>
    BY <1>2, Stuttering DEF HourEnds, Compile, SetupDone, entry
  <2>2. Added => Added'
    <3>1. CASE SetupDone
      BY <3>1 DEF SetupDone, Added
    <3>2. CASE HourEnds \/ Compile \/ UNCHANGED vars
      BY <3>2, Stuttering DEF HourEnds, Compile, entry, Added
    <3> QED
      BY <1>2, <3>1, <3>2
  <2>3. \A u \in Callers : Busy(u)' => Busy(u) /\ job'[u] = job[u]
    BY <1>2, NoneBegins
  <2>4. Callers # {}
    BY DEF Callers
  <2> QED
    BY <2>1, <2>2, <2>3, <2>4, KnownStands DEF Known
<1>3. CASE SetupStarts
  <2>1. /\ state = "down" /\ Publish(place) /\ UNCHANGED <<place, gate>>
        /\ registered' = registered \cup Produces[place.utility]
    BY <1>3 DEF SetupStarts, AddedAtSetup
  <2>2. Added'
    BY <2>1 DEF Added
  <2>3. \A u \in Callers : Busy(u)' => Busy(u) /\ job'[u] = job[u]
    BY <1>3, NoneBegins
  <2>4. place \in Places /\ data = None
    BY <2>1 DEF PriceType
  <2> QED
    BY <2>1, <2>2, <2>3, <2>4, KnownPublished DEF Past
<1>4. ASSUME NEW t \in Ticks, Refresh(t)
      PROVE  Known(rank)'
  <2>1. /\ state = "loaded" /\ Publish(data.place) /\ UNCHANGED <<place, gate, registered>>
    BY <1>4 DEF Refresh
  <2>2. \A u \in Callers : Busy(u)' => Busy(u) /\ job'[u] = job[u]
    BY <1>4, NoneBegins
  <2>3. data # None /\ data.place \in Places
    BY <2>1 DEF PriceType, Datas
  <2>4. Past(data.place, rank) /\ (data.place = place => Added)
    BY <2>3 DEF Known, DataKnown
  <2>5. Added' <=> Added
    BY <2>1 DEF Added
  <2> QED
    BY <2>1, <2>2, <2>3, <2>4, <2>5, KnownPublished
<1>5. CASE Unload
  <2>1. data' = None /\ UNCHANGED <<place, newest, gate, registered>>
    BY <1>5 DEF Unload
  <2>2. \A u \in Callers : Busy(u)' => Busy(u) /\ job'[u] = job[u]
    BY <1>5, NoneBegins
  <2>3. \A p : Past(p, rank)' <=> Past(p, rank)
    BY <2>1 DEF Past
  <2>4. Added' <=> Added
    BY <2>1 DEF Added
  <2>5. ASSUME NEW u \in Callers PROVE RunKnown(u, rank)'
    BY <2>1, <2>2, <2>3, <2>4 DEF Known, RunKnown, Current
  <2> QED
    BY <2>1, <2>3, <2>5 DEF Known, DataKnown, GateKnown
<1>6. CASE Crash
  <2>1. data' = None /\ UNCHANGED <<place, newest, gate>> /\ pc' = [t \in Callers |-> "idle"]
    BY <1>6 DEF Crash
  <2>2. \A p : Past(p, rank)' <=> Past(p, rank)
    BY <2>1 DEF Past
  <2>3. \A u \in Callers : RunKnown(u, rank)'
    BY <2>1 DEF RunKnown, Busy
  <2> QED
    BY <2>1, <2>2, <2>3 DEF Known, DataKnown, GateKnown
<1>7. CASE Reconfigure
  <2>1. /\ place' \in Places /\ place' # place /\ rank[place'] > rank[place]
        /\ UNCHANGED <<gate, newest, data, registered>>
    BY <1>7 DEF Reconfigure, Onward
  <2>2. rank[place] \in Nat /\ rank[place'] \in Nat
    BY <2>1 DEF PriceType
  <2>3. \A p \in Places : Past(p, rank) => rank[p] < rank[place'] /\ p # place'
    <3> SUFFICES ASSUME NEW p \in Places, Past(p, rank)
                 PROVE  rank[p] < rank[place'] /\ p # place'
      OBVIOUS
    <3>1. rank[p] \in Nat
      OBVIOUS
    <3> QED
      BY <2>1, <2>2, <3>1 DEF Past
  <2>4. \A u \in Callers : Busy(u)' => Busy(u) /\ job'[u] = job[u]
    BY <1>7, NoneBegins
  <2>5. DataKnown(rank)'
    <3>1. data # None => data.place \in Places
      BY DEF PriceType, Datas
    <3> QED
      BY <2>1, <2>3, <3>1 DEF Known, DataKnown, Past
  <2>6. GateKnown(rank)' /\ (gate # None => ~Current(gate)')
    <3>1. gate # None => gate.place \in Places
      BY DEF PriceType, Rates
    <3>2. gate # None => rank[gate.place] < rank[place'] /\ gate.place # place'
      BY <2>3, <3>1 DEF Known, GateKnown
    <3> QED
      BY <2>1, <3>2 DEF Known, GateKnown, Current, Past
  <2>7. ASSUME NEW u \in Callers PROVE RunKnown(u, rank)'
    <3> SUFFICES ASSUME Busy(u)'
                 PROVE  RunKnown(u, rank)'
      BY DEF RunKnown
    <3>1. Busy(u) /\ job'[u] = job[u]
      BY <2>4
    <3>2. job[u].gate.place \in Places
      BY <3>1 DEF PriceType, JobType, Rates
    <3>3. /\ Past(job[u].gate.place, rank)
          /\ job[u].gate.card <= newest[job[u].gate.place]
      BY <3>1 DEF Known, RunKnown
    <3>4. rank[job[u].gate.place] < rank[place'] /\ job[u].gate.place # place'
      BY <2>3, <3>2, <3>3
    <3> QED
      BY <2>1, <2>6, <3>1, <3>3, <3>4 DEF RunKnown, Past
  <2> QED
    BY <2>5, <2>6, <2>7 DEF Known
<1> QED
  BY <1>1, <1>2, <1>3, <1>4, <1>5, <1>6, <1>7, StepIs

\* The line of key k holds no rates over the card's hours but the gate's.
LineIs(g, k) == \A h \in HourSet : h >= From[g.card] => line[k][h] \in {None, Live, g}

\* The line under a gate that a run would find today.
GateLine ==
  gate # None /\ Current(gate) => \A k \in Produces[place.utility] : LineIs(gate, k)

\* The line a run leaves: nothing past its end, its gate's rates where it wrote.
RunLine(t) ==
  pc[t] = "rows" =>
    /\ \A k \in Keys, h \in HourSet : h >= job[t].end => line[k][h] \in {None, Live}
    /\ Current(job[t].gate) =>
         \A k \in Produces[place.utility] \ job[t].todo : LineIs(job[t].gate, k)

FailsLeft == left.fail <= MaxFails

LineStands == Answered => GateLine /\ \A t \in Callers : RunLine(t)

StampInv(rank) == LostInv /\ FailsLeft /\ OneBusy /\ Setting /\ Known(rank) /\ LineStands

LEMMA FailsNext ==
  ASSUME PriceAssumption, PriceType, FailsLeft, [Next \/ Done]_vars
  PROVE  FailsLeft' /\ (Answered' => Answered /\ left'.fail = left.fail)
<1>1. left'.fail <= left.fail
  <2>1. CASE \E t \in Callers : RunStep(t)
    BY <2>1, RunIs
  <2>2. CASE ~\E t \in Callers : RunStep(t)
    <3>1. left'.fail = left.fail
      BY <2>2, StepIs, NoneBegins
    <3> QED
      BY <3>1 DEF PriceType
  <2> QED
    BY <2>1, <2>2
<1>2. left.fail \in Nat /\ left'.fail \in Nat /\ MaxFails \in Nat
  BY TypeNext DEF PriceType, PriceAssumption
<1> QED
  BY <1>1, <1>2 DEF FailsLeft, Answered

LEMMA OperatorsKeys ==
  ASSUME PriceAssumption, PriceType
  PROVE  \A k \in Produces[place.utility] : k \in Keys
BY DEF PriceAssumption, PriceType, Utilities

\* Rows that are cleared, or compiled, change nothing of what the line is.
LEMMA LineKeeps ==
  ASSUME PriceAssumption, PriceType, UNCHANGED <<place, newest, gate>>,
         \A k \in Keys, h \in HourSet : line'[k][h] \in {None, Live, line[k][h]},
         GateLine, NEW t \in Callers, RunLine(t), pc'[t] = "rows" => pc[t] = "rows" /\ job'[t] = job[t]
  PROVE  GateLine' /\ RunLine(t)'
<1>1. GateLine'
  <2> SUFFICES ASSUME gate # None, Current(gate), NEW k \in Produces[place.utility]
               PROVE  LineIs(gate, k)'
    BY DEF GateLine, Current
  <2> QED
    BY OperatorsKeys DEF GateLine, LineIs
<1>2. RunLine(t)'
  <2> SUFFICES ASSUME pc'[t] = "rows"
               PROVE  RunLine(t)'
    BY DEF RunLine
  <2>1. pc[t] = "rows" /\ job'[t] = job[t]
    OBVIOUS
  <2>2. \A k \in Keys, h \in HourSet : h >= job[t].end => line'[k][h] \in {None, Live}
    BY <2>1 DEF RunLine
  <2>3. ASSUME Current(job[t].gate), NEW k \in Produces[place.utility] \ job[t].todo
        PROVE  LineIs(job[t].gate, k)'
    <3>1. k \in Keys /\ LineIs(job[t].gate, k)
      BY <2>1, <2>3, OperatorsKeys DEF RunLine
    <3> QED
      BY <2>1, <3>1 DEF LineIs
  <2>4. Current(job[t].gate)' <=> Current(job[t].gate)
    BY <2>1 DEF Current
  <2> QED
    BY <2>1, <2>2, <2>3, <2>4 DEF RunLine
<1> QED
  BY <1>1, <1>2

\* Where the line stands as it is, what is no longer current needs no rates.
LEMMA LineUnread ==
  ASSUME UNCHANGED <<line, gate>>, GateLine, NEW t \in Callers, RunLine(t),
         gate # None /\ Current(gate)' => Current(gate) /\ place' = place,
         pc'[t] = "rows" =>
           /\ pc[t] = "rows" /\ job'[t] = job[t]
           /\ Current(job[t].gate)' => Current(job[t].gate) /\ place' = place
  PROVE  GateLine' /\ RunLine(t)'
<1>1. GateLine'
  BY DEF GateLine, LineIs
<1>2. RunLine(t)'
  <2> SUFFICES ASSUME pc'[t] = "rows"
               PROVE  RunLine(t)'
    BY DEF RunLine
  <2> QED
    BY DEF RunLine, LineIs
<1> QED
  BY <1>1, <1>2

\* A gate that is current after a step of the entry was so before.
LEMMA CurrentWas ==
  ASSUME PriceAssumption, PriceType, NEW rank \in [Places -> Nat], Onward(rank),
         NEW g \in Rates, Past(g.place, rank), g.card <= newest[g.place],
         SetupStarts \/ Reconfigure \/ (\E t \in Ticks : Refresh(t))
  PROVE  g.place = place' /\ g.card = newest'[g.place] => Current(g) /\ place' = place
<1>1. g.place \in Places /\ g.card \in Nat
  BY DEF Rates, PriceAssumption
<1>2. CASE Reconfigure
  <2>1. place' \in Places /\ place' # place /\ rank[place'] > rank[place]
    BY <1>2 DEF Reconfigure, Onward
  <2>2. rank[place] \in Nat /\ rank[place'] \in Nat /\ rank[g.place] \in Nat
    BY <1>1, <2>1 DEF PriceType
  <2> QED
    BY <1>1, <2>1, <2>2 DEF Past
<1>3. CASE SetupStarts \/ \E t \in Ticks : Refresh(t)
  <2>1. PICK p \in Places : Publish(p) /\ place' = place
    BY <1>3 DEF SetupStarts, Refresh, PriceType, Datas
  <2>2. newest'[g.place] >= newest[g.place] /\ newest'[g.place] \in Nat /\ newest[g.place] \in Nat
    BY <1>1, <2>1, PublishType DEF PriceType
  <2> QED
    BY <1>1, <2>1, <2>2 DEF Current
<1> QED
  BY <1>2, <1>3

\* A key written for a gate that is current holds that gate's rates.
LEMMA WrittenLine ==
  ASSUME PriceAssumption, PriceType, NEW rank, NEW t \in Callers,
         RunKnown(t, rank), pc[t] = "rows", RunLine(t), NEW k \in job[t].todo,
         line' = [line EXCEPT ![k] = [h \in HourSet |-> Written(t, k, h)]]
  PROVE  /\ \A i \in Keys, h \in HourSet : h >= job[t].end => line'[i][h] \in {None, Live}
         /\ Current(job[t].gate) =>
              \A i \in Produces[place.utility] \ (job[t].todo \ {k}) :
                \A h \in HourSet :
                  h >= From[job[t].gate.card] => line'[i][h] \in {None, Live, job[t].gate}
<1> DEFINE g == job[t].gate
           d == job[t].data
<1>1. /\ k \in Keys
      /\ \A h \in HourSet :
           line'[k][h] = IF h >= From[d.card] /\ h < job[t].end
                         THEN [place |-> d.place, card |-> d.card] ELSE line[k][h]
      /\ \A i \in Keys : i # k => line'[i] = line[i]
  BY WrittenType
<1>2. job[t] \in [gate : Rates, data : Datas, end : Nat, todo : SUBSET Keys]
  BY DEF PriceType, JobType, Busy
<1>3. /\ g \in Rates /\ g.card \in Nat /\ d.card \in Nat /\ job[t].end \in Nat /\ Hours \in Nat
      /\ d # None
  BY <1>2, NoData DEF Rates, Datas, PriceAssumption
<1>4. \A h \in HourSet : h \in Int
  BY <1>3 DEF HourSet
<1>5. \A i \in Keys, h \in HourSet : h >= job[t].end => line[i][h] \in {None, Live}
  BY DEF RunLine
<1>6. \A i \in Keys, h \in HourSet : h >= job[t].end => line'[i][h] \in {None, Live}
  BY <1>1, <1>3, <1>4, <1>5
<1>7. ASSUME Current(g), NEW i \in Produces[place.utility] \ (job[t].todo \ {k}),
             NEW h \in HourSet, h >= From[g.card]
      PROVE  line'[i][h] \in {None, Live, g}
  <2>1. CASE i = k
    <3>1. g.place = place /\ g.card = newest[g.place]
      BY <1>7 DEF Current
    <3>2. d.place = place /\ g.card <= d.card /\ d.card <= newest[place]
      BY <1>3, <3>1 DEF RunKnown, Busy
    <3>3. d.card = g.card
      BY <1>3, <3>1, <3>2
    <3>4. [place |-> d.place, card |-> d.card] = g
      BY <1>3, <3>1, <3>2, <3>3 DEF Rates
    <3>5. CASE h < job[t].end
      BY <1>1, <1>7, <2>1, <3>3, <3>4, <3>5
    <3>6. CASE ~(h < job[t].end)
      BY <1>1, <1>3, <1>4, <1>6, <2>1, <3>6
    <3> QED
      BY <3>5, <3>6, <2>1
  <2>2. CASE i # k
    <3>1. i \in Produces[place.utility] \ job[t].todo /\ i \in Keys
      BY <1>7, <2>2, OperatorsKeys
    <3>2. LineIs(g, i)
      BY <1>7, <3>1 DEF RunLine
    <3>3. line[i][h] \in {None, Live, g}
      <4> HIDE DEF g
      <4> QED
        BY <1>7, <3>2 DEF LineIs
    <3>4. line'[i] = line[i]
      BY <1>1, <2>2, <3>1
    <3> QED
      BY <3>3, <3>4
  <2> QED
    BY <2>1, <2>2
<1> QED
  BY <1>6, <1>7

LEMMA RunStepLine ==
  ASSUME PriceAssumption, LostInv, FailsLeft, OneBusy, NEW rank, Known(rank),
         GateLine, \A u \in Callers : RunLine(u),
         NEW t \in Callers, RunStep(t), left'.fail = left.fail
  PROVE  GateLine' /\ \A u \in Callers : RunLine(u)'
<1>1. PriceType
  BY DEF LostInv
<1>2. /\ UNCHANGED <<place, newest>> /\ Others(t)
      /\ gate' = gate \/ pc[t] = "rows"
  BY <1>1, RunIs
<1>3. CASE Begin(t) \/ CleanOrphan(t)
  <2>1. gate' = gate /\ pc'[t] # "rows"
        /\ \A k \in Keys, h \in HourSet : line'[k][h] \in {None, Live, line[k][h]}
    <3>1. CASE Begin(t)
      BY <1>1, <3>1, BeginIs DEF entry, recorder, Ended, GoesOn
    <3>2. CASE CleanOrphan(t)
      <4>1. pc[t] = "orphans" /\ gate' = gate
            /\ \E k \in job[t].todo :
                 /\ \E told \in BOOLEAN : Cleans(k, told)
                 /\ pc'[t] = "orphans" \/ Ended(t) \/ GoesOn(t, job[t].gate)
        BY <1>1, <3>2, CleanOrphanIs DEF entry
      <4>2. job[t].todo \subseteq Keys
        BY <1>1, <4>1 DEF PriceType, JobType, Busy
      <4>3. \A k \in Keys, h \in HourSet : line'[k][h] \in {None, line[k][h]}
        BY <1>1, <4>1, <4>2, CleansType
      <4> QED
        BY <4>1, <4>3 DEF Ended, GoesOn
    <3> QED
      BY <1>3, <3>1, <3>2
  <2>2. \A u \in Callers : pc'[u] = "rows" => pc[u] = "rows" /\ job'[u] = job[u]
    BY <1>2, <2>1 DEF Others
  <2> QED
    BY <1>1, <1>2, <2>1, <2>2, LineKeeps
<1>4. CASE ReadMarker(t) \/ MarkerUnread(t)
  <2>1. pc[t] = "until" /\ UNCHANGED <<line, gate>> /\ ReadMarker(t)
    BY <1>1, <1>4, ReadsType DEF entry, recorder, PriceType
  <2>2. \A u \in Callers : u # t => pc'[u] = pc[u] /\ job'[u] = job[u]
    BY <1>2 DEF Others
  <2>3. \A u \in Callers \ {t} : GateLine' /\ RunLine(u)'
    BY <1>2, <2>1, <2>2, LineUnread DEF Current
  <2>4. GateLine'
    BY <1>2, <2>1 DEF GateLine, Current, LineIs
  <2>5. RunLine(t)'
    <3> SUFFICES ASSUME pc'[t] = "rows"
                 PROVE  RunLine(t)'
      BY DEF RunLine
    <3>1. job'[t] = [gate |-> job[t].gate, data |-> job[t].data, end |-> compiled,
                     todo |-> registered \cap Produces[job[t].data.place.utility]]
      BY <1>1, <2>1, PlanIs DEF ReadMarker, CompiledUntil, Ended
    <3>2. \A k \in Keys, h \in HourSet : h >= job'[t].end => line'[k][h] \in {None, Live}
      BY <2>1, <3>1 DEF LostInv, Compiled
    <3>3. ASSUME Current(job[t].gate) PROVE Produces[place.utility] \ job'[t].todo = {}
      <4>1. Busy(t) /\ job[t].data # None /\ job[t].gate.place = place
        BY <1>1, <2>1, <3>3 DEF PriceType, JobType, Busy, Current
      <4>2. job[t].data.place = place /\ Added
        BY <4>1 DEF Known, RunKnown
      <4> QED
        BY <3>1, <4>2 DEF Added
    <3>4. Current(job[t].gate)' <=> Current(job[t].gate)
      BY <1>2, <3>1 DEF Current
    <3> QED
      BY <1>2, <3>2, <3>3, <3>4 DEF RunLine
  <2> QED
    BY <2>3, <2>4, <2>5
<1>5. CASE WriteKey(t)
  <2>1. PICK k \in job[t].todo :
          /\ pc[t] = "rows"
          /\ line' = [line EXCEPT ![k] = [h \in HourSet |-> Written(t, k, h)]]
          /\ \/ /\ pc'[t] = "rows"
                /\ job'[t] = [gate |-> job[t].gate, data |-> job[t].data,
                              end |-> job[t].end, todo |-> job[t].todo \ {k}]
                /\ gate' = gate
             \/ job[t].todo = {k} /\ Ended(t) /\ gate' = job[t].gate
    BY <1>1, <1>5, WriteKeyIs
  <2>2. /\ \A i \in Keys, h \in HourSet : h >= job[t].end => line'[i][h] \in {None, Live}
        /\ Current(job[t].gate) =>
             \A i \in Produces[place.utility] \ (job[t].todo \ {k}) :
               \A h \in HourSet :
                 h >= From[job[t].gate.card] => line'[i][h] \in {None, Live, job[t].gate}
    BY <1>1, <2>1, WrittenLine DEF Known
  <2>3. \A u \in Callers : u # t => pc'[u] # "rows"
    BY <1>2, <2>1 DEF Others, OneBusy, Busy
  <2>4. \A u \in Callers : u # t => RunLine(u)'
    BY <2>3 DEF RunLine
  <2>5. CASE /\ pc'[t] = "rows"
             /\ job'[t] = [gate |-> job[t].gate, data |-> job[t].data,
                           end |-> job[t].end, todo |-> job[t].todo \ {k}]
             /\ gate' = gate
    <3>1. Current(job[t].gate)' <=> Current(job[t].gate)
      BY <1>2, <2>5 DEF Current
    <3>2. RunLine(t)'
      BY <1>2, <2>2, <2>5, <3>1 DEF RunLine, LineIs
    <3>3. gate' # None => ~Current(gate)'
      BY <1>2, <2>1, <2>5 DEF Known, RunKnown, Busy, Current
    <3> QED
      BY <2>4, <3>2, <3>3 DEF GateLine
  <2>6. CASE job[t].todo = {k} /\ Ended(t) /\ gate' = job[t].gate
    <3>1. RunLine(t)'
      BY <2>6 DEF RunLine, Ended
    <3>2. Current(gate)' => Current(job[t].gate)
      BY <1>2, <2>6 DEF Current
    <3>3. Current(gate)' =>
            \A i \in Produces[place.utility] :
              \A h \in HourSet :
                h >= From[job[t].gate.card] => line'[i][h] \in {None, Live, job[t].gate}
      BY <2>2, <2>6, <3>2
    <3>4. GateLine'
      BY <1>2, <2>6, <3>3 DEF GateLine, LineIs
    <3> QED
      BY <2>4, <3>1, <3>4
  <2> QED
    BY <2>1, <2>5, <2>6
<1> QED
  BY <1>3, <1>4, <1>5 DEF RunStep

LEMMA LineStandsNext ==
  ASSUME PriceAssumption, ~Overlaps, NEW rank \in [Places -> Nat], StampInv(rank),
         [Next \/ Done]_vars, Onward(rank)
  PROVE  LineStands'
<1>1. LostInv /\ PriceType /\ FailsLeft /\ OneBusy /\ Known(rank)
  BY DEF StampInv, LostInv
<1> SUFFICES ASSUME Answered'
             PROVE  GateLine' /\ \A u \in Callers : RunLine(u)'
  BY DEF LineStands
<1>2. left'.fail = left.fail /\ GateLine /\ \A u \in Callers : RunLine(u)
  BY <1>1, FailsNext DEF StampInv, LineStands
<1>3. CASE \E t \in Callers : RunStep(t)
  BY <1>1, <1>2, <1>3, RunStepLine
<1>4. CASE HourEnds \/ Compile \/ SetupDone \/ Unload \/ UNCHANGED vars
  <2>1. UNCHANGED <<place, newest, gate, pc, job>>
    BY <1>1, <1>4, Stuttering DEF HourEnds, Compile, SetupDone, Unload, entry, tasks
  <2>2. \A k \in Keys, h \in HourSet : line'[k][h] \in {None, Live, line[k][h]}
    <3>1. CASE Compile
      <4>1. \/ line' = line
            \/ line' = [k \in Keys |-> IF state = "loaded" /\ k \in registered
                                       THEN [line[k] EXCEPT ![compiled] = Live] ELSE line[k]]
        BY <3>1 DEF Compile
      <4>2. line \in [Keys -> [HourSet -> {None, Live} \cup Rates]]
        BY <1>1 DEF PriceType
      <4> QED
        BY <4>1, <4>2
    <3>2. CASE HourEnds \/ SetupDone \/ Unload \/ UNCHANGED vars
      BY <1>1, <3>2, Stuttering DEF HourEnds, SetupDone, Unload, recorder
    <3> QED
      BY <1>4, <3>1, <3>2
  <2>3. "setup" \in Callers
    BY DEF Callers
  <2> QED
    BY <1>1, <1>2, <2>1, <2>2, <2>3, LineKeeps
<1>5. CASE SetupStarts \/ Reconfigure \/ \E t \in Ticks : Refresh(t)
  <2>1. UNCHANGED <<line, gate>>
    BY <1>5 DEF SetupStarts, Reconfigure, Refresh, recorder
  <2>2. \A u \in Callers : Busy(u)' => Busy(u) /\ pc'[u] = pc[u] /\ job'[u] = job[u]
    BY <1>1, <1>5, NoneBegins
  <2>3. gate # None /\ Current(gate)' => Current(gate) /\ place' = place
    <3> SUFFICES ASSUME gate # None, Current(gate)'
                 PROVE  Current(gate) /\ place' = place
      OBVIOUS
    <3>1. gate \in Rates /\ Past(gate.place, rank) /\ gate.card <= newest[gate.place]
      BY <1>1 DEF PriceType, Known, GateKnown
    <3> QED
      BY <1>1, <1>5, <2>1, <3>1, CurrentWas DEF Current
  <2>4. ASSUME NEW u \in Callers, pc'[u] = "rows"
        PROVE  /\ pc[u] = "rows" /\ job'[u] = job[u]
               /\ Current(job[u].gate)' => Current(job[u].gate) /\ place' = place
    <3>1. Busy(u) /\ pc[u] = "rows" /\ job'[u] = job[u]
      BY <2>2, <2>4 DEF Busy
    <3>2. /\ job[u].gate \in Rates /\ Past(job[u].gate.place, rank)
          /\ job[u].gate.card <= newest[job[u].gate.place]
      BY <1>1, <3>1 DEF PriceType, JobType, Known, RunKnown
    <3> QED
      BY <1>1, <1>5, <3>1, <3>2, CurrentWas DEF Current
  <2>5. "setup" \in Callers
    BY DEF Callers
  <2> QED
    BY <1>2, <2>1, <2>3, <2>4, <2>5, LineUnread
<1>6. CASE Crash
  <2>1. UNCHANGED <<place, newest, gate, line>> /\ pc' = [t \in Callers |-> "idle"]
    BY <1>6 DEF Crash
  <2> QED
    BY <1>2, <2>1 DEF GateLine, RunLine, LineIs, Current
<1> QED
  BY <1>3, <1>4, <1>5, <1>6, StepIs

LEMMA StampInit ==
  ASSUME PriceAssumption, Init, NEW rank
  PROVE  StampInv(rank)
<1>1. PriceType /\ LostInv
  BY InitType, LostInit
<1>2. /\ FailsLeft /\ OneBusy /\ Setting /\ (\A t \in Callers : RunKnown(t, rank) /\ RunLine(t))
  <2>1. \A t \in Callers : pc[t] = "idle" /\ ~Busy(t)
    BY DEF Init, Busy
  <2>2. OneBusy /\ (\A t \in Callers : RunKnown(t, rank) /\ RunLine(t))
    BY <2>1 DEF OneBusy, RunKnown, RunLine
  <2>3. Setting
    BY <2>1 DEF Init, Setting, Callers
  <2>4. FailsLeft
    BY DEF Init, FailsLeft, PriceAssumption
  <2> QED
    BY <2>2, <2>3, <2>4
<1>3. DataKnown(rank) /\ GateKnown(rank)
  <2>1. CASE gate = None
    BY <2>1 DEF Init, DataKnown, GateKnown
  <2>2. CASE gate # None
    <3>1. gate \in Rates /\ gate.card \in Nat /\ gate.place = place /\ place \in Places
      BY <1>1, <2>2 DEF PriceType, Rates, PriceAssumption, Init
    <3>2. newest[gate.place] = gate.card
      BY <2>2, <3>1 DEF Init
    <3> QED
      BY <3>1, <3>2 DEF Init, DataKnown, GateKnown, Past
  <2> QED
    BY <2>1, <2>2
<1>4. GateLine
  BY <1>1, OperatorsKeys DEF Init, GateLine, LineIs
<1> QED
  BY <1>1, <1>2, <1>3, <1>4 DEF StampInv, Known, LineStands

LEMMA StampNext ==
  ASSUME PriceAssumption, ~Overlaps, NEW rank \in [Places -> Nat], StampInv(rank),
         [Next \/ Done]_vars, Onward(rank)
  PROVE  StampInv(rank)'
<1>1. PriceType /\ LostInv /\ FailsLeft /\ OneBusy /\ Setting /\ Known(rank)
  BY DEF StampInv, LostInv
<1>2. LostInv' /\ FailsLeft' /\ OneBusy' /\ Setting' /\ Known(rank)' /\ LineStands'
  BY <1>1, CompiledNext, FailsNext, OneBusyNext, SettingNext, KnownNext, LineStandsNext
<1> QED
  BY <1>2 DEF StampInv

LEMMA StampHolds ==
  ASSUME PriceAssumption, NEW rank, StampInv(rank)
  PROVE  StampedLineIsRight
<1> SUFFICES ASSUME Settled, Answered, NEW k \in Keys \cap Produces[place.utility],
                    NEW h \in HourSet, h >= From[gate.card]
             PROVE  line[k][h] \in {None, Live, [place |-> place, card |-> gate.card]}
  BY DEF StampedLineIsRight
<1>1. /\ state = "loaded" /\ ~reload /\ data # None /\ gate = GateNow
      /\ PriceType /\ Setting /\ Known(rank)
  BY DEF Settled, StampInv, LostInv
<1>2. gate = [place |-> place, card |-> data.card] /\ data.place = place
  BY <1>1, GateType DEF Setting
<1>3. gate # None /\ Current(gate)
  <2>1. gate.place = place /\ gate.card = data.card /\ data.card = newest[place]
    BY <1>1, <1>2 DEF Known, DataKnown
  <2>2. gate \in Rates
    BY <1>1, GateType
  <2>3. None \notin Rates
    BY DEF PriceAssumption
  <2> QED
    BY <2>1, <2>2, <2>3 DEF Current
<1>4. LineIs(gate, k)
  BY <1>3 DEF StampInv, LineStands, GateLine
<1>5. gate = [place |-> place, card |-> gate.card]
  BY <1>2
<1> QED
  BY <1>4, <1>5 DEF LineIs

\* Where runs do not overlap and the entry never returns to a place it has left,
\* a stamped gate is of the line under it: whatever was published, moved, failed
\* or was cut off on the way, the hours of its card hold no other rates
\* (statistics.py, async_maybe_backfill_once).
THEOREM StampedLineHolds ==
  ASSUME PriceAssumption, ~Overlaps, NEW CONSTANT rank \in [Places -> Nat]
  PROVE  Spec /\ [][Onward(rank)]_vars => []StampedLineIsRight
<1>1. Init => StampInv(rank)
  BY StampInit
<1>2. StampInv(rank) /\ [Next \/ Done]_vars /\ [Onward(rank)]_vars => StampInv(rank)'
  <2> SUFFICES ASSUME StampInv(rank), [Next \/ Done]_vars, [Onward(rank)]_vars
               PROVE  StampInv(rank)'
    OBVIOUS
  <2>1. Onward(rank)
    BY DEF Onward, vars, entry
  <2> QED
    BY <2>1, StampNext
<1>3. StampInv(rank) => StampedLineIsRight
  BY StampHolds
<1> QED
  BY <1>1, <1>2, <1>3, PTL DEF Spec

-----------------------------------------------------------------------------
(* What an operator leaves behind. The entry never returns to an operator  *)
(* it has left: each operator has a rank, and the entry only moves to one  *)
(* of a higher rank, or to another commune of the same operator.           *)

OnwardOperator(rank) ==
  place'.utility = place.utility \/ rank[place'.utility] > rank[place.utility]

\* Operator u is the entry's, or one it has left for good.
PastOperator(u, rank) == u = place.utility \/ rank[u] < rank[place.utility]

DataOf(rank) == data # None => PastOperator(data.place.utility, rank)

GateOf(rank) == gate # None => PastOperator(gate.place.utility, rank)

\* A run of the present operator has its data, and so does one beside its gate.
RunOf(t, rank) ==
  Busy(t) =>
    /\ PastOperator(job[t].gate.place.utility, rank)
    /\ gate # None /\ gate.place.utility = place.utility =>
         job[t].gate.place.utility = place.utility
    /\ job[t].gate.place.utility = place.utility =>
         /\ data # None => data.place.utility = place.utility
         /\ job[t].data # None => job[t].data.place.utility = place.utility

OperatorsKnown(rank) == DataOf(rank) /\ GateOf(rank) /\ \A t \in Callers : RunOf(t, rank)

LEMMA RunStepOf ==
  ASSUME PriceAssumption, ~Overlaps, PriceType, OneBusy, NEW rank, OperatorsKnown(rank),
         NEW t \in Callers, RunStep(t)
  PROVE  OperatorsKnown(rank)'
<1>1. /\ UNCHANGED <<place, data>> /\ Others(t)
      /\ \/ Ended(t)
         \/ /\ pc[t] = "due" /\ Alone /\ data # None
            /\ Busy(t)' /\ job'[t].gate = GateNow /\ job'[t].data \in {None, data}
         \/ /\ Busy(t) /\ Busy(t)' /\ job'[t].gate = job[t].gate
            /\ job'[t].data \in {job[t].data, data}
      /\ \/ gate' = gate
         \/ pc[t] = "rows" /\ Ended(t) /\ gate' = job[t].gate
  BY RunIs
<1>2. \A u : PastOperator(u, rank)' <=> PastOperator(u, rank)
  BY <1>1 DEF PastOperator
<1>3. DataOf(rank)'
  BY <1>1 DEF OperatorsKnown, DataOf, PastOperator
<1>4. GateOf(rank)'
  <2>1. CASE gate' = gate
    BY <1>1, <2>1 DEF OperatorsKnown, GateOf, PastOperator
  <2>2. CASE pc[t] = "rows" /\ gate' = job[t].gate
    BY <1>1, <2>2 DEF OperatorsKnown, RunOf, Busy, GateOf, PastOperator
  <2> QED
    BY <1>1, <2>1, <2>2
<1>5. ASSUME NEW u \in Callers, u # t
      PROVE  RunOf(u, rank)'
  <2> SUFFICES ASSUME Busy(u)'
               PROVE  RunOf(u, rank)'
    BY DEF RunOf
  <2>1. Busy(u) /\ job'[u] = job[u]
    BY <1>1, <1>5 DEF Others, Busy
  <2>2. gate' = gate
    BY <1>1, <1>5, <2>1 DEF OneBusy, Busy
  <2> QED
    BY <1>1, <2>1, <2>2 DEF OperatorsKnown, RunOf, PastOperator
<1>6. RunOf(t, rank)'
  <2>1. CASE Ended(t)
    BY <2>1, RunBusy DEF RunOf
  <2>2. CASE /\ Alone /\ data # None /\ gate' = gate
             /\ Busy(t)' /\ job'[t].gate = GateNow /\ job'[t].data \in {None, data}
    <3>1. job'[t].gate.place = place /\ data.place = place
      BY <2>2, GateType DEF Alone
    <3> QED
      BY <1>1, <2>2, <3>1 DEF RunOf, PastOperator
  <2>3. CASE /\ Busy(t) /\ job'[t].gate = job[t].gate
             /\ job'[t].data \in {job[t].data, data} /\ gate' = gate
    BY <1>1, <2>3 DEF OperatorsKnown, RunOf, PastOperator
  <2> QED
    BY <1>1, <2>1, <2>2, <2>3
<1> QED
  BY <1>3, <1>4, <1>5, <1>6 DEF OperatorsKnown

\* The data of another card of the place is of the same operator.
LEMMA OperatorsKnownNext ==
  ASSUME PriceAssumption, ~Overlaps, PriceType, OneBusy,
         NEW rank \in [Utilities -> Nat], OperatorsKnown(rank), [Next \/ Done]_vars,
         OnwardOperator(rank)
  PROVE  OperatorsKnown(rank)'
<1>1. CASE \E t \in Callers : RunStep(t)
  BY <1>1, RunStepOf
<1>2. CASE ~\E t \in Callers : RunStep(t)
  <2>1. /\ \A u \in Callers : Busy(u)' => Busy(u) /\ job'[u] = job[u]
        /\ gate' = gate
    BY <1>2, NoneBegins, StepIs
  <2>2. CASE Reconfigure
    <3>1. place \in Places /\ place' \in Places /\ data' = data
      BY <2>2 DEF Reconfigure, PriceType
    <3>2. /\ place.utility \in Utilities /\ place'.utility \in Utilities
          /\ \A p \in Places : p.utility \in Utilities
      BY <3>1 DEF Utilities
    <3>3. /\ data # None => data.place.utility \in Utilities
          /\ gate # None => gate.place.utility \in Utilities
          /\ \A u \in Callers : Busy(u) => job[u].gate.place.utility \in Utilities
      BY <3>2 DEF PriceType, JobType, Rates, Datas
    <3>4. CASE place'.utility = place.utility
      BY <2>1, <3>1, <3>4 DEF OperatorsKnown, DataOf, GateOf, RunOf, PastOperator
    <3>5. CASE place'.utility # place.utility
      <4>1. rank[place'.utility] > rank[place.utility]
        BY <3>5 DEF OnwardOperator
      <4>2. ASSUME NEW u \in Utilities, PastOperator(u, rank)
            PROVE  rank[u] < rank[place'.utility] /\ u # place'.utility
        <5>1. rank[u] \in Nat /\ rank[place.utility] \in Nat /\ rank[place'.utility] \in Nat
          BY <3>2
        <5> QED
          BY <4>1, <4>2, <5>1 DEF PastOperator
      <4>3. DataOf(rank)'
        BY <3>1, <3>3, <4>2 DEF OperatorsKnown, DataOf, PastOperator
      <4>4. /\ GateOf(rank)'
            /\ gate # None => gate.place.utility # place'.utility
        BY <2>1, <3>3, <4>2 DEF OperatorsKnown, GateOf, PastOperator
      <4>5. ASSUME NEW u \in Callers, Busy(u)'
            PROVE  RunOf(u, rank)'
        <5>1. Busy(u) /\ job'[u] = job[u]
          BY <2>1, <4>5
        <5>2. PastOperator(job[u].gate.place.utility, rank)
          BY <5>1 DEF OperatorsKnown, RunOf
        <5>3. /\ rank[job[u].gate.place.utility] < rank[place'.utility]
              /\ job[u].gate.place.utility # place'.utility
          BY <3>3, <4>2, <5>1, <5>2
        <5> QED
          BY <2>1, <4>4, <5>1, <5>3 DEF RunOf, PastOperator
      <4> QED
        BY <4>3, <4>4, <4>5 DEF OperatorsKnown, RunOf
    <3> QED
      BY <3>4, <3>5
  <2>3. CASE ~Reconfigure
    <3>1. /\ place' = place
          /\ data' # None => \/ data # None /\ data'.place = data.place
                             \/ data'.place = place
      <4>1. CASE SetupStarts
        BY <4>1, PublishType DEF SetupStarts, PriceType
      <4>2. ASSUME NEW t \in Ticks, Refresh(t)
            PROVE  place' = place /\ data # None /\ data'.place = data.place
        BY <4>2, PublishType DEF Refresh, PriceType, Datas
      <4>3. CASE HourEnds \/ Compile \/ SetupDone \/ Unload \/ Crash \/ UNCHANGED vars
        BY <4>3, Stuttering DEF HourEnds, Compile, SetupDone, Unload, Crash, entry
      <4> QED
        BY <1>2, <2>3, <4>1, <4>2, <4>3, StepIs
    <3>2. DataOf(rank)' /\ GateOf(rank)'
      BY <2>1, <3>1 DEF OperatorsKnown, DataOf, GateOf, PastOperator
    <3>3. ASSUME NEW u \in Callers, Busy(u)'
          PROVE  RunOf(u, rank)'
      BY <2>1, <3>1, <3>3 DEF OperatorsKnown, RunOf, PastOperator
    <3> QED
      BY <3>2, <3>3 DEF OperatorsKnown, RunOf
  <2> QED
    BY <2>2, <2>3
<1> QED
  BY <1>1, <1>2

\* The keys with an operator's rates, that a cleanup would find.
Held == {k \in Keys \ older : \E h \in HourSet : line[k][h] \notin {None, Live}}

\* The operator's setup is past the start of its run.
Swept == state = "loaded" \/ (state = "setup" /\ pc["setup"] # "due")

Ours == Produces[place.utility]

\* An entry never stamped holds nothing, but where a run writes.
Unwritten == gate = None /\ (\A t \in Callers : pc[t] # "rows") => \A k : k \notin Held

\* What is held, or will be, has an entity: a cleanup finds it.
HeldRegistered ==
  /\ \A k : k \in Held => k \in registered
  /\ \A t \in Callers : pc[t] = "rows" => \A k \in job[t].todo : k \in registered

\* A gate of the present operator was stamped over its own rows.
GateSwept ==
  gate # None /\ gate.place.utility = place.utility => \A k : k \in Held => k \in Ours

\* A run of the present operator has the others' keys left to clean at most.
RunSwept(t) ==
  Busy(t) /\ job[t].gate.place.utility = place.utility =>
    \A k : k \in Held => k \in Ours \/ (pc[t] = "orphans" /\ k \in job[t].todo)

\* What the setup's run has left: the rows of the operator the coordinator is of.
SetupSwept ==
  Swept => \A k : k \in Held => \/ k \in Produces[data.place.utility]
                                \/ pc["setup"] = "orphans" /\ k \in job["setup"].todo

\* A run writes for the operator the coordinator is of.
RunOperator(t) ==
  Swept /\ pc[t] \in {"until", "rows"} =>
    job[t].data.place.utility = data.place.utility

Accounted ==
  /\ Unwritten /\ HeldRegistered /\ GateSwept /\ SetupSwept
  /\ \A t \in Callers : RunSwept(t) /\ RunOperator(t)

LeftInv(rank) ==
  /\ LostInv /\ FailsLeft /\ OneBusy /\ Setting /\ OperatorsKnown(rank)
  /\ Answered /\ ~cut => Accounted

\* Rows kept, cleared or compiled leave no more than they found.
LEMMA HeldKeeps ==
  ASSUME older' = older,
         \A k \in Keys, h \in HourSet : line'[k][h] \in {None, Live, line[k][h]}
  PROVE  \A k : k \in Held' => k \in Held
BY DEF Held

LEMMA HeldSame == ASSUME older' = older, line' = line PROVE Held' = Held
BY DEF Held

\* A cleanup that was answered has cleared its key, or left it for older years'.
LEMMA HeldCleaned ==
  ASSUME PriceAssumption, PriceType, NEW k \in Keys, older' = older, Cleans(k, TRUE)
  PROVE  \A i : i \in Held' => i \in Held /\ i # k
<1>1. \A i : i \in Held' => i \in Held
  BY CleansType, HeldKeeps
<1>2. CASE k \in older
  BY <1>1, <1>2 DEF Held
<1>3. CASE k \notin older
  <2>1. line' = [line EXCEPT ![k] = [h \in HourSet |-> None]]
    BY <1>3 DEF Cleans, Clears
  <2>2. \A h \in HourSet : line'[k][h] = None
    BY <2>1 DEF PriceType
  <2> QED
    BY <1>1, <2>2 DEF Held
<1> QED
  BY <1>2, <1>3

LEMMA HeldWritten ==
  ASSUME PriceAssumption, PriceType, NEW t \in Callers, pc[t] = "rows", NEW k \in job[t].todo,
         older' = older, line' = [line EXCEPT ![k] = [h \in HourSet |-> Written(t, k, h)]]
  PROVE  \A i : i \in Held' => i \in Held \/ i = k
<1>1. \A i \in Keys : i # k => line'[i] = line[i]
  BY WrittenType
<1> QED
  BY <1>1 DEF Held

\* Nothing held is left behind a gate of the present operator.
LEMMA BeginSwept ==
  ASSUME PriceAssumption, PriceType, Accounted, data # None, data.place = place,
         \A u \in Callers : ~Busy(u)
  PROVE  /\ \A k : k \in Held => k \in Ours \/ k \in Orphans
         /\ ~(MovedOperator /\ Orphans # {}) => \A k : k \in Held => k \in Ours
<1>1. \A k : k \in Held => k \in Ours \/ k \in Orphans
  BY DEF Accounted, HeldRegistered, Orphans, Held, Ours
<1>2. CASE gate = None
  BY <1>1, <1>2 DEF Accounted, Unwritten, Busy
<1>3. CASE gate # None /\ ~MovedOperator
  BY <1>1, <1>3 DEF Accounted, GateSwept, MovedOperator
<1>4. CASE Orphans = {}
  BY <1>1, <1>4
<1> QED
  BY <1>1, <1>2, <1>3, <1>4

\* The steps that are no run's.
LEMMA EntryAccounted ==
  ASSUME PriceAssumption, PriceType, Setting, NEW rank \in [Utilities -> Nat],
         OperatorsKnown(rank), OnwardOperator(rank), Accounted, ~cut',
         \/ HourEnds \/ Compile \/ SetupStarts \/ SetupDone \/ Reconfigure \/ Unload \/ Crash
         \/ (\E t \in Ticks : Refresh(t)) \/ UNCHANGED vars
  PROVE  Accounted'
<1>1. /\ \A u \in Callers : Busy(u)' => Busy(u) /\ pc'[u] = pc[u] /\ job'[u] = job[u]
      /\ gate' = gate
  BY NoneBegins
<1>2. older' = older
  BY Stuttering DEF HourEnds, Compile, SetupStarts, SetupDone, Reconfigure, Unload, Crash,
                    Refresh, recorder
<1>3. \A k : k \in Held' => k \in Held
  <2>1. CASE Compile
    <3>1. \/ line' = line
          \/ line' = [k \in Keys |-> IF state = "loaded" /\ k \in registered
                                     THEN [line[k] EXCEPT ![compiled] = Live] ELSE line[k]]
      BY <2>1 DEF Compile
    <3>2. line \in [Keys -> [HourSet -> {None, Live} \cup Rates]]
      BY DEF PriceType
    <3>3. \A k \in Keys, h \in HourSet : line'[k][h] \in {None, Live, line[k][h]}
      BY <3>1, <3>2
    <3> QED
      BY <1>2, <3>3, HeldKeeps
  <2>2. CASE ~Compile
    <3>1. line' = line
      BY <2>2, Stuttering DEF HourEnds, SetupStarts, SetupDone, Reconfigure, Unload, Crash,
                              Refresh, recorder
    <3> QED
      BY <1>2, <3>1, HeldSame
  <2> QED
    BY <2>1, <2>2
<1>4. Unwritten'
  <2>1. CASE Crash
    <3>1. gate = None => \A t \in Callers : pc[t] # "rows"
      BY <2>1 DEF Crash
    <3> QED
      BY <1>1, <1>3, <3>1 DEF Accounted, Unwritten
  <2>2. CASE ~Crash
    <3>1. \A t \in Callers : pc[t] = "rows" => pc'[t] = "rows"
      <4>1. CASE SetupStarts
        BY <4>1 DEF SetupStarts, PriceType
      <4>2. ASSUME NEW t \in Ticks, Refresh(t)
            PROVE  \A u \in Callers : pc[u] = "rows" => pc'[u] = "rows"
        BY <4>2 DEF Refresh, PriceType
      <4>3. CASE HourEnds \/ Compile \/ SetupDone \/ Reconfigure \/ Unload \/ UNCHANGED vars
        BY <4>3, Stuttering DEF HourEnds, Compile, SetupDone, Reconfigure, Unload, tasks
      <4> QED
        BY <2>2, <4>1, <4>2, <4>3
    <3> QED
      BY <1>1, <1>3, <3>1 DEF Accounted, Unwritten
  <2> QED
    BY <2>1, <2>2
<1>5. HeldRegistered'
  <2>1. \A t \in Callers : pc'[t] = "rows" => Busy(t)' /\ pc[t] = "rows" /\ job'[t] = job[t]
    BY <1>1 DEF Busy
  <2>2. CASE SetupDone
    <3>1. /\ state = "setup" /\ pc["setup"] = "idle"
          /\ registered' = registered \cap Produces[place.utility]
      BY <2>2 DEF SetupDone
    <3>2. Swept /\ data.place = place
      BY <3>1 DEF Swept, Setting
    <3>3. \A k : k \in Held => k \in registered'
      BY <3>1, <3>2 DEF Accounted, HeldRegistered, SetupSwept
    <3>4. ASSUME NEW t \in Callers, pc[t] = "rows", NEW k \in job[t].todo
          PROVE  k \in registered'
      <4>1. k \in Produces[job[t].data.place.utility]
        BY <3>4 DEF PriceType, JobType, Busy
      <4>2. job[t].data.place.utility = place.utility
        BY <3>2, <3>4 DEF Accounted, RunOperator
      <4> QED
        BY <3>1, <3>4, <4>1, <4>2 DEF Accounted, HeldRegistered
    <3> QED
      BY <1>3, <2>1, <3>3, <3>4 DEF HeldRegistered
  <2>3. CASE ~SetupDone
    <3>1. \A k : k \in registered => k \in registered'
      BY <2>3, Stuttering DEF HourEnds, Compile, SetupStarts, AddedAtSetup, Reconfigure, Unload,
                              Crash, Refresh, entry
    <3> QED
      BY <1>3, <2>1, <3>1 DEF Accounted, HeldRegistered
  <2> QED
    BY <2>2, <2>3
<1>6. GateSwept' /\ \A t \in Callers : RunSwept(t)'
  <2>1. place' = place \/ Reconfigure
    BY Stuttering DEF HourEnds, Compile, SetupStarts, SetupDone, Unload, Crash, Refresh, entry
  <2>2. \A u \in Utilities : PastOperator(u, rank) /\ u = place'.utility => u = place.utility
    <3>1. place \in Places /\ place' \in Places
      BY <2>1 DEF Reconfigure, PriceType
    <3>2. rank[place.utility] \in Nat /\ rank[place'.utility] \in Nat
      BY <3>1 DEF Utilities
    <3> QED
      BY <3>2 DEF PastOperator, OnwardOperator
  <2>3. /\ gate # None => gate.place.utility \in Utilities
        /\ \A u \in Callers : Busy(u) => job[u].gate.place.utility \in Utilities
    BY DEF PriceType, JobType, Rates, Utilities
  <2>4. GateSwept'
    BY <1>1, <1>3, <2>2, <2>3 DEF Accounted, GateSwept, OperatorsKnown, GateOf, Ours
  <2>5. ASSUME NEW t \in Callers, Busy(t)'
        PROVE  RunSwept(t)'
    <3>1. Busy(t) /\ pc'[t] = pc[t] /\ job'[t] = job[t]
      BY <1>1, <2>5
    <3>2. job[t].gate.place.utility = place'.utility =>
            job[t].gate.place.utility = place.utility
      BY <2>2, <2>3, <3>1 DEF OperatorsKnown, RunOf
    <3> QED
      BY <1>3, <3>1, <3>2 DEF Accounted, RunSwept, Ours
  <2> QED
    BY <2>4, <2>5 DEF RunSwept
<1>7. SetupSwept' /\ \A t \in Callers : RunOperator(t)'
  <2> SUFFICES ASSUME Swept'
               PROVE  SetupSwept' /\ \A t \in Callers : RunOperator(t)'
    BY DEF SetupSwept, RunOperator
  <2>1. /\ Swept /\ data'.place = data.place
        /\ pc'["setup"] = pc["setup"] /\ job' = job
        /\ \A t \in Callers : pc'[t] \in {"until", "rows"} => pc'[t] = pc[t]
    <3>0. "setup" \in Callers /\ "setup" \notin Ticks
      BY DEF Callers, PriceAssumption
    <3>1. CASE HourEnds \/ Compile \/ Reconfigure \/ UNCHANGED vars
      BY <3>1, Stuttering DEF HourEnds, Compile, Reconfigure, entry, tasks, Swept
    <3>2. CASE SetupDone
      BY <3>2 DEF SetupDone, tasks, Swept
    <3>3. CASE SetupStarts
      BY <3>0, <3>3 DEF SetupStarts, Swept, PriceType
    <3>4. CASE Unload \/ Crash
      BY <3>4 DEF Unload, Crash, Swept
    <3>5. ASSUME NEW t \in Ticks, Refresh(t)
          PROVE  /\ Swept /\ data'.place = data.place
                 /\ pc'["setup"] = pc["setup"] /\ job' = job
                 /\ \A u \in Callers : pc'[u] \in {"until", "rows"} => pc'[u] = pc[u]
      <4>1. /\ state = "loaded" /\ Publish(data.place) /\ job' = job
            /\ pc' = [pc EXCEPT ![t] = "due"]
        BY <3>5 DEF Refresh
      <4>2. data'.place = data.place
        BY <4>1, PublishType DEF PriceType, Datas
      <4> QED
        BY <3>0, <4>1, <4>2 DEF Swept, PriceType
    <3> QED
      BY <3>1, <3>2, <3>3, <3>4, <3>5
  <2> QED
    BY <1>3, <2>1 DEF Accounted, SetupSwept, RunOperator
<1> QED
  BY <1>4, <1>5, <1>6, <1>7 DEF Accounted

\* A run that is alone is the only one whose place the line depends on.
LEMMA OthersAccounted ==
  ASSUME PriceType, OneBusy, Accounted, NEW t \in Callers, Others(t),
         UNCHANGED <<place, state, data>>, Busy(t) \/ \A u \in Callers : ~Busy(u)
  PROVE  \A u \in Callers : u # t => /\ RunSwept(u)' /\ RunOperator(u)'
                                     /\ pc[u] # "rows" /\ pc'[u] # "rows"
                                     /\ pc[u] # "orphans" /\ pc'[u] # "orphans"
<1> SUFFICES ASSUME NEW u \in Callers, u # t
             PROVE  /\ RunSwept(u)' /\ RunOperator(u)'
                    /\ pc[u] # "rows" /\ pc'[u] # "rows"
                    /\ pc[u] # "orphans" /\ pc'[u] # "orphans"
  OBVIOUS
<1>1. ~Busy(u) /\ pc'[u] = pc[u]
  BY DEF OneBusy, Others
<1> QED
  BY <1>1 DEF RunSwept, RunOperator, Busy

LEMMA BeginAccounted ==
  ASSUME PriceAssumption, ~Overlaps, PriceType, OneBusy, Setting, Accounted,
         NEW t \in Callers, Begin(t)
  PROVE  Accounted'
<1>1. /\ pc[t] = "due" /\ Alone /\ UNCHANGED <<entry, recorder>> /\ Others(t)
      /\ \/ /\ gate = GateNow \/ ~(MovedOperator /\ data # None /\ Orphans # {})
            /\ Ended(t)
         \/ /\ data # None
            /\ pc'[t] = "orphans"
            /\ job'[t] = [gate |-> GateNow, data |-> None, end |-> 0, todo |-> Orphans]
         \/ ~(MovedOperator /\ data # None /\ Orphans # {}) /\ GoesOn(t, GateNow)
  BY BeginIs
<1>2. /\ UNCHANGED <<place, gate, state, data, registered>> /\ Held' = Held
      /\ \A u \in Callers : ~Busy(u)
  BY <1>1, HeldSame DEF entry, recorder, Alone
<1>3. /\ data # None => data.place = place
      /\ data # None => \A k : k \in Held => k \in Ours \/ k \in Orphans
      /\ data # None /\ ~(MovedOperator /\ Orphans # {}) => \A k : k \in Held => k \in Ours
  BY <1>1, <1>2, BeginSwept DEF Alone
<1>4. \A u \in Callers : u # t => /\ RunSwept(u)' /\ RunOperator(u)'
                                  /\ pc[u] # "rows" /\ pc'[u] # "rows"
                                  /\ pc[u] # "orphans" /\ pc'[u] # "orphans"
  BY <1>1, <1>2, OthersAccounted
<1>5. pc'[t] # "rows"
  BY <1>1 DEF Ended, GoesOn
<1>6. Unwritten' /\ HeldRegistered' /\ GateSwept'
  BY <1>1, <1>2, <1>4, <1>5
     DEF Accounted, Unwritten, HeldRegistered, GateSwept, Ours
<1>7. RunSwept(t)'
  <2>1. CASE Ended(t)
    BY <2>1, RunBusy DEF RunSwept
  <2>2. CASE /\ data # None
             /\ pc'[t] = "orphans"
             /\ job'[t] = [gate |-> GateNow, data |-> None, end |-> 0, todo |-> Orphans]
    BY <1>2, <1>3, <2>2 DEF RunSwept, Ours
  <2>3. CASE ~(MovedOperator /\ data # None /\ Orphans # {}) /\ GoesOn(t, GateNow)
    BY <1>2, <1>3, <2>3 DEF RunSwept, Ours, GoesOn
  <2> QED
    BY <1>1, <2>1, <2>2, <2>3
<1>8. RunOperator(t)'
  BY <1>1, <1>2 DEF RunOperator, Ended, GoesOn
<1>9. SetupSwept'
  <2>1. CASE t # "setup"
    <3>1. "setup" \in Callers
      BY DEF Callers
    <3>2. pc'["setup"] = pc["setup"] /\ pc["setup"] # "orphans"
      BY <1>1, <1>4, <2>1, <3>1 DEF Others
    <3> QED
      BY <1>2, <3>2 DEF Accounted, SetupSwept, Swept
  <2>2. CASE t = "setup"
    <3>1. state = "setup" /\ data # None /\ data.place = place
      BY <1>1, <1>3, <2>2 DEF Setting, PriceType
    <3>2. CASE Ended(t)
      <4>1. gate = GateNow => ~MovedOperator
        BY <3>1, GateType DEF MovedOperator
      <4>2. \A k : k \in Held => k \in Ours
        BY <1>1, <1>3, <3>1, <3>2, <4>1 DEF Ended
      <4> QED
        BY <1>2, <3>1, <4>2 DEF SetupSwept, Ours
    <3>3. CASE /\ pc'[t] = "orphans"
               /\ job'[t] = [gate |-> GateNow, data |-> None, end |-> 0, todo |-> Orphans]
      BY <1>2, <1>3, <2>2, <3>1, <3>3 DEF SetupSwept, Ours
    <3>4. CASE ~(MovedOperator /\ data # None /\ Orphans # {}) /\ GoesOn(t, GateNow)
      BY <1>2, <1>3, <3>1, <3>4 DEF SetupSwept, Ours
    <3> QED
      BY <1>1, <3>2, <3>3, <3>4
  <2> QED
    BY <2>1, <2>2
<1> QED
  BY <1>4, <1>6, <1>7, <1>8, <1>9 DEF Accounted

LEMMA CleanOrphanAccounted ==
  ASSUME PriceAssumption, PriceType, OneBusy, Setting, Accounted,
         NEW t \in Callers, CleanOrphan(t), left'.fail = left.fail
  PROVE  Accounted'
<1>1. /\ pc[t] = "orphans" /\ UNCHANGED <<place, gate, state, data, registered, older>>
      /\ Others(t)
  BY CleanOrphanIs DEF entry
<1>2. PICK k \in job[t].todo :
        /\ \E told \in BOOLEAN : Cleans(k, told)
        /\ \/ /\ pc'[t] = "orphans"
              /\ job'[t] = [gate |-> job[t].gate, data |-> None, end |-> 0,
                            todo |-> job[t].todo \ {k}]
           \/ job[t].todo = {k} /\ (Ended(t) \/ GoesOn(t, job[t].gate))
  BY CleanOrphanIs
<1>3. k \in Keys
  BY <1>1 DEF PriceType, JobType, Busy
<1>4. Cleans(k, TRUE)
  <2>1. PICK told \in BOOLEAN : Cleans(k, told)
    BY <1>2
  <2>2. left.fail \in Nat /\ (~told => left'.fail < left.fail)
    BY <1>3, <2>1, CleansType DEF PriceType
  <2>3. told
    BY <2>2
  <2>4. told = TRUE
    BY <2>1, <2>3
  <2> QED
    BY <2>1, <2>4
<1>5. \A i : i \in Held' => i \in Held /\ i # k
  BY <1>1, <1>3, <1>4, HeldCleaned
<1>6. \A u \in Callers : u # t => /\ RunSwept(u)' /\ RunOperator(u)'
                                  /\ pc[u] # "rows" /\ pc'[u] # "rows"
                                  /\ pc[u] # "orphans" /\ pc'[u] # "orphans"
  BY <1>1, OthersAccounted DEF Busy
<1>7. pc'[t] # "rows" /\ Busy(t)
  BY <1>1, <1>2 DEF Ended, GoesOn, Busy
<1>8. Unwritten' /\ HeldRegistered' /\ GateSwept'
  <2>1. \A u \in Callers : pc[u] # "rows" /\ pc'[u] # "rows"
    BY <1>1, <1>6, <1>7
  <2> QED
    BY <1>1, <1>5, <2>1 DEF Accounted, Unwritten, HeldRegistered, GateSwept, Ours
<1>9. RunSwept(t)'
  <2>1. CASE Ended(t)
    BY <2>1, RunBusy DEF RunSwept
  <2>2. CASE /\ pc'[t] = "orphans"
             /\ job'[t] = [gate |-> job[t].gate, data |-> None, end |-> 0,
                           todo |-> job[t].todo \ {k}]
    BY <1>1, <1>5, <1>7, <2>2 DEF Accounted, RunSwept, Ours
  <2>3. CASE job[t].todo = {k} /\ GoesOn(t, job[t].gate)
    BY <1>1, <1>5, <1>7, <2>3 DEF Accounted, RunSwept, Ours, GoesOn
  <2> QED
    BY <1>2, <2>1, <2>2, <2>3
<1>10. RunOperator(t)'
  BY <1>1, <1>2 DEF RunOperator, Ended, GoesOn
<1>11. SetupSwept'
  <2>1. CASE t # "setup"
    <3>1. "setup" \in Callers
      BY DEF Callers
    <3>2. pc'["setup"] = pc["setup"] /\ pc["setup"] # "orphans"
      BY <1>1, <1>6, <2>1, <3>1 DEF Others
    <3> QED
      BY <1>1, <1>5, <3>2 DEF Accounted, SetupSwept, Swept
  <2>2. CASE t = "setup"
    <3>1. Swept /\ data' = data
      BY <1>1, <2>2 DEF Setting, Swept
    <3>2. \A i : i \in Held' => \/ i \in Produces[data.place.utility]
                                \/ i \in job[t].todo /\ i # k
      BY <1>5, <2>2, <3>1 DEF Accounted, SetupSwept
    <3> QED
      BY <1>2, <2>2, <3>1, <3>2 DEF SetupSwept
  <2> QED
    BY <2>1, <2>2
<1> QED
  BY <1>6, <1>8, <1>9, <1>10, <1>11 DEF Accounted

LEMMA ReadsAccounted ==
  ASSUME PriceAssumption, PriceType, OneBusy, Setting, Accounted,
         NEW t \in Callers, ReadMarker(t) \/ MarkerUnread(t)
  PROVE  Accounted'
<1>1. pc[t] = "until" /\ Others(t) /\ UNCHANGED <<entry, recorder>>
  BY ReadsType
<1>2. /\ UNCHANGED <<place, gate, state, data, registered>> /\ Held' = Held /\ Busy(t)
  BY <1>1, HeldSame DEF entry, recorder, Busy
<1>3. PICK end : Plan(t, end)
  BY DEF ReadMarker, MarkerUnread
<1>4. \/ Ended(t)
      \/ /\ pc'[t] = "rows"
         /\ job'[t] = [gate |-> job[t].gate, data |-> job[t].data, end |-> end,
                       todo |-> registered \cap Produces[job[t].data.place.utility]]
  BY <1>1, <1>3, PlanIs
<1>5. \A u \in Callers : u # t => /\ RunSwept(u)' /\ RunOperator(u)'
                                  /\ pc[u] # "rows" /\ pc'[u] # "rows"
                                  /\ pc[u] # "orphans" /\ pc'[u] # "orphans"
  BY <1>1, <1>2, OthersAccounted
<1>6. Unwritten' /\ GateSwept'
  <2>1. \A u \in Callers : pc[u] # "rows"
    BY <1>1, <1>5
  <2> QED
    BY <1>2, <2>1 DEF Accounted, Unwritten, GateSwept, Ours
<1>7. HeldRegistered'
  BY <1>2, <1>4, <1>5 DEF Accounted, HeldRegistered, Ended
<1>8. RunSwept(t)' /\ RunOperator(t)'
  <2>1. CASE Ended(t)
    BY <2>1, RunBusy DEF RunSwept, RunOperator, Ended
  <2>2. CASE /\ pc'[t] = "rows"
             /\ job'[t] = [gate |-> job[t].gate, data |-> job[t].data, end |-> end,
                           todo |-> registered \cap Produces[job[t].data.place.utility]]
    <3>1. Swept' => Swept
      BY <1>1, <1>2 DEF Swept, Setting, Others, Callers
    <3> QED
      BY <1>1, <1>2, <2>2, <3>1 DEF Accounted, RunSwept, RunOperator, Ours
  <2> QED
    BY <1>4, <2>1, <2>2
<1>9. SetupSwept'
  <2>1. "setup" \in Callers
    BY DEF Callers
  <2>2. pc["setup"] # "orphans"
    BY <1>1, <1>5, <2>1
  <2>3. Swept' => Swept
    BY <1>1, <1>2, <2>1 DEF Swept, Others
  <2> QED
    BY <1>2, <2>2, <2>3 DEF Accounted, SetupSwept
<1> QED
  BY <1>5, <1>6, <1>7, <1>8, <1>9 DEF Accounted

LEMMA WriteKeyAccounted ==
  ASSUME PriceAssumption, PriceType, OneBusy, Setting, Accounted, NEW rank, OperatorsKnown(rank),
         NEW t \in Callers, WriteKey(t)
  PROVE  Accounted'
<1>1. /\ pc[t] = "rows" /\ Others(t) /\ UNCHANGED <<place, state, data, registered, older>>
  BY WriteKeyIs
<1>2. PICK k \in job[t].todo :
        /\ line' = [line EXCEPT ![k] = [h \in HourSet |-> Written(t, k, h)]]
        /\ \/ /\ pc'[t] = "rows"
              /\ job'[t] = [gate |-> job[t].gate, data |-> job[t].data,
                            end |-> job[t].end, todo |-> job[t].todo \ {k}]
              /\ gate' = gate
           \/ Ended(t) /\ gate' = job[t].gate
  BY WriteKeyIs
<1>3. \A i : i \in Held' => i \in Held \/ i = k
  BY <1>1, <1>2, HeldWritten
<1>4. /\ Busy(t) /\ job[t].data # None /\ job[t].gate \in Rates
      /\ k \in Produces[job[t].data.place.utility] /\ k \in registered
  BY <1>1 DEF PriceType, JobType, Busy, Accounted, HeldRegistered
<1>5. \A u \in Callers : u # t => /\ RunSwept(u)' /\ RunOperator(u)'
                                  /\ pc[u] # "rows" /\ pc'[u] # "rows"
                                  /\ pc[u] # "orphans" /\ pc'[u] # "orphans"
  BY <1>1, <1>4, OthersAccounted
<1>6. job[t].gate.place.utility = place.utility => \A i : i \in Held' => i \in Ours
  <2>1. job[t].gate.place.utility = place.utility => k \in Ours
    BY <1>4 DEF OperatorsKnown, RunOf, Ours
  <2> QED
    BY <1>1, <1>3, <1>4, <2>1 DEF Accounted, RunSwept
<1>7. Unwritten'
  <2>1. CASE pc'[t] = "rows"
    BY <2>1 DEF Unwritten
  <2>2. CASE gate' = job[t].gate
    BY <1>4, <2>2 DEF Unwritten, PriceAssumption
  <2> QED
    BY <1>2, <2>1, <2>2
<1>8. HeldRegistered'
  BY <1>1, <1>2, <1>3, <1>4, <1>5 DEF Accounted, HeldRegistered, Ended
<1>9. GateSwept'
  <2>1. gate' # None /\ gate'.place.utility = place.utility =>
          job[t].gate.place.utility = place.utility
    BY <1>2, <1>4 DEF OperatorsKnown, RunOf
  <2> QED
    BY <1>1, <1>6, <2>1 DEF GateSwept, Ours
<1>10. RunSwept(t)'
  <2>1. CASE Ended(t)
    BY <2>1, RunBusy DEF RunSwept
  <2>2. CASE job'[t].gate = job[t].gate
    BY <1>1, <1>6, <2>2 DEF RunSwept, Ours
  <2> QED
    BY <1>2, <2>1, <2>2
<1>11. Swept' => Swept
  BY <1>1 DEF Swept, Setting, Others, Callers
<1>12. RunOperator(t)'
  <2>1. CASE Ended(t)
    BY <2>1 DEF RunOperator, Ended
  <2>2. CASE job'[t].data = job[t].data
    BY <1>1, <1>11, <2>2 DEF Accounted, RunOperator
  <2> QED
    BY <1>2, <2>1, <2>2
<1>13. SetupSwept'
  <2> SUFFICES ASSUME Swept', NEW i \in Held'
               PROVE  i \in Produces[data.place.utility]
    BY <1>1 DEF SetupSwept
  <2>1. "setup" \in Callers
    BY DEF Callers
  <2>2. pc["setup"] # "orphans"
    BY <1>1, <1>5, <2>1
  <2>3. job[t].data.place.utility = data.place.utility
    BY <1>1, <1>11 DEF Accounted, RunOperator
  <2>4. i \in Held => i \in Produces[data.place.utility]
    BY <1>11, <2>2 DEF Accounted, SetupSwept
  <2> QED
    BY <1>3, <1>4, <2>3, <2>4
<1> QED
  BY <1>5, <1>7, <1>8, <1>9, <1>10, <1>12, <1>13 DEF Accounted

LEMMA LeftInit ==
  ASSUME PriceAssumption, Init, NEW rank
  PROVE  LeftInv(rank)
<1>1. LostInv /\ FailsLeft /\ OneBusy /\ Setting
  BY StampInit DEF StampInv
<1>2. \A t \in Callers : pc[t] = "idle" /\ ~Busy(t)
  BY DEF Init, Busy
<1>3. OperatorsKnown(rank)
  <2>1. gate # None => gate.place = place
    BY DEF Init
  <2> QED
    BY <1>2, <2>1 DEF Init, OperatorsKnown, DataOf, GateOf, RunOf, PastOperator
<1>4. \A k : k \notin Held
  BY DEF Init, Held
<1>5. Accounted
  BY <1>2, <1>4 DEF Accounted, Unwritten, HeldRegistered, GateSwept, SetupSwept, RunSwept,
                    RunOperator
<1> QED
  BY <1>1, <1>3, <1>5 DEF LeftInv

LEMMA LeftNext ==
  ASSUME PriceAssumption, ~Overlaps, NEW rank \in [Utilities -> Nat], LeftInv(rank),
         [Next \/ Done]_vars, OnwardOperator(rank)
  PROVE  LeftInv(rank)'
<1>1. PriceType /\ LostInv /\ FailsLeft /\ OneBusy /\ Setting /\ OperatorsKnown(rank)
  BY DEF LeftInv, LostInv
<1>2. LostInv' /\ FailsLeft' /\ OneBusy' /\ Setting' /\ OperatorsKnown(rank)'
  BY <1>1, CompiledNext, FailsNext, OneBusyNext, SettingNext, OperatorsKnownNext
<1>3. ASSUME Answered', ~cut'
      PROVE  Accounted'
  <2>1. Answered /\ left'.fail = left.fail
    BY <1>1, <1>3, FailsNext
  <2>2. CASE ~\E t \in Callers : RunStep(t)
    <3>1. \/ HourEnds \/ Compile \/ SetupStarts \/ SetupDone \/ Reconfigure \/ Unload \/ Crash
          \/ (\E t \in Ticks : Refresh(t)) \/ UNCHANGED vars
      BY <2>2, StepIs
    <3>2. ~cut
      <4>1. CASE Crash
        BY <1>3, <4>1 DEF Crash
      <4>2. CASE ~Crash
        <5>1. cut' = cut
          BY <1>1, <3>1, <4>2, Stuttering
             DEF HourEnds, Compile, SetupStarts, SetupDone, Reconfigure, Unload, Refresh, recorder
        <5> QED
          BY <1>3, <5>1
      <4> QED
        BY <4>1, <4>2
    <3>3. Accounted
      BY <2>1, <3>2 DEF LeftInv
    <3> QED
      BY <1>1, <1>3, <3>1, <3>3, EntryAccounted
  <2>3. ASSUME NEW t \in Callers, RunStep(t)
        PROVE  Accounted'
    <3>1. cut' = cut
      BY <1>1, <2>3, RunIs
    <3>2. Accounted
      BY <1>3, <2>1, <3>1 DEF LeftInv
    <3> QED
      BY <1>1, <2>1, <2>3, <3>2, BeginAccounted, CleanOrphanAccounted, ReadsAccounted,
         WriteKeyAccounted DEF RunStep
  <2> QED
    BY <2>2, <2>3
<1> QED
  BY <1>2, <1>3 DEF LeftInv

LEMMA LeftHolds ==
  ASSUME PriceAssumption, NEW rank, LeftInv(rank)
  PROVE  NothingLeftBehind
<1> SUFFICES ASSUME Settled, Answered, ~cut,
                    NEW k \in Keys \ (Produces[place.utility] \cup older), NEW h \in HourSet
             PROVE  line[k][h] \in {None, Live}
  BY DEF NothingLeftBehind
<1>1. data # None /\ gate = GateNow /\ PriceType /\ Accounted
  BY DEF Settled, LeftInv, LostInv
<1>2. gate \in Rates /\ gate.place = place
  BY <1>1, GateType
<1>3. gate # None
  BY <1>2 DEF PriceAssumption
<1>4. k \notin Held
  BY <1>1, <1>2, <1>3 DEF Accounted, GateSwept, Ours
<1> QED
  BY <1>4 DEF Held

\* Where runs do not overlap and the entry never returns to an operator it has
\* left, none leaves its rows behind: the cleanup finds them all, whatever was
\* published, reloaded or cut off, but for a crash before the first stamp
\* (statistics.py, async_maybe_backfill_once).
THEOREM NoRowsAreLeftBehind ==
  ASSUME PriceAssumption, ~Overlaps, NEW CONSTANT rank \in [Utilities -> Nat]
  PROVE  Spec /\ [][OnwardOperator(rank)]_vars => []NothingLeftBehind
<1>1. Init => LeftInv(rank)
  BY LeftInit
<1>2. LeftInv(rank) /\ [Next \/ Done]_vars /\ [OnwardOperator(rank)]_vars => LeftInv(rank)'
  <2> SUFFICES ASSUME LeftInv(rank), [Next \/ Done]_vars, [OnwardOperator(rank)]_vars
               PROVE  LeftInv(rank)'
    OBVIOUS
  <2>1. OnwardOperator(rank)
    BY DEF OnwardOperator, vars, entry
  <2> QED
    BY <2>1, LeftNext
<1>3. LeftInv(rank) => NothingLeftBehind
  BY LeftHolds
<1> QED
  BY <1>1, <1>2, <1>3, PTL DEF Spec
=============================================================================
