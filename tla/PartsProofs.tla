---------------------------- MODULE PartsProofs -----------------------------
(***************************************************************************)
(* What a run of the year's rows leaves in the recorder, for any sensors,  *)
(* figures, hours, failures and restarts, when every run finds what the    *)
(* one before it queued worked off (Drains): one line, and a settled year  *)
(* written. The invariant follows the tasks that are queued: an import     *)
(* lands on the line its sensor's rows will be on once the adjustment just *)
(* ahead of it, if there is one, has moved them, and no other task of the  *)
(* sensor stands between.                                                  *)
(*                                                                         *)
(* And of MCParts: a behaviour of the parts side by side is one of the     *)
(* part's it has picked, so that what the other proof modules say of a     *)
(* part's own specification holds of every behaviour the run explores.     *)
(*                                                                         *)
(* And of the meter's year (DailyBuckets): a settled year counts no more   *)
(* than was drawn, and of a household's own meter no less but for its      *)
(* nights. The invariant says, of every stretch of days, where the meter   *)
(* and the readers may stand after a healthy day, a faulty one and the day *)
(* after it, and what the water that counts leaves of what was drawn.      *)
(***************************************************************************)
EXTENDS MCParts, TLAPS, WellFoundedInduction

\* What a row's total runs ahead of its figure: all rows of a line share it.
Offset(row) == row.sum - row.state

ImportRows == UNION {[0 .. end - 1 -> Row] : end \in Nat \ {0}}

YearTasks ==
  [op : {"adjust"}, sid : Sids, by : Int] \cup [op : {"import"}, sid : Sids, rows : ImportRows]

Reading == {"first", "year", "base", "anchor", "anchor5"}

YearType ==
  /\ since \in Periods /\ before \in Int \cup {None}
  /\ now \in Clock /\ marker \in Clock /\ since <= marker /\ marker <= now
  /\ short \in [Sids -> [Periods -> Row \cup {None}]]
  /\ hour \in [Sids -> [0 .. Hours - 1 -> Row \cup {None}]]
  /\ queue \in Seq(YearTasks)
  /\ pc \in {"idle", "until"} \cup Reading
  /\ run \in [end : 0 .. Hours, todo : Seq(Sids), wanted : Seq(Sids), base : Int]
  /\ settled \in BOOLEAN

Adjusts(i) == i \in DOMAIN queue /\ queue[i].op = "adjust"
Imports(i) == i \in DOMAIN queue /\ queue[i].op = "import"
Queued(s) == \E i \in DOMAIN queue : queue[i].sid = s

\* What the task ahead of the i-th has still to move its sensor's rows by.
Due(i) == IF Adjusts(i - 1) THEN queue[i - 1].by ELSE 0

\* An adjustment is followed by the import it is for, a sensor's only one.
Paired ==
  /\ \A i \in DOMAIN queue : Adjusts(i) => Imports(i + 1) /\ queue[i + 1].sid = queue[i].sid
  /\ \A i, j \in DOMAIN queue :
       Imports(i) /\ Imports(j) /\ queue[i].sid = queue[j].sid => i = j

\* An import's rows are on one line, the one the rows of its sensor will be on.
Lands ==
  \A i \in DOMAIN queue : Imports(i) =>
    \A h \in DOMAIN queue[i].rows :
      /\ \A g \in DOMAIN queue[i].rows : Offset(queue[i].rows[g]) = Offset(queue[i].rows[h])
      /\ \A row \in Held(queue[i].sid) : Offset(queue[i].rows[h]) = Offset(row) + Due(i)

\* Nothing is written of a sensor before the recorder has compiled a row of its own,
\* which the next one counts on from.
LiveFirst ==
  \A s \in Sids : Held(s) # {} \/ Queued(s) =>
    \E p \in Periods : p < marker /\ short[s][p] # None

Lines == OneLine /\ Paired /\ Lands /\ LiveFirst

\* The sensors a run has still to write have nothing queued.
RunIsApart ==
  /\ pc \in {"idle", "until"} => run = Idle
  /\ pc = "until" => queue = <<>>
  /\ pc \in Reading => run.end > 0
  /\ pc \in Reading \ {"first"} => run.todo = <<>> /\ run.wanted # <<>>
  /\ IsInjective(run.todo) /\ IsInjective(run.wanted)
  /\ ToSet(run.todo) \cap ToSet(run.wanted) = {}
  /\ \A s \in ToSet(run.todo) \cup ToSet(run.wanted) : ~Queued(s)

LineInv == YearType /\ Lines /\ RunIsApart

-----------------------------------------------------------------------------
(* The rows held, and the row compiled next.                               *)

\* The rows of a sensor whose five-minute rows are sh and whose hourly ones are hr.
RowsIn(sh, hr) ==
  {sh[p] : p \in {q \in Periods : sh[q] # None}}
    \cup {hr[h] : h \in {k \in 0 .. Hours - 1 : hr[k] # None}}

LEMMA RowsInAre ==
  ASSUME NEW sh, NEW hr, NEW row
  PROVE  row \in RowsIn(sh, hr) <=>
           \/ \E p \in Periods : sh[p] # None /\ row = sh[p]
           \/ \E h \in 0 .. Hours - 1 : hr[h] # None /\ row = hr[h]
BY DEF RowsIn

LEMMA HeldAre ==
  ASSUME NEW s PROVE Held(s) = RowsIn(short[s], hour[s]) /\ Held(s)' = RowsIn(short'[s], hour'[s])
BY DEF Held, RowsIn

LEMMA HeldAreRows == ASSUME YearType, NEW s \in Sids PROVE Held(s) \subseteq Row
<1> SUFFICES ASSUME NEW row \in Held(s) PROVE row \in Row
  OBVIOUS
<1>1. row \in RowsIn(short[s], hour[s])
  BY HeldAre
<1>2. \/ \E p \in Periods : short[s][p] # None /\ row = short[s][p]
      \/ \E h \in 0 .. Hours - 1 : hour[s][h] # None /\ row = hour[s][h]
  BY <1>1, RowsInAre
<1>3. \A p \in Periods : short[s][p] \in Row \cup {None}
  BY DEF YearType
<1>4. \A h \in 0 .. Hours - 1 : hour[s][h] \in Row \cup {None}
  BY DEF YearType
<1> QED
  BY <1>2, <1>3, <1>4

LEMMA NoneIsNoRow == None \notin Row /\ None \notin Int
BY YearAssumption DEF Row

\* The times of the recorder.
LEMMA TimesAre ==
  /\ PerHour \in Nat \ {0} /\ Hours \in Nat \ {0} /\ Hours * PerHour \in Nat
  /\ Periods = 0 .. Hours * PerHour - 1 /\ Clock = 0 .. Hours * PerHour
BY YearAssumption DEF Periods, Clock

\* A set of periods has a last one, and a first one.
LEMMA FirstOf ==
  ASSUME NEW S, S \subseteq Nat, S # {}
  PROVE  \E p \in S : \A q \in S : p <= q
<1> DEFINE Less == {ss \in Nat \X Nat : ss[1] < ss[2]}
<1>1. IsWellFoundedOn(Less, Nat)
  BY NatLessThanWellFounded DEF OpToRel
<1> HIDE DEF Less
<1>2. PICK p \in S : \A q \in S : ~(<<q, p>> \in Less)
  BY <1>1, WFMin
<1>3. ASSUME NEW q \in S PROVE p <= q
  <2>1. p \in Nat /\ q \in Nat /\ <<q, p>> \notin Less
    BY <1>2
  <2>2. ~(q < p)
    BY <2>1 DEF Less
  <2> QED
    BY <2>1, <2>2
<1> QED
  BY <1>3

LEMMA LastOf ==
  ASSUME NEW bound \in Nat, NEW S, S \subseteq 0 .. bound, S # {}
  PROVE  \E p \in S : \A q \in S : q <= p
<1> DEFINE Short == {bound - x : x \in S}
<1>1. Short \subseteq Nat
  <2> SUFFICES ASSUME NEW x \in S PROVE bound - x \in Nat
    OBVIOUS
  <2> QED
    OBVIOUS
<1>2. Short # {}
  OBVIOUS
<1> HIDE DEF Short
<1>3. PICK d \in Short : \A e \in Short : d <= e
  BY <1>1, <1>2, FirstOf
<1>4. PICK p \in S : d = bound - p
  BY DEF Short
<1>5. ASSUME NEW q \in S PROVE q <= p
  <2>1. bound - q \in Short
    BY DEF Short
  <2> QED
    BY <1>3, <1>4, <2>1
<1> QED
  BY <1>5

\* Once a sensor has a row, the one compiled next counts on from a row it holds.
LEMMA CountsOn ==
  ASSUME YearType, NEW s \in Sids, NEW p \in Periods
  PROVE  /\ CompiledRow(s, p) \in Row
         /\ (\E q \in Periods : q < p /\ short[s][q] # None) =>
              \E last \in Held(s) : Offset(CompiledRow(s, p)) = Offset(last)
<1> DEFINE held == {q \in Periods : q < p /\ short[s][q] # None}
           latest == CHOOSE q \in held : \A r \in held : r <= q
<1>1. Figure[s][p] \in Int
  BY YearAssumption
<1>2. CASE held = {}
  <2>1. LastRow(s, p) = None
    BY <1>2 DEF LastRow
  <2> QED
    BY <1>1, <1>2, <2>1 DEF CompiledRow, Row, YearType
<1>3. CASE held # {}
  <2>1. held \subseteq 0 .. Hours * PerHour /\ Hours * PerHour \in Nat
    BY TimesAre
  <2> HIDE DEF held
  <2>2. \E q \in held : \A r \in held : r <= q
    BY <1>3, <2>1, LastOf
  <2>3. latest \in held
    BY <2>2
  <2>4. LastRow(s, p) = short[s][latest]
    BY <1>3 DEF LastRow, held
  <2>5. short[s][latest] # None /\ short[s][latest] \in Row /\ latest \in Periods
    BY <2>3 DEF held, YearType
  <2> HIDE DEF latest
  <2>6. short[s][latest] \in Held(s)
    BY <2>5, HeldAre, RowsInAre
  <2>7. CompiledRow(s, p) = [state |-> Figure[s][p],
                             sum |-> short[s][latest].sum + Figure[s][p] - short[s][latest].state]
    BY <2>4, <2>5 DEF CompiledRow
  <2>8. CompiledRow(s, p) \in Row /\ Offset(CompiledRow(s, p)) = Offset(short[s][latest])
    BY <1>1, <2>5, <2>7 DEF Row, Offset
  <2> QED
    BY <2>6, <2>8
<1> QED
  BY <1>2, <1>3

-----------------------------------------------------------------------------
(* The recorder's steps.                                                   *)

\* A step that writes nothing and queues nothing leaves the lines alone.
LEMMA NothingWritten ==
  ASSUME Lines, UNCHANGED <<short, hour, queue, marker>>
  PROVE  Lines'
<1>1. \A s : Held(s)' = Held(s)
  BY DEF Held
<1>2. OneLine' /\ LiveFirst'
  BY <1>1 DEF Lines, OneLine, LiveFirst, Queued
<1>3. Paired'
  BY DEF Lines, Paired, Adjusts, Imports
<1>4. Lands'
  BY <1>1 DEF Lines, Lands, Adjusts, Imports, Due
<1> QED
  BY <1>2, <1>3, <1>4 DEF Lines

\* A task is an adjustment or an import.
LEMMA TaskIs ==
  ASSUME NEW task \in YearTasks
  PROVE  /\ task.sid \in Sids
         /\ task.op = "adjust" => task.by \in Int
         /\ task.op = "import" =>
              0 \in DOMAIN task.rows /\ \A h \in DOMAIN task.rows : task.rows[h] \in Row
<1>1. CASE task \in [op : {"adjust"}, sid : Sids, by : Int]
  BY <1>1
<1>2. CASE task \in [op : {"import"}, sid : Sids, rows : ImportRows]
  <2>1. PICK end \in Nat \ {0} : task.rows \in [0 .. end - 1 -> Row]
    BY <1>2 DEF ImportRows
  <2> QED
    BY <1>2, <2>1
<1> QED
  BY <1>1, <1>2 DEF YearTasks

\* What a step of the recorder's own counts may change of the types.
LEMMA CompileType == ASSUME YearType, Compile PROVE
  /\ YearType' /\ marker \in Periods /\ HourOf(marker) \in 0 .. Hours - 1
<1>1. marker \in Periods /\ marker + 1 \in Clock
  BY TimesAre DEF Compile, YearType
<1>2. HourOf(marker) \in 0 .. Hours - 1
  BY <1>1, TimesAre DEF HourOf
<1>3. \A s \in Sids : CompiledRow(s, marker) \in Row
  BY <1>1, CountsOn
<1>4. short' \in [Sids -> [Periods -> Row \cup {None}]]
  BY <1>1, <1>3 DEF Compile, YearType
<1>5. \A s \in Sids : short'[s][marker] \in Row
  BY <1>1, <1>3 DEF Compile, YearType
<1>6. hour' \in [Sids -> [0 .. Hours - 1 -> Row \cup {None}]]
  <2>1. hour' = hour \/ hour' = [s \in Sids |-> [hour[s] EXCEPT ![HourOf(marker)] = short'[s][marker]]]
    BY DEF Compile
  <2>2. \A s \in Sids : [hour[s] EXCEPT ![HourOf(marker)] = short'[s][marker]]
                          \in [0 .. Hours - 1 -> Row \cup {None}]
    BY <1>2, <1>5 DEF YearType
  <2> QED
    BY <2>1, <2>2 DEF YearType
<1>7. marker' = marker + 1 /\ now' = now /\ marker < now
  BY DEF Compile
<1>8. since' = since /\ since <= marker' /\ marker' <= now' /\ marker' \in Clock
  BY <1>1, <1>7, TimesAre DEF Compile, YearType
<1> QED
  BY <1>1, <1>2, <1>4, <1>6, <1>7, <1>8 DEF Compile, YearType, memory

\* A compiled row is of its sensor's line.
LEMMA CompileKeepsLines == ASSUME LineInv, Compile PROVE Lines'
<1> DEFINE new(s) == CompiledRow(s, marker)
<1>1. /\ marker \in Periods /\ HourOf(marker) \in 0 .. Hours - 1 /\ YearType
      /\ marker' = marker + 1 /\ queue' = queue
  BY CompileType DEF LineInv, Compile
<1>2. \A s \in Sids : new(s) \in Row /\ new(s) # None
  BY <1>1, CountsOn, NoneIsNoRow
<1>3. \A s \in Sids : /\ short'[s][marker] = new(s)
                      /\ \A p \in Periods \ {marker} : short'[s][p] = short[s][p]
  BY <1>1 DEF Compile, YearType
<1>4. \A s \in Sids : \A h \in 0 .. Hours - 1 : hour'[s][h] \in {hour[s][h], new(s)}
  <2>1. hour' = hour \/ hour' = [s \in Sids |-> [hour[s] EXCEPT ![HourOf(marker)] = short'[s][marker]]]
    BY DEF Compile
  <2>2. \A s \in Sids : \/ hour'[s] = hour[s]
                        \/ hour'[s] = [hour[s] EXCEPT ![HourOf(marker)] = new(s)]
    BY <1>3, <2>1
  <2>3. \A s \in Sids : hour[s] \in [0 .. Hours - 1 -> Row \cup {None}]
    BY <1>1 DEF YearType
  <2> HIDE DEF new
  <2> QED
    BY <1>1, <2>2, <2>3
<1> HIDE DEF new
<1>5. \A s \in Sids : \A row \in Held(s)' : row \in Held(s) \/ row = new(s)
  <2> SUFFICES ASSUME NEW s \in Sids, NEW row \in Held(s)' PROVE row \in Held(s) \/ row = new(s)
    OBVIOUS
  <2>1. \/ \E p \in Periods : short'[s][p] # None /\ row = short'[s][p]
        \/ \E h \in 0 .. Hours - 1 : hour'[s][h] # None /\ row = hour'[s][h]
    <3>1. row \in RowsIn(short'[s], hour'[s])
      BY HeldAre
    <3> QED
      BY <3>1, RowsInAre
  <2>2. row = new(s) \/ \/ \E p \in Periods : short[s][p] # None /\ row = short[s][p]
                        \/ \E h \in 0 .. Hours - 1 : hour[s][h] # None /\ row = hour[s][h]
    BY <2>1, <1>3, <1>4
  <2>3. row = new(s) \/ row \in RowsIn(short[s], hour[s])
    BY <2>2, RowsInAre
  <2> QED
    BY <2>3, HeldAre
<1>6. \A s \in Sids : Held(s) # {} \/ Queued(s) =>
        \E last \in Held(s) : Offset(new(s)) = Offset(last)
  BY <1>1, CountsOn DEF LineInv, Lines, LiveFirst, new
<1>7. \A s \in Sids : \A row \in Held(s)' :
        \/ Held(s) = {} /\ ~Queued(s) /\ row = new(s)
        \/ \E last \in Held(s) : Offset(row) = Offset(last)
  BY <1>5, <1>6
<1>8. \A s \in Sids : \A a, b \in Held(s) : Offset(a) = Offset(b)
  BY DEF LineInv, Lines, OneLine, Offset
<1>9. OneLine'
  <2>1. \A s \in Sids : \A a, b \in Held(s)' : Offset(a) = Offset(b)
    BY <1>7, <1>8
  <2> QED
    BY <2>1 DEF OneLine, Offset
<1>10. Paired'
  BY <1>1 DEF LineInv, Lines, Paired, Adjusts, Imports
<1>11. Lands'
  <2> SUFFICES ASSUME NEW i \in DOMAIN queue, Imports(i), NEW h \in DOMAIN queue[i].rows,
                      NEW s, s = queue[i].sid
               PROVE  /\ \A g \in DOMAIN queue[i].rows :
                           Offset(queue[i].rows[g]) = Offset(queue[i].rows[h])
                      /\ \A row \in Held(s)' : Offset(queue[i].rows[h]) = Offset(row) + Due(i)
    BY <1>1 DEF Lands, Imports, Due, Adjusts
  <2>1. s \in Sids /\ Queued(s)
    <3>1. queue[i] \in YearTasks
      BY <1>1 DEF YearType
    <3> QED
      BY <3>1, TaskIs DEF Queued
  <2>2. \A row \in Held(s)' : \E last \in Held(s) : Offset(row) = Offset(last)
    BY <1>7, <2>1
  <2> QED
    BY <2>2 DEF LineInv, Lines, Lands
<1>12. LiveFirst'
  <2>1. marker < marker'
    BY <1>1, TimesAre
  <2>2. \A s \in Sids : short'[s][marker] # None
    BY <1>2, <1>3
  <2> QED
    BY <1>1, <2>1, <2>2 DEF LiveFirst
<1> QED
  BY <1>9, <1>10, <1>11, <1>12 DEF Lines

\* A row that an adjustment has moved.
LEMMA ShiftedMoves ==
  ASSUME NEW by \in Int, NEW row \in Row \cup {None}
  PROVE  /\ Shifted(row, by) \in Row \cup {None}
         /\ Shifted(row, by) = None <=> row = None
         /\ row # None => Offset(Shifted(row, by)) = Offset(row) + by
<1>1. CASE row = None
  BY <1>1 DEF Shifted
<1>2. CASE row # None
  <2>1. row \in Row /\ Shifted(row, by) = [row EXCEPT !.sum = @ + by]
    BY <1>2 DEF Shifted
  <2>2. Shifted(row, by) \in Row /\ Offset(Shifted(row, by)) = Offset(row) + by
    BY <2>1 DEF Row, Offset
  <2> QED
    BY <1>2, <2>2, NoneIsNoRow
<1> QED
  BY <1>1, <1>2

\* What is left of the queue once its head is worked off.
LEMMA TailIs ==
  ASSUME YearType, queue # <<>>, queue' = Tail(queue)
  PROVE  /\ queue' \in Seq(YearTasks) /\ Len(queue) \in Nat \ {0}
         /\ DOMAIN queue = 1 .. Len(queue) /\ DOMAIN queue' = 1 .. Len(queue) - 1
         /\ \A i \in DOMAIN queue' : queue'[i] = queue[i + 1] /\ i + 1 \in DOMAIN queue
         /\ Head(queue) = queue[1] /\ queue[1] \in YearTasks /\ 1 \in DOMAIN queue
BY DEF YearType

\* What a task does to the rows of its sensor.
LEMMA TaskWorked ==
  ASSUME YearType, WorkQueue, NEW s \in Sids
  PROVE  LET task == queue[1] IN
         /\ s # task.sid => short'[s] = short[s] /\ hour'[s] = hour[s]
         /\ s = task.sid /\ task.op = "adjust" =>
              /\ short'[s] = [p \in Periods |-> Shifted(short[s][p], task.by)]
              /\ hour'[s] = [h \in 0 .. Hours - 1 |-> Shifted(hour[s][h], task.by)]
         /\ s = task.sid /\ task.op = "import" =>
              /\ short'[s] = short[s]
              /\ hour'[s] = [h \in 0 .. Hours - 1 |->
                               IF h \in DOMAIN task.rows THEN task.rows[h] ELSE hour[s][h]]
<1>1. Head(queue) = queue[1] /\ queue[1] \in YearTasks
  BY TailIs DEF WorkQueue
<1>2. queue[1].sid \in Sids
  BY <1>1, TaskIs
<1> DEFINE task == queue[1]
           movedShort == [p \in Periods |-> Shifted(short[task.sid][p], task.by)]
           movedHour == [h \in 0 .. Hours - 1 |-> Shifted(hour[task.sid][h], task.by)]
           imported == [h \in 0 .. Hours - 1 |->
                          IF h \in DOMAIN task.rows THEN task.rows[h] ELSE hour[task.sid][h]]
<1>3. \/ /\ task.op = "adjust"
         /\ short' = [short EXCEPT ![task.sid] = movedShort]
         /\ hour' = [hour EXCEPT ![task.sid] = movedHour]
      \/ /\ task.op = "import"
         /\ hour' = [hour EXCEPT ![task.sid] = imported]
         /\ short' = short
  BY <1>1 DEF WorkQueue
<1>4. DOMAIN short = Sids /\ DOMAIN hour = Sids
  BY DEF YearType
<1>5. /\ s # task.sid => short'[s] = short[s] /\ hour'[s] = hour[s]
      /\ s = task.sid /\ task.op = "adjust" => short'[s] = movedShort /\ hour'[s] = movedHour
      /\ s = task.sid /\ task.op = "import" => short'[s] = short[s] /\ hour'[s] = imported
  <2> HIDE DEF movedShort, movedHour, imported
  <2> QED
    BY <1>2, <1>3, <1>4
<1> QED
  BY <1>5

LEMMA WorkQueueType == ASSUME YearType, WorkQueue PROVE YearType'
<1>1. queue[1] \in YearTasks /\ queue' \in Seq(YearTasks)
  BY TailIs DEF WorkQueue
<1>2. /\ queue[1].sid \in Sids
      /\ queue[1].op = "adjust" => queue[1].by \in Int
      /\ queue[1].op = "import" => \A h \in DOMAIN queue[1].rows : queue[1].rows[h] \in Row
      /\ queue[1].op \in {"adjust", "import"}
  BY <1>1, TaskIs DEF YearTasks
<1>3. /\ \E f : short' = [short EXCEPT ![queue[1].sid] = f] \/ short' = short
      /\ \E f : hour' = [hour EXCEPT ![queue[1].sid] = f]
  BY TailIs DEF WorkQueue
<1>4. ASSUME NEW s \in Sids
      PROVE  /\ short'[s] \in [Periods -> Row \cup {None}]
             /\ hour'[s] \in [0 .. Hours - 1 -> Row \cup {None}]
  <2>1. /\ short[s] \in [Periods -> Row \cup {None}]
        /\ hour[s] \in [0 .. Hours - 1 -> Row \cup {None}]
    BY DEF YearType
  <2>2. CASE s # queue[1].sid
    BY <2>1, <2>2, TaskWorked
  <2>3. CASE s = queue[1].sid /\ queue[1].op = "adjust"
    <3>1. /\ \A p \in Periods : Shifted(short[s][p], queue[1].by) \in Row \cup {None}
          /\ \A h \in 0 .. Hours - 1 : Shifted(hour[s][h], queue[1].by) \in Row \cup {None}
      BY <1>2, <2>1, <2>3, ShiftedMoves
    <3> QED
      BY <2>3, <3>1, TaskWorked
  <2>4. CASE s = queue[1].sid /\ queue[1].op = "import"
    <3>1. short'[s] = short[s]
      BY <2>4, TaskWorked
    <3>2. hour'[s] = [h \in 0 .. Hours - 1 |->
                        IF h \in DOMAIN queue[1].rows THEN queue[1].rows[h] ELSE hour[s][h]]
      BY <2>4, TaskWorked
    <3>3. \A h \in 0 .. Hours - 1 :
            (IF h \in DOMAIN queue[1].rows THEN queue[1].rows[h] ELSE hour[s][h]) \in Row \cup {None}
      BY <1>2, <2>1, <2>4
    <3> QED
      BY <2>1, <3>1, <3>2, <3>3
  <2> QED
    BY <1>2, <2>2, <2>3, <2>4
<1>5. /\ short' \in [Sids -> [Periods -> Row \cup {None}]]
      /\ hour' \in [Sids -> [0 .. Hours - 1 -> Row \cup {None}]]
  BY <1>3, <1>4 DEF YearType
<1> QED
  BY <1>1, <1>5 DEF WorkQueue, YearType, memory

\* Every row after a task comes of one before it, or is one of those imported.
LEMMA RowsWorked ==
  ASSUME YearType, WorkQueue, NEW s \in Sids, NEW row \in Held(s)'
  PROVE  LET task == queue[1] IN
         /\ s # task.sid => row \in Held(s)
         /\ s = task.sid /\ task.op = "adjust" =>
              \E old \in Held(s) : Offset(row) = Offset(old) + task.by
         /\ s = task.sid /\ task.op = "import" =>
              row \in Held(s) \/ \E h \in DOMAIN task.rows : row = task.rows[h]
<1>1. \/ \E p \in Periods : short'[s][p] # None /\ row = short'[s][p]
      \/ \E h \in 0 .. Hours - 1 : hour'[s][h] # None /\ row = hour'[s][h]
  <2>1. row \in RowsIn(short'[s], hour'[s])
    BY HeldAre
  <2> QED
    BY <2>1, RowsInAre
<1>2. \A old : (\/ \E p \in Periods : short[s][p] # None /\ old = short[s][p]
                \/ \E h \in 0 .. Hours - 1 : hour[s][h] # None /\ old = hour[s][h])
               => old \in Held(s)
  <2> SUFFICES ASSUME NEW old, \/ \E p \in Periods : short[s][p] # None /\ old = short[s][p]
                               \/ \E h \in 0 .. Hours - 1 : hour[s][h] # None /\ old = hour[s][h]
               PROVE  old \in Held(s)
    OBVIOUS
  <2>1. old \in RowsIn(short[s], hour[s])
    BY RowsInAre
  <2> QED
    BY <2>1, HeldAre
<1>3. queue[1] \in YearTasks
  BY TailIs DEF WorkQueue
<1>4. /\ \A p \in Periods : short[s][p] \in Row \cup {None}
      /\ \A h \in 0 .. Hours - 1 : hour[s][h] \in Row \cup {None}
  BY DEF YearType
<1>5. CASE s # queue[1].sid
  BY <1>1, <1>2, <1>5, TaskWorked
<1>6. CASE s = queue[1].sid /\ queue[1].op = "adjust"
  <2>1. queue[1].by \in Int
    BY <1>3, <1>6, TaskIs
  <2>2. \A old \in Row \cup {None} : Shifted(old, queue[1].by) # None =>
          old # None /\ Offset(Shifted(old, queue[1].by)) = Offset(old) + queue[1].by
    BY <2>1, ShiftedMoves
  <2>3. /\ short'[s] = [p \in Periods |-> Shifted(short[s][p], queue[1].by)]
        /\ hour'[s] = [h \in 0 .. Hours - 1 |-> Shifted(hour[s][h], queue[1].by)]
    BY <1>6, TaskWorked
  <2>4. CASE \E p \in Periods : short'[s][p] # None /\ row = short'[s][p]
    <3>1. PICK p \in Periods : short'[s][p] # None /\ row = short'[s][p]
      BY <2>4
    <3>2. row = Shifted(short[s][p], queue[1].by) /\ row # None
      BY <2>3, <3>1
    <3>3. short[s][p] \in Held(s) /\ Offset(row) = Offset(short[s][p]) + queue[1].by
      BY <1>2, <1>4, <2>2, <3>2
    <3> QED
      BY <1>6, <3>3
  <2>5. CASE \E h \in 0 .. Hours - 1 : hour'[s][h] # None /\ row = hour'[s][h]
    <3>1. PICK h \in 0 .. Hours - 1 : hour'[s][h] # None /\ row = hour'[s][h]
      BY <2>5
    <3>2. row = Shifted(hour[s][h], queue[1].by) /\ row # None
      BY <2>3, <3>1
    <3>3. hour[s][h] \in Held(s) /\ Offset(row) = Offset(hour[s][h]) + queue[1].by
      BY <1>2, <1>4, <2>2, <3>2
    <3> QED
      BY <1>6, <3>3
  <2> QED
    BY <1>1, <2>4, <2>5
<1>7. CASE s = queue[1].sid /\ queue[1].op = "import"
  <2>1. short'[s] = short[s]
    BY <1>7, TaskWorked
  <2>2. \A h \in 0 .. Hours - 1 :
          hour'[s][h] = IF h \in DOMAIN queue[1].rows THEN queue[1].rows[h] ELSE hour[s][h]
    <3>1. hour'[s] = [h \in 0 .. Hours - 1 |->
                        IF h \in DOMAIN queue[1].rows THEN queue[1].rows[h] ELSE hour[s][h]]
      BY <1>7, TaskWorked
    <3> QED
      BY <3>1
  <2>3. row \in Held(s) \/ \E h \in DOMAIN queue[1].rows : row = queue[1].rows[h]
    BY <1>1, <1>2, <2>1, <2>2
  <2> QED
    BY <1>7, <2>3
<1> QED
  BY <1>3, <1>5, <1>6, <1>7 DEF YearTasks

\* Working a task off keeps every sensor on its line, on its way or not.
LEMMA WorkQueueKeepsLines == ASSUME LineInv, WorkQueue PROVE Lines'
<1> DEFINE task == queue[1]
<1>1. /\ YearType /\ queue' = Tail(queue) /\ queue # <<>> /\ marker' = marker
      /\ task \in YearTasks /\ task.sid \in Sids /\ task.op \in {"adjust", "import"}
      /\ task.op = "adjust" => task.by \in Int
  <2>1. YearType /\ queue' = Tail(queue) /\ queue # <<>> /\ marker' = marker
    BY DEF LineInv, WorkQueue
  <2> QED
    BY <2>1, TailIs, TaskIs DEF YearTasks
<1>2. /\ Len(queue) \in Nat \ {0} /\ 1 \in DOMAIN queue /\ DOMAIN queue = 1 .. Len(queue)
      /\ DOMAIN queue' = 1 .. Len(queue) - 1
      /\ \A i \in DOMAIN queue' : queue'[i] = queue[i + 1] /\ i + 1 \in DOMAIN queue
  BY <1>1, TailIs
<1>3. \A s \in Sids : \A a, b \in Held(s) : Offset(a) = Offset(b)
  BY DEF LineInv, Lines, OneLine, Offset
<1>4. \A s \in Sids : Held(s) \subseteq Row
  BY <1>1, HeldAreRows
<1>5. ASSUME task.op = "import", NEW h \in DOMAIN task.rows, NEW row \in Held(task.sid)
      PROVE  Offset(task.rows[h]) = Offset(row)
  <2>1. Imports(1)
    BY <1>2, <1>5 DEF Imports
  <2>2. Due(1) = 0
    BY <1>2 DEF Due, Adjusts
  <2>3. Offset(task.rows[h]) = Offset(row) + Due(1)
    BY <1>2, <1>5, <2>1 DEF LineInv, Lines, Lands
  <2>4. row \in Row
    BY <1>1, <1>4, <1>5
  <2> QED
    BY <2>2, <2>3, <2>4 DEF Row, Offset
<1>6. OneLine'
  <2> SUFFICES ASSUME NEW s \in Sids, NEW a \in Held(s)', NEW b \in Held(s)'
               PROVE  Offset(a) = Offset(b)
    BY DEF OneLine, Offset
  <2>1. CASE s # task.sid
    BY <1>1, <1>3, <2>1, RowsWorked
  <2>2. CASE s = task.sid /\ task.op = "adjust"
    <3>1. PICK old \in Held(s) : Offset(a) = Offset(old) + task.by
      BY <1>1, <2>2, RowsWorked
    <3>2. PICK other \in Held(s) : Offset(b) = Offset(other) + task.by
      BY <1>1, <2>2, RowsWorked
    <3> QED
      BY <1>3, <3>1, <3>2
  <2>3. CASE s = task.sid /\ task.op = "import"
    <3>1. a \in Held(s) \/ \E h \in DOMAIN task.rows : a = task.rows[h]
      BY <1>1, <2>3, RowsWorked
    <3>2. b \in Held(s) \/ \E h \in DOMAIN task.rows : b = task.rows[h]
      BY <1>1, <2>3, RowsWorked
    <3>3. \A g, h \in DOMAIN task.rows : Offset(task.rows[g]) = Offset(task.rows[h])
      BY <1>2, <2>3 DEF LineInv, Lines, Lands, Imports
    <3> QED
      BY <1>3, <1>5, <2>3, <3>1, <3>2, <3>3
  <2> QED
    BY <1>1, <2>1, <2>2, <2>3
<1>7. Paired'
  <2>1. \A i \in DOMAIN queue' : /\ (Adjusts(i)' <=> Adjusts(i + 1))
                                 /\ (Imports(i)' <=> Imports(i + 1))
    BY <1>2 DEF Adjusts, Imports
  <2>2. \A i \in DOMAIN queue' : Adjusts(i)' =>
          Imports(i + 1)' /\ queue'[i + 1].sid = queue'[i].sid
    <3> SUFFICES ASSUME NEW i \in DOMAIN queue', Adjusts(i)'
                 PROVE  Imports(i + 1)' /\ queue'[i + 1].sid = queue'[i].sid
      OBVIOUS
    <3>1. /\ i \in Nat \ {0} /\ i + 1 \in DOMAIN queue /\ Adjusts(i + 1)
          /\ queue'[i] = queue[i + 1]
      BY <1>2, <2>1
    <3>2. Imports((i + 1) + 1) /\ queue[(i + 1) + 1].sid = queue[i + 1].sid
      BY <3>1 DEF LineInv, Lines, Paired
    <3>3. i + 1 \in DOMAIN queue'
      BY <1>2, <3>1, <3>2 DEF Imports
    <3> QED
      BY <1>2, <2>1, <3>1, <3>2, <3>3
  <2>3. \A i, j \in DOMAIN queue' :
          Imports(i)' /\ Imports(j)' /\ queue'[i].sid = queue'[j].sid => i = j
    <3> SUFFICES ASSUME NEW i \in DOMAIN queue', NEW j \in DOMAIN queue',
                        Imports(i)', Imports(j)', queue'[i].sid = queue'[j].sid
                 PROVE  i = j
      OBVIOUS
    <3>1. /\ Imports(i + 1) /\ Imports(j + 1) /\ i \in Nat /\ j \in Nat
          /\ i + 1 \in DOMAIN queue /\ j + 1 \in DOMAIN queue
          /\ queue[i + 1].sid = queue[j + 1].sid
      BY <1>2, <2>1
    <3>2. i + 1 = j + 1
      BY <3>1 DEF LineInv, Lines, Paired
    <3> QED
      BY <3>1, <3>2
  <2> QED
    BY <2>2, <2>3 DEF Paired
<1>8. Lands'
  <2> SUFFICES ASSUME NEW i \in DOMAIN queue', Imports(i)', NEW s, s = queue'[i].sid,
                      NEW ofHours, ofHours = queue'[i].rows, NEW h \in DOMAIN ofHours
               PROVE  /\ \A g \in DOMAIN ofHours : Offset(ofHours[g]) = Offset(ofHours[h])
                      /\ \A row \in Held(s)' : Offset(ofHours[h]) = Offset(row) + Due(i)'
    BY DEF Lands
  <2>1. /\ i \in Nat \ {0} /\ i + 1 \in DOMAIN queue /\ queue'[i] = queue[i + 1]
        /\ Imports(i + 1) /\ s = queue[i + 1].sid /\ ofHours = queue[i + 1].rows
        /\ s \in Sids
    <3>1. i \in Nat \ {0} /\ i + 1 \in DOMAIN queue /\ queue'[i] = queue[i + 1]
      BY <1>2
    <3>2. queue[i + 1] \in YearTasks
      BY <1>1, <3>1 DEF YearType
    <3> QED
      BY <3>1, <3>2, TaskIs DEF Imports
  <2>2. /\ \A g \in DOMAIN ofHours : Offset(ofHours[g]) = Offset(ofHours[h])
        /\ \A row \in Held(s) : Offset(ofHours[h]) = Offset(row) + Due(i + 1)
    BY <2>1 DEF LineInv, Lines, Lands
  <2>3. Due(i)' = IF i = 1 THEN 0 ELSE Due(i + 1)
    <3>1. CASE i = 1
      BY <3>1, <1>2 DEF Due, Adjusts
    <3>2. CASE i # 1
      <4>1. /\ i - 1 \in DOMAIN queue' /\ queue'[i - 1] = queue[i] /\ i \in DOMAIN queue
            /\ (i + 1) - 1 = i /\ (i - 1) + 1 = i
        BY <1>2, <2>1, <3>2
      <4> QED
        BY <3>2, <4>1 DEF Due, Adjusts
    <3> QED
      BY <3>1, <3>2
  <2>4. CASE task.op = "import"
    <3>1. s # task.sid
      BY <1>2, <2>1, <2>4 DEF LineInv, Lines, Paired, Imports
    <3>2. \A row \in Held(s)' : row \in Held(s)
      BY <1>1, <2>1, <3>1, RowsWorked
    <3>3. i = 1 => Due(i + 1) = 0
      BY <1>2, <2>4 DEF Due, Adjusts
    <3> QED
      BY <2>2, <2>3, <3>2, <3>3
  <2>5. CASE task.op = "adjust"
    <3>1. Imports(1 + 1) /\ queue[1 + 1].sid = task.sid /\ 1 + 1 \in DOMAIN queue
      BY <1>2, <2>5 DEF LineInv, Lines, Paired, Adjusts, Imports
    <3>2. CASE s = task.sid
      <4>1. i = 1
        <5>1. i + 1 = 1 + 1
          BY <2>1, <3>1, <3>2 DEF LineInv, Lines, Paired
        <5> QED
          BY <2>1, <5>1
      <4>2. Due(i + 1) = task.by
        BY <1>2, <2>5, <4>1 DEF Due, Adjusts
      <4>3. \A row \in Held(s)' : \E old \in Held(s) : Offset(row) = Offset(old) + task.by
        BY <1>1, <2>1, <2>5, <3>2, RowsWorked
      <4>4. \A row \in Held(s)' : Offset(ofHours[h]) = Offset(row) /\ Offset(row) \in Int
        <5> SUFFICES ASSUME NEW row \in Held(s)'
                     PROVE  Offset(ofHours[h]) = Offset(row) /\ Offset(row) \in Int
          OBVIOUS
        <5>1. PICK old \in Held(s) : Offset(row) = Offset(old) + task.by
          BY <4>3
        <5>2. Offset(ofHours[h]) = Offset(old) + task.by
          BY <2>2, <4>2
        <5>3. old \in Row /\ Offset(old) \in Int
          BY <1>4, <2>1 DEF Row, Offset
        <5> QED
          BY <1>1, <2>5, <5>1, <5>2, <5>3
      <4> QED
        BY <2>2, <2>3, <4>1, <4>4
    <3>3. CASE s # task.sid
      <4>1. i # 1
        BY <2>1, <3>1, <3>3
      <4>2. \A row \in Held(s)' : row \in Held(s)
        BY <1>1, <2>1, <3>3, RowsWorked
      <4> QED
        BY <2>2, <2>3, <4>1, <4>2
    <3> QED
      BY <3>2, <3>3
  <2> QED
    BY <1>1, <2>4, <2>5
<1>9. LiveFirst'
  <2> SUFFICES ASSUME NEW s \in Sids, Held(s)' # {} \/ Queued(s)'
               PROVE  \E p \in Periods : p < marker' /\ short'[s][p] # None
    BY DEF LiveFirst
  <2>1. Held(s) # {} \/ Queued(s)
    <3>1. CASE Queued(s)'
      BY <1>2, <3>1 DEF Queued
    <3>2. CASE Held(s)' # {}
      <4>1. PICK row : row \in Held(s)'
        BY <3>2
      <4>2. s = task.sid => Queued(s)
        BY <1>2 DEF Queued
      <4>3. s # task.sid => row \in Held(s)
        BY <1>1, <4>1, RowsWorked
      <4> QED
        BY <4>2, <4>3
    <3> QED
      BY <3>1, <3>2
  <2>2. PICK p \in Periods : p < marker /\ short[s][p] # None
    BY <2>1 DEF LineInv, Lines, LiveFirst
  <2>3. short'[s][p] # None
    <3>1. CASE s = task.sid /\ task.op = "adjust"
      <4>1. short'[s][p] = Shifted(short[s][p], task.by)
        <5>1. short'[s] = [q \in Periods |-> Shifted(short[s][q], task.by)]
          BY <1>1, <3>1, TaskWorked
        <5> QED
          BY <5>1
      <4>2. short[s][p] \in Row \cup {None}
        BY <1>1 DEF YearType
      <4> QED
        BY <1>1, <2>2, <3>1, <4>1, <4>2, ShiftedMoves
    <3>2. CASE ~(s = task.sid /\ task.op = "adjust")
      <4>1. short'[s] = short[s]
        BY <1>1, <3>2, TaskWorked
      <4> QED
        BY <2>2, <4>1
    <3> QED
      BY <3>1, <3>2
  <2> QED
    BY <1>1, <2>2, <2>3
<1> QED
  BY <1>6, <1>7, <1>8, <1>9 DEF Lines

-----------------------------------------------------------------------------
(* The run's steps.                                                        *)

\* The rows of a year, all on the total it starts from.
LEMMA RowsOfAre ==
  ASSUME NEW shows \in Int, NEW base \in Int, NEW end \in Nat \ {0}
  PROVE  /\ RowsOf(shows, base, end) \in ImportRows
         /\ DOMAIN RowsOf(shows, base, end) = 0 .. end - 1
         /\ \A h \in 0 .. end - 1 : Offset(RowsOf(shows, base, end)[h]) = base
<1> DEFINE part(h) == (shows * (h + 1)) \div end
<1>1. \A h \in 0 .. end - 1 : part(h) \in Int
  OBVIOUS
<1> HIDE DEF part
<1>2. RowsOf(shows, base, end) = [h \in 0 .. end - 1 |-> [state |-> part(h), sum |-> base + part(h)]]
  BY DEF RowsOf, part
<1>3. \A h \in 0 .. end - 1 : /\ [state |-> part(h), sum |-> base + part(h)] \in Row
                             /\ Offset([state |-> part(h), sum |-> base + part(h)]) = base
  BY <1>1 DEF Row, Offset
<1>4. RowsOf(shows, base, end) \in [0 .. end - 1 -> Row]
  BY <1>2, <1>3
<1> QED
  BY <1>2, <1>3, <1>4 DEF ImportRows

\* What joining the year adds to the queue: the import, behind the adjustment that
\* brings the rows of its sensor onto the line.
LEMMA TasksAre ==
  ASSUME YearType, NEW s \in Sids, NEW anchor \in Row, run.end > 0,
         queue' = queue \o Tasks(s, anchor, run.base, run.end)
  PROVE  LET n == Len(queue)
             m == Len(queue')
             shift == run.base - Offset(anchor)
         IN /\ queue' \in Seq(YearTasks) /\ n \in Nat /\ m \in {n + 1, n + 2}
            /\ DOMAIN queue = 1 .. n /\ DOMAIN queue' = 1 .. m
            /\ \A i \in 1 .. n : queue'[i] = queue[i]
            /\ queue'[m].op = "import" /\ queue'[m].sid = s
            /\ \A h \in DOMAIN queue'[m].rows : Offset(queue'[m].rows[h]) = run.base
            /\ m = n + 1 => shift = 0
            /\ m = n + 2 => /\ queue'[n + 1].op = "adjust" /\ queue'[n + 1].sid = s
                           /\ queue'[n + 1].by = shift
<1> DEFINE ofHours == RowsOf(anchor.state, run.base, run.end)
           adjust == [op |-> "adjust", sid |-> s, by |-> Shift(anchor, run.base)]
           import == [op |-> "import", sid |-> s, rows |-> ofHours]
<1>1. /\ anchor.state \in Int /\ anchor.sum \in Int /\ run.base \in Int /\ run.end \in Nat \ {0}
      /\ queue \in Seq(YearTasks)
  BY DEF YearType, Row
<1>2. Shift(anchor, run.base) = run.base - Offset(anchor) /\ Shift(anchor, run.base) \in Int
  BY <1>1 DEF Shift, Offset
<1>3. /\ ofHours \in ImportRows
      /\ \A h \in DOMAIN ofHours : Offset(ofHours[h]) = run.base
  BY <1>1, RowsOfAre
<1> HIDE DEF ofHours
<1>4. adjust \in YearTasks /\ import \in YearTasks
  BY <1>2, <1>3 DEF YearTasks
<1>5. CASE Shift(anchor, run.base) = 0
  <2>1. queue' = queue \o <<import>>
    BY <1>5 DEF Tasks, ofHours
  <2> HIDE DEF import
  <2>2. /\ queue' \in Seq(YearTasks) /\ Len(queue') = Len(queue) + 1 /\ Len(queue) \in Nat
        /\ \A i \in 1 .. Len(queue) : queue'[i] = queue[i]
        /\ queue'[Len(queue) + 1] = import
    BY <1>1, <1>4, <2>1
  <2> QED
    BY <1>1, <1>2, <1>3, <1>5, <2>2 DEF import
<1>6. CASE Shift(anchor, run.base) # 0
  <2>1. queue' = queue \o <<adjust, import>>
    BY <1>6 DEF Tasks, ofHours
  <2> HIDE DEF adjust, import
  <2>2. /\ queue' \in Seq(YearTasks) /\ Len(queue') = Len(queue) + 2 /\ Len(queue) \in Nat
        /\ \A i \in 1 .. Len(queue) : queue'[i] = queue[i]
        /\ queue'[Len(queue) + 1] = adjust /\ queue'[Len(queue) + 2] = import
    BY <1>1, <1>4, <2>1
  <2> QED
    BY <1>1, <1>2, <1>3, <1>6, <2>2 DEF import, adjust
<1> QED
  BY <1>5, <1>6

\* The year of a sensor with nothing queued is joined to a row it holds.
LEMMA JoinKeepsLines ==
  ASSUME LineInv, NEW s \in Sids, ~Queued(s), NEW anchor \in Held(s), run.end > 0,
         queue' = queue \o Tasks(s, anchor, run.base, run.end),
         UNCHANGED <<short, hour, marker>>
  PROVE  Lines' /\ queue' \in Seq(YearTasks) /\ \A t : Queued(t)' => t = s \/ Queued(t)
<1> SUFFICES ASSUME NEW n, n = Len(queue), NEW m, m = Len(queue'),
                    NEW shift, shift = run.base - Offset(anchor)
             PROVE  Lines' /\ queue' \in Seq(YearTasks) /\ \A t : Queued(t)' => t = s \/ Queued(t)
  OBVIOUS
<1>1. YearType /\ anchor \in Row /\ run.base \in Int /\ Offset(anchor) \in Int
  BY HeldAreRows DEF LineInv, YearType, Row, Offset
<1>2. /\ queue' \in Seq(YearTasks) /\ n \in Nat /\ m \in {n + 1, n + 2}
      /\ DOMAIN queue = 1 .. n /\ DOMAIN queue' = 1 .. m
      /\ \A i \in 1 .. n : queue'[i] = queue[i]
      /\ queue'[m].op = "import" /\ queue'[m].sid = s
      /\ \A h \in DOMAIN queue'[m].rows : Offset(queue'[m].rows[h]) = run.base
      /\ m = n + 1 => shift = 0
      /\ m = n + 2 => /\ queue'[n + 1].op = "adjust" /\ queue'[n + 1].sid = s
                     /\ queue'[n + 1].by = shift
  BY <1>1, TasksAre
<1>3. \A i \in 1 .. n : /\ (Adjusts(i)' <=> Adjusts(i)) /\ (Imports(i)' <=> Imports(i))
                        /\ i \in DOMAIN queue /\ i \in DOMAIN queue'
  BY <1>2 DEF Adjusts, Imports
<1>4. \A i \in DOMAIN queue' : Imports(i)' => i \in 1 .. n \/ i = m
  BY <1>2 DEF Imports
<1>5. \A i \in 1 .. n : queue[i].sid # s
  BY <1>2 DEF Queued
<1>6. ~Adjusts(n)
  <2> SUFFICES ASSUME Adjusts(n) PROVE FALSE
    OBVIOUS
  <2>1. n \in DOMAIN queue /\ n + 1 \in DOMAIN queue
    BY DEF LineInv, Lines, Paired, Adjusts, Imports
  <2> QED
    BY <1>2, <2>1
<1>7. \A t : Held(t)' = Held(t)
  BY DEF Held
<1>8. \A t \in Sids : \A a, b \in Held(t) : Offset(a) = Offset(b)
  BY DEF LineInv, Lines, OneLine, Offset
<1>9. OneLine'
  BY <1>7, <1>8 DEF OneLine, Offset
<1>10. Paired'
  <2>1. ASSUME NEW i \in DOMAIN queue', Adjusts(i)'
        PROVE  Imports(i + 1)' /\ queue'[i + 1].sid = queue'[i].sid
    <3>1. CASE i \in 1 .. n
      <4>1. Imports(i + 1) /\ queue[i + 1].sid = queue[i].sid
        BY <1>3, <2>1, <3>1 DEF LineInv, Lines, Paired
      <4>2. i + 1 \in 1 .. n
        BY <1>2, <4>1 DEF Imports
      <4> QED
        BY <1>2, <1>3, <3>1, <4>1, <4>2
    <3>2. CASE i \notin 1 .. n
      <4>1. i = n + 1 /\ m = n + 2
        BY <1>2, <2>1, <3>2 DEF Adjusts
      <4>2. i + 1 = m /\ m \in DOMAIN queue'
        BY <1>2, <4>1
      <4> QED
        BY <1>2, <4>1, <4>2 DEF Imports
    <3> QED
      BY <3>1, <3>2
  <2>2. ASSUME NEW i \in DOMAIN queue', NEW j \in DOMAIN queue',
               Imports(i)', Imports(j)', queue'[i].sid = queue'[j].sid
        PROVE  i = j
    <3>1. CASE i \in 1 .. n /\ j \in 1 .. n
      BY <1>2, <1>3, <2>2, <3>1 DEF LineInv, Lines, Paired
    <3>2. CASE i = m \/ j = m
      BY <1>2, <1>4, <1>5, <2>2, <3>2
    <3> QED
      BY <1>4, <2>2, <3>1, <3>2
  <2> QED
    BY <2>1, <2>2 DEF Paired
<1>11. Lands'
  <2> SUFFICES ASSUME NEW i \in DOMAIN queue', Imports(i)'
               PROVE  \A h \in DOMAIN queue'[i].rows :
                        /\ \A g \in DOMAIN queue'[i].rows :
                             Offset(queue'[i].rows[g]) = Offset(queue'[i].rows[h])
                        /\ \A row \in Held(queue[i].sid)' :
                             Offset(queue'[i].rows[h]) = Offset(row) + Due(i)'
    BY DEF Lands
  <2> SUFFICES ASSUME NEW t, t = queue'[i].sid, NEW ofHours, ofHours = queue'[i].rows,
                      NEW h \in DOMAIN ofHours
               PROVE  /\ \A g \in DOMAIN ofHours : Offset(ofHours[g]) = Offset(ofHours[h])
                      /\ \A row \in Held(t) : Offset(ofHours[h]) = Offset(row) + Due(i)'
    <3>1. Held(queue[i].sid)' = Held(queue'[i].sid)
      BY DEF Held
    <3> QED
      BY <3>1
  <2>1. CASE i \in 1 .. n
    <3>1. queue'[i] = queue[i] /\ Imports(i) /\ i \in DOMAIN queue
      BY <1>2, <1>3, <2>1
    <3>2. Due(i)' = Due(i)
      <4>1. (i - 1 \in DOMAIN queue' <=> i - 1 \in DOMAIN queue)
            /\ (i - 1 \in DOMAIN queue => queue'[i - 1] = queue[i - 1])
        BY <1>2, <2>1
      <4> QED
        BY <4>1 DEF Due, Adjusts
    <3> QED
      BY <1>7, <3>1, <3>2 DEF LineInv, Lines, Lands
  <2>2. CASE i = m
    <3>1. t = s /\ \A g \in DOMAIN ofHours : Offset(ofHours[g]) = run.base
      BY <1>2, <2>2
    <3>2. Due(i)' = shift
      <4>1. CASE m = n + 1
        <5>1. i - 1 = n /\ ~Adjusts(n)'
          BY <1>2, <1>6, <2>2, <4>1 DEF Adjusts
        <5> QED
          BY <1>2, <4>1, <5>1 DEF Due
      <4>2. CASE m = n + 2
        <5>1. i - 1 = n + 1 /\ Adjusts(n + 1)'
          BY <1>2, <2>2, <4>2 DEF Adjusts
        <5> QED
          BY <1>2, <4>2, <5>1 DEF Due
      <4> QED
        BY <1>2, <4>1, <4>2
    <3>3. \A row \in Held(s) : run.base = Offset(row) + shift
      BY <1>1, <1>8
    <3> QED
      BY <1>7, <3>1, <3>2, <3>3
  <2> QED
    BY <1>4, <2>1, <2>2
<1>12. \A t : Queued(t)' => t = s \/ Queued(t)
  <2>1. \A i \in DOMAIN queue' : queue'[i].sid = s \/ (i \in DOMAIN queue /\ queue'[i] = queue[i])
    BY <1>2
  <2> QED
    BY <2>1 DEF Queued
<1>13. LiveFirst'
  <2>1. \A t \in Sids : Held(t)' # {} \/ Queued(t)' => Held(t) # {} \/ Queued(t)
    BY <1>7, <1>12
  <2> QED
    BY <2>1 DEF LineInv, Lines, LiveFirst
<1> QED
  BY <1>2, <1>9, <1>10, <1>11, <1>12, <1>13 DEF Lines

\* The sensors of a list once its head is taken, and once one is added.
LEMMA HeadTaken ==
  ASSUME NEW S, NEW list \in Seq(S), list # <<>>
  PROVE  /\ Head(list) \in S /\ Tail(list) \in Seq(S) /\ Head(list) \in ToSet(list)
         /\ ToSet(Tail(list)) \cup {Head(list)} = ToSet(list)
         /\ IsInjective(list) => IsInjective(Tail(list)) /\ Head(list) \notin ToSet(Tail(list))
         /\ Len(list) > 1 => Tail(list) # <<>>
<1>1. /\ Len(list) \in Nat \ {0} /\ DOMAIN list = 1 .. Len(list)
      /\ Head(list) = list[1] /\ \A i \in 1 .. Len(list) : list[i] \in S
      /\ Tail(list) \in Seq(S)
      /\ Len(Tail(list)) = Len(list) - 1 /\ DOMAIN Tail(list) = 1 .. Len(list) - 1
      /\ \A i \in 1 .. Len(list) - 1 : Tail(list)[i] = list[i + 1]
  OBVIOUS
<1> DEFINE tail == Tail(list)
<1> HIDE DEF tail
<1>2. /\ DOMAIN tail = 1 .. Len(list) - 1 /\ \A i \in 1 .. Len(list) - 1 : tail[i] = list[i + 1]
      /\ tail \in Seq(S) /\ Len(tail) = Len(list) - 1
  BY <1>1 DEF tail
<1>3. Head(list) \in ToSet(list)
  BY <1>1 DEF ToSet
<1>4. ToSet(tail) \cup {Head(list)} = ToSet(list)
  <2>1. \A x \in ToSet(tail) : x \in ToSet(list)
    BY <1>1, <1>2 DEF ToSet
  <2>2. ASSUME NEW x \in ToSet(list), x # Head(list) PROVE x \in ToSet(tail)
    <3>1. PICK i \in 1 .. Len(list) : x = list[i] /\ i # 1
      BY <1>1, <2>2 DEF ToSet
    <3>2. i - 1 \in 1 .. Len(list) - 1 /\ (i - 1) + 1 = i
      BY <1>1, <3>1
    <3>3. x = tail[i - 1]
      BY <1>2, <3>1, <3>2
    <3> QED
      BY <1>2, <3>2, <3>3 DEF ToSet
  <2> QED
    BY <1>3, <2>1, <2>2
<1>5. ASSUME IsInjective(list) PROVE IsInjective(tail) /\ Head(list) \notin ToSet(tail)
  <2>1. \A i, j \in 1 .. Len(list) : list[i] = list[j] => i = j
    BY <1>1, <1>5 DEF IsInjective
  <2>2. \A i \in 1 .. Len(list) - 1 : i + 1 \in 1 .. Len(list) /\ i + 1 # 1
    BY <1>1
  <2>3. \A i, j \in 1 .. Len(list) - 1 : tail[i] = tail[j] => i = j
    <3> SUFFICES ASSUME NEW i \in 1 .. Len(list) - 1, NEW j \in 1 .. Len(list) - 1, tail[i] = tail[j]
                 PROVE  i = j
      OBVIOUS
    <3>1. i + 1 = j + 1
      BY <1>2, <2>1, <2>2
    <3> QED
      BY <3>1
  <2>4. \A i \in 1 .. Len(list) - 1 : tail[i] # Head(list)
    BY <1>1, <1>2, <2>1, <2>2
  <2> QED
    BY <1>2, <2>3, <2>4 DEF IsInjective, ToSet
<1>6. Len(list) > 1 => tail # <<>>
  BY <1>1, <1>2
<1>7. Head(list) \in S
  BY <1>1
<1> QED
  BY <1>2, <1>3, <1>4, <1>5, <1>6, <1>7 DEF tail

LEMMA OneAdded ==
  ASSUME NEW S, NEW list \in Seq(S), NEW e \in S
  PROVE  /\ Append(list, e) \in Seq(S) /\ Append(list, e) # <<>>
         /\ ToSet(Append(list, e)) = ToSet(list) \cup {e}
         /\ IsInjective(list) /\ e \notin ToSet(list) => IsInjective(Append(list, e))
<1> DEFINE longer == Append(list, e)
           n == Len(list)
<1>1. /\ longer \in Seq(S) /\ DOMAIN longer = 1 .. n + 1 /\ n \in Nat /\ DOMAIN list = 1 .. n
      /\ longer[n + 1] = e /\ \A i \in 1 .. n : longer[i] = list[i]
  OBVIOUS
<1> HIDE DEF longer
<1>2. longer # <<>>
  BY <1>1
<1>3. ToSet(longer) = ToSet(list) \cup {e}
  <2>1. 1 .. n + 1 = 1 .. n \cup {n + 1}
    BY <1>1
  <2> HIDE DEF n
  <2> QED
    BY <1>1, <2>1 DEF ToSet
<1>4. ASSUME IsInjective(list), e \notin ToSet(list) PROVE IsInjective(longer)
  <2>1. \A i, j \in 1 .. n : list[i] = list[j] => i = j
    BY <1>1, <1>4 DEF IsInjective
  <2>2. \A i \in 1 .. n : list[i] # e
    BY <1>1, <1>4 DEF ToSet
  <2>3. \A i \in 1 .. n + 1 : i \in 1 .. n \/ i = n + 1
    BY <1>1
  <2> HIDE DEF n
  <2> QED
    BY <1>1, <2>1, <2>2, <2>3 DEF IsInjective
<1> QED
  BY <1>1, <1>2, <1>3, <1>4 DEF longer

\* A run that has ended writes nothing.
LEMMA EndedIsApart ==
  ASSUME pc' = "idle", run' = Idle
  PROVE  /\ RunIsApart'
         /\ run' \in [end : 0 .. Hours, todo : Seq(Sids), wanted : Seq(Sids), base : Int]
<1>1. Idle \in [end : 0 .. Hours, todo : Seq(Sids), wanted : Seq(Sids), base : Int]
  BY TimesAre DEF Idle
<1>2. IsInjective(<<>>) /\ ToSet(<<>>) = {}
  BY DEF IsInjective, ToSet
<1>3. Idle.todo = <<>> /\ Idle.wanted = <<>>
  BY DEF Idle
<1> QED
  BY <1>1, <1>2, <1>3 DEF RunIsApart, Reading

\* The queue only shrinks: what a run has still to write stays apart.
LEMMA StaysApart ==
  ASSUME RunIsApart, UNCHANGED <<pc, run>>, queue = <<>> => queue' = <<>>,
         \A s : Queued(s)' => Queued(s)
  PROVE  RunIsApart'
BY DEF RunIsApart

\* A step of the run that queues nothing.
LEMMA NothingQueued ==
  ASSUME LineInv, UNCHANGED <<since, before, recorder, queue>>,
         pc' \in {"idle", "until"} \cup Reading, settled' \in BOOLEAN,
         run' \in [end : 0 .. Hours, todo : Seq(Sids), wanted : Seq(Sids), base : Int],
         RunIsApart'
  PROVE  LineInv'
<1>1. Lines'
  BY NothingWritten DEF LineInv, recorder
<1>2. YearType'
  BY DEF LineInv, YearType, recorder
<1> QED
  BY <1>1, <1>2 DEF LineInv

-----------------------------------------------------------------------------
(* The invariant, step by step.                                            *)

LEMMA InitLine == Init => LineInv
<1> SUFFICES ASSUME Init PROVE LineInv
  OBVIOUS
<1>1. queue = <<>> /\ DOMAIN queue = {}
  BY DEF Init
<1>2. \A s \in Sids : Held(s) = {}
  BY DEF Init, Held
<1>3. Lines
  BY <1>1, <1>2 DEF Lines, OneLine, Paired, Lands, LiveFirst, Queued
<1>4. RunIsApart /\ run \in [end : 0 .. Hours, todo : Seq(Sids), wanted : Seq(Sids), base : Int]
  <2>1. Idle \in [end : 0 .. Hours, todo : Seq(Sids), wanted : Seq(Sids), base : Int]
    BY TimesAre DEF Idle
  <2>2. IsInjective(<<>>) /\ ToSet(<<>>) = {}
    BY DEF IsInjective, ToSet
  <2>3. Idle.todo = <<>> /\ Idle.wanted = <<>> /\ run = Idle /\ pc = "idle"
    BY DEF Idle, Init
  <2> QED
    BY <2>1, <2>2, <2>3 DEF RunIsApart, Reading
<1>5. since \in Periods /\ before \in Int \cup {None} /\ since \in Clock
  BY YearAssumption, TimesAre DEF Init
<1>6. short \in [Sids -> [Periods -> Row \cup {None}]] /\ hour \in [Sids -> [0 .. Hours - 1 -> Row \cup {None}]]
  BY DEF Init
<1>7. queue \in Seq(YearTasks)
  BY <1>1
<1>8. since \in Int /\ now = since /\ marker = since /\ pc = "idle" /\ settled = FALSE
  BY <1>5, TimesAre DEF Init
<1>9. YearType
  <2>1. now \in Clock /\ marker \in Clock /\ since <= marker /\ marker <= now
    BY <1>5, <1>8
  <2>2. pc \in {"idle", "until"} \cup Reading /\ settled \in BOOLEAN
    BY <1>8
  <2> QED
    BY <1>4, <1>5, <1>6, <1>7, <2>1, <2>2 DEF YearType
<1> QED
  BY <1>3, <1>4, <1>9 DEF LineInv

LEMMA PeriodEndsLine == ASSUME LineInv, PeriodEnds PROVE LineInv'
<1>1. now' = now + 1 /\ now < Hours * PerHour
  BY DEF PeriodEnds
<1>2. UNCHANGED <<since, before, marker, short, hour, queue, pc, run, settled>>
  BY DEF PeriodEnds, memory
<1>3. now' \in Clock /\ marker <= now'
  BY <1>1, TimesAre DEF LineInv, YearType
<1>4. YearType'
  BY <1>2, <1>3 DEF LineInv, YearType
<1>5. RunIsApart'
  BY <1>2, StaysApart DEF LineInv, Queued
<1>6. Lines'
  BY <1>2, NothingWritten DEF LineInv
<1> QED
  BY <1>4, <1>5, <1>6 DEF LineInv

LEMMA CompileLine == ASSUME LineInv, Compile PROVE LineInv'
<1>1. YearType' /\ Lines'
  BY CompileType, CompileKeepsLines DEF LineInv
<1>2. RunIsApart'
  BY StaysApart DEF LineInv, Queued, Compile
<1> QED
  BY <1>1, <1>2 DEF LineInv

LEMMA WorkQueueLine == ASSUME LineInv, WorkQueue PROVE LineInv'
<1>1. YearType' /\ Lines'
  BY WorkQueueType, WorkQueueKeepsLines DEF LineInv
<1>2. queue # <<>> /\ queue' = Tail(queue) /\ UNCHANGED <<pc, run>>
  BY DEF WorkQueue
<1>3. \A s : Queued(s)' => Queued(s)
  BY <1>2, TailIs DEF LineInv, Queued
<1>4. RunIsApart'
  BY <1>2, <1>3, StaysApart DEF LineInv
<1> QED
  BY <1>1, <1>4 DEF LineInv

LEMMA StartLine == ASSUME LineInv, Drains, Start PROVE LineInv'
<1>1. /\ pc = "idle" /\ pc' = "until" /\ queue = <<>>
      /\ UNCHANGED <<since, before, recorder, queue, run, settled>>
  BY DEF Start, StartDue
<1>2. RunIsApart'
  BY <1>1 DEF LineInv, RunIsApart, Reading, Queued
<1> QED
  BY <1>1, <1>2, NothingQueued DEF LineInv, YearType

\* The hours to write are planned: a run begins on all the sensors, or the year is settled.
LEMMA PlanLine ==
  ASSUME LineInv, pc = "until", NEW end \in Int, end <= Hours, Plan(end),
         UNCHANGED <<since, before, recorder, queue>>
  PROVE  LineInv'
<1>1. CASE Settles
  BY <1>1, EndedIsApart, NothingQueued DEF Settles
<1>2. CASE end > 0 /\ pc' = "first" /\ run' = [Idle EXCEPT !.end = end, !.todo = Sensors]
           /\ UNCHANGED settled
  <2>1. run' = [end |-> end, todo |-> Sensors, wanted |-> <<>>, base |-> 0]
    BY <1>2 DEF Idle
  <2>2. Sensors \in Seq(Sids) /\ IsInjective(Sensors) /\ end \in 0 .. Hours
    BY <1>2, YearAssumption, TimesAre
  <2>3. run' \in [end : 0 .. Hours, todo : Seq(Sids), wanted : Seq(Sids), base : Int]
    BY <2>1, <2>2
  <2>4. IsInjective(<<>>) /\ ToSet(<<>>) = {}
    BY DEF IsInjective, ToSet
  <2>5. \A s : ~Queued(s)'
    BY DEF LineInv, RunIsApart, Queued
  <2>6. pc' = "first" /\ run'.end > 0 /\ run'.todo = Sensors /\ run'.wanted = <<>>
    <3>1. run'.end = end /\ run'.todo = Sensors /\ run'.wanted = <<>>
      BY <2>1
    <3>2. pc' = "first" /\ end > 0
      BY <1>2
    <3> QED
      BY <3>1, <3>2
  <2>7. RunIsApart'
    BY <2>2, <2>4, <2>5, <2>6 DEF RunIsApart, Reading
  <2> QED
    BY <1>2, <2>3, <2>7, NothingQueued DEF Reading, LineInv, YearType
<1> QED
  BY <1>1, <1>2 DEF Plan

\* The hours a run may plan are of the year.
LEMMA UntilIs ==
  ASSUME YearType
  PROVE  /\ CompiledUntil \in Int /\ CompiledUntil <= Hours /\ HourOf(since) <= CompiledUntil
         /\ GuessedUntil \in Int /\ GuessedUntil <= Hours /\ HourOf(since) - 1 <= GuessedUntil
<1>1. \A p, q \in Clock : p <= q =>
        HourOf(p) \in Int /\ HourOf(p) <= Hours /\ HourOf(p) <= HourOf(q)
  BY TimesAre DEF HourOf
<1>2. since \in Clock /\ since <= now
  BY TimesAre DEF YearType
<1> QED
  BY <1>1, <1>2, TimesAre DEF CompiledUntil, GuessedUntil, YearType

LEMMA UntilLine == ASSUME LineInv, ReadMarker \/ MarkerUnread PROVE LineInv'
BY UntilIs, PlanLine DEF ReadMarker, MarkerUnread, LineInv

LEMMA ReadFirstLine == ASSUME LineInv, ReadFirst PROVE LineInv'
<1> DEFINE s == Head(run.todo)
           missing == hour[s][0] = None
<1>1. /\ pc = "first" /\ run.todo # <<>> /\ pc' = "first"
      /\ UNCHANGED <<since, before, recorder, queue, settled>>
  BY DEF ReadFirst, memory
<1>2. run' = [run EXCEPT !.todo = Tail(run.todo),
                         !.wanted = IF missing THEN Append(run.wanted, s) ELSE run.wanted]
  BY DEF ReadFirst
<1> HIDE DEF missing
<1>3. /\ run.todo \in Seq(Sids) /\ run.wanted \in Seq(Sids) /\ run.end \in 0 .. Hours
      /\ run.base \in Int /\ run.end > 0
  BY <1>1 DEF LineInv, YearType, RunIsApart, Reading
<1>4. /\ run'.todo = Tail(run.todo) /\ run'.end = run.end /\ run'.base = run.base
      /\ run'.wanted = IF missing THEN Append(run.wanted, s) ELSE run.wanted
      /\ run' = [end |-> run'.end, todo |-> run'.todo, wanted |-> run'.wanted, base |-> run'.base]
  BY <1>2 DEF LineInv, YearType
<1>5. /\ s \in Sids /\ Tail(run.todo) \in Seq(Sids)
      /\ ToSet(Tail(run.todo)) \cup {s} = ToSet(run.todo)
      /\ IsInjective(run.todo) => IsInjective(Tail(run.todo)) /\ s \notin ToSet(Tail(run.todo))
  BY <1>1, <1>3, HeadTaken
<1> HIDE DEF s
<1>6. /\ Append(run.wanted, s) \in Seq(Sids)
      /\ ToSet(Append(run.wanted, s)) = ToSet(run.wanted) \cup {s}
      /\ IsInjective(run.wanted) /\ s \notin ToSet(run.wanted) => IsInjective(Append(run.wanted, s))
  BY <1>3, <1>5, OneAdded
<1>7. /\ IsInjective(run.todo) /\ IsInjective(run.wanted)
      /\ ToSet(run.todo) \cap ToSet(run.wanted) = {}
      /\ \A t \in ToSet(run.todo) \cup ToSet(run.wanted) : ~Queued(t)
  BY DEF LineInv, RunIsApart
<1>8. \A t : Queued(t)' <=> Queued(t)
  BY <1>1 DEF Queued
<1>9. run' \in [end : 0 .. Hours, todo : Seq(Sids), wanted : Seq(Sids), base : Int]
  <2>1. run'.wanted \in Seq(Sids) /\ run'.todo \in Seq(Sids)
    BY <1>3, <1>4, <1>5, <1>6
  <2> QED
    BY <1>3, <1>4, <2>1
<1>10. /\ IsInjective(run'.todo) /\ IsInjective(run'.wanted)
       /\ ToSet(run'.todo) \cap ToSet(run'.wanted) = {}
       /\ ToSet(run'.todo) \cup ToSet(run'.wanted) \subseteq ToSet(run.todo) \cup ToSet(run.wanted)
  BY <1>4, <1>5, <1>6, <1>7
<1>11. RunIsApart'
  BY <1>1, <1>3, <1>4, <1>7, <1>8, <1>10 DEF RunIsApart, Reading
<1> QED
  BY <1>1, <1>9, <1>11, NothingQueued DEF Reading, LineInv, YearType

LEMMA AskYearLine == ASSUME LineInv, AskYear PROVE LineInv'
<1>1. CASE Settles
  BY <1>1, EndedIsApart, NothingQueued DEF Settles, AskYear
<1>2. CASE run.wanted # <<>> /\ pc' = "year" /\ UNCHANGED <<run, settled>>
  <2>1. RunIsApart'
    BY <1>2 DEF LineInv, RunIsApart, Reading, AskYear, Queued
  <2> QED
    BY <1>2, <2>1, NothingQueued DEF AskYear, Reading, LineInv, YearType
<1> QED
  BY <1>1, <1>2 DEF AskYear

LEMMA ReadYearLine == ASSUME LineInv, ReadYear PROVE LineInv'
<1>1. RunIsApart'
  BY DEF LineInv, RunIsApart, Reading, ReadYear, Queued
<1> QED
  BY <1>1, NothingQueued DEF ReadYear, Reading, LineInv, YearType, memory

LEMMA ReadBaseLine == ASSUME LineInv, ReadBase PROVE LineInv'
<1> DEFINE base == IF before = None THEN 0 ELSE before
<1>1. base \in Int
  BY DEF LineInv, YearType
<1>2. run' = [run EXCEPT !.base = base]
  BY DEF ReadBase
<1> HIDE DEF base
<1>3. /\ run'.todo = run.todo /\ run'.wanted = run.wanted /\ run'.end = run.end
      /\ run' \in [end : 0 .. Hours, todo : Seq(Sids), wanted : Seq(Sids), base : Int]
  BY <1>1, <1>2 DEF LineInv, YearType
<1>4. RunIsApart'
  BY <1>3 DEF LineInv, RunIsApart, Reading, ReadBase, Queued
<1> QED
  BY <1>3, <1>4, NothingQueued DEF ReadBase, Reading, LineInv, YearType, memory

\* The year of the sensor at the head of the list is joined to a row it holds.
LEMMA JoinLine ==
  ASSUME LineInv, pc \in Reading \ {"first"}, NEW anchor \in Held(Head(run.wanted)),
         Join(anchor), UNCHANGED <<since, before, recorder>>
  PROVE  LineInv'
<1> DEFINE s == Head(run.wanted)
<1>1. /\ run.end > 0 /\ run.todo = <<>> /\ run.wanted # <<>> /\ IsInjective(run.wanted)
      /\ run.wanted \in Seq(Sids) /\ \A t \in ToSet(run.wanted) : ~Queued(t)
  BY DEF LineInv, RunIsApart, YearType
<1>2. /\ s \in Sids /\ Tail(run.wanted) \in Seq(Sids) /\ s \in ToSet(run.wanted)
      /\ ToSet(Tail(run.wanted)) \cup {s} = ToSet(run.wanted)
      /\ IsInjective(Tail(run.wanted)) /\ s \notin ToSet(Tail(run.wanted))
      /\ Len(run.wanted) > 1 => Tail(run.wanted) # <<>>
  BY <1>1, HeadTaken
<1>3. /\ queue' = queue \o Tasks(s, anchor, run.base, run.end)
      /\ UNCHANGED <<since, before, now, marker, short, hour>>
  BY DEF Join, recorder
<1> HIDE DEF s
<1>4. anchor \in Held(s)
  BY DEF s
<1>5. Lines' /\ queue' \in Seq(YearTasks) /\ \A t : Queued(t)' => t = s \/ Queued(t)
  BY <1>1, <1>2, <1>3, <1>4, JoinKeepsLines
<1>6. /\ RunIsApart' /\ pc' \in {"idle", "until"} \cup Reading /\ settled' \in BOOLEAN
      /\ run' \in [end : 0 .. Hours, todo : Seq(Sids), wanted : Seq(Sids), base : Int]
  <2>1. CASE Settles
    BY <2>1, EndedIsApart DEF Settles
  <2>2. CASE Len(run.wanted) > 1 /\ pc' = "base" /\ run' = [run EXCEPT !.wanted = Tail(@)]
             /\ UNCHANGED settled
    <3>1. /\ run'.todo = <<>> /\ run'.wanted = Tail(run.wanted) /\ run'.end = run.end
          /\ run' \in [end : 0 .. Hours, todo : Seq(Sids), wanted : Seq(Sids), base : Int]
      BY <1>1, <1>2, <2>2 DEF LineInv, YearType
    <3>2. IsInjective(<<>>) /\ ToSet(<<>>) = {}
      BY DEF IsInjective, ToSet
    <3>3. \A t \in ToSet(run'.wanted) : ~Queued(t)'
      BY <1>1, <1>2, <1>5, <3>1
    <3>4. RunIsApart'
      BY <1>1, <1>2, <2>2, <3>1, <3>2, <3>3 DEF RunIsApart, Reading
    <3> QED
      BY <2>2, <3>1, <3>4 DEF Reading, LineInv, YearType
  <2> QED
    BY <2>1, <2>2 DEF Join
<1>7. YearType'
  BY <1>3, <1>5, <1>6 DEF LineInv, YearType
<1> QED
  BY <1>5, <1>6, <1>7 DEF LineInv

LEMMA ReadAnchorLine == ASSUME LineInv, ReadAnchor PROVE LineInv'
<1> DEFINE s == Head(run.wanted)
           anchor == hour[s][run.end - 1]
<1>1. pc = "anchor" /\ UNCHANGED <<since, before, recorder>>
  BY DEF ReadAnchor
<1>2. run.end - 1 \in 0 .. Hours - 1
  <2>1. run.end \in 0 .. Hours /\ run.end > 0
    BY <1>1 DEF LineInv, YearType, RunIsApart, Reading
  <2> QED
    BY <2>1, TimesAre
<1>3. CASE anchor # None /\ Join(anchor)
  <2>1. anchor \in Held(s)
    BY <1>2, <1>3, HeldAre, RowsInAre
  <2> QED
    BY <1>1, <1>3, <2>1, JoinLine DEF Reading
<1>4. CASE pc' = "anchor5" /\ UNCHANGED <<run, settled, queue>>
  <2>1. RunIsApart'
    BY <1>1, <1>4 DEF LineInv, RunIsApart, Reading, Queued
  <2> QED
    BY <1>1, <1>4, <2>1, NothingQueued DEF Reading, LineInv, YearType
<1> QED
  BY <1>3, <1>4 DEF ReadAnchor

LEMMA ReadFirstMinutesLine == ASSUME LineInv, ReadFirstMinutes PROVE LineInv'
<1> DEFINE s == Head(run.wanted)
           live == {p \in Periods : HourOf(p) >= run.end /\ short[s][p] # None}
           latest == CHOOSE p \in live : \A q \in live : p <= q
<1>1. pc = "anchor5" /\ UNCHANGED <<since, before, recorder>>
  BY DEF ReadFirstMinutes
<1>2. CASE GivesUp /\ UNCHANGED queue
  BY <1>1, <1>2, EndedIsApart, NothingQueued DEF GivesUp, LineInv, YearType
<1>3. CASE live # {} /\ Join(short[s][latest])
  <2>1. live \subseteq Nat
    BY TimesAre
  <2> HIDE DEF live
  <2>2. \E p \in live : \A q \in live : p <= q
    BY <1>3, <2>1, FirstOf
  <2>3. latest \in live
    BY <2>2
  <2>4. latest \in Periods /\ short[s][latest] # None
    BY <2>3 DEF live
  <2> HIDE DEF latest
  <2>5. short[s][latest] \in Held(s)
    BY <2>4, HeldAre, RowsInAre
  <2> QED
    BY <1>1, <1>3, <2>5, JoinLine DEF Reading
<1> QED
  BY <1>2, <1>3 DEF ReadFirstMinutes

\* A run that is cut off leaves the queue as it stands, or a crash loses it.
LEMMA CutOffLine == ASSUME LineInv, ReadFails \/ Reload PROVE LineInv'
BY EndedIsApart, NothingQueued DEF ReadFails, Reload, GivesUp, NewCoordinator, LineInv, YearType

LEMMA CrashLine == ASSUME LineInv, Crash PROVE LineInv'
<1>1. /\ UNCHANGED <<since, before, now, marker, short, hour>> /\ queue' = <<>> /\ DOMAIN queue' = {}
      /\ pc' = "idle" /\ run' = Idle /\ settled' = FALSE
  BY DEF Crash, NewCoordinator, recorder
<1>2. RunIsApart' /\ run' \in [end : 0 .. Hours, todo : Seq(Sids), wanted : Seq(Sids), base : Int]
  BY <1>1, EndedIsApart
<1>3. \A s : Held(s)' = Held(s)
  BY <1>1 DEF Held
<1>4. OneLine' /\ LiveFirst'
  BY <1>1, <1>3 DEF LineInv, Lines, OneLine, LiveFirst, Queued
<1>5. Paired' /\ Lands'
  BY <1>1 DEF Paired, Lands
<1>6. queue' \in Seq(YearTasks)
  BY <1>1
<1>7. YearType'
  BY <1>1, <1>2, <1>6 DEF LineInv, YearType
<1> QED
  BY <1>2, <1>4, <1>5, <1>7 DEF LineInv, Lines

LEMMA StepLine == ASSUME Drains, LineInv, [Next \/ Done]_vars PROVE LineInv'
<1>1. CASE UNCHANGED vars
  <2>1. RunIsApart'
    BY <1>1, StaysApart DEF vars, LineInv, Queued
  <2> QED
    BY <1>1, <2>1, NothingQueued DEF vars, memory, LineInv, YearType
<1>2. CASE Next
  BY <1>2, PeriodEndsLine, CompileLine, WorkQueueLine, StartLine, UntilLine, ReadFirstLine,
     AskYearLine, ReadYearLine, ReadBaseLine, ReadAnchorLine, ReadFirstMinutesLine, CutOffLine,
     CrashLine DEF Next
<1> QED
  BY <1>1, <1>2 DEF Done

\* At every moment, with the run's tasks half worked off or lost in a crash, the
\* rows of each sensor's year are on one running total (statistics.py,
\* _import_year_rows and async_backfill_year).
THEOREM YearStaysOneLine == ASSUME Drains PROVE Spec => []OneLine
<1>1. LineInv => OneLine
  BY DEF LineInv, Lines
<1>2. LineInv /\ [Next \/ Done]_vars => LineInv'
  BY StepLine
<1> QED
  BY <1>1, <1>2, InitLine, PTL DEF Spec

-----------------------------------------------------------------------------
(* A settled year is written.                                              *)

Written(s) == hour[s][0] # None \/ \E i \in DOMAIN queue : Imports(i) /\ queue[i].sid = s

\* A run has every sensor on its lists, or written.
Accounted ==
  /\ settled /\ HourOf(since) > 1 => \A s \in Sids : Written(s)
  /\ pc \in Reading => \A s \in Sids : s \in ToSet(run.todo) \cup ToSet(run.wanted) \/ Written(s)

\* What is written stays so, but for what a crash takes off the queue.
LEMMA StaysWritten ==
  ASSUME LineInv, UNCHANGED <<hour, queue>>, NEW s
  PROVE  Written(s)' <=> Written(s)
BY DEF Written, Imports

LEMMA CompileWritten == ASSUME LineInv, Compile, NEW s \in Sids, Written(s) PROVE Written(s)'
<1>1. HourOf(marker) \in 0 .. Hours - 1 /\ marker \in Periods /\ queue' = queue /\ YearType
  BY CompileType DEF LineInv, Compile
<1>2. CASE hour[s][0] = None
  BY <1>1, <1>2 DEF Written, Imports
<1>3. CASE hour[s][0] # None
  <2>1. CompiledRow(s, marker) # None
    BY <1>1, CountsOn, NoneIsNoRow
  <2>2. /\ short'[s][marker] = CompiledRow(s, marker)
        /\ hour[s] \in [0 .. Hours - 1 -> Row \cup {None}]
    BY <1>1 DEF Compile, YearType
  <2>3. hour'[s] = hour[s] \/ hour'[s] = [hour[s] EXCEPT ![HourOf(marker)] = CompiledRow(s, marker)]
    <3>1. hour' = hour \/ hour' = [t \in Sids |-> [hour[t] EXCEPT ![HourOf(marker)] = short'[t][marker]]]
      BY DEF Compile
    <3> QED
      BY <2>2, <3>1
  <2>4. hour'[s][0] # None
    BY <1>1, <1>3, <2>1, <2>2, <2>3, TimesAre
  <2> QED
    BY <2>4 DEF Written
<1> QED
  BY <1>2, <1>3

LEMMA WorkQueueWritten == ASSUME LineInv, WorkQueue, NEW s \in Sids, Written(s) PROVE Written(s)'
<1> DEFINE task == queue[1]
<1>1. /\ queue' = Tail(queue) /\ queue # <<>> /\ YearType
      /\ DOMAIN queue = 1 .. Len(queue) /\ Len(queue) \in Nat \ {0}
      /\ DOMAIN queue' = 1 .. Len(queue) - 1
      /\ \A i \in DOMAIN queue' : queue'[i] = queue[i + 1]
      /\ task \in YearTasks /\ 0 \in 0 .. Hours - 1
  BY TailIs, TimesAre DEF LineInv, WorkQueue
<1>2. CASE hour[s][0] # None
  <2>1. hour[s] \in [0 .. Hours - 1 -> Row \cup {None}]
    BY <1>1 DEF YearType
  <2>2. CASE s # task.sid
    BY <1>1, <1>2, <2>2, TaskWorked DEF Written
  <2>3. CASE s = task.sid /\ task.op = "adjust"
    <3>1. hour'[s] = [h \in 0 .. Hours - 1 |-> Shifted(hour[s][h], task.by)]
      BY <1>1, <2>3, TaskWorked
    <3>2. hour'[s][0] = Shifted(hour[s][0], task.by)
      BY <1>1, <3>1
    <3>3. hour'[s][0] # None
      BY <1>1, <1>2, <2>1, <2>3, <3>2, TaskIs, ShiftedMoves
    <3> QED
      BY <3>3 DEF Written
  <2>4. CASE s = task.sid /\ task.op = "import"
    <3>1. hour'[s] = [h \in 0 .. Hours - 1 |-> IF h \in DOMAIN task.rows THEN task.rows[h] ELSE hour[s][h]]
      BY <1>1, <2>4, TaskWorked
    <3>2. hour'[s][0] # None
      BY <1>1, <2>4, <3>1, TaskIs, NoneIsNoRow
    <3> QED
      BY <3>2 DEF Written
  <2> QED
    BY <1>1, <2>2, <2>3, <2>4 DEF WorkQueue
<1>3. CASE \E i \in DOMAIN queue : Imports(i) /\ queue[i].sid = s
  <2>1. PICK i \in DOMAIN queue : Imports(i) /\ queue[i].sid = s
    BY <1>3
  <2>2. CASE i = 1
    <3>1. hour'[s] = [h \in 0 .. Hours - 1 |-> IF h \in DOMAIN task.rows THEN task.rows[h] ELSE hour[s][h]]
      BY <1>1, <2>1, <2>2, TaskWorked DEF Imports
    <3>2. hour'[s][0] # None
      BY <1>1, <2>1, <2>2, <3>1, TaskIs, NoneIsNoRow DEF Imports
    <3> QED
      BY <3>2 DEF Written
  <2>3. CASE i # 1
    <3>1. i - 1 \in DOMAIN queue' /\ queue'[i - 1] = queue[i]
      <4>1. i - 1 \in DOMAIN queue' /\ (i - 1) + 1 = i
        BY <1>1, <2>1, <2>3
      <4> QED
        BY <1>1, <4>1
    <3> QED
      BY <2>1, <3>1 DEF Written, Imports
  <2> QED
    BY <2>2, <2>3
<1> QED
  BY <1>2, <1>3 DEF Written


\* Joining a sensor's year queues its import, and loses none.
LEMMA JoinWritten ==
  ASSUME LineInv, pc \in Reading \ {"first"}, NEW t, t = Head(run.wanted),
         NEW anchor \in Held(t), Join(anchor), UNCHANGED recorder
  PROVE  Written(t)' /\ \A s : Written(s) => Written(s)'
<1> SUFFICES ASSUME NEW m, m = Len(queue'), NEW n, n = Len(queue)
             PROVE  Written(t)' /\ \A s : Written(s) => Written(s)'
  OBVIOUS
<1>1. /\ run.end > 0 /\ t \in Sids /\ YearType
      /\ queue' = queue \o Tasks(t, anchor, run.base, run.end) /\ hour' = hour
  BY HeadTaken DEF LineInv, RunIsApart, YearType, Join, recorder
<1>2. anchor \in Row
  BY <1>1, HeldAreRows
<1>3. /\ n \in Nat /\ m \in {n + 1, n + 2}
      /\ DOMAIN queue = 1 .. n /\ DOMAIN queue' = 1 .. m
      /\ \A i \in 1 .. n : queue'[i] = queue[i]
      /\ queue'[m].op = "import" /\ queue'[m].sid = t
  BY <1>1, <1>2, TasksAre
<1>4. m \in DOMAIN queue' /\ \A i \in DOMAIN queue : i \in DOMAIN queue'
  BY <1>3
<1>5. Written(t)'
  BY <1>3, <1>4 DEF Written, Imports
<1>6. ASSUME NEW s, Written(s) PROVE Written(s)'
  BY <1>1, <1>3, <1>4, <1>6 DEF Written, Imports
<1> QED
  BY <1>5, <1>6

\* The last sensor joined settles the year, an earlier one leaves the others on the list.
LEMMA JoinAccounts ==
  ASSUME LineInv, Accounted, pc \in Reading \ {"first"}, NEW t, t = Head(run.wanted),
         NEW anchor \in Held(t), Join(anchor), UNCHANGED <<since, before, recorder>>
  PROVE  Accounted'
<1>1. /\ run.todo = <<>> /\ run.wanted # <<>> /\ run.wanted \in Seq(Sids) /\ ToSet(<<>>) = {}
      /\ since' = since
  BY DEF LineInv, RunIsApart, YearType, ToSet
<1>2. ToSet(Tail(run.wanted)) \cup {t} = ToSet(run.wanted)
  BY <1>1, HeadTaken
<1>3. Written(t)' /\ \A s : Written(s) => Written(s)'
  BY JoinWritten
<1>4. \A s \in Sids : s \in ToSet(Tail(run.wanted)) \/ Written(s)'
  BY <1>1, <1>2, <1>3 DEF Accounted
<1>5. CASE Len(run.wanted) = 1 /\ Settles
  <2>1. ToSet(Tail(run.wanted)) = {}
    BY <1>1, <1>5 DEF ToSet
  <2> QED
    BY <1>4, <1>5, <2>1 DEF Accounted, Settles, Reading
<1>6. CASE pc' = "base" /\ run' = [run EXCEPT !.wanted = Tail(@)] /\ UNCHANGED settled
  <2>1. run'.wanted = Tail(run.wanted)
    BY <1>6 DEF LineInv, YearType
  <2>2. \A s \in Sids : s \in ToSet(run'.todo) \cup ToSet(run'.wanted) \/ Written(s)'
    BY <1>4, <2>1
  <2> QED
    BY <1>1, <1>3, <1>6, <2>2 DEF Accounted, HourOf
<1> QED
  BY <1>5, <1>6 DEF Join

\* A step that takes no sensor off a list and settles nothing.
LEMMA NothingSettled ==
  ASSUME Accounted, since' = since, settled' => settled, \A s \in Sids : Written(s) => Written(s)',
         pc' \in Reading => pc \in Reading /\ UNCHANGED <<run.todo, run.wanted>>
  PROVE  Accounted'
BY DEF Accounted, HourOf

LEMMA PlanAccounts ==
  ASSUME LineInv, Accounted, pc = "until", NEW end \in Int, HourOf(since) - 1 <= end, Plan(end),
         UNCHANGED <<since, recorder, queue>>
  PROVE  Accounted'
<1>1. \A s : Written(s)' <=> Written(s)
  BY StaysWritten DEF recorder
<1>2. HourOf(since)' = HourOf(since) /\ HourOf(since) \in Int
  BY TimesAre DEF HourOf, LineInv, YearType
<1>3. CASE end <= 0 /\ Settles
  BY <1>2, <1>3 DEF Settles, Accounted, Reading
<1>4. CASE pc' = "first" /\ run' = [Idle EXCEPT !.end = end, !.todo = Sensors] /\ UNCHANGED settled
  <2>1. run'.todo = Sensors
    BY <1>4 DEF Idle
  <2> QED
    BY <1>1, <1>2, <1>4, <2>1 DEF Accounted, Sids
<1> QED
  BY <1>3, <1>4 DEF Plan

LEMMA ReadFirstAccounts == ASSUME LineInv, Accounted, ReadFirst PROVE Accounted'
<1> DEFINE s == Head(run.todo)
           missing == hour[s][0] = None
<1>1. run' = [run EXCEPT !.todo = Tail(run.todo),
                         !.wanted = IF missing THEN Append(run.wanted, s) ELSE run.wanted]
  BY DEF ReadFirst
<1> HIDE DEF missing
<1>2. /\ run'.todo = Tail(run.todo)
      /\ run'.wanted = IF missing THEN Append(run.wanted, s) ELSE run.wanted
  BY <1>1 DEF LineInv, YearType
<1>3. /\ run.todo \in Seq(Sids) /\ run.todo # <<>> /\ run.wanted \in Seq(Sids) /\ pc = "first"
      /\ pc' = "first" /\ since' = since /\ settled' = settled
  BY DEF LineInv, YearType, ReadFirst, memory
<1>4. s \in Sids /\ ToSet(Tail(run.todo)) \cup {s} = ToSet(run.todo)
  BY <1>3, HeadTaken
<1> HIDE DEF s
<1>5. ToSet(Append(run.wanted, s)) = ToSet(run.wanted) \cup {s}
  BY <1>3, <1>4, OneAdded
<1>6. \A t : Written(t)' <=> Written(t)
  BY StaysWritten DEF ReadFirst, recorder
<1>7. ~missing => Written(s)
  BY DEF missing, Written
<1>8. \A t \in Sids : t \in ToSet(run.todo) \cup ToSet(run.wanted) \/ Written(t)
  BY <1>3 DEF Accounted, Reading
<1>9. \A t \in Sids : t \in ToSet(run'.todo) \cup ToSet(run'.wanted) \/ Written(t)'
  BY <1>2, <1>4, <1>5, <1>6, <1>7, <1>8
<1> QED
  BY <1>3, <1>6, <1>9 DEF Accounted, HourOf

LEMMA AskYearAccounts == ASSUME LineInv, Accounted, AskYear PROVE Accounted'
<1>1. \A t : Written(t)' <=> Written(t)
  BY StaysWritten DEF AskYear, recorder
<1>2. CASE run.wanted = <<>> /\ Settles
  <2>1. ToSet(<<>>) = {}
    BY DEF ToSet
  <2> QED
    BY <1>1, <1>2, <2>1 DEF AskYear, Accounted, Reading, Settles
<1>3. CASE pc' = "year" /\ UNCHANGED <<run, settled>>
  BY <1>1, <1>3, NothingSettled DEF AskYear, Reading
<1> QED
  BY <1>2, <1>3 DEF AskYear

LEMMA JoinsAccount == ASSUME LineInv, Accounted, ReadAnchor \/ ReadFirstMinutes PROVE Accounted'
<1> DEFINE s == Head(run.wanted)
           live == {p \in Periods : HourOf(p) >= run.end /\ short[s][p] # None}
           latest == CHOOSE p \in live : \A q \in live : p <= q
<1>1. pc \in Reading \ {"first"} /\ UNCHANGED <<since, before, recorder>>
  BY DEF ReadAnchor, ReadFirstMinutes, Reading
<1>2. ASSUME NEW anchor \in Held(s), Join(anchor) PROVE Accounted'
  BY <1>1, <1>2, JoinAccounts
<1>3. CASE UNCHANGED <<settled, queue>> /\ (pc' = "idle" \/ (pc' = "anchor5" /\ run' = run))
  <2>1. \A t : Written(t)' <=> Written(t)
    BY <1>1, <1>3, StaysWritten DEF recorder
  <2> QED
    BY <1>1, <1>3, <2>1, NothingSettled DEF Reading
<1>4. CASE hour[s][run.end - 1] # None /\ Join(hour[s][run.end - 1])
  <2>1. run.end - 1 \in 0 .. Hours - 1
    <3>1. run.end \in 0 .. Hours /\ run.end > 0
      BY <1>1 DEF LineInv, YearType, RunIsApart
    <3> QED
      BY <3>1, TimesAre
  <2>2. hour[s][run.end - 1] \in Held(s)
    BY <1>4, <2>1, HeldAre, RowsInAre
  <2> QED
    BY <1>2, <1>4, <2>2
<1>5. CASE live # {} /\ Join(short[s][latest])
  <2>1. live \subseteq Nat
    BY TimesAre
  <2> HIDE DEF live
  <2>2. \E p \in live : \A q \in live : p <= q
    BY <1>5, <2>1, FirstOf
  <2>3. latest \in live
    BY <2>2
  <2>4. latest \in Periods /\ short[s][latest] # None
    BY <2>3 DEF live
  <2> HIDE DEF latest
  <2>5. short[s][latest] \in Held(s)
    BY <2>4, HeldAre, RowsInAre
  <2> QED
    BY <1>2, <1>5, <2>5
<1>6. CASE ReadAnchor
  <2>1. CASE hour[s][run.end - 1] # None /\ Join(hour[s][run.end - 1])
    BY <1>4, <2>1
  <2>2. CASE pc' = "anchor5" /\ UNCHANGED <<run, settled, queue>>
    <3>1. UNCHANGED <<settled, queue>>
      BY <2>2
    <3>2. pc' = "anchor5" /\ run' = run
      BY <2>2
    <3> QED
      BY <1>3, <3>1, <3>2
  <2> QED
    BY <1>6, <2>1, <2>2 DEF ReadAnchor
<1>7. CASE ReadFirstMinutes
  <2>1. CASE live # {} /\ Join(short[s][latest])
    BY <1>5, <2>1
  <2>2. CASE GivesUp /\ UNCHANGED queue
    <3>1. UNCHANGED <<settled, queue>>
      BY <2>2 DEF GivesUp
    <3>2. pc' = "idle"
      BY <2>2 DEF GivesUp
    <3> QED
      BY <1>3, <3>1, <3>2
  <2> QED
    BY <1>7, <2>1, <2>2 DEF ReadFirstMinutes
<1> QED
  BY <1>6, <1>7

LEMMA StepAccounts == ASSUME LineInv, Accounted, [Next \/ Done]_vars PROVE Accounted'
<1>1. CASE Compile
  BY <1>1, CompileWritten, NothingSettled DEF Compile, memory
<1>2. CASE WorkQueue
  BY <1>2, WorkQueueWritten, NothingSettled DEF WorkQueue, memory
<1>3. CASE ReadMarker \/ MarkerUnread
  <2>1. HourOf(since) - 1 <= CompiledUntil
    <3>1. HourOf(since) \in Int
      BY TimesAre DEF LineInv, YearType, HourOf
    <3> QED
      BY <3>1, UntilIs DEF LineInv
  <2> QED
    BY <1>3, <2>1, UntilIs, PlanAccounts DEF ReadMarker, MarkerUnread, LineInv
<1>4. CASE Reload \/ Crash
  BY <1>4 DEF Reload, Crash, NewCoordinator, Accounted, Reading
<1>5. CASE PeriodEnds \/ Start \/ ReadYear \/ ReadFails \/ UNCHANGED vars
  <2>1. \A t : Written(t)' <=> Written(t)
    BY <1>5, StaysWritten DEF PeriodEnds, Start, ReadYear, ReadFails, vars, recorder
  <2>2. since' = since /\ (settled' => settled)
    BY <1>5 DEF PeriodEnds, Start, ReadYear, ReadFails, vars, GivesUp, memory
  <2>3. pc' \in Reading => pc \in Reading /\ UNCHANGED run
    BY <1>5 DEF PeriodEnds, Start, ReadYear, ReadFails, vars, GivesUp, Reading
  <2> QED
    BY <2>1, <2>2, <2>3, NothingSettled
<1>6. CASE ReadBase
  <2>1. \A t : Written(t)' <=> Written(t)
    BY <1>6, StaysWritten DEF ReadBase, recorder
  <2>2. UNCHANGED <<run.todo, run.wanted>>
    BY <1>6 DEF ReadBase, LineInv, YearType
  <2> QED
    BY <1>6, <2>1, <2>2, NothingSettled DEF ReadBase, Reading, memory
<1> QED
  BY <1>1, <1>2, <1>3, <1>4, <1>5, <1>6, ReadFirstAccounts, AskYearAccounts, JoinsAccount
  DEF Next, Done

\* A year is settled only once the first hour of every sensor is written, or its
\* import queued (statistics.py, async_backfill_year), unless the sensors
\* started in the year's first two hours.
THEOREM SettledYearIsWritten == ASSUME Drains PROVE Spec => []SettledIsWritten
<1>1. Init => Accounted
  BY DEF Init, Accounted, Reading
<1>2. LineInv /\ Accounted /\ [Next \/ Done]_vars => LineInv' /\ Accounted'
  BY StepLine, StepAccounts
<1>3. Accounted => SettledIsWritten
  BY DEF Accounted, SettledIsWritten, Written, Imports
<1> QED
  BY <1>1, <1>2, <1>3, InitLine, PTL DEF Spec

-----------------------------------------------------------------------------
(* The parts side by side: a behaviour stays with the part it is of, and    *)
(* is one of that part's own behaviours, of which its theorems speak.       *)

PB == INSTANCE PriceBackfillProofs WITH
        Hours <- PriceHours, MaxFails <- PriceFails, pc <- callers, left <- budget

SP == INSTANCE YearSensorProofs WITH
        state <- sensor, Entries <- Households, Cards <- BillCards, Years <- BillYears,
        Days <- BillDays, Draws <- BillDraws, MaxChanges <- BillChanges, year <- billYear,
        day <- billDay

FP == INSTANCE CardFetchProofs WITH
        year <- today, shown <- shownCard, MaxFails <- ArchiveFails, pc <- walk,
        run <- locals, left <- runsLeft

LEMMA TopicStays == [PartsNext]_partsVars => topic' = topic
  BY DEF PartsNext, partsVars, YearNext, PriceNext, MeterNext, ArchiveNext, BillNext,
         SensorNext, FetchNext, CookieNext

\* The price history's.
LEMMA PriceIsAPart ==
  /\ PB!PriceAssumption
  /\ topic = "price" /\ PartsInit => PB!Init
  /\ topic = "price" /\ [PartsNext]_partsVars =>
       [PB!Next \/ PB!Done]_(PB!vars) /\ (topic = "price")'
  /\ ~(topic = "price") /\ [PartsNext]_partsVars => (~(topic = "price"))'
<1>1. PB!PriceAssumption
  BY PartsAssumption DEF P!PriceAssumption, P!Utilities, P!Rates, PB!PriceAssumption,
         PB!Utilities, PB!Rates
<1>2. P!Init => PB!Init
  BY DEF P!Init, P!HourSet, P!NoJob, P!Callers, PB!Init, PB!HourSet, PB!NoJob, PB!Callers
<1>3. (P!Next \/ P!Done) => (PB!Next \/ PB!Done)
  BY DEF P!Next, P!SetupStarts, P!Publish, P!recorder, P!AddedAtSetup, P!CleanOrphan, P!HourSet,
         P!entry, P!Clears, P!Prepare, P!Ends, P!NoJob, P!Defers, P!Reconfigure, P!tasks,
         P!SetupDone, P!ReadMarker, P!CompiledUntil, P!Plan, P!HourEnds, P!Callers, P!Crash,
         P!Unload, P!WriteKey, P!Stamped, P!Begin, P!Orphans, P!MovedOperator, P!GateNow, P!Alone,
         P!Busy, P!Compile, P!MarkerUnread, P!Refresh, P!Done, P!vars, PB!Next, PB!SetupStarts,
         PB!Publish, PB!recorder, PB!AddedAtSetup, PB!CleanOrphan, PB!HourSet, PB!entry,
         PB!Clears, PB!Prepare, PB!Ends, PB!NoJob, PB!Defers, PB!Reconfigure, PB!tasks,
         PB!SetupDone, PB!ReadMarker, PB!CompiledUntil, PB!Plan, PB!HourEnds, PB!Callers,
         PB!Crash, PB!Unload, PB!WriteKey, PB!Stamped, PB!Begin, PB!Orphans, PB!MovedOperator,
         PB!GateNow, PB!Alone, PB!Busy, PB!Compile, PB!MarkerUnread, PB!Refresh, PB!Done, PB!vars
<1>4. topic = "price" /\ PartsInit => P!Init
  BY DEF PartsInit
<1>5. topic = "price" /\ [PartsNext]_partsVars => (P!Next \/ P!Done) \/ UNCHANGED priceVars
  BY DEF PartsNext, partsVars, YearNext, PriceNext, MeterNext, ArchiveNext, BillNext,
         SensorNext, FetchNext, CookieNext
<1>6. UNCHANGED priceVars => UNCHANGED PB!vars
  BY DEF priceVars, PB!vars, PB!entry, PB!recorder, PB!tasks
<1>7. QED
  BY <1>1, <1>2, <1>3, <1>4, <1>5, <1>6, TopicStays

\* Whatever the runs overlap with, fail at or are cut off by (statistics.py,
\* _async_compiled_until).
THEOREM PricesAreNeverLost ==
  PartsSpec => []NothingLost
<1>1. PB!Spec => []PB!NothingLost
  BY PriceIsAPart, PB!NoHourIsLost
<1>2. (topic = "price" => PB!NothingLost) => NothingLost
  BY DEF NothingLost, P!NothingLost, PB!NothingLost
<1>3. QED
  BY <1>1, <1>2, PriceIsAPart, PTL DEF PartsSpec, PB!Spec

\* Where runs do not overlap and the entry never returns to a place (statistics.py,
\* async_maybe_backfill_once).
THEOREM PriceStampIsRight ==
  ASSUME ~Overlaps, NEW CONSTANT rank \in [Places -> Nat]
  PROVE  PartsSpec /\ [][PB!Onward(rank)]_(PB!vars) => []StampedLineIsRight
<1>1. PB!Spec /\ [][PB!Onward(rank)]_(PB!vars) => []PB!StampedLineIsRight
  BY PriceIsAPart, PB!StampedLineHolds
<1>2. (topic = "price" => PB!StampedLineIsRight) => StampedLineIsRight
  BY DEF StampedLineIsRight, P!StampedLineIsRight, P!Answered, P!HourSet, P!Settled, P!GateNow,
         P!Callers, PB!StampedLineIsRight, PB!Answered, PB!HourSet, PB!Settled, PB!GateNow,
         PB!Callers
<1>3. QED
  BY <1>1, <1>2, PriceIsAPart, PTL DEF PartsSpec, PB!Spec

\* Where runs do not overlap and the entry never returns to an operator (statistics.py,
\* _async_clear_orphan_backfill_keys).
THEOREM PriceKeysAreCleared ==
  ASSUME ~Overlaps, NEW CONSTANT rank \in [PB!Utilities -> Nat]
  PROVE  PartsSpec /\ [][PB!OnwardOperator(rank)]_(PB!vars) => []NothingLeftBehind
<1>1. PB!Spec /\ [][PB!OnwardOperator(rank)]_(PB!vars) => []PB!NothingLeftBehind
  BY PriceIsAPart, PB!NoRowsAreLeftBehind
<1>2. (topic = "price" => PB!NothingLeftBehind) => NothingLeftBehind
  BY DEF NothingLeftBehind, P!NothingLeftBehind, P!Answered, P!HourSet, P!Settled, P!GateNow,
         P!Callers, PB!NothingLeftBehind, PB!Answered, PB!HourSet, PB!Settled, PB!GateNow,
         PB!Callers
<1>3. QED
  BY <1>1, <1>2, PriceIsAPart, PTL DEF PartsSpec, PB!Spec

\* The archive's.
LEMMA ArchiveIsAPart ==
  /\ FP!A!ArchiveAssumption
  /\ topic = "archive" /\ PartsInit => FP!A!Init
  /\ topic = "archive" /\ [PartsNext]_partsVars =>
       [FP!A!Next \/ FP!A!Done]_(FP!A!vars) /\ (topic = "archive")'
  /\ ~(topic = "archive") /\ [PartsNext]_partsVars => (~(topic = "archive"))'
<1>1. FP!A!ArchiveAssumption
  BY PartsAssumption DEF A!ArchiveAssumption, A!RowSet, A!ToSet, A!ParserSet,
         FP!A!ArchiveAssumption, FP!A!RowSet, FP!A!ToSet, FP!A!ParserSet
<1>2. A!Init => FP!A!Init
  BY DEF A!Init, A!RowSet, A!ToSet, A!MonthSet, A!NoRun, FP!A!Init, FP!A!RowSet, FP!A!ToSet,
         FP!A!MonthSet, FP!A!NoRun
<1>3. (A!Next \/ A!Done) => (FP!A!Next \/ FP!A!Done)
  BY DEF A!Next, A!MonthTurns, A!ReplayRow, A!Replays, A!InRelease, A!OnDisk, A!Written, A!Stored,
         A!SameCard, A!Previous, A!Max, A!Seeded, A!Row, A!Text, A!world, A!DownloadFails,
         A!CannotReplay, A!Dies, A!Rest, A!NoRun, A!PushFails, A!Push, A!Prune, A!Referenced,
         A!StoredRows, A!RowSet, A!ToSet, A!MonthSet, A!Cutoff, A!Restrict, A!Named, A!Stays,
         A!Keep, A!Surviving, A!Start, A!Walked, A!Capture, A!Unkept, A!Filed, A!Publishes,
         A!ParserMoves, A!Replayed, A!Stamp, A!CaptureFails, A!Done, A!vars, FP!A!Next,
         FP!A!MonthTurns, FP!A!ReplayRow, FP!A!Replays, FP!A!InRelease, FP!A!OnDisk, FP!A!Written,
         FP!A!Stored, FP!A!SameCard, FP!A!Previous, FP!A!Max, FP!A!Seeded, FP!A!Row, FP!A!Text,
         FP!A!world, FP!A!DownloadFails, FP!A!CannotReplay, FP!A!Dies, FP!A!Rest, FP!A!NoRun,
         FP!A!PushFails, FP!A!Push, FP!A!Prune, FP!A!Referenced, FP!A!StoredRows, FP!A!RowSet,
         FP!A!ToSet, FP!A!MonthSet, FP!A!Cutoff, FP!A!Restrict, FP!A!Named, FP!A!Stays, FP!A!Keep,
         FP!A!Surviving, FP!A!Start, FP!A!Walked, FP!A!Capture, FP!A!Unkept, FP!A!Filed,
         FP!A!Publishes, FP!A!ParserMoves, FP!A!Replayed, FP!A!Stamp, FP!A!CaptureFails,
         FP!A!Done, FP!A!vars
<1>4. topic = "archive" /\ PartsInit => A!Init
  BY DEF PartsInit
<1>5. topic = "archive" /\ [PartsNext]_partsVars => (A!Next \/ A!Done) \/ UNCHANGED archiveVars
  BY DEF PartsNext, partsVars, YearNext, PriceNext, MeterNext, ArchiveNext, BillNext,
         SensorNext, FetchNext, CookieNext
<1>6. UNCHANGED archiveVars => UNCHANGED FP!A!vars
  BY DEF archiveVars, FP!A!vars, FP!A!world
<1>7. QED
  BY <1>1, <1>2, <1>3, <1>4, <1>5, <1>6, TopicStays

\* Whatever runs fail, die or lose their push (archive_cards.py, _prune;
\* archive_cards.yml, the keep job).
THEOREM ArchiveIsWhole ==
  PartsSpec => []ArchiveHasWhatItNames
<1>1. FP!A!Spec => []FP!A!EveryTextIsThere
  BY ArchiveIsAPart, FP!TextsAreThere
<1>2. FP!A!Spec => []FP!A!KeptCardsAreThere
  BY ArchiveIsAPart, FP!KeptAreThere
<1>3. (topic = "archive" => FP!A!EveryTextIsThere /\ FP!A!KeptCardsAreThere) => ArchiveHasWhatItNames
  BY DEF ArchiveHasWhatItNames, A!EveryTextIsThere, A!Held, A!StoredRows, A!RowSet, A!ToSet,
         A!MonthSet, A!At, FP!A!EveryTextIsThere, FP!A!Held, FP!A!StoredRows, FP!A!RowSet,
         FP!A!ToSet, FP!A!MonthSet, FP!A!At, A!KeptCardsAreThere, FP!A!KeptCardsAreThere
<1>4. QED
  BY <1>1, <1>2, <1>3, ArchiveIsAPart, PTL DEF PartsSpec, FP!A!Spec

\* A stamp means replayed (archive_cards.py, archive).
THEOREM ArchiveStampIsTrue ==
  PartsSpec => []StampedMeansReplayed
<1>1. FP!A!Spec => []FP!A!StampedMeansReplayed
  BY ArchiveIsAPart, FP!StampIsTrue
<1>2. (topic = "archive" => FP!A!StampedMeansReplayed) => StampedMeansReplayed
  BY DEF StampedMeansReplayed, A!StampedMeansReplayed, A!At, A!Held, A!StoredRows, A!RowSet,
         A!ToSet, A!MonthSet, FP!A!StampedMeansReplayed, FP!A!At, FP!A!Held, FP!A!StoredRows,
         FP!A!RowSet, FP!A!ToSet, FP!A!MonthSet
<1>3. QED
  BY <1>1, <1>2, ArchiveIsAPart, PTL DEF PartsSpec, FP!A!Spec

\* The bill's.
LEMMA BillIsAPart ==
  /\ SP!Year!BillAssumption
  /\ topic = "bill" /\ PartsInit => SP!Year!Init
  /\ topic = "bill" /\ [PartsNext]_partsVars =>
       [SP!Year!Next]_(SP!Year!vars) /\ (topic = "bill")'
  /\ ~(topic = "bill") /\ [PartsNext]_partsVars => (~(topic = "bill"))'
<1>1. SP!Year!BillAssumption
  BY PartsAssumption DEF B!BillAssumption, SP!Year!BillAssumption
<1>2. B!Init => SP!Year!Init
  BY DEF B!Init, B!NoCycle, B!Min, SP!Year!Init, SP!Year!NoCycle, SP!Year!Min
<1>3. (B!Next) => (SP!Year!Next)
  BY DEF B!Next, B!BeginRefresh, B!OnThePage, B!Place, B!LiveReading, B!FoldCycle, B!Max,
         B!CardInForce, B!Bill, B!FlemishBill, B!WithVat, B!Accrued, B!AtMost, B!Min,
         B!NotBelowZero, B!WalloonBill, B!BrusselsBill, B!CostBasis, B!Elapsed, B!Volumes, B!Save,
         B!Crash, B!PassTime, B!Reload, B!Refresh, SP!Year!Next, SP!Year!BeginRefresh,
         SP!Year!OnThePage, SP!Year!Place, SP!Year!LiveReading, SP!Year!FoldCycle, SP!Year!Max,
         SP!Year!CardInForce, SP!Year!Bill, SP!Year!FlemishBill, SP!Year!WithVat, SP!Year!Accrued,
         SP!Year!AtMost, SP!Year!Min, SP!Year!NotBelowZero, SP!Year!WalloonBill,
         SP!Year!BrusselsBill, SP!Year!CostBasis, SP!Year!Elapsed, SP!Year!Volumes, SP!Year!Save,
         SP!Year!Crash, SP!Year!PassTime, SP!Year!Reload, SP!Year!Refresh
<1>4. topic = "bill" /\ PartsInit => B!Init
  BY DEF PartsInit
<1>5. topic = "bill" /\ [PartsNext]_partsVars => (B!Next) \/ UNCHANGED billVars
  BY DEF PartsNext, partsVars, YearNext, PriceNext, MeterNext, ArchiveNext, BillNext,
         SensorNext, FetchNext, CookieNext
<1>6. UNCHANGED billVars => UNCHANGED SP!Year!vars
  BY DEF billVars, SP!Year!vars
<1>7. QED
  BY <1>1, <1>2, <1>3, <1>4, <1>5, <1>6, TopicStays

\* Where no reading begins a year under a refresh of the last (coordinator_ytd.py,
\* _card_in_force).
THEOREM BillIsOnItsCard ==
  ASSUME ~Overtaken
  PROVE  PartsSpec => []BillStandsOnItsCard
<1>1. SP!Year!Spec => []SP!Year!BillStandsOnItsCard
  BY BillIsAPart, SP!CardIsInForce
<1>2. (topic = "bill" => SP!Year!BillStandsOnItsCard) => BillStandsOnItsCard
  BY DEF BillStandsOnItsCard, B!BillStandsOnItsCard, B!Place, SP!Year!BillStandsOnItsCard,
         SP!Year!Place
<1>3. QED
  BY <1>1, <1>2, BillIsAPart, PTL DEF PartsSpec, SP!Year!Spec

\* Whatever cards come and however the entry changes (coordinator_ytd.py, _cost_basis).
THEOREM BillIsItsHouseholds ==
  PartsSpec => []BillIsTheHouseholds
<1>1. SP!Year!Spec => []SP!Year!BillIsTheHouseholds
  BY BillIsAPart, SP!FloorIsTheHouseholds
<1>2. (topic = "bill" => SP!Year!BillIsTheHouseholds) => BillIsTheHouseholds
  BY DEF BillIsTheHouseholds, B!BillIsTheHouseholds, B!Bill, B!FlemishBill, B!WithVat, B!Accrued,
         B!AtMost, B!Min, B!NotBelowZero, B!Max, B!WalloonBill, B!BrusselsBill, B!Elapsed,
         B!Place, SP!Year!BillIsTheHouseholds, SP!Year!Bill, SP!Year!FlemishBill, SP!Year!WithVat,
         SP!Year!Accrued, SP!Year!AtMost, SP!Year!Min, SP!Year!NotBelowZero, SP!Year!Max,
         SP!Year!WalloonBill, SP!Year!BrusselsBill, SP!Year!Elapsed, SP!Year!Place
<1>3. QED
  BY <1>1, <1>2, BillIsAPart, PTL DEF PartsSpec, SP!Year!Spec

\* The reset figures'.
LEMMA SensorIsAPart ==
  /\ SP!SensorAssumption
  /\ topic = "sensor" /\ PartsInit => SP!Init
  /\ topic = "sensor" /\ [PartsNext]_partsVars =>
       [SP!Next]_(SP!vars) /\ (topic = "sensor")'
  /\ ~(topic = "sensor") /\ [PartsNext]_partsVars => (~(topic = "sensor"))'
<1>1. SP!SensorAssumption
  BY PartsAssumption DEF R!SensorAssumption, SP!SensorAssumption
<1>2. R!Init => SP!Init
  BY DEF R!Init, SP!Init
<1>3. (R!Next) => (SP!Next)
  BY DEF R!Next, R!BackgroundRead, R!Updated, R!LastReset, R!Jan1, R!Max, R!Dump, R!Running,
         R!Setup, R!FoldedStarts, R!Current, R!LiveReading, R!Save, R!Crash, R!Unload, R!PassTime,
         R!Refresh, SP!Next, SP!BackgroundRead, SP!Updated, SP!LastReset, SP!Jan1, SP!Max,
         SP!Dump, SP!Running, SP!Setup, SP!FoldedStarts, SP!Current, SP!LiveReading, SP!Save,
         SP!Crash, SP!Unload, SP!PassTime, SP!Refresh
<1>4. topic = "sensor" /\ PartsInit => R!Init
  BY DEF PartsInit
<1>5. topic = "sensor" /\ [PartsNext]_partsVars => (R!Next) \/ UNCHANGED sensorVars
  BY DEF PartsNext, partsVars, YearNext, PriceNext, MeterNext, ArchiveNext, BillNext,
         SensorNext, FetchNext, CookieNext
<1>6. UNCHANGED sensorVars => UNCHANGED SP!vars
  BY DEF sensorVars, SP!vars
<1>7. QED
  BY <1>1, <1>2, <1>3, <1>4, <1>5, <1>6, TopicStays

\* Where an entry waits for setup's background read before it refreshes or goes
\* (sensor.py, last_reset).
THEOREM ResetStandsInParts ==
  ASSUME ~Hasty
  PROVE  PartsSpec => ResetNeverGoesBack
<1>1. SP!Spec => SP!ResetNeverGoesBack
  BY SensorIsAPart, SP!ResetIsMonotonic
<1>2. ~(topic = "sensor") /\ [PartsNext]_partsVars => UNCHANGED R!vars
  BY DEF PartsNext, partsVars, YearNext, PriceNext, MeterNext, ArchiveNext, BillNext,
         SensorNext, FetchNext, CookieNext, sensorVars, R!vars
<1>3. [recorded # None /\ recorded' < recorded => exposed]_(SP!vars)
      => [recorded # None /\ recorded' < recorded => exposed]_(R!vars)
  BY DEF R!vars, SP!vars
<1>4. QED
  BY <1>1, <1>2, <1>3, SensorIsAPart, PTL
     DEF PartsSpec, SP!Spec, SP!ResetNeverGoesBack, ResetNeverGoesBack, R!ResetNeverGoesBack

\* A fetch's.
LEMMA FetchIsAPart ==
  /\ FP!FetchAssumption
  /\ topic = "fetch" /\ PartsInit => FP!Init
  /\ topic = "fetch" /\ [PartsNext]_partsVars =>
       [FP!Next \/ FP!Done]_(FP!vars) /\ (topic = "fetch")'
  /\ ~(topic = "fetch") /\ [PartsNext]_partsVars => (~(topic = "fetch"))'
<1>1. FP!FetchAssumption
  BY PartsAssumption DEF F!FetchAssumption, F!Failures, F!Extractors, FP!FetchAssumption,
         FP!Failures, FP!Extractors
<1>2. F!Init => FP!Init
  BY DEF F!Init, FP!Init
<1>3. (F!Next \/ F!Done) => (FP!Next \/ FP!Done)
  BY DEF F!Next, F!Receive, F!Answered, F!Vivaqua, F!Max, F!Raise, F!Ask, F!Serve, F!Jan1,
         F!ServeFrom, F!Carried, F!YearOf, F!WaterLink, F!StatesAnother, F!Fallback, F!Aquaduin,
         F!Inbw, F!Walloon, F!Stated, F!DetectPublishedYear, F!Agso, F!ChosenTable, F!Min,
         F!DeWatergroep, F!ServedYear, F!Farys, F!Aiec, F!ReadsAs, F!AgainstOperator,
         F!PictureText, F!Pidpa, F!Shown, F!Near, F!Pictures, F!Pages, F!Docs, F!PictureRows,
         F!UnderWay, F!NewYear, F!Fails, F!Content, F!Failed, F!Blip, F!Transient, F!GiveUp,
         F!Begin, F!FirstAt, F!Done, F!vars, FP!Next, FP!Receive, FP!Answered, FP!Vivaqua, FP!Max,
         FP!Raise, FP!Ask, FP!Serve, FP!Jan1, FP!ServeFrom, FP!Carried, FP!YearOf, FP!WaterLink,
         FP!StatesAnother, FP!Fallback, FP!Aquaduin, FP!Inbw, FP!Walloon, FP!Stated,
         FP!DetectPublishedYear, FP!Agso, FP!ChosenTable, FP!Min, FP!DeWatergroep, FP!ServedYear,
         FP!Farys, FP!Aiec, FP!ReadsAs, FP!AgainstOperator, FP!PictureText, FP!Pidpa, FP!Shown,
         FP!Near, FP!Pictures, FP!Pages, FP!Docs, FP!PictureRows, FP!UnderWay, FP!NewYear,
         FP!Fails, FP!Content, FP!Failed, FP!Blip, FP!Transient, FP!GiveUp, FP!Begin, FP!FirstAt,
         FP!Done, FP!vars
<1>4. topic = "fetch" /\ PartsInit => F!Init
  BY DEF PartsInit
<1>5. topic = "fetch" /\ [PartsNext]_partsVars => (F!Next \/ F!Done) \/ UNCHANGED fetchVars
  BY DEF PartsNext, partsVars, YearNext, PriceNext, MeterNext, ArchiveNext, BillNext,
         SensorNext, FetchNext, CookieNext
<1>6. UNCHANGED fetchVars => UNCHANGED FP!vars
  BY DEF fetchVars, FP!vars
<1>7. QED
  BY <1>1, <1>2, <1>3, <1>4, <1>5, <1>6, TopicStays

\* Whatever the operators answer (TransientFetchError and the extractors' fallbacks).
THEOREM NothingServedOverAnOutage ==
  PartsSpec => []NoCardOverAnOutage
<1>1. FP!Spec => []FP!NoCardOverAnOutage
  BY FetchIsAPart, FP!OutageServesNothing
<1>2. (topic = "fetch" => FP!NoCardOverAnOutage) => NoCardOverAnOutage
  BY DEF NoCardOverAnOutage, F!NoCardOverAnOutage, F!Served, FP!NoCardOverAnOutage, FP!Served
<1>3. QED
  BY <1>1, <1>2, FetchIsAPart, PTL DEF PartsSpec, FP!Spec

\* The cookie's.
LEMMA CookieIsAPart ==
  /\ FP!Cookie!CookieAssumption
  /\ topic = "cookie" /\ PartsInit => FP!Cookie!Init
  /\ topic = "cookie" /\ [PartsNext]_partsVars =>
       [FP!Cookie!Next]_(FP!Cookie!vars) /\ (topic = "cookie")'
  /\ ~(topic = "cookie") /\ [PartsNext]_partsVars => (~(topic = "cookie"))'
<1>1. FP!Cookie!CookieAssumption
  BY PartsAssumption DEF K!CookieAssumption, FP!Cookie!CookieAssumption
<1>2. K!Init => FP!Cookie!Init
  BY DEF K!Init, K!Idle, FP!Cookie!Init, FP!Cookie!Idle
<1>3. (K!Next) => (FP!Cookie!Next)
  BY DEF K!Next, K!Send, K!Idle, K!HeadersCome, K!RequestFails, K!Cleared, K!BodyRead,
         FP!Cookie!Next, FP!Cookie!Send, FP!Cookie!Idle, FP!Cookie!HeadersCome,
         FP!Cookie!RequestFails, FP!Cookie!Cleared, FP!Cookie!BodyRead
<1>4. topic = "cookie" /\ PartsInit => K!Init
  BY DEF PartsInit
<1>5. topic = "cookie" /\ [PartsNext]_partsVars => (K!Next) \/ UNCHANGED cookieVars
  BY DEF PartsNext, partsVars, YearNext, PriceNext, MeterNext, ArchiveNext, BillNext,
         SensorNext, FetchNext, CookieNext
<1>6. UNCHANGED cookieVars => UNCHANGED FP!Cookie!vars
  BY DEF cookieVars, FP!Cookie!vars
<1>7. QED
  BY <1>1, <1>2, <1>3, <1>4, <1>5, <1>6, TopicStays

\* A card is of the year and of the commune it is served for, whatever the operators
\* answer and whenever the year turns, with one request at a time (carry_prior_year_card,
\* each extractor's parser; de_watergroep.py, _fetch_commune_ajax).
THEOREM CardsAreAsPublished ==
  ASSUME ~Abreast
  PROVE  PartsSpec => []ServedAsPublished
<1>1. FP!Spec => []FP!ServedAsPublished
  BY FetchIsAPart, FP!CardIsAsPublished
<1>2. FP!Cookie!Spec => []FP!Cookie!CardIsOfItsCommune
  BY CookieIsAPart, FP!OwnCommune
<1>3. /\ topic = "fetch" => FP!ServedAsPublished
      /\ topic = "cookie" => FP!Cookie!CardIsOfItsCommune
      => ServedAsPublished
  BY DEF ServedAsPublished, F!ServedAsPublished, F!Jan1, F!Served, F!YearOf, FP!ServedAsPublished,
         FP!Jan1, FP!Served, FP!YearOf, K!CardIsOfItsCommune, FP!Cookie!CardIsOfItsCommune
<1>4. QED
  BY <1>1, <1>2, <1>3, FetchIsAPart, CookieIsAPart, PTL
     DEF PartsSpec, FP!Spec, FP!Cookie!Spec

-----------------------------------------------------------------------------
(***************************************************************************)
(* The meter's year.                                                       *)
(***************************************************************************)

(* Days, and folds over them.                                              *)

\* A set of naturals has a least one.
LEMMA LeastOf ==
  ASSUME NEW S, S \subseteq Nat, S # {}
  PROVE  \E x \in S : \A y \in S : x <= y
<1> DEFINE Less == {ss \in Nat \X Nat : ss[1] < ss[2]}
<1>1. IsWellFoundedOn(Less, Nat)
  BY NatLessThanWellFounded DEF OpToRel
<1> HIDE DEF Less
<1>2. PICK x \in S : \A y \in S : ~(<<y, x>> \in Less)
  BY <1>1, WFMin
<1>3. ASSUME NEW y \in S
      PROVE  x <= y
  <2>1. y \in Nat /\ x \in Nat /\ <<y, x>> \notin Less
    BY <1>2
  <2>2. <<y, x>> \in Nat \X Nat /\ <<y, x>>[1] = y /\ <<y, x>>[2] = x
    BY <2>1
  <2>3. ~(y < x)
    BY <2>1, <2>2 DEF Less
  <2>4. QED
    BY <2>1, <2>3
<1>4. QED
  BY <1>3

\* The latest of some days is one of them.
LEMMA LatestIs ==
  ASSUME NEW n \in Nat, NEW s, s \subseteq 1 .. n, s # {}
  PROVE  M!Max(s) \in s /\ \A x \in s : x <= M!Max(s)
<1> DEFINE Short == {d \in Nat : n - d \in s}
<1>1. Short \subseteq Nat /\ Short # {}
  <2>1. PICK x : x \in s
    OBVIOUS
  <2>2. n - x \in Nat /\ n - (n - x) = x
    BY <2>1
  <2>3. QED
    BY <2>1, <2>2
<1>2. PICK d \in Short : \A y \in Short : d <= y
  BY <1>1, LeastOf
<1>3. n - d \in s /\ \A x \in s : x <= n - d
  <2> SUFFICES ASSUME NEW x \in s
               PROVE  x <= n - d
    BY <1>2
  <2>1. x \in 1 .. n /\ n - x \in Nat /\ n - (n - x) = x
    OBVIOUS
  <2>2. d <= n - x
    BY <1>2, <2>1
  <2>3. QED
    BY <1>2, <2>1, <2>2
<1>4. QED
  BY <1>3 DEF M!Max

\* The latest of days 1 .. n is day n.
LEMMA LatestOfAll ==
  ASSUME NEW n \in Nat, n > 0
  PROVE  M!Max(1 .. n) = n /\ (1 .. n) \ {n} = 1 .. n - 1 /\ 1 .. n # {}
<1>1. 1 .. n \subseteq 1 .. n /\ n \in 1 .. n /\ 1 .. n # {}
  OBVIOUS
<1>2. M!Max(1 .. n) \in 1 .. n /\ \A x \in 1 .. n : x <= M!Max(1 .. n)
  BY <1>1, LatestIs
<1>3. M!Max(1 .. n) = n
  BY <1>1, <1>2
<1>4. QED
  BY <1>1, <1>3

\* The fold of steps over the subsets of 1 .. n, the latest last.
Folds(n, base, steps, g) ==
  \A s \in SUBSET (1 .. n) :
    g[s] = IF s = {} THEN base ELSE steps[M!Max(s)][g[s \ {M!Max(s)}]]

\* Such a fold there is, and what it keeps stays what a step may take.
LEMMA FoldExists ==
  ASSUME NEW n \in Nat, NEW T, NEW base \in T, NEW steps \in [1 .. n -> [T -> T]]
  PROVE  \E g \in [SUBSET (1 .. n) -> T] : Folds(n, base, steps, g)
<1> DEFINE Good(k) == \E g \in [SUBSET (1 .. k) -> T] : Folds(k, base, steps, g)
           Bad == {k \in 0 .. n : ~Good(k)}
<1> HIDE DEF Good
<1>1. Bad = {} => Good(n)
  OBVIOUS
<1>2. SUFFICES ASSUME Bad # {}
               PROVE  FALSE
  BY <1>1 DEF Good
<1>3. PICK k \in Bad : \A y \in Bad : k <= y
  <2>1. Bad \subseteq Nat
    OBVIOUS
  <2>2. QED
    BY <1>2, <2>1, LeastOf
<1>4. k \in 0 .. n /\ ~Good(k)
  BY <1>3
<1>5. k # 0
  <2> DEFINE g == [s \in SUBSET (1 .. 0) |-> base]
  <2>1. 1 .. 0 = {}
    OBVIOUS
  <2>2. g \in [SUBSET (1 .. 0) -> T]
    OBVIOUS
  <2>3. Folds(0, base, steps, g)
    BY <2>1 DEF Folds
  <2>4. Good(0)
    BY <2>2, <2>3 DEF Good
  <2>5. QED
    BY <1>4, <2>4
<1>6. k \in 1 .. n /\ k - 1 \in 0 .. n /\ k - 1 \notin Bad
  <2>1. k \in 1 .. n /\ k - 1 \in 0 .. n /\ ~(k <= k - 1)
    BY <1>4, <1>5
  <2>2. QED
    BY <1>3, <2>1
<1>7. PICK h \in [SUBSET (1 .. k - 1) -> T] : Folds(k - 1, base, steps, h)
  BY <1>6 DEF Good
<1> DEFINE g == [s \in SUBSET (1 .. k) |-> IF k \in s THEN steps[k][h[s \ {k}]] ELSE h[s]]
<1>g. \A s \in SUBSET (1 .. k) : g[s] = IF k \in s THEN steps[k][h[s \ {k}]] ELSE h[s]
  OBVIOUS
<1>d. \A e : e = g => (e \in [SUBSET (1 .. k) -> T] <=> \A s \in SUBSET (1 .. k) : e[s] \in T)
  OBVIOUS
<1> HIDE DEF g
<1>8. ASSUME NEW s \in SUBSET (1 .. k)
      PROVE  g[s] \in T /\ g[s] = IF s = {} THEN base ELSE steps[M!Max(s)][g[s \ {M!Max(s)}]]
  <2>1. CASE k \in s
    <3>1. s \ {k} \in SUBSET (1 .. k - 1) /\ s \ {k} \in SUBSET (1 .. k) /\ k \notin s \ {k}
      BY <1>6
    <3>2. k \in Nat /\ s # {} /\ s \subseteq 1 .. k
      BY <1>6, <2>1
    <3>3. M!Max(s) \in s /\ \A x \in s : x <= M!Max(s)
      BY <3>2, LatestIs
    <3>4. M!Max(s) = k
      <4>1. M!Max(s) \in 1 .. k /\ k <= M!Max(s)
        BY <2>1, <3>2, <3>3
      <4>2. QED
        BY <1>6, <4>1
    <3>5. g[s \ {k}] = h[s \ {k}]
      BY <1>g, <3>1
    <3>6. g[s] = steps[k][h[s \ {k}]]
      BY <1>g, <2>1
    <3>7. steps[k] \in [T -> T] /\ h[s \ {k}] \in T
      BY <1>6, <3>1
    <3>8. steps[k][h[s \ {k}]] \in T
      BY <3>7
    <3>9. g[s] = steps[M!Max(s)][g[s \ {M!Max(s)}]]
      BY <3>4, <3>5, <3>6
    <3>10. QED
      BY <3>2, <3>6, <3>8, <3>9
  <2>2. CASE k \notin s
    <3>1. s \in SUBSET (1 .. k - 1) /\ k - 1 \in Nat
      BY <1>6, <2>2
    <3>2. g[s] = h[s] /\ h[s] \in T
      BY <1>g, <2>2, <3>1
    <3>3. h[s] = IF s = {} THEN base ELSE steps[M!Max(s)][h[s \ {M!Max(s)}]]
      BY <1>7, <3>1 DEF Folds
    <3>4. g[s \ {M!Max(s)}] = h[s \ {M!Max(s)}]
      <4>1. s \ {M!Max(s)} \in SUBSET (1 .. k) /\ k \notin s \ {M!Max(s)}
        BY <2>2
      <4>2. QED
        BY <1>g, <4>1
    <3>5. g[s] \in T
      BY <3>2
    <3>6. QED
      BY <3>2, <3>3, <3>4, <3>5
  <2>3. QED
    BY <2>1, <2>2
<1>9. g \in [SUBSET (1 .. k) -> T] /\ Folds(k, base, steps, g)
  BY <1>d, <1>8 DEF Folds
<1>10. QED
  BY <1>4, <1>9 DEF Good

\* Two that step alike end alike.
LEMMA SameFold ==
  ASSUME NEW n \in Nat, NEW f, NEW g, f[{}] = g[{}],
         \A k \in 1 .. n : f[1 .. k - 1] = g[1 .. k - 1] => f[1 .. k] = g[1 .. k]
  PROVE  f[1 .. n] = g[1 .. n]
<1> DEFINE Bad == {k \in 0 .. n : f[1 .. k] # g[1 .. k]}
<1>1. SUFFICES ASSUME Bad # {}
               PROVE  FALSE
  OBVIOUS
<1>2. PICK k \in Bad : \A y \in Bad : k <= y
  <2>1. Bad \subseteq Nat
    OBVIOUS
  <2>2. QED
    BY <1>1, <2>1, LeastOf
<1>3. k # 0
  <2>1. 1 .. 0 = {}
    OBVIOUS
  <2>2. QED
    BY <1>2, <2>1
<1>4. k \in 1 .. n /\ k - 1 \in 0 .. n /\ ~(k <= k - 1)
  BY <1>2, <1>3
<1>5. f[1 .. k - 1] = g[1 .. k - 1]
  BY <1>2, <1>4
<1>6. QED
  BY <1>2, <1>4, <1>5

-----------------------------------------------------------------------------
(* Sums, of as many places as there are.                                  *)

Nums(n) == [1 .. n -> Int]

SumFolds(c, g) ==
  g = [s \in SUBSET (DOMAIN c) |->
         IF s = {} THEN 0 ELSE g[s \ {M!Max(s)}] + c[M!Max(s)]]

\* The sum over every set of places there is.
LEMMA SumFoldExists ==
  ASSUME NEW n \in Nat, NEW c \in Nums(n)
  PROVE  \E g \in [SUBSET (1 .. n) -> Int] : SumFolds(c, g)
<1> DEFINE steps == [i \in 1 .. n |-> [x \in Int |-> x + c[i]]]
<1>1. steps \in [1 .. n -> [Int -> Int]] /\ 0 \in Int
  BY DEF Nums
<1>2. PICK g \in [SUBSET (1 .. n) -> Int] : Folds(n, 0, steps, g)
  <2> HIDE DEF steps
  <2>1. QED
    BY <1>1, FoldExists
<1>3. ASSUME NEW s \in SUBSET (1 .. n), s # {}
      PROVE  steps[M!Max(s)][g[s \ {M!Max(s)}]] = g[s \ {M!Max(s)}] + c[M!Max(s)]
  <2>1. M!Max(s) \in 1 .. n
    BY <1>3, LatestIs
  <2>2. g[s \ {M!Max(s)}] \in Int
    OBVIOUS
  <2>3. QED
    BY <2>1, <2>2
<1>4. \A s \in SUBSET (1 .. n) : g[s] = IF s = {} THEN 0 ELSE g[s \ {M!Max(s)}] + c[M!Max(s)]
  BY <1>2, <1>3 DEF Folds
<1>5. g = [s \in SUBSET (1 .. n) |-> IF s = {} THEN 0 ELSE g[s \ {M!Max(s)}] + c[M!Max(s)]]
  BY <1>4
<1>6. DOMAIN c = 1 .. n
  BY DEF Nums
<1>7. QED
  BY <1>5, <1>6 DEF SumFolds

\* It starts at nothing.
LEMMA SumStarts ==
  ASSUME NEW c, NEW g, SumFolds(c, g)
  PROVE  g[{}] = 0
BY DEF SumFolds

\* And adds one place after the other.
LEMMA SumSteps ==
  ASSUME NEW n \in Nat, NEW c \in Nums(n), NEW g, SumFolds(c, g), NEW k \in 1 .. n
  PROVE  g[1 .. k] = g[1 .. k - 1] + c[k]
<1>1. k \in Nat /\ k > 0 /\ 1 .. k \in SUBSET (DOMAIN c)
  BY DEF Nums
<1>2. M!Max(1 .. k) = k /\ (1 .. k) \ {k} = 1 .. k - 1 /\ 1 .. k # {}
  BY <1>1, LatestOfAll
<1>3. \A s \in SUBSET (DOMAIN c) : g[s] = IF s = {} THEN 0 ELSE g[s \ {M!Max(s)}] + c[M!Max(s)]
  BY DEF SumFolds
<1>4. g[1 .. k] = g[(1 .. k) \ {M!Max(1 .. k)}] + c[M!Max(1 .. k)]
  BY <1>1, <1>2, <1>3
<1>5. QED
  BY <1>2, <1>4

\* Folds of two sequences agree as far as these do.
LEMMA SumsAgree ==
  ASSUME NEW n \in Nat, NEW m \in Nat, m <= n, NEW c \in Nums(n), NEW d \in Nums(m),
         \A i \in 1 .. m : c[i] = d[i], NEW g, NEW h, SumFolds(c, g), SumFolds(d, h)
  PROVE  g[1 .. m] = h[1 .. m]
<1>2. g[{}] = h[{}]
  BY SumStarts
<1>3. ASSUME NEW k \in 1 .. m, g[1 .. k - 1] = h[1 .. k - 1]
      PROVE  g[1 .. k] = h[1 .. k]
  <2>1. g[1 .. k] = g[1 .. k - 1] + c[k]
    <3>1. k \in 1 .. n
      OBVIOUS
    <3>2. QED
      BY <3>1, SumSteps
  <2>2. h[1 .. k] = h[1 .. k - 1] + d[k]
    BY SumSteps
  <2>3. QED
    BY <1>3, <2>1, <2>2
<1>4. \A k \in 1 .. m : g[1 .. k - 1] = h[1 .. k - 1] => g[1 .. k] = h[1 .. k]
  BY <1>3
<1>5. QED
  BY <1>2, <1>4, SameFold

\* Sum is that sum over all the places.
LEMMA SumChosen ==
  ASSUME NEW n \in Nat, NEW c \in Nums(n)
  PROVE  \E g : SumFolds(c, g) /\ M!Sum(c) = g[1 .. n] /\ g[1 .. n] \in Int
<1> DEFINE h == CHOOSE g : SumFolds(c, g)
<1>1. PICK g \in [SUBSET (1 .. n) -> Int] : SumFolds(c, g)
  BY SumFoldExists
<1>2. SumFolds(c, h)
  BY <1>1
<1>3. M!Sum(c) = h[1 .. n]
  BY DEF M!Sum, M!FoldLeft, M!MapThenFoldSet, SumFolds, Nums
<1> HIDE DEF h
<1>4. 1 .. n \in SUBSET (1 .. n)
  OBVIOUS
<1>5. g[1 .. n] = h[1 .. n]
  BY <1>1, <1>2, SumsAgree
<1>6. QED
  BY <1>1, <1>2, <1>3, <1>4, <1>5

\* The sum of what comes before the last, and the last.
LEMMA SumOfNothing == M!Sum(<<>>) = 0
<1>1. <<>> \in Nums(0) /\ 0 \in Nat
  BY DEF Nums
<1>2. PICK g : SumFolds(<<>>, g) /\ M!Sum(<<>>) = g[1 .. 0]
  BY <1>1, SumChosen
<1>3. g[{}] = 0
  BY <1>2, SumStarts
<1>4. 1 .. 0 = {}
  OBVIOUS
<1>5. QED
  BY <1>2, <1>3, <1>4

\* One more place adds what is in it.
LEMMA SumOfLast ==
  ASSUME NEW n \in Nat, n > 0, NEW c \in Nums(n), NEW d \in Nums(n - 1),
         \A i \in 1 .. n - 1 : c[i] = d[i]
  PROVE  M!Sum(c) \in Int /\ M!Sum(d) \in Int /\ M!Sum(c) = M!Sum(d) + c[n]
<1>1. n - 1 \in Nat /\ n - 1 \in 0 .. n /\ n \in 1 .. n
  OBVIOUS
<1>2. PICK g : SumFolds(c, g) /\ M!Sum(c) = g[1 .. n] /\ g[1 .. n] \in Int
  BY SumChosen
<1>3. PICK h : SumFolds(d, h) /\ M!Sum(d) = h[1 .. n - 1] /\ h[1 .. n - 1] \in Int
  BY <1>1, SumChosen
<1>4. g[1 .. n - 1] = h[1 .. n - 1]
  BY <1>1, <1>2, <1>3, SumsAgree
<1>5. g[1 .. n] = g[1 .. n - 1] + c[n]
  BY <1>1, <1>2, SumSteps
<1>6. QED
  BY <1>1, <1>2, <1>3, <1>4, <1>5 DEF Nums

\* Places with nothing in them sum to nothing.
LEMMA SumOfNone ==
  ASSUME NEW n \in Nat, NEW c \in Nums(n), \A i \in 1 .. n : c[i] = 0
  PROVE  M!Sum(c) = 0
<1>1. PICK g : SumFolds(c, g) /\ M!Sum(c) = g[1 .. n]
  BY SumChosen
<1> DEFINE z == [s \in SUBSET (1 .. n) |-> 0]
<1>2. g[{}] = z[{}]
  BY <1>1, SumStarts
<1>3. ASSUME NEW k \in 1 .. n, g[1 .. k - 1] = z[1 .. k - 1]
      PROVE  g[1 .. k] = z[1 .. k]
  <2>1. g[1 .. k] = g[1 .. k - 1] + c[k]
    BY <1>1, SumSteps
  <2>2. 1 .. k - 1 \in SUBSET (1 .. n) /\ 1 .. k \in SUBSET (1 .. n)
    OBVIOUS
  <2>3. QED
    BY <1>3, <2>1, <2>2
<1>4. z[1 .. n] = 0
  OBVIOUS
<1> HIDE DEF z
<1>5. g[1 .. n] = z[1 .. n]
  BY <1>2, <1>3, SameFold
<1>6. QED
  BY <1>1, <1>4, <1>5
-----------------------------------------------------------------------------
(* The readers.                                                            *)

\* What the readers keep while they go through the buckets.
Counted == [start : Nat, m3 : Int]

BucketRow == [start : Nat, change : Int, sum : Int, state : Int]

Accs ==
  {acc \in [admitted : Seq(Counted), refused : Int, back : Int, register : Int \cup {None},
            drop : Int, around : {None} \cup (Int \X Int), previous : Int] :
     acc.around # None => acc.admitted # <<>>}

\* What is assumed of the numbers the readers compare with.
LEMMA Buckets ==
  /\ None \notin Int /\ None \notin Int \X Int
  /\ Jump \in Nat /\ AwayPerDay \in Nat /\ Month \in Nat /\ Year \in Nat
BY PartsAssumption DEF M!BucketAssumption

\* Nothing else of what is kept changes but by these.
Keeps(acc, b) ==
  b \in Accs /\ b.register = acc.register /\ b.drop = acc.drop /\ b.previous = acc.previous

\* What the readers start from.
LEMMA FreshIsOne ==
  /\ M!Fresh \in Accs /\ M!Fresh.admitted = <<>> /\ M!Fresh.register = None
  /\ M!Fresh.drop = 0 /\ M!Fresh.around = None
BY DEF M!Fresh, Accs

\* A refusal changes the count of refusals only.
LEMMA RefuseIs ==
  ASSUME NEW acc \in Accs
  PROVE  LET b == M!Refuse(acc)
         IN Keeps(acc, b) /\ b.admitted = acc.admitted /\ b.around = acc.around
BY DEF M!Refuse, Accs, Keeps

\* A bucket's water counts, unless a day cannot hold it.
LEMMA AdmitIs ==
  ASSUME NEW acc \in Accs, NEW row \in BucketRow, NEW m3 \in Int, NEW gap \in Nat,
         NEW around \in {None} \cup (Int \X Int)
  PROVE  LET b == M!Admit(acc, row, m3, gap, around)
         IN /\ Keeps(acc, b)
            /\ \/ M!ExceedsADay(m3, gap) /\ b.admitted = acc.admitted /\ b.around = acc.around
               \/ /\ ~M!ExceedsADay(m3, gap) /\ b.around = around
                  /\ b.admitted = Append(acc.admitted, [start |-> row.start, m3 |-> m3])
<1> DEFINE x == [start |-> row.start, m3 |-> m3]
           b == M!Admit(acc, row, m3, gap, around)
<1>1. x \in Counted
  BY DEF Counted, BucketRow
<1>2. CASE M!ExceedsADay(m3, gap)
  BY <1>2, RefuseIs DEF M!Admit
<1>3. CASE ~M!ExceedsADay(m3, gap)
  <2>1. b = [acc EXCEPT !.admitted = Append(acc.admitted, x), !.around = around]
    BY <1>3 DEF M!Admit, Accs
  <2> HIDE DEF b, x
  <2>2. Append(acc.admitted, x) \in Seq(Counted) /\ Append(acc.admitted, x) # <<>>
    BY <1>1 DEF Accs
  <2>3. Keeps(acc, b) /\ b.around = around /\ b.admitted = Append(acc.admitted, x)
    BY <2>1, <2>2 DEF Accs, Keeps
  <2>4. QED
    BY <1>3, <2>3 DEF b, x
<1>4. QED
  BY <1>2, <1>3

\* A spike that shows was in the last bucket that counts.
LEMMA TakeBackIs ==
  ASSUME NEW acc \in Accs, NEW r \in Int, M!ShowsASpike(acc.around, r)
  PROVE  LET b == M!TakeBack(acc, r)
             n == Len(acc.admitted)
             m3 == acc.admitted[n].m3
             climb == r - acc.around[1]
         IN /\ Keeps(acc, b) /\ b.around = acc.around /\ n > 0
            /\ acc.around \in Int \X Int /\ acc.around[1] <= r /\ r < acc.around[2]
            /\ b.admitted = [acc.admitted EXCEPT ![n].m3 = IF m3 < climb THEN m3 ELSE climb]
<1> DEFINE n == Len(acc.admitted)
           m3 == acc.admitted[n].m3
           climb == r - acc.around[1]
           capped == IF m3 < climb THEN m3 ELSE climb
           b == M!TakeBack(acc, r)
           less == [acc.admitted EXCEPT ![n].m3 = capped]
           c == [acc EXCEPT !.admitted[n].m3 = capped, !.back = @ + m3 - capped]
<1>1. /\ acc.around \in Int \X Int /\ acc.around[1] <= r /\ r < acc.around[2]
      /\ acc.admitted # <<>> /\ acc.admitted \in Seq(Counted)
  BY DEF M!ShowsASpike, Accs
<1>2. n \in Nat /\ n > 0 /\ n \in DOMAIN acc.admitted /\ acc.admitted[n] \in Counted
  BY <1>1
<1>3. m3 \in Int /\ climb \in Int /\ capped \in Int
  BY <1>1, <1>2 DEF Counted
<1>4. less \in Seq(Counted) /\ less # <<>>
  <2> HIDE DEF capped, n
  <2>1. [acc.admitted[n] EXCEPT !.m3 = capped] \in Counted
    BY <1>2, <1>3 DEF Counted
  <2>2. Len(less) = Len(acc.admitted) /\ \A i \in 1 .. Len(acc.admitted) : less[i] \in Counted
    BY <1>1, <1>2, <2>1
  <2>3. QED
    BY <1>1, <1>2, <2>1
<1>5. c = [acc EXCEPT !.admitted = less, !.back = acc.back + m3 - capped]
  BY DEF Accs
<1>6. b = M!Refuse(c)
  BY DEF M!TakeBack
<1>7. c \in Accs /\ Keeps(acc, c) /\ c.around = acc.around /\ c.admitted = less
  <2> HIDE DEF c, less, capped, m3, n
  <2>1. acc.back + m3 - capped \in Int
    BY <1>3 DEF Accs
  <2>2. QED
    BY <1>4, <1>5, <2>1 DEF Accs, Keeps
<1> HIDE DEF b, c
<1>8. Keeps(acc, b) /\ b.around = acc.around /\ b.admitted = less
  BY <1>6, <1>7, RefuseIs DEF Keeps
<1>9. QED
  BY <1>1, <1>2, <1>8 DEF b

\* A drop is held and a bucket's register taken.
Seen(acc, row) == [acc EXCEPT !.register = row.state, !.previous = row.start]

\* The readers have seen the row, whatever they make of it.
LEMMA SeenIs ==
  ASSUME NEW acc \in Accs, NEW row \in BucketRow
  PROVE  LET b == Seen(acc, row)
         IN /\ b \in Accs /\ b.admitted = acc.admitted /\ b.around = acc.around
            /\ b.drop = acc.drop /\ b.register = row.state /\ b.previous = row.start
<1> DEFINE b == Seen(acc, row)
<1>1. /\ b.admitted = acc.admitted /\ b.around = acc.around
      /\ b.drop = acc.drop /\ b.register = row.state /\ b.previous = row.start
  BY DEF Accs, Seen
<1>2. b \in [admitted : Seq(Counted), refused : Int, back : Int, register : Int \cup {None},
             drop : Int, around : {None} \cup (Int \X Int), previous : Int]
  <2>1. row.state \in Int \cup {None} /\ row.start \in Int
    BY DEF BucketRow
  <2>2. QED
    BY <2>1 DEF Accs, Seen
<1>3. b.around # None => b.admitted # <<>>
  BY <1>1 DEF Accs
<1> HIDE DEF b
<1>4. b \in Accs
  BY <1>2, <1>3 DEF Accs
<1>5. QED
  BY <1>1, <1>4 DEF b

\* Nothing of the bucket counts, and what is between the registers stays.
Refused(acc, b) == b.admitted = acc.admitted /\ b.around = acc.around

\* The bucket counts as m3.
Counts(acc, b, row, m3) ==
  b.admitted = Append(acc.admitted, [start |-> row.start, m3 |-> m3])

\* A spike goes back out of the last bucket that counts.
TakesBack(acc, b, r) ==
  LET n == Len(acc.admitted)
      m3 == acc.admitted[n].m3
      climb == r - acc.around[1]
  IN /\ M!ShowsASpike(acc.around, r) /\ n > 0
     /\ acc.around \in Int \X Int /\ acc.around[1] <= r /\ r < acc.around[2]
     /\ b.around = acc.around
     /\ b.admitted = [acc.admitted EXCEPT ![n].m3 = IF m3 < climb THEN m3 ELSE climb]

Gap(acc, row) == IF row.start - acc.previous - 1 > 0 THEN row.start - acc.previous - 1 ELSE 0

\* The days before a bucket are a number of days.
LEMMA GapIsOne ==
  ASSUME NEW acc \in Accs, NEW row \in BucketRow
  PROVE  Gap(acc, row) \in Nat
BY DEF Gap, Accs, BucketRow

\* The first bucket of the query, when its change is its whole sum.
LEMMA WholeRegister ==
  ASSUME NEW acc \in Accs, NEW row \in BucketRow, acc.register = None, M!IsTheWholeRegister(row)
  PROVE  LET b == M!Bucket(acc, row)
         IN b \in Accs /\ b.register = row.state /\ b.previous = row.start /\ b.drop = acc.drop /\ Refused(acc, b)
BY SeenIs DEF M!Bucket, Seen, Refused

\* One that fell.
LEMMA Fell ==
  ASSUME NEW acc \in Accs, NEW row \in BucketRow,
         ~(acc.register = None /\ M!IsTheWholeRegister(row)), row.change < 0
  PROVE  LET b == M!Bucket(acc, row)
         IN /\ b \in Accs /\ b.register = row.state /\ b.previous = row.start
            /\ \/ TakesBack(acc, b, row.state) /\ b.drop = acc.drop
               \/ /\ ~M!ShowsASpike(acc.around, row.state)
                  /\ Refused(acc, b) /\ b.drop = acc.drop + row.change
<1> DEFINE s == Seen(acc, row)
           b == M!Bucket(acc, row)
           d == M!DropHeld(s, row)
<1>1. /\ s \in Accs /\ s.admitted = acc.admitted /\ s.around = acc.around
      /\ s.drop = acc.drop /\ s.register = row.state /\ s.previous = row.start
      /\ row.state \in Int /\ row.change \in Int
  BY SeenIs DEF BucketRow
<1>2. b = IF M!ShowsASpike(s.around, row.state) THEN M!TakeBack(s, row.state) ELSE M!Refuse(d)
  BY <1>1 DEF M!Bucket, Seen
<1> HIDE DEF s, b, d
<1>3. d \in Accs /\ d.admitted = s.admitted /\ d.around = s.around
      /\ d.drop = s.drop + row.change /\ d.register = s.register /\ d.previous = s.previous
  BY <1>1 DEF d, M!DropHeld, Accs, BucketRow
<1>4. CASE M!ShowsASpike(s.around, row.state)
  BY <1>1, <1>2, <1>4, TakeBackIs DEF Keeps, TakesBack, b
<1>5. CASE ~M!ShowsASpike(s.around, row.state)
  BY <1>1, <1>2, <1>3, <1>5, RefuseIs DEF Keeps, Refused, b
<1>6. QED
  BY <1>4, <1>5

\* One that follows a drop.
LEMMA FollowsADrop ==
  ASSUME NEW acc \in Accs, NEW row \in BucketRow,
         ~(acc.register = None /\ M!IsTheWholeRegister(row)), row.change >= 0, acc.drop < 0
  PROVE  LET b == M!Bucket(acc, row)
             net == row.change + acc.drop
         IN /\ b \in Accs /\ b.register = row.state /\ b.previous = row.start /\ b.drop = 0
            /\ \/ Refused(acc, b) /\ (net <= 0 \/ M!ExceedsADay(net, Gap(acc, row)))
               \/ /\ net > 0 /\ ~M!ExceedsADay(net, Gap(acc, row))
                  /\ Counts(acc, b, row, net) /\ b.around = None
<1> DEFINE s == Seen(acc, row)
           b == M!Bucket(acc, row)
           net == row.change + acc.drop
           d == [s EXCEPT !.drop = 0]
           gap == Gap(acc, row)
<1>1. /\ s \in Accs /\ s.admitted = acc.admitted /\ s.around = acc.around
      /\ s.drop = acc.drop /\ s.register = row.state /\ s.previous = row.start
      /\ gap \in Nat /\ net \in Int /\ None \in {None} \cup (Int \X Int)
  BY SeenIs, GapIsOne DEF Accs, BucketRow
<1>2. b = IF net <= 0 THEN M!Refuse(d) ELSE M!Admit(d, row, net, gap, None)
  BY <1>1 DEF M!Bucket, M!Netted, Seen, Gap
<1> HIDE DEF s, b, d, net, gap
<1>3. d \in Accs /\ d.admitted = s.admitted /\ d.around = s.around
      /\ d.drop = 0 /\ d.register = s.register /\ d.previous = s.previous
  BY <1>1 DEF d, Accs
<1>4. CASE net <= 0
  BY <1>1, <1>2, <1>3, <1>4, RefuseIs DEF Keeps, Refused, b, net
<1>5. CASE ~(net <= 0)
  <2>1. net > 0
    BY <1>1, <1>5
  <2>2. Keeps(d, b) /\ \/ M!ExceedsADay(net, gap) /\ Refused(d, b)
                       \/ ~M!ExceedsADay(net, gap) /\ Counts(d, b, row, net) /\ b.around = None
    BY <1>1, <1>2, <1>3, <1>5, AdmitIs DEF Refused, Counts
  <2>3. b \in Accs /\ b.register = row.state /\ b.previous = row.start /\ b.drop = 0
    BY <1>1, <1>3, <2>2 DEF Keeps
  <2>4. CASE M!ExceedsADay(net, gap) /\ Refused(d, b)
    <3>1. Refused(acc, b)
      BY <1>1, <1>3, <2>4 DEF Refused
    <3>2. QED
      BY <2>3, <2>4, <3>1 DEF b, net, gap
  <2>5. CASE ~M!ExceedsADay(net, gap) /\ Counts(d, b, row, net) /\ b.around = None
    <3>1. Counts(acc, b, row, net)
      BY <1>1, <1>3, <2>5 DEF Counts
    <3>2. QED
      BY <2>1, <2>3, <2>5, <3>1 DEF b, net, gap
  <2>6. QED
    BY <2>2, <2>4, <2>5
<1>6. QED
  BY <1>4, <1>5

\* One that climbed, with no drop before it.
LEMMA Climbed ==
  ASSUME NEW acc \in Accs, NEW row \in BucketRow,
         ~(acc.register = None /\ M!IsTheWholeRegister(row)), row.change >= 0, acc.drop >= 0
  PROVE  LET b == M!Bucket(acc, row)
             from == acc.register
             climb == row.state - from
             around == IF from = None THEN None ELSE <<from, row.state>>
             m3 == IF M!ExceedsTheRegister(row) THEN climb ELSE row.change
         IN /\ b \in Accs /\ b.register = row.state /\ b.previous = row.start /\ b.drop = acc.drop
            /\ \/ M!ExceedsTheRegister(row) /\ TakesBack(acc, b, row.state)
               \/ /\ M!ExceedsTheRegister(row) /\ Refused(acc, b)
                  /\ ~M!ShowsASpike(acc.around, row.state)
                  /\ \/ from = None
                     \/ from # None /\ ~(0 < from /\ from <= row.state)
                     \/ from # None /\ 0 < from /\ from <= row.state /\ M!ExceedsADay(m3, Gap(acc, row))
               \/ /\ ~M!ExceedsTheRegister(row) /\ Refused(acc, b)
                  /\ M!ExceedsADay(m3, Gap(acc, row))
               \/ /\ ~M!ExceedsADay(m3, Gap(acc, row))
                  /\ Counts(acc, b, row, m3) /\ b.around = around
                  /\ M!ExceedsTheRegister(row) =>
                       from # None /\ 0 < from /\ from <= row.state /\ ~M!ShowsASpike(acc.around, row.state)
<1> DEFINE s == Seen(acc, row)
           b == M!Bucket(acc, row)
           from == acc.register
           climb == row.state - from
           around == IF from = None THEN None ELSE <<from, row.state>>
           gap == Gap(acc, row)
<1>1. /\ s \in Accs /\ s.admitted = acc.admitted /\ s.around = acc.around
      /\ s.drop = acc.drop /\ s.register = row.state /\ s.previous = row.start
      /\ gap \in Nat /\ row.change \in Int /\ row.state \in Int /\ acc.drop \in Int
      /\ from \in Int \cup {None} /\ around \in {None} \cup (Int \X Int)
  BY SeenIs, GapIsOne DEF Accs, BucketRow
<1>2. b = IF M!ExceedsTheRegister(row) THEN M!Recovered(s, row, from, gap)
          ELSE M!Admit(s, row, row.change, gap, around)
  BY <1>1 DEF M!Bucket, Seen, Gap
<1>3. from # None => climb \in Int /\ around = <<from, row.state>> /\ <<from, row.state>> \in Int \X Int
  BY <1>1
<1> HIDE DEF s, b, gap, climb, around, from
<1>4. CASE M!ExceedsTheRegister(row) /\ M!ShowsASpike(acc.around, row.state)
  <2>1. b = M!TakeBack(s, row.state)
    BY <1>1, <1>2, <1>4 DEF M!Recovered
  <2>2. QED
    BY <1>1, <1>4, <2>1, TakeBackIs DEF Keeps, TakesBack, b
<1>5. CASE /\ M!ExceedsTheRegister(row) /\ ~M!ShowsASpike(acc.around, row.state)
           /\ from # None /\ 0 < from /\ from <= row.state
  <2>1. b = M!Admit(s, row, climb, gap, around)
    BY <1>1, <1>2, <1>3, <1>5 DEF M!Recovered, climb
  <2>2. Keeps(s, b) /\ \/ M!ExceedsADay(climb, gap) /\ Refused(s, b)
                       \/ ~M!ExceedsADay(climb, gap) /\ Counts(s, b, row, climb) /\ b.around = around
    <3>1. climb \in Int
      BY <1>3, <1>5
    <3>2. QED
      BY <1>1, <2>1, <3>1, AdmitIs DEF Refused, Counts
  <2>3. QED
    BY <1>1, <1>5, <2>2 DEF Keeps, Refused, Counts, b, climb, gap, around, from
<1>6. CASE /\ M!ExceedsTheRegister(row) /\ ~M!ShowsASpike(acc.around, row.state)
           /\ ~(from # None /\ 0 < from /\ from <= row.state)
  <2>1. b = M!Refuse(s)
    BY <1>1, <1>2, <1>6 DEF M!Recovered
  <2>2. QED
    BY <1>1, <1>6, <2>1, RefuseIs DEF Keeps, Refused, b, from
<1>7. CASE ~M!ExceedsTheRegister(row)
  <2>1. b = M!Admit(s, row, row.change, gap, around)
    BY <1>2, <1>7
  <2>2. Keeps(s, b) /\ \/ M!ExceedsADay(row.change, gap) /\ Refused(s, b)
                       \/ ~M!ExceedsADay(row.change, gap) /\ Counts(s, b, row, row.change) /\ b.around = around
    BY <1>1, <2>1, AdmitIs DEF Refused, Counts
  <2>3. QED
    BY <1>1, <1>7, <2>2 DEF Keeps, Refused, Counts, b, gap, around, from
<1>8. QED
  BY <1>4, <1>5, <1>6, <1>7

\* The readers go from what they may keep to what they may keep.
LEMMA BucketIsOne ==
  ASSUME NEW acc \in Accs, NEW row \in BucketRow
  PROVE  M!Bucket(acc, row) \in Accs
<1>1. row.change \in Int /\ acc.drop \in Int
  BY DEF Accs, BucketRow
<1>2. CASE acc.register = None /\ M!IsTheWholeRegister(row)
  BY <1>2, WholeRegister
<1>3. CASE ~(acc.register = None /\ M!IsTheWholeRegister(row)) /\ row.change < 0
  BY <1>3, Fell
<1>4. CASE ~(acc.register = None /\ M!IsTheWholeRegister(row)) /\ row.change >= 0 /\ acc.drop < 0
  BY <1>4, FollowsADrop
<1>5. CASE ~(acc.register = None /\ M!IsTheWholeRegister(row)) /\ row.change >= 0 /\ acc.drop >= 0
  BY <1>5, Climbed
<1>6. QED
  BY <1>1, <1>2, <1>3, <1>4, <1>5

-----------------------------------------------------------------------------
BucketRows(n) == [1 .. n -> BucketRow]

AdmittedFolds(c, g) ==
  g = [s \in SUBSET (DOMAIN c) |->
         IF s = {} THEN M!Fresh ELSE M!Bucket(g[s \ {M!Max(s)}], c[M!Max(s)])]

\* What the readers make of every set of buckets there is.
LEMMA AdmittedFoldExists ==
  ASSUME NEW n \in Nat, NEW c \in BucketRows(n)
  PROVE  \E g \in [SUBSET (1 .. n) -> Accs] : AdmittedFolds(c, g)
<1> DEFINE steps == [i \in 1 .. n |-> [x \in Accs |-> M!Bucket(x, c[i])]]
<1>1. steps \in [1 .. n -> [Accs -> Accs]] /\ M!Fresh \in Accs
  BY FreshIsOne, BucketIsOne DEF BucketRows
<1>2. PICK g \in [SUBSET (1 .. n) -> Accs] : Folds(n, M!Fresh, steps, g)
  <2> HIDE DEF steps
  <2>1. QED
    BY <1>1, FoldExists
<1>3. ASSUME NEW s \in SUBSET (1 .. n), s # {}
      PROVE  steps[M!Max(s)][g[s \ {M!Max(s)}]] = M!Bucket(g[s \ {M!Max(s)}], c[M!Max(s)])
  <2>1. M!Max(s) \in 1 .. n
    BY <1>3, LatestIs
  <2>2. g[s \ {M!Max(s)}] \in Accs
    OBVIOUS
  <2>3. QED
    BY <2>1, <2>2
<1>4. \A s \in SUBSET (1 .. n) : g[s] = IF s = {} THEN M!Fresh ELSE M!Bucket(g[s \ {M!Max(s)}], c[M!Max(s)])
  BY <1>2, <1>3 DEF Folds
<1>5. g = [s \in SUBSET (1 .. n) |-> IF s = {} THEN M!Fresh ELSE M!Bucket(g[s \ {M!Max(s)}], c[M!Max(s)])]
  BY <1>4
<1>6. DOMAIN c = 1 .. n
  BY DEF BucketRows
<1>7. QED
  BY <1>5, <1>6 DEF AdmittedFolds

\* It starts afresh.
LEMMA AdmittedStarts ==
  ASSUME NEW c, NEW g, AdmittedFolds(c, g)
  PROVE  g[{}] = M!Fresh
BY DEF AdmittedFolds

\* And takes one bucket after the other.
LEMMA AdmittedSteps ==
  ASSUME NEW n \in Nat, NEW c \in BucketRows(n), NEW g, AdmittedFolds(c, g), NEW k \in 1 .. n
  PROVE  g[1 .. k] = M!Bucket(g[1 .. k - 1], c[k])
<1>1. k \in Nat /\ k > 0 /\ 1 .. k \in SUBSET (DOMAIN c)
  BY DEF BucketRows
<1>2. M!Max(1 .. k) = k /\ (1 .. k) \ {k} = 1 .. k - 1 /\ 1 .. k # {}
  BY <1>1, LatestOfAll
<1>3. \A s \in SUBSET (DOMAIN c) : g[s] = IF s = {} THEN M!Fresh ELSE M!Bucket(g[s \ {M!Max(s)}], c[M!Max(s)])
  BY DEF AdmittedFolds
<1>4. g[1 .. k] = M!Bucket(g[(1 .. k) \ {M!Max(1 .. k)}], c[M!Max(1 .. k)])
  BY <1>1, <1>2, <1>3
<1>5. QED
  BY <1>2, <1>4

\* Folds of two sequences agree as far as these do.
LEMMA AdmittedsAgree ==
  ASSUME NEW n \in Nat, NEW m \in Nat, m <= n, NEW c \in BucketRows(n), NEW d \in BucketRows(m),
         \A i \in 1 .. m : c[i] = d[i], NEW g, NEW h, AdmittedFolds(c, g), AdmittedFolds(d, h)
  PROVE  g[1 .. m] = h[1 .. m]
<1>2. g[{}] = h[{}]
  BY AdmittedStarts
<1>3. ASSUME NEW k \in 1 .. m, g[1 .. k - 1] = h[1 .. k - 1]
      PROVE  g[1 .. k] = h[1 .. k]
  <2>1. g[1 .. k] = M!Bucket(g[1 .. k - 1], c[k])
    <3>1. k \in 1 .. n
      OBVIOUS
    <3>2. QED
      BY <3>1, AdmittedSteps
  <2>2. h[1 .. k] = M!Bucket(h[1 .. k - 1], d[k])
    BY AdmittedSteps
  <2>3. QED
    BY <1>3, <2>1, <2>2
<1>4. \A k \in 1 .. m : g[1 .. k - 1] = h[1 .. k - 1] => g[1 .. k] = h[1 .. k]
  BY <1>3
<1>5. QED
  BY <1>2, <1>4, SameFold

\* _admitted_changes is what they make of all the buckets.
LEMMA AdmittedChosen ==
  ASSUME NEW n \in Nat, NEW c \in BucketRows(n)
  PROVE  \E g : AdmittedFolds(c, g) /\ M!Admitted(c) = g[1 .. n] /\ g[1 .. n] \in Accs
<1> DEFINE h == CHOOSE g : AdmittedFolds(c, g)
<1>1. PICK g \in [SUBSET (1 .. n) -> Accs] : AdmittedFolds(c, g)
  BY AdmittedFoldExists
<1>2. AdmittedFolds(c, h)
  BY <1>1
<1>3. M!Admitted(c) = h[1 .. n]
  BY DEF M!Admitted, M!FoldLeft, M!MapThenFoldSet, AdmittedFolds, BucketRows
<1> HIDE DEF h
<1>4. 1 .. n \in SUBSET (1 .. n)
  OBVIOUS
<1>5. g[1 .. n] = h[1 .. n]
  BY <1>1, <1>2, AdmittedsAgree
<1>6. QED
  BY <1>1, <1>2, <1>3, <1>4, <1>5

\* Of no bucket nothing is made.
LEMMA AdmittedOfNothing == M!Admitted(<<>>) = M!Fresh
<1>1. <<>> \in BucketRows(0) /\ 0 \in Nat
  BY DEF BucketRows
<1>2. PICK g : AdmittedFolds(<<>>, g) /\ M!Admitted(<<>>) = g[1 .. 0]
  BY <1>1, AdmittedChosen
<1>3. g[{}] = M!Fresh
  BY <1>2, AdmittedStarts
<1>4. 1 .. 0 = {}
  OBVIOUS
<1>5. QED
  BY <1>2, <1>3, <1>4

\* One more bucket is one more step.
LEMMA AdmittedOfLast ==
  ASSUME NEW seen \in Seq(BucketRow), NEW row \in BucketRow
  PROVE  /\ M!Admitted(seen) \in Accs
         /\ M!Admitted(Append(seen, row)) = M!Bucket(M!Admitted(seen), row)
<1> DEFINE m == Len(seen)
           more == Append(seen, row)
<1>1. m \in Nat /\ m + 1 \in Nat /\ m <= m + 1 /\ m + 1 \in 1 .. m + 1 /\ (m + 1) - 1 = m
  OBVIOUS
<1>2. seen \in BucketRows(m) /\ more \in BucketRows(m + 1) /\ more[m + 1] = row
      /\ \A i \in 1 .. m : more[i] = seen[i]
  <2>1. seen \in [1 .. m -> BucketRow]
    OBVIOUS
  <2>2. more \in Seq(BucketRow) /\ Len(more) = m + 1
    OBVIOUS
  <2>3. more \in [1 .. m + 1 -> BucketRow]
    <3> HIDE DEF more, m
    <3>1. QED
      BY <2>2
  <2>4. more[m + 1] = row /\ \A i \in 1 .. m : more[i] = seen[i]
    OBVIOUS
  <2>5. QED
    BY <2>1, <2>3, <2>4 DEF BucketRows
<1> HIDE DEF m, more
<1>3. PICK g : AdmittedFolds(more, g) /\ M!Admitted(more) = g[1 .. m + 1]
  BY <1>1, <1>2, AdmittedChosen
<1>4. PICK h : AdmittedFolds(seen, h) /\ M!Admitted(seen) = h[1 .. m] /\ h[1 .. m] \in Accs
  BY <1>1, <1>2, AdmittedChosen
<1>5. g[1 .. m] = h[1 .. m]
  BY <1>1, <1>2, <1>3, <1>4, AdmittedsAgree
<1>6. g[1 .. m + 1] = M!Bucket(g[1 .. (m + 1) - 1], more[m + 1])
  BY <1>1, <1>2, <1>3, AdmittedSteps
<1>7. QED
  BY <1>1, <1>2, <1>3, <1>4, <1>5, <1>6 DEF more

-----------------------------------------------------------------------------
\* The water that counts of some days, and what was drawn on some of n.
Water(days, S) == M!Sum([i \in DOMAIN days |-> IF days[i].start \in S THEN days[i].m3 ELSE 0])

Poured(u, n, S) == M!Sum([d \in 1 .. n |-> IF d \in S THEN u[d] ELSE 0])

\* What the buckets of some days changed by.
Changes(seen, S) == M!Sum([i \in DOMAIN seen |-> IF seen[i].start \in S THEN seen[i].change ELSE 0])

After(e) == {d \in Nat : d > e}

\* A sum is a number.
LEMMA SumIsOne ==
  ASSUME NEW n \in Nat, NEW c \in Nums(n)
  PROVE  M!Sum(c) \in Int
BY SumChosen

\* What counts is a number.
LEMMA WaterIsOne ==
  ASSUME NEW days \in Seq(Counted), NEW S
  PROVE  Water(days, S) \in Int
<1> DEFINE c == [i \in DOMAIN days |-> IF days[i].start \in S THEN days[i].m3 ELSE 0]
<1>1. Len(days) \in Nat /\ DOMAIN days = 1 .. Len(days)
      /\ \A i \in 1 .. Len(days) : days[i] \in Counted
  OBVIOUS
<1>2. c \in Nums(Len(days))
  BY <1>1 DEF Nums, Counted
<1>3. QED
  BY <1>1, <1>2, SumIsOne DEF Water

\* Where no day counts, no water does.
LEMMA WaterOfNothing ==
  ASSUME NEW S
  PROVE  Water(<<>>, S) = 0
<1>1. [i \in DOMAIN <<>> |-> IF <<>>[i].start \in S THEN <<>>[i].m3 ELSE 0] = <<>>
  OBVIOUS
<1>2. QED
  BY <1>1, SumOfNothing DEF Water

\* One more day that counts adds its water, if it is of the days S.
LEMMA WaterOfMore ==
  ASSUME NEW days \in Seq(Counted), NEW x \in Counted, NEW S
  PROVE  Water(Append(days, x), S) = Water(days, S) + (IF x.start \in S THEN x.m3 ELSE 0)
<1> DEFINE n == Len(days)
           more == Append(days, x)
           d == [i \in DOMAIN days |-> IF days[i].start \in S THEN days[i].m3 ELSE 0]
           c == [i \in DOMAIN more |-> IF more[i].start \in S THEN more[i].m3 ELSE 0]
<1>1. n \in Nat /\ n + 1 \in Nat /\ n + 1 > 0 /\ (n + 1) - 1 = n
  OBVIOUS
<1>2. DOMAIN days = 1 .. n /\ DOMAIN more = 1 .. n + 1 /\ more[n + 1] = x
      /\ \A i \in 1 .. n : more[i] = days[i] /\ days[i] \in Counted
  OBVIOUS
<1> HIDE DEF more
<1>3. \A i \in 1 .. n + 1 : more[i] \in Counted
  BY <1>2
<1>4. c \in Nums(n + 1) /\ d \in Nums(n)
  BY <1>2, <1>3 DEF Nums, Counted
<1>5. c[n + 1] = (IF x.start \in S THEN x.m3 ELSE 0) /\ \A i \in 1 .. n : c[i] = d[i]
  BY <1>1, <1>2
<1> HIDE DEF c, d, n
<1>6. M!Sum(c) = M!Sum(d) + c[n + 1]
  BY <1>1, <1>4, <1>5, SumOfLast
<1>7. M!Sum(c) = Water(Append(days, x), S)
  BY DEF Water, c, more
<1>8. M!Sum(d) = Water(days, S)
  BY DEF Water, d
<1>9. QED
  BY <1>5, <1>6, <1>7, <1>8

\* A change of what the last of the days counts as.
LEMMA WaterOfLast ==
  ASSUME NEW days \in Seq(Counted), Len(days) > 0, NEW m3 \in Int, NEW S
  PROVE  LET last == days[Len(days)]
         IN /\ last \in Counted
            /\ Water([days EXCEPT ![Len(days)].m3 = m3], S) =
                 Water(days, S) + (IF last.start \in S THEN m3 - last.m3 ELSE 0)
<1> DEFINE n == Len(days)
           last == days[n]
           less == [days EXCEPT ![n].m3 = m3]
           front == [i \in 1 .. n - 1 |-> IF days[i].start \in S THEN days[i].m3 ELSE 0]
           d == [i \in DOMAIN days |-> IF days[i].start \in S THEN days[i].m3 ELSE 0]
           c == [i \in DOMAIN less |-> IF less[i].start \in S THEN less[i].m3 ELSE 0]
<1>1. n \in Nat /\ n > 0 /\ n \in 1 .. n /\ 1 .. n - 1 \subseteq 1 .. n
  OBVIOUS
<1>2. DOMAIN days = 1 .. n /\ DOMAIN less = 1 .. n /\ \A i \in 1 .. n : days[i] \in Counted
  OBVIOUS
<1>3. last \in Counted /\ less[n] = [last EXCEPT !.m3 = m3] /\ \A i \in 1 .. n - 1 : less[i] = days[i]
  BY <1>1, <1>2
<1>4. less[n].start = last.start /\ less[n].m3 = m3
  BY <1>3 DEF Counted
<1> HIDE DEF less, n, last
<1>5. \A i \in 1 .. n : less[i].m3 \in Int
  <2> SUFFICES ASSUME NEW i \in 1 .. n
               PROVE  less[i].m3 \in Int
    OBVIOUS
  <2>1. i = n \/ i \in 1 .. n - 1
    BY <1>1
  <2>2. QED
    BY <1>2, <1>3, <1>4, <2>1 DEF Counted
<1>6. c \in Nums(n) /\ d \in Nums(n) /\ front \in Nums(n - 1)
  BY <1>1, <1>2, <1>5 DEF Nums, Counted
<1>7. /\ \A i \in 1 .. n - 1 : c[i] = front[i] /\ d[i] = front[i]
      /\ c[n] = (IF last.start \in S THEN m3 ELSE 0)
      /\ d[n] = (IF last.start \in S THEN last.m3 ELSE 0)
  BY <1>1, <1>2, <1>3, <1>4 DEF last
<1> HIDE DEF c, d, front
<1>8. M!Sum(c) = M!Sum(front) + c[n] /\ M!Sum(front) \in Int
  BY <1>1, <1>6, <1>7, SumOfLast
<1>9. M!Sum(d) = M!Sum(front) + d[n]
  BY <1>1, <1>6, <1>7, SumOfLast
<1>10. last.m3 \in Int
  BY <1>3 DEF Counted
<1>11. M!Sum(c) = M!Sum(d) + (IF last.start \in S THEN m3 - last.m3 ELSE 0)
  BY <1>7, <1>8, <1>9, <1>10
<1>12. QED
  BY <1>3, <1>11 DEF Water, c, d, less, n, last

\* None of the days is one of these.
LEMMA WaterOfNone ==
  ASSUME NEW days \in Seq(Counted), NEW S, \A i \in DOMAIN days : days[i].start \notin S
  PROVE  Water(days, S) = 0
<1> DEFINE c == [i \in DOMAIN days |-> IF days[i].start \in S THEN days[i].m3 ELSE 0]
<1>1. c \in Nums(Len(days)) /\ Len(days) \in Nat /\ \A i \in 1 .. Len(days) : c[i] = 0
  BY DEF Nums, Counted
<1> HIDE DEF c
<1>2. M!Sum(c) = 0
  BY <1>1, SumOfNone
<1>3. QED
  BY <1>2 DEF Water, c

\* One more day adds what was drawn on it, if it is of the days S.
LEMMA PouredOfMore ==
  ASSUME NEW n \in Nat, NEW u \in Seq(Nat), Len(u) = n, NEW w \in Nat, NEW S
  PROVE  /\ Poured(u, n, S) \in Int
         /\ Poured(Append(u, w), n + 1, S) = Poured(u, n, S) + (IF n + 1 \in S THEN w ELSE 0)
<1> DEFINE more == Append(u, w)
           d == [i \in 1 .. n |-> IF i \in S THEN u[i] ELSE 0]
           c == [i \in 1 .. n + 1 |-> IF i \in S THEN more[i] ELSE 0]
<1>1. n + 1 \in Nat /\ n + 1 > 0 /\ (n + 1) - 1 = n /\ n + 1 \in 1 .. n + 1
  OBVIOUS
<1>2. more[n + 1] = w /\ \A i \in 1 .. n : more[i] = u[i] /\ u[i] \in Nat
  OBVIOUS
<1> HIDE DEF more
<1>3. \A i \in 1 .. n + 1 : more[i] \in Int
  BY <1>2
<1>4. c \in Nums(n + 1) /\ d \in Nums(n)
  BY <1>2, <1>3 DEF Nums
<1>5. c[n + 1] = (IF n + 1 \in S THEN w ELSE 0) /\ \A i \in 1 .. n : c[i] = d[i]
  BY <1>1, <1>2
<1> HIDE DEF c, d
<1>6. M!Sum(c) = M!Sum(d) + c[n + 1] /\ M!Sum(d) \in Int
  BY <1>1, <1>4, <1>5, SumOfLast
<1>7. QED
  BY <1>5, <1>6 DEF Poured, c, d, more

\* Of none of the days nothing was drawn.
LEMMA PouredOfNone ==
  ASSUME NEW n \in Nat, NEW u \in Seq(Nat), Len(u) = n, NEW S, \A d \in 1 .. n : d \notin S
  PROVE  Poured(u, n, S) = 0
<1> DEFINE c == [d \in 1 .. n |-> IF d \in S THEN u[d] ELSE 0]
<1>1. c \in Nums(n) /\ \A i \in 1 .. n : c[i] = 0
  BY DEF Nums
<1> HIDE DEF c
<1>2. M!Sum(c) = 0
  BY <1>1, SumOfNone
<1>3. QED
  BY <1>2 DEF Poured, c

\* Only the days gone by have water.
LEMMA PouredBy ==
  ASSUME NEW n \in Nat, NEW u, NEW S, NEW T, \A d \in 1 .. n : d \in S <=> d \in T
  PROVE  Poured(u, n, S) = Poured(u, n, T)
<1>1. [d \in 1 .. n |-> IF d \in S THEN u[d] ELSE 0] = [d \in 1 .. n |-> IF d \in T THEN u[d] ELSE 0]
  OBVIOUS
<1>2. QED
  BY <1>1 DEF Poured

\* What the buckets changed by is a number.
LEMMA ChangesIsOne ==
  ASSUME NEW seen \in Seq(BucketRow), NEW S
  PROVE  Changes(seen, S) \in Int
<1> DEFINE c == [i \in DOMAIN seen |-> IF seen[i].start \in S THEN seen[i].change ELSE 0]
<1>1. Len(seen) \in Nat /\ DOMAIN seen = 1 .. Len(seen)
      /\ \A i \in 1 .. Len(seen) : seen[i] \in BucketRow
  OBVIOUS
<1>2. c \in Nums(Len(seen))
  BY <1>1 DEF Nums, BucketRow
<1>3. QED
  BY <1>1, <1>2, SumIsOne DEF Changes

\* One more bucket adds its change, if it is of the days S.
LEMMA ChangesOfMore ==
  ASSUME NEW seen \in Seq(BucketRow), NEW row \in BucketRow, NEW S
  PROVE  Changes(Append(seen, row), S) =
           Changes(seen, S) + (IF row.start \in S THEN row.change ELSE 0)
<1> DEFINE n == Len(seen)
           more == Append(seen, row)
           d == [i \in DOMAIN seen |-> IF seen[i].start \in S THEN seen[i].change ELSE 0]
           c == [i \in DOMAIN more |-> IF more[i].start \in S THEN more[i].change ELSE 0]
<1>1. n \in Nat /\ n + 1 \in Nat /\ n + 1 > 0 /\ (n + 1) - 1 = n
  OBVIOUS
<1>2. DOMAIN seen = 1 .. n /\ DOMAIN more = 1 .. n + 1 /\ more[n + 1] = row
      /\ \A i \in 1 .. n : more[i] = seen[i] /\ seen[i] \in BucketRow
  OBVIOUS
<1> HIDE DEF more
<1>3. \A i \in 1 .. n + 1 : more[i] \in BucketRow
  BY <1>2
<1>4. c \in Nums(n + 1) /\ d \in Nums(n)
  BY <1>2, <1>3 DEF Nums, BucketRow
<1>5. c[n + 1] = (IF row.start \in S THEN row.change ELSE 0) /\ \A i \in 1 .. n : c[i] = d[i]
  BY <1>1, <1>2
<1> HIDE DEF c, d, n
<1>6. M!Sum(c) = M!Sum(d) + c[n + 1]
  BY <1>1, <1>4, <1>5, SumOfLast
<1>7. M!Sum(c) = Changes(Append(seen, row), S)
  BY DEF Changes, c, more
<1>8. M!Sum(d) = Changes(seen, S)
  BY DEF Changes, d
<1>9. QED
  BY <1>5, <1>6, <1>7, <1>8

\* Where no bucket is of the days S, they changed by nothing.
LEMMA ChangesOfNone ==
  ASSUME NEW seen \in Seq(BucketRow), NEW S, \A i \in DOMAIN seen : seen[i].start \notin S
  PROVE  Changes(seen, S) = 0
<1> DEFINE c == [i \in DOMAIN seen |-> IF seen[i].start \in S THEN seen[i].change ELSE 0]
<1>1. c \in Nums(Len(seen)) /\ Len(seen) \in Nat /\ \A i \in 1 .. Len(seen) : c[i] = 0
  BY DEF Nums, BucketRow
<1> HIDE DEF c
<1>2. M!Sum(c) = 0
  BY <1>1, SumOfNone
<1>3. QED
  BY <1>2 DEF Changes, c

-----------------------------------------------------------------------------
(* What one bucket does to the water that counts of the days S, it being of *)
(* one of them.                                                             *)

\* A bucket shows a spike in the last one's, does not count, or counts for m3, between the
\* registers v and its own.
TakenBack(acc, b, S, r) ==
  LET last == acc.admitted[Len(acc.admitted)]
  IN /\ M!ShowsASpike(acc.around, r) /\ b.around = acc.around
     /\ Water(b.admitted, S) <= Water(acc.admitted, S)
     /\ last.start \in S /\ last.m3 = acc.around[2] - acc.around[1] =>
          Water(b.admitted, S) = Water(acc.admitted, S) - acc.around[2] + r

LeftOut(acc, b, S) == Water(b.admitted, S) = Water(acc.admitted, S) /\ b.around = acc.around

CountedFrom(acc, b, S, row, v, m3) ==
  LET last == b.admitted[Len(b.admitted)]
  IN /\ Water(b.admitted, S) = Water(acc.admitted, S) + m3 /\ b.around = <<v, row.state>>
     /\ Len(b.admitted) > 0 /\ last.start = row.start /\ last.m3 = m3

Climb(row, v) == IF M!ExceedsTheRegister(row) THEN row.state - v ELSE row.change

\* What a bucket leaves, and the days' water in numbers.
Leaves(acc, b, row, S) ==
  /\ b \in Accs /\ b.register = row.state /\ b.previous = row.start
  /\ Water(acc.admitted, S) \in Int /\ Water(b.admitted, S) \in Int

\* A misread that is taken back leaves the climb up to the register.
LEMMA TakesBackMoves ==
  ASSUME NEW acc \in Accs, NEW b \in Accs, NEW r \in Int, TakesBack(acc, b, r), NEW S
  PROVE  LET last == acc.admitted[Len(acc.admitted)]
             was == Water(acc.admitted, S)
             gets == Water(b.admitted, S)
         IN /\ gets \in Int /\ gets <= was
            /\ last.start \in S /\ last.m3 = acc.around[2] - acc.around[1] =>
                 gets = was - acc.around[2] + r
<1> DEFINE n == Len(acc.admitted)
           last == acc.admitted[n]
           climb == r - acc.around[1]
           capped == IF last.m3 < climb THEN last.m3 ELSE climb
<1>1. acc.admitted \in Seq(Counted) /\ n > 0 /\ acc.around \in Int \X Int
      /\ acc.around[1] \in Int /\ acc.around[2] \in Int /\ climb \in Int
      /\ r < acc.around[2]
      /\ b.admitted = [acc.admitted EXCEPT ![n].m3 = capped]
  BY DEF TakesBack, Accs
<1>2. last \in Counted /\ last.m3 \in Int
  <2>1. n \in DOMAIN acc.admitted
    BY <1>1
  <2>2. last \in Counted
    BY <1>1, <2>1
  <2> HIDE DEF last
  <2>3. QED
    BY <2>2 DEF Counted
<1>3. capped \in Int /\ capped <= last.m3
  BY <1>1, <1>2
<1>4. Water(b.admitted, S) = Water(acc.admitted, S) + (IF last.start \in S THEN capped - last.m3 ELSE 0)
  <2>1. Water([acc.admitted EXCEPT ![n].m3 = capped], S) =
          Water(acc.admitted, S) + (IF last.start \in S THEN capped - last.m3 ELSE 0)
    <3> HIDE DEF capped
    <3>1. QED
      BY <1>1, <1>3, WaterOfLast
  <2>2. QED
    BY <1>1, <2>1
<1>5. Water(acc.admitted, S) \in Int
  BY <1>1, WaterIsOne
<1>6. ASSUME last.start \in S, last.m3 = acc.around[2] - acc.around[1]
      PROVE  Water(b.admitted, S) = Water(acc.admitted, S) - acc.around[2] + r
  <2>1. capped = climb
    BY <1>1, <1>2, <1>6
  <2>2. QED
    BY <1>1, <1>2, <1>4, <1>5, <1>6, <2>1
<1>7. QED
  BY <1>2, <1>3, <1>4, <1>5, <1>6

\* And it is taken back of the day it was in.
LEMMA TakenBackIs ==
  ASSUME NEW acc \in Accs, NEW b \in Accs, NEW r \in Int, TakesBack(acc, b, r), NEW S
  PROVE  TakenBack(acc, b, S, r)
<1>1. M!ShowsASpike(acc.around, r) /\ b.around = acc.around
  BY DEF TakesBack
<1>2. QED
  BY <1>1, TakesBackMoves DEF TakenBack

\* A day that counts adds its water.
LEMMA CountsMoves ==
  ASSUME NEW acc \in Accs, NEW b \in Accs, NEW row \in BucketRow, NEW m3 \in Int,
         Counts(acc, b, row, m3), NEW S, row.start \in S
  PROVE  LET last == b.admitted[Len(b.admitted)]
         IN /\ Water(acc.admitted, S) \in Int
            /\ Water(b.admitted, S) = Water(acc.admitted, S) + m3
            /\ Len(b.admitted) > 0 /\ last.start = row.start /\ last.m3 = m3
<1> DEFINE x == [start |-> row.start, m3 |-> m3]
<1>1. acc.admitted \in Seq(Counted) /\ x \in Counted /\ x.start \in S /\ x.m3 = m3 /\ x.start = row.start
      /\ b.admitted = Append(acc.admitted, x)
  BY DEF Counts, Accs, Counted, BucketRow
<1> HIDE DEF x
<1>2. Len(b.admitted) = Len(acc.admitted) + 1 /\ b.admitted[Len(b.admitted)] = x /\ Len(b.admitted) > 0
  BY <1>1
<1>3. QED
  BY <1>1, <1>2, WaterIsOne, WaterOfMore

\* After no drop, a bucket that climbs counts for its change, or for its register's climb.
LEMMA ClimbMoves ==
  ASSUME NEW acc \in Accs, NEW row \in BucketRow, NEW v \in Nat, acc.register = v, acc.drop = 0,
         row.change >= 0, NEW S, row.start \in S
  PROVE  LET b == M!Bucket(acc, row)
         IN /\ Leaves(acc, b, row, S) /\ b.drop = 0
            /\ \/ M!ExceedsTheRegister(row) /\ TakenBack(acc, b, S, row.state)
               \/ /\ LeftOut(acc, b, S)
                  /\ M!ExceedsTheRegister(row) => ~M!ShowsASpike(acc.around, row.state)
                  /\ \/ M!ExceedsTheRegister(row) /\ ~(0 < v /\ v <= row.state)
                     \/ M!ExceedsADay(Climb(row, v), Gap(acc, row))
               \/ /\ CountedFrom(acc, b, S, row, v, Climb(row, v))
                  /\ M!ExceedsTheRegister(row) =>
                       0 < v /\ v <= row.state /\ ~M!ShowsASpike(acc.around, row.state)
<1> DEFINE b == M!Bucket(acc, row)
           m3 == Climb(row, v)
<1>1. v # None /\ row.state \in Int /\ row.change \in Int /\ acc.admitted \in Seq(Counted)
      /\ row.state - v \in Int
  BY Buckets DEF BucketRow, Accs
<1>2. /\ b \in Accs /\ b.register = row.state /\ b.drop = acc.drop /\ b.previous = row.start
      /\ \/ M!ExceedsTheRegister(row) /\ TakesBack(acc, b, row.state)
         \/ /\ Refused(acc, b)
            /\ M!ExceedsTheRegister(row) => ~M!ShowsASpike(acc.around, row.state)
            /\ \/ M!ExceedsTheRegister(row) /\ ~(0 < v /\ v <= row.state)
               \/ M!ExceedsADay(m3, Gap(acc, row))
         \/ /\ Counts(acc, b, row, m3) /\ b.around = <<v, row.state>>
            /\ M!ExceedsTheRegister(row) =>
                 0 < v /\ v <= row.state /\ ~M!ShowsASpike(acc.around, row.state)
  <2>1. ~(acc.register = None /\ M!IsTheWholeRegister(row)) /\ acc.drop >= 0 /\ acc.register # None
    BY <1>1
  <2> HIDE DEF b
  <2>2. QED
    BY <2>1, Climbed DEF b, Climb
<1>3. m3 \in Int
  BY <1>1 DEF Climb
<1> HIDE DEF b, m3
<1>4. Leaves(acc, b, row, S) /\ b.drop = 0
  BY <1>1, <1>2, WaterIsOne DEF Accs, Leaves
<1>5. ASSUME TakesBack(acc, b, row.state)
      PROVE  TakenBack(acc, b, S, row.state)
  BY <1>1, <1>2, <1>5, TakenBackIs
<1>6. ASSUME Refused(acc, b)
      PROVE  LeftOut(acc, b, S)
  BY <1>6 DEF Refused, LeftOut
<1>7. ASSUME Counts(acc, b, row, m3), b.around = <<v, row.state>>
      PROVE  CountedFrom(acc, b, S, row, v, m3)
  BY <1>1, <1>2, <1>3, <1>7, CountsMoves DEF CountedFrom
<1>8. QED
  BY <1>2, <1>4, <1>5, <1>6, <1>7 DEF b, m3

\* One that falls is held against the next, or shows a spike.
LEMMA FallMoves ==
  ASSUME NEW acc \in Accs, NEW row \in BucketRow, NEW v \in Nat, acc.register = v, acc.drop = 0,
         row.change < 0, NEW S
  PROVE  LET b == M!Bucket(acc, row)
         IN /\ Leaves(acc, b, row, S)
            /\ \/ b.drop = 0 /\ TakenBack(acc, b, S, row.state)
               \/ /\ ~M!ShowsASpike(acc.around, row.state)
                  /\ b.drop = row.change /\ LeftOut(acc, b, S)
<1> DEFINE b == M!Bucket(acc, row)
<1>1. v # None /\ row.state \in Int /\ row.change \in Int /\ acc.admitted \in Seq(Counted)
  BY Buckets DEF BucketRow, Accs
<1>2. /\ b \in Accs /\ b.register = row.state /\ b.previous = row.start
      /\ \/ TakesBack(acc, b, row.state) /\ b.drop = acc.drop
         \/ ~M!ShowsASpike(acc.around, row.state) /\ Refused(acc, b) /\ b.drop = acc.drop + row.change
  BY <1>1, Fell
<1> HIDE DEF b
<1>3. Leaves(acc, b, row, S)
  BY <1>1, <1>2, WaterIsOne DEF Accs, Leaves
<1>4. ASSUME TakesBack(acc, b, row.state)
      PROVE  TakenBack(acc, b, S, row.state)
  BY <1>1, <1>2, <1>4, TakenBackIs
<1>5. ASSUME Refused(acc, b)
      PROVE  LeftOut(acc, b, S)
  BY <1>5 DEF Refused, LeftOut
<1>6. b.drop = acc.drop + row.change => b.drop = row.change
  BY <1>1
<1>7. QED
  BY <1>2, <1>3, <1>4, <1>5, <1>6 DEF b

\* One that climbs after a drop counts for what the two leave.
LEMMA NetMoves ==
  ASSUME NEW acc \in Accs, NEW row \in BucketRow, NEW v \in Nat, acc.register = v, acc.drop < 0,
         row.change >= 0, NEW S, row.start \in S
  PROVE  LET b == M!Bucket(acc, row)
         IN /\ Leaves(acc, b, row, S) /\ b.drop = 0
            /\ \/ LeftOut(acc, b, S)
               \/ /\ row.change + acc.drop > 0 /\ b.around = None
                  /\ Water(b.admitted, S) = Water(acc.admitted, S) + (row.change + acc.drop)
<1> DEFINE b == M!Bucket(acc, row)
           net == row.change + acc.drop
<1>1. v # None /\ row.change \in Int /\ acc.drop \in Int /\ net \in Int /\ acc.admitted \in Seq(Counted)
  BY Buckets DEF BucketRow, Accs
<1>2. /\ b \in Accs /\ b.register = row.state /\ b.drop = 0 /\ b.previous = row.start
      /\ \/ Refused(acc, b)
         \/ net > 0 /\ Counts(acc, b, row, net) /\ b.around = None
  BY <1>1, FollowsADrop
<1> HIDE DEF b, net
<1>3. Leaves(acc, b, row, S)
  BY <1>1, <1>2, WaterIsOne DEF Accs, Leaves
<1>4. ASSUME Refused(acc, b)
      PROVE  LeftOut(acc, b, S)
  BY <1>4 DEF Refused, LeftOut
<1>5. ASSUME Counts(acc, b, row, net)
      PROVE  Water(b.admitted, S) = Water(acc.admitted, S) + net
  BY <1>1, <1>2, <1>5, CountsMoves
<1>6. QED
  BY <1>2, <1>3, <1>4, <1>5 DEF b, net


-----------------------------------------------------------------------------
(* A day of the meter and the readers. The meter shows v and has counted to *)
(* r; of the days S water was drawn, D at most what counts of it.           *)

Calm(acc, v, r, S, D) ==
  acc.drop = 0 /\ v <= r /\ Water(acc.admitted, S) + (r - v) <= D

\* It shows 0: what it fell by is held, or was not more than a start from zero.
Night(acc, v, r, S, D) ==
  /\ v = 0
  /\ \/ acc.drop = 0 /\ Water(acc.admitted, S) <= D
     \/ /\ acc.drop < 0 /\ r + acc.drop >= 0
        /\ Water(acc.admitted, S) + (r + acc.drop) <= D

\* It shows too much: that was refused, or counts until the register is back.
High(acc, v, r, S, D) ==
  LET last == acc.admitted[Len(acc.admitted)]
  IN /\ v > r /\ acc.drop = 0
     /\ \/ Water(acc.admitted, S) <= D
        \/ /\ acc.around \in Int \X Int
           /\ 0 < acc.around[1] /\ acc.around[1] <= r /\ acc.around[2] = v
           /\ last.start \in S /\ last.m3 = v - acc.around[1]
           /\ Water(acc.admitted, S) + (r - v) <= D

\* It was replaced, or is back from a misread: the drop is held.
Dropped(acc, v, r, S, D) ==
  v = r /\ acc.drop <= 0 /\ Water(acc.admitted, S) <= D

\* A climb is at most what the register climbed by, or its change.
LEMMA ClimbAtMost ==
  ASSUME NEW acc \in Accs, NEW row \in BucketRow, NEW v \in Nat, acc.register = v, acc.drop = 0,
         row.change >= 0, NEW S, row.start \in S
  PROVE  LET b == M!Bucket(acc, row)
         IN /\ Leaves(acc, b, row, S) /\ b.drop = 0
            /\ \/ Water(b.admitted, S) <= Water(acc.admitted, S)
               \/ Water(b.admitted, S) = Water(acc.admitted, S) + Climb(row, v)
<1> DEFINE b == M!Bucket(acc, row)
<1>1. /\ Leaves(acc, b, row, S) /\ b.drop = 0
      /\ \/ TakenBack(acc, b, S, row.state)
         \/ LeftOut(acc, b, S)
         \/ CountedFrom(acc, b, S, row, v, Climb(row, v))
  BY ClimbMoves
<1> HIDE DEF b
<1>2. Water(b.admitted, S) \in Int /\ Water(acc.admitted, S) \in Int
  BY <1>1 DEF Leaves
<1>3. \/ Water(b.admitted, S) <= Water(acc.admitted, S)
      \/ Water(b.admitted, S) = Water(acc.admitted, S) + Climb(row, v)
  BY <1>1, <1>2 DEF TakenBack, LeftOut, CountedFrom
<1>4. QED
  BY <1>1, <1>3 DEF b

\* A register that comes back to at least what it showed, from it or from zero.
LEMMA ClimbIs ==
  ASSUME NEW row \in BucketRow, NEW v \in Nat, v <= row.state,
         row.change = row.state - v \/ row.change = row.state
  PROVE  row.change >= 0 /\ Climb(row, v) = row.state - v
<1>1. row.state \in Int /\ row.change \in Int
  BY DEF BucketRow
<1>2. QED
  BY <1>1 DEF Climb, M!ExceedsTheRegister

\* A meter that reads as it should, through a dip too, stays so.
LEMMA CalmStays ==
  ASSUME NEW acc \in Accs, NEW row \in BucketRow, NEW v \in Nat, acc.register = v,
         NEW S, row.start \in S, NEW r \in Nat, NEW w \in Nat, NEW D \in Int,
         Calm(acc, v, r, S, D), row.state = r + w,
         row.change = r + w - v \/ row.change = r + w
  PROVE  Calm(M!Bucket(acc, row), r + w, r + w, S, D + w)
<1> DEFINE b == M!Bucket(acc, row)
<1>1. v <= row.state /\ acc.drop = 0
  BY DEF Calm
<1>2. row.change >= 0 /\ Climb(row, v) = r + w - v
  BY <1>1, ClimbIs
<1>3. /\ Leaves(acc, b, row, S) /\ b.drop = 0
      /\ \/ Water(b.admitted, S) <= Water(acc.admitted, S)
         \/ Water(b.admitted, S) = Water(acc.admitted, S) + (r + w - v)
  BY <1>1, <1>2, ClimbAtMost
<1> HIDE DEF b
<1>4. QED
  BY <1>3 DEF Calm, Leaves, b

\* Past midnight at 0: a meter that may start over keeps its climb, the other falls.
LEMMA CalmToNight ==
  ASSUME NEW acc \in Accs, NEW row \in BucketRow, NEW v \in Nat, acc.register = v,
         NEW S, row.start \in S, NEW r \in Nat, NEW w \in Nat, NEW D \in Int,
         Calm(acc, v, r, S, D), row.state = 0,
         row.change = r + w - v \/ row.change = 0 - v
  PROVE  Night(M!Bucket(acc, row), 0, r + w, S, D + w)
<1> DEFINE b == M!Bucket(acc, row)
<1>1. acc.drop = 0 /\ v <= r
  BY DEF Calm
<1>2. CASE row.change >= 0
  <2>1. /\ Leaves(acc, b, row, S) /\ b.drop = 0
        /\ \/ Water(b.admitted, S) <= Water(acc.admitted, S)
           \/ Water(b.admitted, S) = Water(acc.admitted, S) + Climb(row, v)
    BY <1>1, <1>2, ClimbAtMost
  <2>2. Climb(row, v) \in Int /\ Climb(row, v) <= 0
    BY <1>1, <1>2 DEF Climb, M!ExceedsTheRegister
  <2> HIDE DEF b
  <2>3. QED
    BY <1>1, <2>1, <2>2 DEF Night, Calm, Leaves, b
<1>3. CASE row.change < 0
  <2>1. row.change = 0 - v
    BY <1>1, <1>3
  <2>2. /\ Leaves(acc, b, row, S)
        /\ \/ b.drop = 0 /\ Water(b.admitted, S) <= Water(acc.admitted, S)
           \/ b.drop = 0 - v /\ Water(b.admitted, S) = Water(acc.admitted, S)
    BY <1>1, <1>3, <2>1, FallMoves DEF TakenBack, LeftOut
  <2> HIDE DEF b
  <2>3. QED
    BY <1>1, <1>3, <2>1, <2>2 DEF Night, Calm, Leaves, b
<1>4. row.change \in Int
  BY DEF BucketRow
<1>5. QED
  BY <1>2, <1>3, <1>4

\* A misread high.
LEMMA CalmToHigh ==
  ASSUME NEW acc \in Accs, NEW row \in BucketRow, NEW v \in Nat, acc.register = v,
         NEW S, row.start \in S, NEW r \in Nat, NEW w \in Nat, NEW s \in Nat \ {0}, NEW D \in Int,
         Calm(acc, v, r, S, D), row.state = r + w + s, row.change = r + w + s - v
  PROVE  High(M!Bucket(acc, row), r + w + s, r + w, S, D + w)
<1> DEFINE b == M!Bucket(acc, row)
           last == b.admitted[Len(b.admitted)]
<1>1. acc.drop = 0 /\ v <= r /\ row.change >= 0
  BY DEF Calm
<1>2. Climb(row, v) = r + w + s - v
  BY <1>1 DEF Climb
<1>3. /\ Leaves(acc, b, row, S) /\ b.drop = 0
      /\ \/ TakenBack(acc, b, S, row.state)
         \/ LeftOut(acc, b, S)
         \/ /\ CountedFrom(acc, b, S, row, v, r + w + s - v)
            /\ M!ExceedsTheRegister(row) => 0 < v
  BY <1>1, <1>2, ClimbMoves
<1> HIDE DEF b
<1>4. Water(b.admitted, S) \in Int /\ Water(acc.admitted, S) \in Int
      /\ Water(acc.admitted, S) + (r - v) <= D
  BY <1>3 DEF Leaves, Calm
<1>5. CASE TakenBack(acc, b, S, row.state) \/ LeftOut(acc, b, S)
  <2>1. Water(b.admitted, S) <= Water(acc.admitted, S)
    BY <1>4, <1>5 DEF TakenBack, LeftOut
  <2>2. QED
    BY <1>1, <1>3, <1>4, <2>1 DEF High, b
<1>6. CASE /\ CountedFrom(acc, b, S, row, v, r + w + s - v)
           /\ M!ExceedsTheRegister(row) => 0 < v
  <2>1. 0 < v
    <3>1. v = 0 => M!ExceedsTheRegister(row)
      BY DEF M!ExceedsTheRegister
    <3>2. QED
      BY <1>6, <3>1
  <2>2. Water(b.admitted, S) = Water(acc.admitted, S) + (r + w + s - v)
        /\ b.around = <<v, r + w + s>> /\ last.start \in S /\ last.m3 = r + w + s - v
    BY <1>6 DEF CountedFrom
  <2>3. b.around \in Int \X Int /\ b.around[1] = v /\ b.around[2] = r + w + s
    BY <2>2
  <2> HIDE DEF last
  <2>4. Water(b.admitted, S) + (r + w - (r + w + s)) <= D + w
    BY <1>4, <2>2
  <2>5. QED
    BY <1>1, <1>3, <2>1, <2>2, <2>3, <2>4 DEF High, last, b
<1>7. QED
  BY <1>3, <1>5, <1>6

\* A meter at zero in its place, which has counted to w.
LEMMA CalmToSwap ==
  ASSUME NEW acc \in Accs, NEW row \in BucketRow, NEW v \in Nat, acc.register = v,
         NEW S, row.start \in S, NEW r \in Nat, NEW w \in Nat, NEW D \in Int,
         Calm(acc, v, r, S, D), row.state = w,
         row.change = w - v \/ (row.change = w /\ w < v)
  PROVE  Dropped(M!Bucket(acc, row), w, w, S, D + w)
<1> DEFINE b == M!Bucket(acc, row)
<1>1. acc.drop = 0 /\ v <= r
  BY DEF Calm
<1>2. CASE row.change >= 0
  <2>1. /\ Leaves(acc, b, row, S) /\ b.drop = 0
        /\ \/ Water(b.admitted, S) <= Water(acc.admitted, S)
           \/ Water(b.admitted, S) = Water(acc.admitted, S) + Climb(row, v)
    BY <1>1, <1>2, ClimbAtMost
  <2>2. Climb(row, v) \in Int /\ Climb(row, v) <= w
    BY <1>1, <1>2 DEF Climb, M!ExceedsTheRegister
  <2> HIDE DEF b
  <2>3. QED
    BY <1>1, <2>1, <2>2 DEF Dropped, Calm, Leaves, b
<1>3. CASE row.change < 0
  <2>1. /\ Leaves(acc, b, row, S)
        /\ \/ b.drop = 0 /\ Water(b.admitted, S) <= Water(acc.admitted, S)
           \/ b.drop = row.change /\ Water(b.admitted, S) = Water(acc.admitted, S)
    BY <1>1, <1>3, FallMoves DEF TakenBack, LeftOut
  <2> HIDE DEF b
  <2>2. QED
    BY <1>1, <1>3, <2>1 DEF Dropped, Calm, Leaves, b
<1>4. row.change \in Int
  BY DEF BucketRow
<1>5. QED
  BY <1>2, <1>3, <1>4

\* Back from the night.
LEMMA NightEnds ==
  ASSUME NEW acc \in Accs, NEW row \in BucketRow, NEW v \in Nat, acc.register = v,
         NEW S, row.start \in S, NEW r \in Nat, NEW w \in Nat, NEW D \in Int,
         Night(acc, v, r, S, D), row.state = r + w, row.change = r + w
  PROVE  Calm(M!Bucket(acc, row), r + w, r + w, S, D + w)
<1> DEFINE b == M!Bucket(acc, row)
<1>1. v = 0 /\ row.change >= 0 /\ acc.drop \in Int
  BY DEF Night, Accs
<1>2. CASE acc.drop = 0
  <2>1. /\ Leaves(acc, b, row, S) /\ b.drop = 0
        /\ \/ TakenBack(acc, b, S, row.state)
           \/ LeftOut(acc, b, S)
           \/ /\ CountedFrom(acc, b, S, row, v, Climb(row, v))
              /\ M!ExceedsTheRegister(row) => 0 < v
    BY <1>1, <1>2, ClimbMoves
  <2> HIDE DEF b
  <2>2. ~M!ExceedsTheRegister(row) => Climb(row, v) = 0
    BY DEF Climb, M!ExceedsTheRegister
  <2>3. Water(b.admitted, S) <= Water(acc.admitted, S)
    BY <1>1, <2>1, <2>2 DEF TakenBack, LeftOut, CountedFrom, Leaves
  <2>4. QED
    BY <1>2, <2>1, <2>3 DEF Night, Calm, Leaves, b
<1>3. CASE acc.drop < 0
  <2>1. /\ Leaves(acc, b, row, S) /\ b.drop = 0
        /\ \/ Water(b.admitted, S) = Water(acc.admitted, S)
           \/ Water(b.admitted, S) = Water(acc.admitted, S) + (r + w + acc.drop)
    BY <1>1, <1>3, NetMoves DEF LeftOut
  <2> HIDE DEF b
  <2>2. QED
    BY <1>1, <1>3, <2>1 DEF Night, Calm, Leaves, b
<1>4. QED
  BY <1>1, <1>2, <1>3 DEF Night

\* The day after a drop.
LEMMA DroppedEnds ==
  ASSUME NEW acc \in Accs, NEW row \in BucketRow, NEW v \in Nat, acc.register = v,
         NEW S, row.start \in S, NEW r \in Nat, NEW w \in Nat, NEW D \in Int,
         Dropped(acc, v, r, S, D), row.state = r + w, row.change = w
  PROVE  Calm(M!Bucket(acc, row), r + w, r + w, S, D + w)
<1> DEFINE b == M!Bucket(acc, row)
<1>1. v = r /\ row.change >= 0 /\ acc.drop \in Int /\ acc.drop <= 0
  BY DEF Dropped, Accs
<1>2. CASE acc.drop = 0
  <2>1. Water(acc.admitted, S) \in Int
    BY WaterIsOne DEF Accs
  <2>2. Calm(acc, v, r, S, D)
    BY <1>1, <1>2, <2>1 DEF Dropped, Calm
  <2>3. row.change = r + w - v
    BY <1>1
  <2>4. QED
    BY <2>2, <2>3, CalmStays
<1>3. CASE acc.drop < 0
  <2>1. /\ Leaves(acc, b, row, S) /\ b.drop = 0
        /\ \/ Water(b.admitted, S) = Water(acc.admitted, S)
           \/ Water(b.admitted, S) = Water(acc.admitted, S) + (w + acc.drop)
    BY <1>1, <1>3, NetMoves DEF LeftOut
  <2> HIDE DEF b
  <2>2. QED
    BY <1>1, <1>3, <2>1 DEF Dropped, Calm, Leaves, b
<1>4. QED
  BY <1>1, <1>2, <1>3

\* The day after a misread.
LEMMA HighEnds ==
  ASSUME NEW acc \in Accs, NEW row \in BucketRow, NEW v \in Nat, acc.register = v,
         NEW S, row.start \in S, NEW r \in Nat, NEW w \in Nat, NEW D \in Int,
         High(acc, v, r, S, D), row.state = r + w,
         row.change = r + w - v \/ (row.change = r + w /\ r + w < v)
  PROVE  \/ Calm(M!Bucket(acc, row), r + w, r + w, S, D + w)
         \/ Dropped(M!Bucket(acc, row), r + w, r + w, S, D + w)
<1> DEFINE b == M!Bucket(acc, row)
           W == Water(acc.admitted, S)
           X == Water(b.admitted, S)
           last == acc.admitted[Len(acc.admitted)]
<1>1. acc.drop = 0 /\ r < v /\ row.change \in Int
  BY DEF High, BucketRow
<1>2. Leaves(acc, b, row, S) /\ W \in Int /\ X \in Int
  <2>1. CASE row.change >= 0
    BY <1>1, <2>1, ClimbMoves DEF Leaves
  <2>2. CASE row.change < 0
    BY <1>1, <2>2, FallMoves DEF Leaves
  <2>3. QED
    BY <1>1, <2>1, <2>2
<1>3. row.change >= 0 =>
        /\ b.drop = 0
        /\ \/ M!ExceedsTheRegister(row) /\ TakenBack(acc, b, S, row.state)
           \/ /\ LeftOut(acc, b, S)
              /\ M!ExceedsTheRegister(row) => ~M!ShowsASpike(acc.around, row.state)
           \/ /\ CountedFrom(acc, b, S, row, v, Climb(row, v))
              /\ M!ExceedsTheRegister(row) => v <= row.state
  BY <1>1, ClimbMoves
<1>4. row.change < 0 =>
        \/ b.drop = 0 /\ TakenBack(acc, b, S, row.state)
        \/ /\ ~M!ShowsASpike(acc.around, row.state)
           /\ b.drop = row.change /\ LeftOut(acc, b, S)
  BY <1>1, FallMoves
<1> HIDE DEF b, W, X
<1>5. TakenBack(acc, b, S, row.state) \/ LeftOut(acc, b, S) => X <= W
  BY <1>2 DEF TakenBack, LeftOut, W, X
<1>6. CountedFrom(acc, b, S, row, v, Climb(row, v)) => X = W + Climb(row, v)
  BY DEF CountedFrom, W, X
<1>7. row.change >= 0 => /\ ~M!ExceedsTheRegister(row) => Climb(row, v) <= w
                         /\ v <= row.state => Climb(row, v) = r + w - v
  <2>1. v <= row.state => row.change = r + w - v
    BY <1>1
  <2>2. ~M!ExceedsTheRegister(row) /\ row.change >= 0 => row.change <= w
    BY <1>1 DEF M!ExceedsTheRegister
  <2>3. QED
    BY <1>1, <2>1, <2>2 DEF Climb
<1>8. CASE W <= D
  <2>1. CASE row.change >= 0
    <3>1. X <= D + w
      <4>1. CASE TakenBack(acc, b, S, row.state) \/ LeftOut(acc, b, S)
        BY <1>2, <1>5, <1>8, <4>1
      <4>2. CASE CountedFrom(acc, b, S, row, v, Climb(row, v)) /\ ~M!ExceedsTheRegister(row)
        BY <1>2, <1>6, <1>7, <1>8, <2>1, <4>2 DEF Climb
      <4>3. CASE CountedFrom(acc, b, S, row, v, Climb(row, v)) /\ v <= row.state
        BY <1>1, <1>2, <1>6, <1>7, <1>8, <2>1, <4>3
      <4>4. QED
        BY <1>3, <2>1, <4>1, <4>2, <4>3
    <3>2. QED
      BY <1>2, <1>3, <2>1, <3>1 DEF Calm, X, b
  <2>2. CASE row.change < 0
    <3>1. X <= D + w /\ b.drop <= 0
      BY <1>1, <1>2, <1>4, <1>5, <1>8, <2>2
    <3>2. QED
      BY <1>2, <3>1 DEF Dropped, X, b
  <2>3. QED
    BY <1>1, <2>1, <2>2
<1>9. CASE /\ acc.around \in Int \X Int
           /\ 0 < acc.around[1] /\ acc.around[1] <= r /\ acc.around[2] = v
           /\ last.start \in S /\ last.m3 = v - acc.around[1]
           /\ W + (r - v) <= D
  <2>1. r + w < v => M!ShowsASpike(acc.around, row.state)
    <3>1. acc.around # None /\ acc.around[1] <= r + w
      BY <1>9, Buckets
    <3>2. QED
      BY <1>9, <3>1 DEF M!ShowsASpike
  <2>2. TakenBack(acc, b, S, row.state) => X = W - v + (r + w)
    BY <1>9 DEF TakenBack, W, X
  <2>3. CASE row.change >= 0 /\ v <= row.state
    <3>1. X <= D + w
      <4>1. Climb(row, v) = r + w - v
        BY <1>7, <2>3
      <4>2. X <= W \/ X = W + (r + w - v)
        BY <1>3, <1>5, <1>6, <2>3, <4>1
      <4>3. QED
        BY <1>2, <1>9, <2>3, <4>2
    <3>2. QED
      BY <1>2, <1>3, <2>3, <3>1 DEF Calm, X, b
  <2>4. CASE row.change >= 0 /\ ~(v <= row.state)
    <3>1. r + w < v /\ row.change = r + w
      BY <1>1, <2>4
    <3>2. M!ExceedsTheRegister(row)
      <4>1. r > 0
        BY <1>9
      <4>2. QED
        BY <3>1, <4>1 DEF M!ExceedsTheRegister
    <3>3. TakenBack(acc, b, S, row.state)
      BY <1>3, <2>1, <2>4, <3>1, <3>2
    <3>4. X <= D + w
      BY <1>2, <1>9, <2>2, <3>3
    <3>5. QED
      BY <1>2, <1>3, <2>4, <3>4 DEF Calm, X, b
  <2>5. CASE row.change < 0
    <3>1. r + w < v
      BY <1>1, <2>5
    <3>2. TakenBack(acc, b, S, row.state) /\ b.drop = 0
      BY <1>4, <2>1, <2>5, <3>1
    <3>3. X <= D + w
      BY <1>2, <1>9, <2>2, <3>2
    <3>4. QED
      BY <1>2, <3>2, <3>3 DEF Calm, X, b
  <2>6. QED
    BY <1>1, <2>3, <2>4, <2>5
<1>10. QED
  BY <1>8, <1>9 DEF High, W, last

\* The first day, which has no register before it.
LEMMA FirstDay ==
  ASSUME NEW acc \in Accs, NEW row \in BucketRow, acc.register = None, acc.around = None, acc.drop = 0,
         NEW S, row.start \in S, NEW r \in Nat, NEW w \in Nat, NEW D \in Int,
         Water(acc.admitted, S) <= D, row.state = r + w, row.change = w
  PROVE  Calm(M!Bucket(acc, row), r + w, r + w, S, D + w)
<1> DEFINE b == M!Bucket(acc, row)
<1>1. row.change >= 0 /\ acc.drop >= 0 /\ ~M!ShowsASpike(acc.around, row.state)
  BY DEF M!ShowsASpike
<1>2. /\ b \in Accs /\ b.drop = 0
      /\ Refused(acc, b) \/ Counts(acc, b, row, w)
  <2>1. CASE M!IsTheWholeRegister(row)
    BY <2>1, WholeRegister
  <2>2. CASE ~M!IsTheWholeRegister(row)
    BY <1>1, <2>2, Climbed DEF TakesBack
  <2>3. QED
    BY <2>1, <2>2
<1> HIDE DEF b
<1>3. Water(acc.admitted, S) \in Int
      /\ (Water(b.admitted, S) = Water(acc.admitted, S)
          \/ Water(b.admitted, S) = Water(acc.admitted, S) + w)
  BY <1>2, CountsMoves, WaterIsOne DEF Refused, Accs
<1>4. QED
  BY <1>2, <1>3 DEF Calm, b

-----------------------------------------------------------------------------
(* The days of a behaviour. *)

\* The days that count are days with a bucket.
LEMMA StartsStay ==
  ASSUME NEW acc \in Accs, NEW row \in BucketRow, NEW U, row.start \in U,
         \A i \in DOMAIN acc.admitted : acc.admitted[i].start \in U
  PROVE  LET b == M!Bucket(acc, row)
         IN /\ b \in Accs /\ b.register = row.state /\ b.previous = row.start
            /\ \A i \in DOMAIN b.admitted : b.admitted[i].start \in U
<1> DEFINE b == M!Bucket(acc, row)
<1>1. row.change \in Int /\ acc.drop \in Int
  BY DEF Accs, BucketRow
<1>2. /\ b \in Accs /\ b.register = row.state /\ b.previous = row.start
      /\ \/ TakesBack(acc, b, row.state)
         \/ Refused(acc, b)
         \/ \E m3 \in Int : Counts(acc, b, row, m3)
  <2>1. CASE acc.register = None /\ M!IsTheWholeRegister(row)
    BY <2>1, WholeRegister
  <2>2. CASE ~(acc.register = None /\ M!IsTheWholeRegister(row)) /\ row.change < 0
    BY <2>2, Fell
  <2>3. CASE ~(acc.register = None /\ M!IsTheWholeRegister(row)) /\ row.change >= 0 /\ acc.drop < 0
    BY <1>1, <2>3, FollowsADrop
  <2>4. CASE ~(acc.register = None /\ M!IsTheWholeRegister(row)) /\ row.change >= 0 /\ acc.drop >= 0
    <3> DEFINE m3 == IF M!ExceedsTheRegister(row) THEN row.state - acc.register ELSE row.change
    <3>1. /\ b \in Accs /\ b.register = row.state /\ b.previous = row.start
          /\ \/ TakesBack(acc, b, row.state)
             \/ Refused(acc, b)
             \/ /\ Counts(acc, b, row, m3)
                /\ M!ExceedsTheRegister(row) => acc.register # None
      BY <2>4, Climbed
    <3>2. acc.register \in Int \cup {None} /\ row.state \in Int
      BY DEF Accs, BucketRow
    <3>3. (M!ExceedsTheRegister(row) => acc.register # None) => m3 \in Int
      BY <1>1, <3>2
    <3> HIDE DEF m3, b
    <3>4. QED
      BY <3>1, <3>3
  <2>5. QED
    BY <1>1, <2>1, <2>2, <2>3, <2>4
<1> HIDE DEF b
<1>3. CASE TakesBack(acc, b, row.state)
  <2>1. acc.admitted \in Seq(Counted) /\ Len(acc.admitted) \in DOMAIN acc.admitted
    BY <1>3 DEF TakesBack, Accs
  <2>2. PICK m3 : b.admitted = [acc.admitted EXCEPT ![Len(acc.admitted)].m3 = m3]
    BY <1>3 DEF TakesBack
  <2>3. DOMAIN b.admitted = DOMAIN acc.admitted
    BY <2>2
  <2>4. ASSUME NEW i \in DOMAIN acc.admitted
        PROVE  b.admitted[i].start = acc.admitted[i].start
    <3>1. acc.admitted[i] \in Counted
      BY <2>1
    <3>2. CASE i = Len(acc.admitted)
      <4>1. b.admitted[i] = [acc.admitted[i] EXCEPT !.m3 = m3]
        BY <2>1, <2>2, <3>2
      <4>2. QED
        BY <3>1, <4>1 DEF Counted
    <3>3. CASE i # Len(acc.admitted)
      <4>1. b.admitted[i] = acc.admitted[i]
        BY <2>1, <2>2, <3>3
      <4>2. QED
        BY <4>1
    <3>4. QED
      BY <3>2, <3>3
  <2>5. QED
    BY <1>2, <2>3, <2>4 DEF b
<1>4. CASE Refused(acc, b)
  BY <1>2, <1>4 DEF Refused, b
<1>5. CASE \E m3 \in Int : Counts(acc, b, row, m3)
  <2>1. PICK m3 \in Int : b.admitted = Append(acc.admitted, [start |-> row.start, m3 |-> m3])
    BY <1>5 DEF Counts
  <2> DEFINE x == [start |-> row.start, m3 |-> m3]
  <2>2. acc.admitted \in Seq(Counted) /\ x \in Counted /\ x.start = row.start
    BY DEF Accs, Counted, BucketRow
  <2> HIDE DEF x
  <2>3. b.admitted = Append(acc.admitted, x)
    BY <2>1 DEF x
  <2>4. ASSUME NEW i \in DOMAIN b.admitted
        PROVE  b.admitted[i] = x \/ (i \in DOMAIN acc.admitted /\ b.admitted[i] = acc.admitted[i])
    BY <2>2, <2>3
  <2>5. QED
    BY <1>2, <2>2, <2>4 DEF b
<1>6. QED
  BY <1>2, <1>3, <1>4, <1>5

MeterType ==
  /\ increasing \in BOOLEAN /\ reading \in Nat /\ shown \in Nat /\ sum \in Int
  /\ day \in Nat /\ used \in Seq(Nat) /\ Len(used) = day
  /\ rows \in Seq(BucketRow) /\ \A i \in DOMAIN rows : rows[i].start \in 1 .. day
  /\ \A f \in faults : f.day \in 1 .. day

\* What the readers make of the days so far.
ReadersType ==
  LET acc == M!Admitted(rows)
  IN /\ acc \in Accs /\ \A i \in DOMAIN acc.admitted : acc.admitted[i].start \in 1 .. day
     /\ rows = <<>> => acc = M!Fresh
     /\ rows # <<>> => acc.register = shown
     /\ rows = <<>> /\ day > 0 => 1 \in M!FaultyDays
     /\ day = 0 => shown = reading /\ rows = <<>>

\* A bucket for the day that went by.
Bucketed(change) ==
  \E row \in BucketRow : /\ row.start = day + 1 /\ row.change = change /\ row.state = shown'
                         /\ rows' = Append(rows, row)

\* What the statistic moves by from v to r: the climb, or a start from zero.
Moves(v, r, change) == change = r - v \/ (increasing /\ 10 * r < 9 * v /\ change = r)

HealthyDay(w) ==
  /\ reading' = reading + w /\ shown' = reading' /\ faults' = faults
  /\ \E change \in Int : Bucketed(change) /\ Moves(shown, reading', change)

PurgedDay(w) ==
  /\ day = 0 /\ reading' = reading + w /\ shown' = reading' /\ \E change \in Int : Bucketed(change)
  /\ faults' = faults \cup [day : {day + 1}, kind : {"purged"}]

DipDay(w) ==
  /\ reading' = reading + w /\ shown' = reading'
  /\ \E change \in Int : /\ Bucketed(change)
                         /\ \/ change = reading + w - shown
                            \/ increasing /\ shown > 0 /\ change = reading + w
  /\ faults' = faults \cup [day : {day + 1}, kind : {"dip"}]

NightDay(w) ==
  /\ reading' = reading + w /\ shown' = 0
  /\ \E change \in Int : /\ Moves(shown, reading', change)
                         /\ \/ increasing /\ reading' > 0 /\ Bucketed(change)
                            \/ ~(increasing /\ reading' > 0) /\ Bucketed(change - reading')
  /\ faults' = faults \cup [day : {day + 1}, kind : {"overnight"}]

HighDay(w) ==
  /\ reading' = reading + w
  /\ \E s \in Spikes :
       /\ shown' = reading' + s
       /\ \E change \in Int : Bucketed(change) /\ Moves(shown, reading' + s, change)
       /\ faults' = faults \cup [day : {day + 1}, kind : {IF s > Jump THEN "wild" ELSE "spike"}]

SwapDay(w) ==
  /\ reading' = w /\ shown' = reading'
  /\ \E change \in Int : Bucketed(change) /\ Moves(shown, reading', change)
  /\ faults' = faults \cup [day : {day + 1}, kind : {"swap"}]

SilentDay(w) ==
  /\ reading' = reading + w /\ shown' = shown /\ rows' = rows
  /\ faults' = faults \cup [day : {day + 1}, kind : {"silent"}]

Goes(w) ==
  \/ HealthyDay(w) \/ PurgedDay(w) \/ DipDay(w) \/ NightDay(w) \/ HighDay(w) \/ SwapDay(w)
  \/ SilentDay(w)

\* What the compiler makes of one reading.
LEMMA CompiledIs ==
  ASSUME MeterType, NEW t \in Int, NEW v \in Nat, NEW r \in Nat
  PROVE  LET done == M!Compiled([sum |-> t, shown |-> v], r)
         IN /\ done = [sum |-> t + (IF increasing /\ 10 * r < 9 * v THEN r ELSE r - v), shown |-> r]
            /\ done.sum \in Int /\ done.shown = r /\ Moves(v, r, done.sum - t)
BY DEF M!Compiled, Moves, MeterType

\* A day with its bucket.
LEMMA BucketedIs ==
  ASSUME MeterType, NEW done, done.sum \in Int, done.shown \in Nat, NEW w, NEW faulty,
         M!DayOf(done, w, faulty), "silent" \notin faulty, NEW change \in Int,
         change = done.sum - (IF day = 0 /\ "purged" \in faulty THEN 0 ELSE sum)
  PROVE  Bucketed(change) /\ shown' = done.shown
<1> DEFINE row == [start |-> day + 1, change |-> change, sum |-> done.sum, state |-> done.shown]
<1>1. row \in BucketRow /\ row.start = day + 1 /\ row.change = change /\ row.state = done.shown
  BY DEF BucketRow, MeterType
<1>2. rows' = Append(rows, row) /\ shown' = done.shown
  BY DEF M!DayOf
<1> HIDE DEF row
<1>3. QED
  BY <1>1, <1>2 DEF Bucketed

\* What is assumed of a household's draws and the meter's misreads.
LEMMA Bounds == Draws \subseteq Nat /\ Spikes \subseteq Nat \ {0}
BY PartsAssumption DEF M!BucketAssumption

\* A step of the meter is one of these days.
LEMMA DayGoes ==
  ASSUME MeterType, M!Next
  PROVE  /\ \E w \in Draws : used' = Append(used, w) /\ Goes(w)
         /\ day' = day + 1 /\ increasing' = increasing
         /\ reading' \in Nat /\ shown' \in Nat /\ sum' \in Int
<1>1. PICK w \in Draws : M!Healthy(w) \/ M!Purged(w) \/ M!Dips(w) \/ M!Misreads(w) \/ M!Replaced(w)
                         \/ M!Silent(w)
  BY DEF M!Next
<1>2. w \in Nat /\ reading \in Nat /\ shown \in Nat /\ sum \in Int /\ day \in Nat
      /\ increasing \in BOOLEAN /\ M!Statistic = [sum |-> sum, shown |-> shown]
  BY Bounds DEF MeterType, M!Statistic
<1>3. ASSUME NEW done, done.sum \in Int, done.shown \in Nat, NEW faulty, M!DayOf(done, w, faulty)
      PROVE  /\ used' = Append(used, w) /\ day' = day + 1 /\ increasing' = increasing
             /\ shown' = done.shown /\ sum' = done.sum /\ shown' \in Nat /\ sum' \in Int
             /\ faults' = faults \cup [day : {day + 1}, kind : faulty]
             /\ "silent" \in faulty => rows' = rows
  BY <1>3 DEF M!DayOf
<1>4. CASE M!Healthy(w)
  <2> DEFINE done == M!Compiled([sum |-> sum, shown |-> shown], reading')
  <2>1. reading' = reading + w /\ reading' \in Nat /\ M!DayOf(done, w, {})
    BY <1>2, <1>4 DEF M!Healthy
  <2>2. done.sum \in Int /\ done.shown = reading' /\ Moves(shown, reading', done.sum - sum)
    BY <1>2, <2>1, CompiledIs
  <2> HIDE DEF done
  <2>3. done.sum - sum \in Int
    BY <1>2, <2>2
  <2>4. Bucketed(done.sum - sum)
    BY <1>2, <2>1, <2>2, <2>3, BucketedIs
  <2>5. [day : {day + 1}, kind : {}] = {}
    OBVIOUS
  <2>6. HealthyDay(w)
    <3>1. shown' = reading' /\ faults' = faults \cup [day : {day + 1}, kind : {}]
      <4>1. done.shown \in Nat
        BY <2>1, <2>2
      <4>2. QED
        BY <1>3, <2>1, <2>2, <4>1
    <3>2. QED
      BY <2>1, <2>2, <2>3, <2>4, <2>5, <3>1 DEF HealthyDay
  <2>7. QED
    BY <1>3, <2>1, <2>2, <2>6 DEF Goes
<1>5. CASE M!Purged(w)
  <2> DEFINE done == M!Compiled([sum |-> sum, shown |-> shown], reading')
  <2>1. day = 0 /\ reading' = reading + w /\ reading' \in Nat /\ M!DayOf(done, w, {"purged"})
    BY <1>2, <1>5 DEF M!Purged
  <2>2. done.sum \in Int /\ done.shown = reading'
    BY <1>2, <2>1, CompiledIs
  <2> HIDE DEF done
  <2>3. Bucketed(done.sum)
    BY <1>2, <2>1, <2>2, BucketedIs
  <2>4. PurgedDay(w)
    BY <1>3, <2>1, <2>2, <2>3 DEF PurgedDay
  <2>5. QED
    BY <1>3, <2>1, <2>2, <2>4 DEF Goes
<1>6. CASE M!Dips(w)
  <2> DEFINE zero == M!Compiled([sum |-> sum, shown |-> shown], 0)
             dip == M!Compiled(zero, reading')
             rise == M!Compiled([sum |-> sum, shown |-> shown], reading')
             night == M!Compiled(rise, 0)
  <2>1. /\ reading' = reading + w /\ reading' \in Nat
        /\ M!DayOf(dip, w, {"dip"}) \/ M!DayOf(night, w, {"overnight"})
    BY <1>2, <1>6 DEF M!Dips
  <2>2. CASE M!DayOf(dip, w, {"dip"})
    <3>1. 0 \in Nat /\ 10 * 0 = 0
      OBVIOUS
    <3>2. /\ zero = [sum |-> sum + (IF increasing /\ 0 < 9 * shown THEN 0 ELSE 0 - shown), shown |-> 0]
          /\ zero.sum \in Int
      BY <1>2, <3>1, CompiledIs
    <3> DEFINE t == sum + (IF increasing /\ 0 < 9 * shown THEN 0 ELSE 0 - shown)
    <3>3. t \in Int /\ zero = [sum |-> t, shown |-> 0]
      BY <1>2, <3>2
    <3> HIDE DEF t, zero
    <3>4. dip.sum \in Int /\ dip.shown = reading' /\ Moves(0, reading', dip.sum - t)
      BY <2>1, <3>1, <3>3, CompiledIs
    <3> HIDE DEF dip
    <3>5. dip.sum - sum \in Int /\ dip.sum - t = reading'
      BY <1>2, <2>1, <3>3, <3>4 DEF Moves
    <3>6. Bucketed(dip.sum - sum) /\ shown' = reading'
      BY <1>2, <2>1, <2>2, <3>4, <3>5, BucketedIs
    <3>7. dip.sum - sum = reading' - shown \/ (increasing /\ shown > 0 /\ dip.sum - sum = reading')
      BY <1>2, <2>1, <3>3, <3>4, <3>5 DEF t
    <3> DEFINE change == dip.sum - sum
    <3>8. DipDay(w)
      <4>1. /\ change \in Int /\ Bucketed(change)
            /\ change = reading + w - shown \/ (increasing /\ shown > 0 /\ change = reading + w)
        BY <1>2, <2>1, <3>5, <3>6, <3>7
      <4>2. /\ reading' = reading + w /\ shown' = reading'
            /\ faults' = faults \cup [day : {day + 1}, kind : {"dip"}]
        BY <1>3, <2>1, <2>2, <3>4, <3>6
      <4> HIDE DEF change
      <4>3. QED
        BY <4>1, <4>2 DEF DipDay
    <3>9. QED
      BY <1>3, <2>1, <2>2, <3>4, <3>8 DEF Goes
  <2>3. CASE M!DayOf(night, w, {"overnight"})
    <3>1. 0 \in Nat /\ 10 * 0 = 0
      OBVIOUS
    <3> DEFINE t == sum + (IF increasing /\ 10 * reading' < 9 * shown THEN reading' ELSE reading' - shown)
    <3>2. rise = [sum |-> t, shown |-> reading'] /\ rise.sum \in Int /\ Moves(shown, reading', rise.sum - sum)
      BY <1>2, <2>1, CompiledIs
    <3> HIDE DEF t, rise
    <3>sums. t \in Int /\ rise.sum = t
      BY <3>2
    <3>night. night = M!Compiled([sum |-> t, shown |-> reading'], 0)
      BY <3>2
    <3> HIDE DEF night
    <3>3. /\ night.sum = rise.sum + (IF increasing /\ 0 < 9 * reading' THEN 0 ELSE 0 - reading')
          /\ night.sum \in Int /\ night.shown = 0
      <4>1. LET done == M!Compiled([sum |-> t, shown |-> reading'], 0)
            IN /\ done = [sum |-> t + (IF increasing /\ 10 * 0 < 9 * reading' THEN 0 ELSE 0 - reading'),
                          shown |-> 0]
               /\ done.sum \in Int /\ done.shown = 0
        BY <2>1, <3>1, <3>sums, CompiledIs
      <4>2. QED
        BY <2>1, <3>1, <3>sums, <3>night, <4>1
    <3>4. night.sum - sum \in Int /\ rise.sum - sum \in Int
      BY <1>2, <3>2, <3>3
    <3>5. Bucketed(night.sum - sum) /\ shown' = 0
      BY <1>2, <2>1, <2>3, <3>3, <3>4, BucketedIs
    <3>6. night.sum - sum =
            IF increasing /\ reading' > 0 THEN rise.sum - sum ELSE (rise.sum - sum) - reading'
      BY <1>2, <2>1, <3>sums, <3>3, <3>4
    <3>7. NightDay(w)
      BY <1>3, <2>1, <2>3, <3>2, <3>3, <3>4, <3>5, <3>6 DEF NightDay
    <3>8. QED
      BY <1>3, <2>1, <2>3, <3>3, <3>7 DEF Goes
  <2>4. QED
    BY <2>1, <2>2, <2>3
<1>7. CASE M!Misreads(w)
  <2>1. PICK s \in Spikes :
          M!DayOf(M!Compiled([sum |-> sum, shown |-> shown], reading' + s), w,
                  {IF s > Jump THEN "wild" ELSE "spike"})
    BY <1>2, <1>7 DEF M!Misreads
  <2> DEFINE done == M!Compiled([sum |-> sum, shown |-> shown], reading' + s)
             k == IF s > Jump THEN "wild" ELSE "spike"
  <2>2. s \in Nat /\ reading' = reading + w /\ reading' \in Nat /\ reading' + s \in Nat
    BY <1>2, <1>7, Bounds DEF M!Misreads
  <2>3. done.sum \in Int /\ done.shown = reading' + s /\ Moves(shown, reading' + s, done.sum - sum)
    BY <1>2, <2>2, CompiledIs
  <2>4. M!DayOf(done, w, {k}) /\ "silent" \notin {k} /\ "purged" \notin {k}
    BY <2>1
  <2> HIDE DEF done
  <2>5. done.sum - sum \in Int
    BY <1>2, <2>3
  <2>6. Bucketed(done.sum - sum) /\ shown' = reading' + s
    BY <1>2, <2>2, <2>3, <2>4, <2>5, BucketedIs
  <2>7. faults' = faults \cup [day : {day + 1}, kind : {k}]
    BY <1>3, <2>2, <2>3, <2>4
  <2>8. HighDay(w)
    BY <2>2, <2>3, <2>5, <2>6, <2>7 DEF HighDay
  <2>9. QED
    BY <1>3, <2>2, <2>3, <2>4, <2>8 DEF Goes
<1>8. CASE M!Replaced(w)
  <2> DEFINE done == M!Compiled([sum |-> sum, shown |-> shown], reading')
  <2>1. reading' = w /\ reading' \in Nat /\ M!DayOf(done, w, {"swap"})
    BY <1>2, <1>8 DEF M!Replaced
  <2>2. done.sum \in Int /\ done.shown = reading' /\ Moves(shown, reading', done.sum - sum)
    BY <1>2, <2>1, CompiledIs
  <2> HIDE DEF done
  <2>3. done.sum - sum \in Int
    BY <1>2, <2>2
  <2>4. Bucketed(done.sum - sum)
    BY <1>2, <2>1, <2>2, <2>3, BucketedIs
  <2>5. SwapDay(w)
    BY <1>3, <2>1, <2>2, <2>3, <2>4 DEF SwapDay
  <2>6. QED
    BY <1>3, <2>1, <2>2, <2>5 DEF Goes
<1>9. CASE M!Silent(w)
  <2>1. reading' = reading + w /\ reading' \in Nat /\ M!DayOf([sum |-> sum, shown |-> shown], w, {"silent"})
    BY <1>2, <1>9 DEF M!Silent
  <2>2. [sum |-> sum, shown |-> shown].sum = sum /\ [sum |-> sum, shown |-> shown].shown = shown
    OBVIOUS
  <2>3. SilentDay(w)
    BY <1>2, <1>3, <2>1, <2>2 DEF SilentDay
  <2>4. QED
    BY <1>2, <1>3, <2>1, <2>2, <2>3 DEF Goes
<1>10. QED
  BY <1>1, <1>4, <1>5, <1>6, <1>7, <1>8, <1>9

-----------------------------------------------------------------------------
\* A day with a fault.
FaultDay(w) ==
  PurgedDay(w) \/ DipDay(w) \/ NightDay(w) \/ HighDay(w) \/ SwapDay(w) \/ SilentDay(w)

\* A day adds no fault, or its own.
LEMMA FaultsGo ==
  ASSUME MeterType, NEW w, Goes(w)
  PROVE  /\ \/ HealthyDay(w) /\ faults' = faults /\ M!FaultyDays' = M!FaultyDays
            \/ /\ FaultDay(w) /\ \E k : faults' = faults \cup [day : {day + 1}, kind : {k}]
               /\ M!FaultyDays' = M!FaultyDays \cup {day + 1}
         /\ SilentDay(w) \/ \E change : Bucketed(change)
<1>1. \/ HealthyDay(w) /\ faults' = faults
      \/ FaultDay(w) /\ \E k : faults' = faults \cup [day : {day + 1}, kind : {k}]
  BY DEF Goes, FaultDay, HealthyDay, PurgedDay, DipDay, NightDay, HighDay, SwapDay, SilentDay
<1>2. faults' = faults => M!FaultyDays' = M!FaultyDays
  BY DEF M!FaultyDays
<1>3. ASSUME NEW k, faults' = faults \cup [day : {day + 1}, kind : {k}]
      PROVE  M!FaultyDays' = M!FaultyDays \cup {day + 1}
  <2> DEFINE x == [day |-> day + 1, kind |-> k]
  <2>0. \A y \in [day : {day + 1}, kind : {k}] : y = x
    OBVIOUS
  <2>1. [day : {day + 1}, kind : {k}] = {x} /\ x.day = day + 1
    <3>1. x \in [day : {day + 1}, kind : {k}] /\ x.day = day + 1
      OBVIOUS
    <3> HIDE DEF x
    <3>2. QED
      BY <2>0, <3>1
  <2> HIDE DEF x
  <2>2. faults' = faults \cup {x}
    BY <1>3, <2>1
  <2>3. {f.day : f \in faults \cup {x}} = {f.day : f \in faults} \cup {day + 1}
    BY <2>1
  <2>4. QED
    BY <2>2, <2>3 DEF M!FaultyDays
<1>4. SilentDay(w) \/ \E change : Bucketed(change)
  BY DEF Goes, HealthyDay, PurgedDay, DipDay, NightDay, HighDay, SwapDay
<1>5. QED
  BY <1>1, <1>2, <1>3, <1>4

\* The faulty days are days gone by.
LEMMA FaultsAre ==
  ASSUME MeterType
  PROVE  M!FaultyDays \subseteq 1 .. day
BY DEF MeterType, M!FaultyDays

\* The window opens well typed.
LEMMA MeterStarts == M!Init => MeterType /\ ReadersType
<1> SUFFICES ASSUME M!Init
             PROVE  MeterType /\ ReadersType
  OBVIOUS
<1>1. /\ increasing \in BOOLEAN /\ reading \in Nat /\ shown = reading /\ sum \in Int
      /\ rows = <<>> /\ day = 0 /\ used = <<>> /\ faults = {}
  BY PartsAssumption DEF M!Init, M!BucketAssumption
<1>2. MeterType
  BY <1>1 DEF MeterType
<1>3. M!Admitted(rows) = M!Fresh /\ M!Fresh \in Accs /\ M!Fresh.admitted = <<>>
  BY <1>1, AdmittedOfNothing, FreshIsOne
<1>4. QED
  BY <1>1, <1>2, <1>3 DEF ReadersType

\* A day leaves the meter well typed.
LEMMA MeterGoesOn ==
  ASSUME MeterType, M!Next
  PROVE  MeterType'
<1>1. PICK w \in Draws : used' = Append(used, w) /\ Goes(w)
  BY DayGoes
<1>2. /\ day' = day + 1 /\ increasing' \in BOOLEAN
      /\ reading' \in Nat /\ shown' \in Nat /\ sum' \in Int
      /\ day' \in Nat /\ w \in Nat /\ 1 .. day \subseteq 1 .. day' /\ day + 1 \in 1 .. day'
  BY DayGoes, Bounds DEF MeterType
<1>3. used' \in Seq(Nat) /\ Len(used') = day'
  BY <1>1, <1>2 DEF MeterType
<1>4. rows' \in Seq(BucketRow) /\ \A i \in DOMAIN rows' : rows'[i].start \in 1 .. day'
  <2>1. CASE SilentDay(w)
    BY <1>2, <2>1 DEF SilentDay, MeterType
  <2>2. CASE \E change : Bucketed(change)
    <3>1. PICK row \in BucketRow : row.start = day + 1 /\ rows' = Append(rows, row)
      BY <2>2 DEF Bucketed
    <3>2. rows \in Seq(BucketRow) /\ \A i \in DOMAIN rows : rows[i].start \in 1 .. day'
      BY <1>2 DEF MeterType
    <3>3. ASSUME NEW i \in DOMAIN rows'
          PROVE  rows'[i].start \in 1 .. day'
      <4>1. rows'[i] = row \/ (i \in DOMAIN rows /\ rows'[i] = rows[i])
        BY <3>1, <3>2
      <4>2. QED
        BY <1>2, <3>1, <3>2, <4>1
    <3>4. QED
      BY <3>1, <3>2, <3>3
  <2>3. QED
    BY <1>1, <2>1, <2>2, FaultsGo
<1>5. \A f \in faults' : f.day \in 1 .. day'
  <2>1. faults' = faults \/ \E k : faults' = faults \cup [day : {day + 1}, kind : {k}]
    BY <1>1, FaultsGo
  <2>2. \A f \in faults : f.day \in 1 .. day'
    BY <1>2 DEF MeterType
  <2>3. QED
    BY <1>2, <2>1, <2>2
<1>6. QED
  BY <1>2, <1>3, <1>4, <1>5 DEF MeterType

\* What the readers make of one more bucket.
LEMMA BucketedGoes ==
  ASSUME MeterType, ReadersType, NEW row \in BucketRow, row.start = day + 1, rows' = Append(rows, row)
  PROVE  LET acc == M!Admitted(rows)
             b == M!Admitted(rows')
         IN /\ acc \in Accs /\ b = M!Bucket(acc, row) /\ b \in Accs
            /\ b.register = row.state /\ b.previous = day + 1 /\ rows' # <<>>
            /\ \A i \in DOMAIN b.admitted : b.admitted[i].start \in 1 .. day + 1
<1>1. rows \in Seq(BucketRow) /\ day \in Nat /\ 1 .. day \subseteq 1 .. day + 1 /\ row.start \in 1 .. day + 1
  BY DEF MeterType
<1>2. M!Admitted(rows) \in Accs /\ M!Admitted(rows') = M!Bucket(M!Admitted(rows), row)
  BY <1>1, AdmittedOfLast
<1>3. \A i \in DOMAIN M!Admitted(rows).admitted : M!Admitted(rows).admitted[i].start \in 1 .. day + 1
  BY <1>1 DEF ReadersType
<1>4. rows' # <<>>
  BY <1>1
<1>5. QED
  BY <1>1, <1>2, <1>3, <1>4, StartsStay

\* A day leaves the readers well typed.
LEMMA ReadersGoOn ==
  ASSUME MeterType, ReadersType, M!Next
  PROVE  ReadersType'
<1>1. PICK w \in Draws : used' = Append(used, w) /\ Goes(w)
  BY DayGoes
<1>2. day' = day + 1 /\ day \in Nat /\ day' # 0 /\ 1 .. day \subseteq 1 .. day'
  BY DayGoes DEF MeterType
<1>3. M!FaultyDays \subseteq M!FaultyDays'
  BY <1>1, FaultsGo
<1>4. CASE SilentDay(w)
  <2>1. rows' = rows /\ shown' = shown
    BY <1>4 DEF SilentDay
  <2>2. M!Admitted(rows') = M!Admitted(rows)
    BY <2>1
  <2>3. rows' = <<>> => 1 \in M!FaultyDays'
    <3>1. \E k : faults' = faults \cup [day : {day + 1}, kind : {k}]
      BY <1>4 DEF SilentDay
    <3>2. day + 1 \in M!FaultyDays'
      <4>1. PICK k : [day |-> day + 1, kind |-> k] \in faults'
        BY <3>1
      <4>2. [day |-> day + 1, kind |-> k].day = day + 1
        OBVIOUS
      <4>3. QED
        BY <4>1, <4>2 DEF M!FaultyDays
    <3>3. CASE day = 0
      BY <3>2, <3>3
    <3>4. CASE day > 0
      BY <1>3, <2>1, <3>4 DEF ReadersType
    <3>5. QED
      BY <1>2, <3>3, <3>4
  <2>4. QED
    BY <1>2, <2>1, <2>2, <2>3 DEF ReadersType
<1>5. CASE \E change : Bucketed(change)
  <2>1. PICK row \in BucketRow : row.start = day + 1 /\ row.state = shown' /\ rows' = Append(rows, row)
    BY <1>5 DEF Bucketed
  <2>2. /\ M!Admitted(rows') \in Accs /\ M!Admitted(rows').register = shown' /\ rows' # <<>>
        /\ \A i \in DOMAIN M!Admitted(rows').admitted : M!Admitted(rows').admitted[i].start \in 1 .. day + 1
    BY <2>1, BucketedGoes
  <2>3. QED
    BY <1>2, <2>2 DEF ReadersType
<1>6. QED
  BY <1>1, <1>4, <1>5, FaultsGo

-----------------------------------------------------------------------------
(* What counts stays below what was drawn.                                 *)

Apart(faulty) == \A f \in faulty : faulty \cap {f + 1, f + 2} = {}

\* The readers on day n, of faulty days faulty.
Standing(acc, v, r, S, D, n, faulty) ==
  \/ Calm(acc, v, r, S, D)
  \/ n \in faulty /\ (Night(acc, v, r, S, D) \/ High(acc, v, r, S, D))
  \/ (n \in faulty \/ n - 1 \in faulty) /\ Dropped(acc, v, r, S, D)

\* From any day that, with the one before it, had no fault.
Below ==
  Apart(M!FaultyDays) /\ 1 \notin M!FaultyDays =>
    \A e \in 0 .. day : M!FaultyDays \cap {e - 1, e} = {} =>
      Standing(M!Admitted(rows), shown, reading, After(e), Poured(used, day, After(e)), day,
               M!FaultyDays)

\* A healthy day ends what the day before it left open.
LEMMA HealthyStands ==
  ASSUME NEW acc \in Accs, NEW row \in BucketRow, NEW v \in Nat, acc.register = v,
         NEW S, row.start \in S, NEW r \in Nat, NEW w \in Nat, NEW D \in Int, NEW n, NEW faulty,
         Standing(acc, v, r, S, D, n, faulty), row.state = r + w,
         row.change = r + w - v \/ (row.change = r + w /\ 10 * (r + w) < 9 * v)
  PROVE  \/ Calm(M!Bucket(acc, row), r + w, r + w, S, D + w)
         \/ n \in faulty /\ Dropped(M!Bucket(acc, row), r + w, r + w, S, D + w)
<1>1. CASE Calm(acc, v, r, S, D)
  BY <1>1, CalmStays
<1>2. CASE Night(acc, v, r, S, D)
  <2>1. row.change = r + w
    BY <1>2 DEF Night
  <2>2. QED
    BY <1>2, <2>1, NightEnds
<1>3. CASE n \in faulty /\ High(acc, v, r, S, D)
  <2>1. row.change = r + w - v \/ (row.change = r + w /\ r + w < v)
    OBVIOUS
  <2>2. QED
    BY <1>3, <2>1, HighEnds
<1>4. CASE Dropped(acc, v, r, S, D)
  <2>1. row.change = w
    BY <1>4 DEF Dropped
  <2>2. QED
    BY <1>4, <2>1, DroppedEnds
<1>5. QED
  BY <1>1, <1>2, <1>3, <1>4 DEF Standing

\* A fault, when the ones before it are over.
LEMMA FaultStands ==
  ASSUME MeterType, ReadersType, NEW w \in Nat, FaultDay(w), day > 0, rows # <<>>,
         NEW S, day + 1 \in S, NEW D \in Int, Calm(M!Admitted(rows), shown, reading, S, D),
         shown' \in Nat, NEW faulty, day + 1 \in faulty
  PROVE  Standing(M!Admitted(rows'), shown', reading', S, D + w, day + 1, faulty)
<1> DEFINE acc == M!Admitted(rows)
           b == M!Admitted(rows')
<1>1. /\ acc \in Accs /\ acc.register = shown /\ shown \in Nat /\ reading \in Nat /\ day \in Nat
      /\ acc.drop = 0 /\ shown <= reading
  BY DEF MeterType, ReadersType, Calm
<1> HIDE DEF acc, b
<1>2. Calm(acc, shown, reading, S, D)
  BY DEF acc
<1>3. ASSUME NEW change, Bucketed(change)
      PROVE  \E row \in BucketRow : /\ row.start \in S /\ row.change = change /\ row.state = shown'
                                    /\ b = M!Bucket(acc, row)
  <2>1. PICK row \in BucketRow : /\ row.start = day + 1 /\ row.change = change /\ row.state = shown'
                                 /\ rows' = Append(rows, row)
    BY <1>3 DEF Bucketed
  <2>2. b = M!Bucket(acc, row)
    BY <2>1, BucketedGoes DEF acc, b
  <2>3. QED
    BY <2>1, <2>2
<1>4. CASE PurgedDay(w)
  BY <1>1, <1>4 DEF PurgedDay
<1>5. CASE DipDay(w)
  <2>1. PICK change \in Int : Bucketed(change) /\ (change = reading + w - shown \/ change = reading + w)
    BY <1>5 DEF DipDay
  <2>2. PICK row \in BucketRow : /\ row.start \in S /\ row.change = change /\ row.state = shown'
                                 /\ b = M!Bucket(acc, row)
    BY <1>3, <2>1
  <2>3. shown' = reading + w /\ reading' = reading + w
    BY <1>5 DEF DipDay
  <2>4. Calm(b, reading + w, reading + w, S, D + w)
    BY <1>1, <1>2, <2>1, <2>2, <2>3, CalmStays
  <2>5. QED
    BY <2>3, <2>4 DEF Standing, b
<1>6. CASE NightDay(w)
  <2>1. PICK change \in Int : /\ Moves(shown, reading + w, change)
                              /\ \/ Bucketed(change) \/ Bucketed(change - (reading + w))
    BY <1>6 DEF NightDay
  <2>2. change = reading + w - shown
    BY <1>1, <2>1 DEF Moves
  <2>3. PICK c : Bucketed(c) /\ (c = reading + w - shown \/ c = 0 - shown)
    BY <1>1, <2>1, <2>2
  <2>4. PICK row \in BucketRow : /\ row.start \in S /\ row.change = c /\ row.state = shown'
                                 /\ b = M!Bucket(acc, row)
    BY <1>3, <2>3
  <2>5. shown' = 0 /\ reading' = reading + w
    BY <1>6 DEF NightDay
  <2>6. Night(b, 0, reading + w, S, D + w)
    BY <1>1, <1>2, <2>3, <2>4, <2>5, CalmToNight
  <2>7. QED
    BY <2>5, <2>6 DEF Standing, b
<1>7. CASE HighDay(w)
  <2>1. PICK s \in Spikes : /\ shown' = reading + w + s
                            /\ \E change \in Int : Bucketed(change) /\ Moves(shown, reading + w + s, change)
    BY <1>7 DEF HighDay
  <2>2. s \in Nat \ {0} /\ reading' = reading + w
    BY <1>7, Bounds DEF HighDay
  <2>3. PICK change \in Int : Bucketed(change) /\ Moves(shown, reading + w + s, change)
    BY <2>1
  <2>4. change = reading + w + s - shown
    BY <1>1, <2>2, <2>3 DEF Moves
  <2>5. PICK row \in BucketRow : /\ row.start \in S /\ row.change = change /\ row.state = shown'
                                 /\ b = M!Bucket(acc, row)
    BY <1>3, <2>3
  <2>6. High(b, reading + w + s, reading + w, S, D + w)
    BY <1>1, <1>2, <2>1, <2>2, <2>4, <2>5, CalmToHigh
  <2>7. QED
    BY <2>1, <2>2, <2>6 DEF Standing, b
<1>8. CASE SwapDay(w)
  <2>1. PICK change \in Int : Bucketed(change) /\ Moves(shown, w, change)
    BY <1>8 DEF SwapDay
  <2>2. change = w - shown \/ (change = w /\ w < shown)
    BY <1>1, <2>1 DEF Moves
  <2>3. PICK row \in BucketRow : /\ row.start \in S /\ row.change = change /\ row.state = shown'
                                 /\ b = M!Bucket(acc, row)
    BY <1>3, <2>1
  <2>4. shown' = w /\ reading' = w
    BY <1>8 DEF SwapDay
  <2>5. Dropped(b, w, w, S, D + w)
    BY <1>1, <1>2, <2>2, <2>3, <2>4, CalmToSwap
  <2>6. QED
    BY <2>4, <2>5 DEF Standing, b
<1>9. CASE SilentDay(w)
  <2>1. b = acc /\ shown' = shown /\ reading' = reading + w
    BY <1>9 DEF SilentDay, acc, b
  <2>2. Water(acc.admitted, S) \in Int
    BY <1>1, WaterIsOne DEF Accs
  <2>3. Calm(b, shown', reading', S, D + w)
    BY <1>1, <1>2, <2>1, <2>2 DEF Calm
  <2>4. QED
    BY <2>3 DEF Standing, b
<1>10. QED
  BY <1>4, <1>5, <1>6, <1>7, <1>8, <1>9 DEF FaultDay

\* Before the first day nothing counts.
LEMMA BelowStarts == MeterType /\ ReadersType /\ day = 0 => Below
<1> SUFFICES ASSUME MeterType, ReadersType, day = 0, NEW e \in 0 .. day
             PROVE  Standing(M!Admitted(rows), shown, reading, After(e), Poured(used, day, After(e)),
                             day, M!FaultyDays)
  BY DEF Below
<1>1. rows = <<>> /\ shown = reading /\ reading \in Nat /\ used \in Seq(Nat) /\ Len(used) = day
  BY DEF MeterType, ReadersType
<1>2. M!Admitted(rows).admitted = <<>> /\ M!Admitted(rows).drop = 0
  BY <1>1, FreshIsOne DEF ReadersType
<1>3. Water(M!Admitted(rows).admitted, After(e)) = 0
  BY <1>2, WaterOfNothing
<1>4. Poured(used, day, After(e)) = 0
  <2>1. \A d \in 1 .. day : d \notin After(e)
    OBVIOUS
  <2>2. day \in Nat
    OBVIOUS
  <2>3. QED
    BY <1>1, <2>1, <2>2, PouredOfNone
<1>5. Calm(M!Admitted(rows), shown, reading, After(e), Poured(used, day, After(e)))
  BY <1>1, <1>2, <1>3, <1>4 DEF Calm
<1>6. QED
  BY <1>5 DEF Standing

\* A healthy day, whatever the day before was.
LEMMA HealthyGoes ==
  ASSUME MeterType, ReadersType, Below, NEW w \in Nat, HealthyDay(w),
         Apart(M!FaultyDays), 1 \notin M!FaultyDays,
         NEW e \in 0 .. day, M!FaultyDays \cap {e - 1, e} = {}
  PROVE  LET b == M!Admitted(rows')
             D == Poured(used, day, After(e)) + w
         IN \/ Calm(b, reading', reading', After(e), D)
            \/ day \in M!FaultyDays /\ Dropped(b, reading', reading', After(e), D)
<1> DEFINE acc == M!Admitted(rows)
           D == Poured(used, day, After(e))
<1>1. Standing(acc, shown, reading, After(e), D, day, M!FaultyDays)
  BY DEF Below
<1>2. /\ day \in Nat /\ shown \in Nat /\ reading \in Nat /\ acc \in Accs /\ D \in Int
      /\ reading' = reading + w /\ shown' = reading + w
  BY PouredOfMore DEF MeterType, ReadersType, HealthyDay
<1>3. PICK change \in Int : Bucketed(change) /\ Moves(shown, reading', change)
  BY DEF HealthyDay
<1>4. change = reading + w - shown \/ (change = reading + w /\ 10 * (reading + w) < 9 * shown)
  BY <1>2, <1>3 DEF Moves
<1>5. PICK row \in BucketRow : /\ row.start = day + 1 /\ row.change = change /\ row.state = shown'
                               /\ rows' = Append(rows, row)
  BY <1>3 DEF Bucketed
<1>6. M!Admitted(rows') = M!Bucket(acc, row) /\ row.start \in After(e)
  BY <1>2, <1>5, BucketedGoes DEF After
<1>7. CASE day > 0
  <2>1. acc.register = shown
    BY <1>7 DEF ReadersType
  <2> HIDE DEF acc, D
  <2>2. \/ Calm(M!Bucket(acc, row), reading + w, reading + w, After(e), D + w)
        \/ day \in M!FaultyDays /\ Dropped(M!Bucket(acc, row), reading + w, reading + w, After(e), D + w)
    BY <1>1, <1>2, <1>4, <1>5, <1>6, <2>1, HealthyStands
  <2>3. QED
    BY <1>2, <1>6, <2>2 DEF D
<1>8. CASE day = 0
  <2>1. acc.register = None /\ acc.around = None /\ acc.drop = 0 /\ shown = reading /\ acc.admitted = <<>>
    BY <1>8, FreshIsOne DEF ReadersType
  <2>2. Water(acc.admitted, After(e)) = 0 /\ D = 0
    <3>1. \A d \in 1 .. day : d \notin After(e)
      BY <1>8
    <3>2. used \in Seq(Nat) /\ Len(used) = day
      BY DEF MeterType
    <3>3. QED
      BY <1>2, <2>1, <3>1, <3>2, WaterOfNothing, PouredOfNone
  <2>3. change = w
    BY <1>2, <1>4, <2>1
  <2> HIDE DEF acc, D
  <2>4. /\ Water(acc.admitted, After(e)) <= D /\ row.state = reading + w /\ row.change = w
        /\ acc \in Accs /\ D \in Int /\ reading \in Nat
    BY <1>2, <1>5, <2>2, <2>3
  <2>5. Calm(M!Bucket(acc, row), reading + w, reading + w, After(e), D + w)
    BY <1>6, <2>1, <2>4, FirstDay
  <2>6. QED
    BY <1>2, <1>6, <2>5 DEF D
<1>9. QED
  BY <1>2, <1>7, <1>8

\* A day keeps what counts below what was drawn.
LEMMA BelowGoesOn ==
  ASSUME MeterType, ReadersType, Below, M!Next
  PROVE  Below'
<1>1. PICK w \in Draws : used' = Append(used, w) /\ Goes(w)
  BY DayGoes
<1>2. /\ day' = day + 1 /\ day \in Nat /\ w \in Nat /\ used \in Seq(Nat) /\ Len(used) = day
      /\ shown' \in Nat
  BY DayGoes, Bounds DEF MeterType
<1> DEFINE b == M!Admitted(rows')
           D(e) == Poured(used, day, After(e))
<1>3. SUFFICES ASSUME Apart(M!FaultyDays'), 1 \notin M!FaultyDays', NEW e \in 0 .. day + 1,
                      M!FaultyDays' \cap {e - 1, e} = {}
               PROVE  Standing(b, shown', reading', After(e), Poured(used', day + 1, After(e)), day + 1,
                               M!FaultyDays')
  BY <1>2 DEF Below
<1>4. M!FaultyDays \subseteq M!FaultyDays' /\ M!FaultyDays \subseteq 1 .. day
  BY <1>1, FaultsGo, FaultsAre
<1>5. Apart(M!FaultyDays) /\ 1 \notin M!FaultyDays
  BY <1>3, <1>4 DEF Apart
<1>6. ASSUME e <= day
      PROVE  /\ Poured(used', day + 1, After(e)) = D(e) + w /\ day + 1 \in After(e) /\ e \in 0 .. day
             /\ M!FaultyDays \cap {e - 1, e} = {} /\ D(e) \in Int
  <2>1. day + 1 \in After(e) /\ e \in 0 .. day
    BY <1>2, <1>6 DEF After
  <2>2. Poured(used', day + 1, After(e)) = D(e) + w /\ D(e) \in Int
    BY <1>1, <1>2, <2>1, PouredOfMore
  <2>3. QED
    BY <1>3, <1>4, <2>1, <2>2
<1> HIDE DEF D, b
<1>7. CASE HealthyDay(w) /\ M!FaultyDays' = M!FaultyDays
  <2>1. shown' = reading' /\ reading' \in Nat
    BY <1>2, <1>7 DEF HealthyDay
  <2>2. CASE e <= day
    <3>1. \/ Calm(b, reading', reading', After(e), D(e) + w)
          \/ day \in M!FaultyDays /\ Dropped(b, reading', reading', After(e), D(e) + w)
      BY <1>2, <1>5, <1>6, <1>7, <2>2, HealthyGoes DEF b, D
    <3>2. (day + 1) - 1 = day
      BY <1>2
    <3>3. QED
      BY <1>6, <1>7, <2>1, <2>2, <3>1, <3>2 DEF Standing
  <2>3. CASE e = day + 1
    <3>1. 0 \in 0 .. day /\ M!FaultyDays \cap {0 - 1, 0} = {} /\ day \notin M!FaultyDays
      BY <1>2, <1>3, <1>4, <1>7, <2>3
    <3>2. Calm(b, reading', reading', After(0), D(0) + w)
      BY <1>2, <1>5, <1>7, <3>1, HealthyGoes DEF b, D
    <3>3. b \in Accs /\ \A i \in DOMAIN b.admitted : b.admitted[i].start \in 1 .. day + 1
      <4>1. ReadersType' /\ day' = day + 1
        BY <1>2, <1>7, ReadersGoOn
      <4>2. QED
        BY <4>1 DEF ReadersType, b
    <3>4. Water(b.admitted, After(e)) = 0
      <4>1. \A i \in DOMAIN b.admitted : b.admitted[i].start \notin After(e)
        BY <1>2, <2>3, <3>3 DEF After
      <4>2. QED
        BY <3>3, <4>1, WaterOfNone DEF Accs
    <3>5. Poured(used', day + 1, After(e)) = 0
      <4>1. used' \in Seq(Nat) /\ Len(used') = day + 1 /\ day + 1 \in Nat
        BY <1>2, MeterGoesOn DEF MeterType
      <4>2. \A d \in 1 .. day + 1 : d \notin After(e)
        BY <1>2, <2>3 DEF After
      <4>3. QED
        BY <4>1, <4>2, PouredOfNone
    <3>6. Calm(b, reading', reading', After(e), 0)
      <4>1. b.drop = 0
        BY <3>2 DEF Calm
      <4>2. reading' <= reading' /\ 0 + (reading' - reading') <= 0
        <5>1. \A x \in Nat : x <= x /\ 0 + (x - x) <= 0
          OBVIOUS
        <5>2. QED
          BY <2>1, <5>1
      <4>3. QED
        BY <3>4, <4>1, <4>2 DEF Calm
    <3>7. QED
      BY <2>1, <3>5, <3>6 DEF Standing
  <2>4. QED
    BY <1>2, <2>2, <2>3
<1>8. CASE FaultDay(w) /\ M!FaultyDays' = M!FaultyDays \cup {day + 1}
  <2>1. day + 1 \in M!FaultyDays' /\ day > 0 /\ e <= day
    <3>1. day + 1 \in M!FaultyDays'
      BY <1>8
    <3>2. day + 1 # e /\ day + 1 # 1
      BY <1>3, <3>1
    <3>3. QED
      BY <1>2, <1>3, <3>1, <3>2
  <2>2. day \notin M!FaultyDays /\ day - 1 \notin M!FaultyDays
    <3>1. \A f \in M!FaultyDays' : day + 1 # f + 1 /\ day + 1 # f + 2
      BY <1>3, <2>1 DEF Apart
    <3>2. QED
      BY <1>2, <1>4, <3>1
  <2>3. Calm(M!Admitted(rows), shown, reading, After(e), D(e))
    BY <1>5, <1>6, <2>1, <2>2 DEF Below, Standing, D
  <2>4. rows # <<>>
    BY <1>5, <2>1 DEF ReadersType
  <2>5. Standing(b, shown', reading', After(e), D(e) + w, day + 1, M!FaultyDays')
    BY <1>2, <1>6, <1>8, <2>1, <2>3, <2>4, FaultStands DEF b
  <2>6. QED
    BY <1>6, <2>1, <2>5
<1>9. QED
  BY <1>1, <1>7, <1>8, FaultsGo

-----------------------------------------------------------------------------
(* The buckets a whole year is offered from.                               *)

\* No bucket of the days S fell, or climbed by its register.
Fine(seen, S) ==
  \A i \in DOMAIN seen : seen[i].start \in S =>
    seen[i].change >= 0 /\ ~M!ExceedsTheRegister(seen[i])

\* The meter on day n, of faulty days faulty: it is behind, shows too much, or 0 of what
\* its next bucket will climb by.
Running(seen, v, r, S, D, n, faulty) ==
  \/ v <= r /\ Changes(seen, S) + (r - v) <= D
  \/ n \in faulty /\ r < v /\ 0 < r /\ Changes(seen, S) + (r - v) <= D
  \/ n \in faulty /\ v = 0 /\ 0 < r /\ Changes(seen, S) <= D

YearsBelow ==
  Apart(M!FaultyDays) =>
    /\ \A e \in 1 .. day : e \notin M!FaultyDays /\ Fine(rows, After(e)) =>
         Running(rows, shown, reading, After(e), Poured(used, day, After(e)), day, M!FaultyDays)
    /\ \A e, l \in 1 .. day :
         e <= l /\ e \notin M!FaultyDays /\ l \notin M!FaultyDays /\ Fine(rows, e + 1 .. l) =>
           Changes(rows, e + 1 .. l) <= Poured(used, day, e + 1 .. l)

\* Changes depends on the days of the buckets only.
LEMMA ChangesBy ==
  ASSUME NEW seen, NEW S, NEW U, \A i \in DOMAIN seen : seen[i].start \in S <=> seen[i].start \in U
  PROVE  Changes(seen, S) = Changes(seen, U)
<1>1. [i \in DOMAIN seen |-> IF seen[i].start \in S THEN seen[i].change ELSE 0]
        = [i \in DOMAIN seen |-> IF seen[i].start \in U THEN seen[i].change ELSE 0]
  OBVIOUS
<1>2. QED
  BY <1>1 DEF Changes

\* A fine stretch with one more bucket was fine without it.
LEMMA FineOfMore ==
  ASSUME NEW seen \in Seq(BucketRow), NEW row \in BucketRow, NEW S, Fine(Append(seen, row), S)
  PROVE  /\ Fine(seen, S)
         /\ row.start \in S => row.change >= 0 /\ ~M!ExceedsTheRegister(row)
<1> DEFINE more == Append(seen, row)
<1>1. /\ \A i \in DOMAIN seen : i \in DOMAIN more /\ more[i] = seen[i]
      /\ Len(seen) + 1 \in DOMAIN more /\ more[Len(seen) + 1] = row
  OBVIOUS
<1>2. Fine(more, S)
  OBVIOUS
<1> HIDE DEF more
<1>3. QED
  BY <1>1, <1>2 DEF Fine

\* A day with a fine bucket leaves the meter behind, or its fault open.
LEMMA RunGoes ==
  ASSUME MeterType, NEW w \in Nat, day > 0, NEW S, day + 1 \in S, NEW D \in Int, NEW faulty, NEW later,
         Fine(rows', S), Running(rows, shown, reading, S, D, day, faulty),
         shown' \in Nat, reading' \in Nat,
         HealthyDay(w) \/ (FaultDay(w) /\ day \notin faulty /\ day + 1 \in later)
  PROVE  Running(rows', shown', reading', S, D + w, day + 1, later)
<1> DEFINE V == Changes(rows, S)
           X == Changes(rows', S)
<1>1. /\ V \in Int /\ day \in Nat /\ shown \in Nat /\ reading \in Nat /\ rows \in Seq(BucketRow)
      /\ increasing \in BOOLEAN
  BY ChangesIsOne DEF MeterType
<1>2. ASSUME NEW change, Bucketed(change)
      PROVE  X = V + change /\ change >= 0 /\ ~(change > 0 /\ change >= shown')
  <2>1. PICK row \in BucketRow : /\ row.start = day + 1 /\ row.change = change /\ row.state = shown'
                                 /\ rows' = Append(rows, row)
    BY <1>2 DEF Bucketed
  <2>2. row.change >= 0 /\ ~M!ExceedsTheRegister(row)
    BY <1>1, <2>1, FineOfMore
  <2>3. X = V + row.change
    BY <1>1, <2>1, ChangesOfMore
  <2>4. QED
    BY <2>1, <2>2, <2>3 DEF M!ExceedsTheRegister
<1> HIDE DEF V, X
<1>3. \/ shown <= reading /\ V + (reading - shown) <= D
      \/ day \in faulty /\ reading < shown /\ 0 < reading /\ V + (reading - shown) <= D
      \/ day \in faulty /\ shown = 0 /\ 0 < reading /\ V <= D
  BY DEF Running, V
<1>4. CASE HealthyDay(w)
  <2>1. PICK change \in Int : Bucketed(change) /\ Moves(shown, reading + w, change)
    BY <1>4 DEF HealthyDay
  <2>2. reading' = reading + w /\ shown' = reading + w
    BY <1>4 DEF HealthyDay
  <2>3. X = V + change /\ change >= 0 /\ ~(change > 0 /\ change >= reading + w)
    BY <1>2, <2>1, <2>2
  <2>4. change = reading + w - shown \/ (change = reading + w /\ 10 * (reading + w) < 9 * shown)
    BY <1>1, <2>1 DEF Moves
  <2>5. X <= D + w
    BY <1>1, <1>3, <2>3, <2>4
  <2>6. X \in Int /\ X + ((reading + w) - (reading + w)) <= D + w /\ reading + w <= reading + w
    BY <1>1, <2>3, <2>5
  <2>7. QED
    BY <2>2, <2>6 DEF Running, X
<1>5. CASE FaultDay(w) /\ day \notin faulty /\ day + 1 \in later
  <2>1. shown <= reading /\ V + (reading - shown) <= D
    BY <1>3, <1>5
  <2>2. CASE PurgedDay(w)
    BY <1>1, <2>2 DEF PurgedDay
  <2>3. CASE DipDay(w)
    <3>1. PICK change \in Int : /\ Bucketed(change)
                                /\ \/ change = reading + w - shown
                                   \/ shown > 0 /\ change = reading + w
      BY <2>3 DEF DipDay
    <3>2. reading' = reading + w /\ shown' = reading + w
      BY <2>3 DEF DipDay
    <3>3. X = V + change /\ ~(change > 0 /\ change >= reading + w)
      BY <1>2, <3>1, <3>2
    <3>4. X + ((reading + w) - (reading + w)) <= D + w /\ reading + w <= reading + w
      BY <1>1, <2>1, <3>1, <3>3
    <3>5. QED
      BY <3>2, <3>4 DEF Running, X
  <2>4. CASE NightDay(w)
    <3>1. PICK change \in Int :
            /\ Moves(shown, reading + w, change)
            /\ \/ reading + w > 0 /\ Bucketed(change)
               \/ Bucketed(change - (reading + w))
      BY <2>4 DEF NightDay
    <3>2. reading' = reading + w /\ shown' = 0 /\ change = reading + w - shown
      BY <1>1, <2>1, <2>4, <3>1 DEF NightDay, Moves
    <3>3. CASE reading + w > 0 /\ Bucketed(change)
      <4>1. X = V + change /\ change >= 0 /\ ~(change > 0 /\ change >= 0)
        BY <1>2, <3>2, <3>3
      <4>2. X <= D + w
        BY <1>1, <2>1, <3>2, <4>1
      <4>3. QED
        BY <1>5, <3>2, <3>3, <4>2 DEF Running, X
    <3>4. CASE Bucketed(change - (reading + w))
      <4>1. X = V + (change - (reading + w)) /\ change - (reading + w) >= 0
        BY <1>2, <3>4
      <4>2. X + ((reading + w) - 0) <= D + w /\ 0 <= reading + w
        BY <1>1, <2>1, <3>2, <4>1
      <4>3. QED
        BY <3>2, <4>2 DEF Running, X
    <3>5. QED
      BY <3>1, <3>3, <3>4
  <2>5. CASE HighDay(w)
    <3>1. PICK s \in Spikes : /\ shown' = reading + w + s
                              /\ \E change \in Int : Bucketed(change) /\ Moves(shown, reading + w + s, change)
      BY <2>5 DEF HighDay
    <3>2. s \in Nat \ {0} /\ reading' = reading + w
      BY <2>5, Bounds DEF HighDay
    <3>3. PICK change \in Int : Bucketed(change) /\ Moves(shown, reading + w + s, change)
      BY <3>1
    <3>4. change = reading + w + s - shown
      BY <1>1, <2>1, <3>2, <3>3 DEF Moves
    <3>5. X = V + change /\ ~(change > 0 /\ change >= reading + w + s)
      BY <1>2, <3>1, <3>3
    <3>6. /\ reading + w < reading + w + s /\ 0 < reading + w
          /\ X + ((reading + w) - (reading + w + s)) <= D + w
      BY <1>1, <2>1, <3>2, <3>4, <3>5
    <3>7. QED
      BY <1>5, <3>1, <3>2, <3>6 DEF Running, X
  <2>6. CASE SwapDay(w)
    <3>1. PICK change \in Int : Bucketed(change) /\ Moves(shown, w, change)
      BY <2>6 DEF SwapDay
    <3>2. shown' = w /\ reading' = w
      BY <2>6 DEF SwapDay
    <3>3. change = w - shown \/ change = w
      BY <3>1 DEF Moves
    <3>4. X = V + change /\ ~(change > 0 /\ change >= w)
      BY <1>2, <3>1, <3>2
    <3>5. X + (w - w) <= D + w /\ w <= w
      BY <1>1, <2>1, <3>3, <3>4
    <3>6. QED
      BY <3>2, <3>5 DEF Running, X
  <2>7. CASE SilentDay(w)
    <3>1. X = V /\ shown' = shown /\ reading' = reading + w
      BY <2>7 DEF SilentDay, X, V
    <3>2. shown <= reading + w /\ X + ((reading + w) - shown) <= D + w
      BY <1>1, <2>1, <3>1
    <3>3. QED
      BY <3>1, <3>2 DEF Running, X
  <2>8. QED
    BY <1>5, <2>2, <2>3, <2>4, <2>5, <2>6, <2>7 DEF FaultDay
<1>6. QED
  BY <1>4, <1>5

\* Before the first day there is no year.
LEMMA YearsStart == MeterType /\ day = 0 => YearsBelow
BY DEF YearsBelow

\* A day keeps the years below what was drawn in them.
LEMMA YearsGoOn ==
  ASSUME MeterType, YearsBelow, M!Next
  PROVE  YearsBelow'
<1>1. PICK w \in Draws : used' = Append(used, w) /\ Goes(w)
  BY DayGoes
<1>2. /\ day' = day + 1 /\ day \in Nat /\ w \in Nat /\ used \in Seq(Nat) /\ Len(used) = day
      /\ shown' \in Nat /\ reading' \in Nat
      /\ rows \in Seq(BucketRow) /\ \A i \in DOMAIN rows : rows[i].start \in 1 .. day
  BY DayGoes, Bounds DEF MeterType
<1>3. /\ used' \in Seq(Nat) /\ Len(used') = day + 1 /\ day + 1 \in Nat
      /\ rows' \in Seq(BucketRow) /\ \A i \in DOMAIN rows' : rows'[i].start \in 1 .. day + 1
  BY <1>2, MeterGoesOn DEF MeterType
<1>4. M!FaultyDays \subseteq M!FaultyDays' /\ M!FaultyDays \subseteq 1 .. day
  BY <1>1, FaultsGo, FaultsAre
<1>5. SUFFICES ASSUME Apart(M!FaultyDays')
               PROVE  YearsBelow'
  BY DEF YearsBelow
<1>6. Apart(M!FaultyDays)
  BY <1>4, <1>5 DEF Apart
<1>7. \/ HealthyDay(w) /\ M!FaultyDays' = M!FaultyDays /\ shown' = reading'
      \/ FaultDay(w) /\ day \notin M!FaultyDays /\ day + 1 \in M!FaultyDays'
  <2>1. day + 1 \in M!FaultyDays' => day \notin M!FaultyDays
    BY <1>2, <1>4, <1>5 DEF Apart
  <2>2. QED
    BY <1>1, <2>1, FaultsGo DEF HealthyDay
\* With one more bucket, or none.
<1>8. ASSUME NEW S, Fine(rows', S)
      PROVE  Fine(rows, S) /\ (day + 1 \notin S => Changes(rows', S) = Changes(rows, S))
  <2>1. CASE SilentDay(w)
    BY <1>8, <2>1 DEF SilentDay
  <2>2. CASE \E change : Bucketed(change)
    <3>1. PICK row \in BucketRow : row.start = day + 1 /\ rows' = Append(rows, row)
      BY <2>2 DEF Bucketed
    <3>2. Changes(rows, S) \in Int
      BY <1>2, ChangesIsOne
    <3>3. QED
      BY <1>2, <1>8, <3>1, <3>2, FineOfMore, ChangesOfMore
  <2>3. QED
    BY <1>1, <2>1, <2>2, FaultsGo
<1>9. ASSUME NEW e \in 1 .. day + 1, e \notin M!FaultyDays', Fine(rows', After(e))
      PROVE  Running(rows', shown', reading', After(e), Poured(used', day + 1, After(e)), day + 1,
                     M!FaultyDays')
  <2>1. CASE e <= day
    <3>1. day + 1 \in After(e) /\ e \in 1 .. day /\ day > 0
      BY <1>2, <2>1 DEF After
    <3> DEFINE D == Poured(used, day, After(e))
    <3>2. D \in Int /\ Poured(used', day + 1, After(e)) = D + w
      BY <1>1, <1>2, <3>1, PouredOfMore
    <3>3. Running(rows, shown, reading, After(e), D, day, M!FaultyDays)
      BY <1>4, <1>6, <1>8, <1>9, <3>1 DEF YearsBelow
    <3> HIDE DEF D
    <3>4. Running(rows', shown', reading', After(e), D + w, day + 1, M!FaultyDays')
      BY <1>2, <1>7, <1>9, <3>1, <3>2, <3>3, RunGoes
    <3>5. QED
      BY <3>2, <3>4
  <2>2. CASE e = day + 1
    <3>1. shown' = reading'
      BY <1>7, <1>9, <2>2
    <3>2. Changes(rows', After(e)) = 0
      <4>1. \A i \in DOMAIN rows' : rows'[i].start \notin After(e)
        BY <1>2, <1>3, <2>2 DEF After
      <4>2. QED
        BY <1>3, <4>1, ChangesOfNone
    <3>3. Poured(used', day + 1, After(e)) = 0
      <4>1. \A d \in 1 .. day + 1 : d \notin After(e)
        BY <1>2, <2>2 DEF After
      <4>2. QED
        BY <1>3, <4>1, PouredOfNone
    <3>4. \A x \in Nat : x <= x /\ 0 + (x - x) <= 0
      OBVIOUS
    <3>5. QED
      BY <1>2, <3>1, <3>2, <3>3, <3>4 DEF Running
  <2>3. QED
    BY <1>2, <2>1, <2>2
<1>10. ASSUME NEW e \in 1 .. day + 1, NEW l \in 1 .. day + 1, e <= l, e \notin M!FaultyDays',
              l \notin M!FaultyDays', Fine(rows', e + 1 .. l)
       PROVE  Changes(rows', e + 1 .. l) <= Poured(used', day + 1, e + 1 .. l)
  <2>1. CASE l <= day
    <3>1. e \in 1 .. day /\ l \in 1 .. day /\ day + 1 \notin e + 1 .. l
      BY <1>2, <1>10, <2>1
    <3>2. Changes(rows', e + 1 .. l) = Changes(rows, e + 1 .. l) /\ Fine(rows, e + 1 .. l)
      BY <1>8, <1>10, <3>1
    <3>3. /\ Poured(used', day + 1, e + 1 .. l) = Poured(used, day, e + 1 .. l)
          /\ Poured(used, day, e + 1 .. l) \in Int
      BY <1>1, <1>2, <3>1, PouredOfMore
    <3>4. QED
      BY <1>4, <1>6, <1>10, <3>1, <3>2, <3>3 DEF YearsBelow
  <2>2. CASE l = day + 1
    <3>1. \A i \in DOMAIN rows' : rows'[i].start \in e + 1 .. l <=> rows'[i].start \in After(e)
      BY <1>2, <1>3, <2>2 DEF After
    <3>2. Changes(rows', e + 1 .. l) = Changes(rows', After(e))
      BY <3>1, ChangesBy
    <3>3. Poured(used', day + 1, e + 1 .. l) = Poured(used', day + 1, After(e))
      <4>1. \A d \in 1 .. day + 1 : d \in e + 1 .. l <=> d \in After(e)
        BY <1>2, <2>2 DEF After
      <4>2. QED
        BY <1>3, <4>1, PouredBy
    <3>4. Fine(rows', After(e))
      BY <1>10, <3>1 DEF Fine
    <3>5. shown' = reading' /\ day + 1 \notin M!FaultyDays'
      BY <1>7, <1>10, <2>2
    <3>6. Running(rows', shown', reading', After(e), Poured(used', day + 1, After(e)), day + 1,
                  M!FaultyDays')
      BY <1>9, <1>10, <3>4
    <3>7. Changes(rows', After(e)) + (reading' - reading') <= Poured(used', day + 1, After(e))
      BY <3>5, <3>6 DEF Running
    <3>8. Changes(rows', After(e)) \in Int /\ \A c \in Int, x \in Nat : c + (x - x) = c
      BY <1>3, ChangesIsOne
    <3>9. QED
      BY <1>2, <3>2, <3>3, <3>7, <3>8
  <2>3. QED
    BY <1>2, <2>1, <2>2
<1>11. QED
  BY <1>2, <1>9, <1>10 DEF YearsBelow

-----------------------------------------------------------------------------
MeterInv == MeterType /\ ReadersType /\ Below /\ YearsBelow

\* A behaviour of the meter is one of the parts side by side.
MeterBelow == topic = "meter" => MeterInv

\* The meter's invariant, of every behaviour of the parts.
LEMMA MeterInvHolds == PartsSpec => []MeterBelow
<1>1. PartsInit => MeterBelow
  <2> SUFFICES ASSUME PartsInit, topic = "meter"
               PROVE  MeterInv
    BY DEF MeterBelow
  <2>1. M!Init
    BY DEF PartsInit
  <2>2. MeterType /\ ReadersType /\ day = 0
    BY <2>1, MeterStarts DEF M!Init
  <2>3. QED
    BY <2>2, BelowStarts, YearsStart DEF MeterInv
<1>2. MeterBelow /\ [PartsNext]_partsVars => MeterBelow'
  <2> SUFFICES ASSUME MeterBelow, [PartsNext]_partsVars, topic' = "meter"
               PROVE  MeterInv'
    BY DEF MeterBelow
  <2>1. \/ topic = "meter" /\ M!Next
        \/ topic = "meter" /\ UNCHANGED meterVars
    BY DEF PartsNext, YearNext, PriceNext, MeterNext, ArchiveNext, BillNext, SensorNext, FetchNext,
           CookieNext, partsVars, M!Done, M!vars, meterVars
  <2>2. MeterInv
    BY <2>1 DEF MeterBelow
  <2>3. CASE M!Next
    BY <2>2, <2>3, MeterGoesOn, ReadersGoOn, BelowGoesOn, YearsGoOn DEF MeterInv
  <2>4. CASE UNCHANGED meterVars
    <3>1. /\ increasing' = increasing /\ reading' = reading /\ shown' = shown /\ sum' = sum
          /\ rows' = rows /\ day' = day /\ used' = used /\ faults' = faults
      BY <2>4 DEF meterVars
    <3>2. M!FaultyDays' = M!FaultyDays
      BY <3>1 DEF M!FaultyDays
    <3>3. MeterType'
      BY <2>2, <3>1 DEF MeterInv, MeterType
    <3>4. ReadersType'
      BY <2>2, <3>1, <3>2 DEF MeterInv, ReadersType
    <3>5. Below'
      BY <2>2, <3>1, <3>2 DEF MeterInv, Below
    <3>6. YearsBelow'
      BY <2>2, <3>1, <3>2 DEF MeterInv, YearsBelow
    <3>7. QED
      BY <3>3, <3>4, <3>5, <3>6 DEF MeterInv
  <2>5. QED
    BY <2>1, <2>3, <2>4
<1>3. QED
  BY <1>1, <1>2, PTL DEF PartsSpec

\* The days' water is what counts of them all.
LEMMA TotalIs ==
  ASSUME MeterType, ReadersType
  PROVE  M!Total(rows) = Water(M!Admitted(rows).admitted, After(0))
<1> DEFINE days == M!Admitted(rows).admitted
<1>1. \A i \in DOMAIN days : days[i].start \in After(0)
  BY DEF ReadersType, MeterType, After
<1>2. [i \in DOMAIN days |-> days[i].m3]
        = [i \in DOMAIN days |-> IF days[i].start \in After(0) THEN days[i].m3 ELSE 0]
  BY <1>1
<1>3. QED
  BY <1>2 DEF M!Total, Water

\* Drawn is what was poured by now.
LEMMA DrawnIs ==
  ASSUME NEW S
  PROVE  M!Drawn(S) = Poured(used, day, S)
BY DEF M!Drawn, Poured

\* Of days 1 .. n, those after e are those of e + 1 .. n.
LEMMA AfterIs ==
  ASSUME NEW n \in Nat, NEW e \in Nat, NEW d \in 1 .. n
  PROVE  d \in After(e) <=> d \in e + 1 .. n
BY DEF After

\* When the meter is settled, what counts after day e is at most what was drawn after it.
LEMMA CalmIsBelow ==
  ASSUME MeterInv, M!Settled, NEW e \in 0 .. day, M!FaultyDays \cap {e - 1, e} = {}
  PROVE  Water(M!Admitted(rows).admitted, After(e)) <= Poured(used, day, e + 1 .. day)
<1>1. /\ day \in Nat /\ shown \in Nat /\ reading \in Nat /\ M!Admitted(rows) \in Accs
      /\ Apart(M!FaultyDays) /\ 1 \notin M!FaultyDays /\ day \notin M!FaultyDays
      /\ day - 1 \notin M!FaultyDays /\ used \in Seq(Nat) /\ Len(used) = day
  BY DEF MeterInv, MeterType, ReadersType, M!Settled, M!FarApart, Apart
<1>2. Standing(M!Admitted(rows), shown, reading, After(e), Poured(used, day, After(e)), day,
               M!FaultyDays)
  BY <1>1 DEF MeterInv, Below
<1>3. Calm(M!Admitted(rows), shown, reading, After(e), Poured(used, day, After(e)))
  BY <1>1, <1>2 DEF Standing
<1>4. Poured(used, day, After(e)) = Poured(used, day, e + 1 .. day)
  <2>1. \A d \in 1 .. day : d \in After(e) <=> d \in e + 1 .. day
    BY <1>1, AfterIs
  <2>2. QED
    BY <1>1, <2>1, PouredBy
<1>5. Water(M!Admitted(rows).admitted, After(e)) \in Int /\ Poured(used, day, After(e)) \in Int
  BY <1>1, WaterIsOne, PouredOfMore DEF Accs
<1>6. QED
  BY <1>1, <1>3, <1>4, <1>5 DEF Calm

\* A whole year that is offered is at most what was drawn in it.
LEMMA YearIsBelow ==
  ASSUME MeterInv, M!FarApart, NEW first \in 2 .. day - Year + 1,
         M!FaultyDays \cap {first - 1, first + Year - 1} = {}, M!FullYear(rows, first) # None
  PROVE  M!FullYear(rows, first) <= M!Drawn(first .. first + Year - 1)
<1> DEFINE last == first + Year - 1
           inside == {i \in DOMAIN rows : rows[i].start \in first .. last}
<1>1. /\ day \in Nat /\ Year \in Nat /\ first \in Nat /\ last \in Nat /\ 2 <= first /\ last <= day
      /\ Apart(M!FaultyDays)
  BY Buckets DEF MeterInv, MeterType, M!FarApart, Apart
<1>2. /\ \A i \in inside : rows[i].change >= 0 /\ ~M!ExceedsTheRegister(rows[i])
      /\ \E i \in inside : TRUE
      /\ M!FullYear(rows, first) = M!Sum([i \in DOMAIN rows |-> IF i \in inside THEN rows[i].change ELSE 0])
  BY DEF M!FullYear
<1>3. first <= last /\ first - 1 \in 1 .. day /\ last \in 1 .. day /\ (first - 1) + 1 = first
      /\ first - 1 <= last
  BY <1>1, <1>2
<1>4. Fine(rows, first .. last)
  BY <1>2 DEF Fine
<1>5. Changes(rows, first .. last) <= Poured(used, day, first .. last)
  BY <1>1, <1>3, <1>4 DEF MeterInv, YearsBelow
<1>6. [i \in DOMAIN rows |-> IF i \in inside THEN rows[i].change ELSE 0]
        = [i \in DOMAIN rows |-> IF rows[i].start \in first .. last THEN rows[i].change ELSE 0]
  OBVIOUS
<1>7. QED
  BY <1>2, <1>5, <1>6, DrawnIs DEF Changes

\* So is a rolling one.
LEMMA RollingIsBelow ==
  ASSUME MeterInv, M!Settled, day > Year, M!FaultyDays \cap {day - Year, day - Year - 1} = {},
         M!RollingYear(rows) # None
  PROVE  M!RollingYear(rows) <= M!Drawn(day - Year + 1 .. day)
<1> DEFINE first == day - Year + 1
           days == M!Admitted(rows).admitted
           In == {i \in DOMAIN days : days[i].start \in first .. day}
<1>1. /\ day \in Nat /\ Year \in Nat /\ day - Year \in 0 .. day /\ used \in Seq(Nat) /\ Len(used) = day
      /\ \A i \in DOMAIN days : days[i].start \in 1 .. day
  BY Buckets DEF MeterInv, MeterType, ReadersType
<1>2. CASE day < first
  <2>1. M!RollingYear(rows) = 0
    BY <1>2 DEF M!RollingYear, M!Metered
  <2>2. \A d \in 1 .. day : d \notin first .. day
    BY <1>1, <1>2
  <2>3. M!Drawn(first .. day) = 0
    BY <1>1, <2>2, DrawnIs, PouredOfNone
  <2>4. QED
    BY <2>1, <2>3
<1>3. CASE ~(day < first)
  <2>1. M!RollingYear(rows) = M!Sum([i \in DOMAIN days |-> IF i \in In THEN days[i].m3 ELSE 0])
    BY <1>3 DEF M!RollingYear, M!Metered
  <2>2. \A i \in DOMAIN days : i \in In <=> days[i].start \in After(day - Year)
    <3>1. day - Year \in Nat /\ (day - Year) + 1 = first
      BY <1>1
    <3>2. \A d \in 1 .. day : d \in After(day - Year) <=> d \in first .. day
      BY <1>1, <3>1, AfterIs
    <3>3. QED
      BY <1>1, <3>2
  <2>3. [i \in DOMAIN days |-> IF i \in In THEN days[i].m3 ELSE 0]
          = [i \in DOMAIN days |-> IF days[i].start \in After(day - Year) THEN days[i].m3 ELSE 0]
    BY <2>2
  <2>4. M!RollingYear(rows) = Water(days, After(day - Year))
    BY <2>1, <2>3 DEF Water
  <2>5. Water(days, After(day - Year)) <= Poured(used, day, (day - Year) + 1 .. day)
    BY <1>1, CalmIsBelow
  <2>6. QED
    BY <2>4, <2>5, DrawnIs
<1>4. QED
  BY <1>2, <1>3

\* Once the meter reads as it should again, a year counts no water that was not drawn,
\* and no year is offered for more than was drawn in it (DailyBuckets' NeverMoreThanDrawn
\* and OfferedYearIsDrawn; meter_reads.py, _admitted_changes, _recorder_full_year_m3 and
\* _metered_m3).
THEOREM YearIsNeverMore ==
  PartsSpec => []NeverMoreThanDrawn
<1>1. MeterBelow => NeverMoreThanDrawn
  <2> SUFFICES ASSUME MeterInv
               PROVE  M!NeverMoreThanDrawn /\ M!OfferedYearIsDrawn
    BY DEF MeterBelow, NeverMoreThanDrawn
  <2>1. M!NeverMoreThanDrawn
    <3> SUFFICES ASSUME M!Settled
                 PROVE  M!Total(rows) <= M!Drawn(1 .. day)
      BY DEF M!NeverMoreThanDrawn
    <3>1. 0 \in 0 .. day /\ M!FaultyDays \cap {0 - 1, 0} = {} /\ 0 + 1 = 1
      BY FaultsAre DEF MeterInv, MeterType
    <3>2. Water(M!Admitted(rows).admitted, After(0)) <= Poured(used, day, 1 .. day)
      BY <3>1, CalmIsBelow
    <3>3. QED
      BY <3>2, TotalIs, DrawnIs DEF MeterInv
  <2>2. M!OfferedYearIsDrawn
    BY YearIsBelow, RollingIsBelow DEF M!OfferedYearIsDrawn
  <2>3. QED
    BY <2>1, <2>2
<1>2. QED
  BY <1>1, MeterInvHolds, PTL

-----------------------------------------------------------------------------
(* What a household of one meter drew counts, but for its nights.          *)

\* The meter on day n shows what it has counted to, or is out of sight since the day
\* before; L, of what was drawn, counts.
CalmKept(acc, v, r, S, L, n, faulty) ==
  /\ acc.drop = 0 /\ 0 < v /\ v <= r
  /\ \/ v = r /\ acc.previous = n
     \/ n \in faulty /\ r - v \in Draws /\ acc.previous = n - 1
  /\ acc.around # None => 0 < acc.around[1] /\ (n - 1 \in faulty \/ acc.around[2] <= v)
  /\ Water(acc.admitted, S) + (r - v) >= L

\* It shows 0.
NightKept(acc, v, r, S, L) ==
  /\ v = 0 /\ 0 < r /\ acc.drop <= 0
  /\ acc.around # None => 0 < acc.around[1] /\ acc.around[2] <= r
  /\ Water(acc.admitted, S) >= L

\* It shows too much, which counts until the register is back.
HighKept(acc, v, r, S, L) ==
  LET last == acc.admitted[Len(acc.admitted)]
  IN /\ v > r /\ acc.drop = 0 /\ acc.around \in Int \X Int
     /\ 0 < acc.around[1] /\ acc.around[1] <= r /\ acc.around[2] = v
     /\ last.start \in S /\ last.m3 = v - acc.around[1]
     /\ Water(acc.admitted, S) + (r - v) >= L

\* A day can hold what is within the jump, and two days one day's more.
LEMMA DayHolds ==
  ASSUME NEW m3 \in Int, NEW gap \in Nat, m3 <= Jump \/ (gap = 1 /\ m3 <= Jump + AwayPerDay)
  PROVE  ~M!ExceedsADay(m3, gap)
<1>1. Jump \in Nat /\ AwayPerDay \in Nat
  BY Buckets
<1>2. gap * AwayPerDay \in Nat
  BY <1>1
<1>3. gap = 1 => gap * AwayPerDay = AwayPerDay
  BY <1>1
<1>4. QED
  BY <1>1, <1>2, <1>3 DEF M!ExceedsADay

\* A register that climbs as it should counts for its climb.
LEMMA ClimbCounts ==
  ASSUME NEW acc \in Accs, NEW row \in BucketRow, NEW v \in Nat, acc.register = v, acc.drop = 0,
         0 < v, v <= row.state, NEW S, row.start \in S,
         \/ row.change = row.state - v
         \/ row.change = row.state /\ ~M!ShowsASpike(acc.around, row.state),
         \/ row.state - v <= Jump
         \/ Gap(acc, row) = 1 /\ row.state - v <= Jump + AwayPerDay
  PROVE  LET b == M!Bucket(acc, row)
         IN /\ Leaves(acc, b, row, S) /\ b.drop = 0
            /\ CountedFrom(acc, b, S, row, v, row.state - v)
<1> DEFINE b == M!Bucket(acc, row)
<1>1. row.state \in Int /\ row.change \in Int /\ row.state - v \in Int /\ Gap(acc, row) \in Nat
  BY GapIsOne DEF BucketRow
<1>2. row.change >= 0 /\ Climb(row, v) = row.state - v
  BY ClimbIs
<1>3. M!ExceedsTheRegister(row) => ~M!ShowsASpike(acc.around, row.state)
  <2>1. row.change = row.state - v => ~M!ExceedsTheRegister(row)
    BY <1>1 DEF M!ExceedsTheRegister
  <2>2. QED
    BY <2>1
<1>4. ~M!ExceedsADay(row.state - v, Gap(acc, row))
  BY <1>1, DayHolds
<1>5. /\ Leaves(acc, b, row, S) /\ b.drop = 0
      /\ \/ M!ExceedsTheRegister(row) /\ TakenBack(acc, b, S, row.state)
         \/ \/ M!ExceedsTheRegister(row) /\ ~(0 < v /\ v <= row.state)
            \/ M!ExceedsADay(row.state - v, Gap(acc, row))
         \/ CountedFrom(acc, b, S, row, v, row.state - v)
  BY <1>2, ClimbMoves
<1> HIDE DEF b
<1>6. TakenBack(acc, b, S, row.state) => M!ShowsASpike(acc.around, row.state)
  BY DEF TakenBack
<1>7. QED
  BY <1>3, <1>4, <1>5, <1>6 DEF b

\* On a day the meter reads as it should, or dips, all of its water counts.
LEMMA CalmCounts ==
  ASSUME M!Plausible, NEW acc \in Accs, NEW row \in BucketRow, NEW v \in Nat, acc.register = v,
         NEW S, row.start \in S, NEW r \in Nat, NEW w \in Draws, NEW L \in Int, NEW n \in Nat,
         NEW faulty, CalmKept(acc, v, r, S, L, n, faulty), row.start = n + 1, row.state = r + w,
         \/ row.change = r + w - v
         \/ row.change = r + w /\ n \notin faulty /\ n - 1 \notin faulty,
         NEW later
  PROVE  CalmKept(M!Bucket(acc, row), r + w, r + w, S, L + w, n + 1, later)
<1> DEFINE b == M!Bucket(acc, row)
<1>1. w \in Nat /\ Jump \in Nat /\ AwayPerDay \in Nat /\ acc.previous \in Int /\ row.change \in Int
  BY Bounds, Buckets DEF Accs, BucketRow
<1>2. acc.drop = 0 /\ 0 < v /\ v <= r /\ v <= row.state
  BY <1>1 DEF CalmKept
<1>3. \/ row.change = row.state - v
      \/ row.change = row.state /\ ~M!ShowsASpike(acc.around, row.state)
  <2>1. CASE row.change = r + w /\ n \notin faulty /\ n - 1 \notin faulty
    <3>1. acc.around # None => acc.around \in Int \X Int /\ acc.around[2] <= v
      BY <2>1 DEF CalmKept, Accs
    <3>2. acc.around # None => acc.around[2] \in Int /\ ~(r + w < acc.around[2])
      BY <1>1, <1>2, <3>1
    <3>3. ~M!ShowsASpike(acc.around, row.state)
      BY <3>2 DEF M!ShowsASpike
    <3>4. QED
      BY <2>1, <3>3
  <2>2. CASE row.change = r + w - v
    BY <1>1, <2>2
  <2>3. QED
    BY <2>1, <2>2
<1>4. \/ row.state - v <= Jump
      \/ Gap(acc, row) = 1 /\ row.state - v <= Jump + AwayPerDay
  <2>1. CASE v = r
    BY <1>1, <2>1 DEF M!Plausible
  <2>2. CASE r - v \in Draws /\ acc.previous = n - 1
    <3>1. r - v \in Nat /\ (r - v) + w <= Jump + AwayPerDay
      BY <2>2, Bounds DEF M!Plausible
    <3>2. Gap(acc, row) = 1
      BY <1>1, <2>2 DEF Gap
    <3>3. QED
      BY <1>1, <3>1, <3>2
  <2>3. QED
    BY <2>1, <2>2 DEF CalmKept
<1>5. /\ Leaves(acc, b, row, S) /\ b.drop = 0
      /\ CountedFrom(acc, b, S, row, v, row.state - v)
  BY <1>2, <1>3, <1>4, ClimbCounts
<1> HIDE DEF b
<1>6. /\ b.previous = n + 1 /\ b.around = <<v, r + w>>
      /\ Water(b.admitted, S) = Water(acc.admitted, S) + (r + w - v)
      /\ Water(acc.admitted, S) \in Int
  <2>1. b.previous = row.start /\ Water(acc.admitted, S) \in Int
    BY <1>5 DEF Leaves
  <2>2. b.around = <<v, row.state>> /\ Water(b.admitted, S) = Water(acc.admitted, S) + (row.state - v)
    BY <1>5 DEF CountedFrom
  <2>3. QED
    BY <1>1, <2>1, <2>2
<1>7. Water(acc.admitted, S) + (r - v) >= L
  BY DEF CalmKept
<1>8. b.around[1] = v /\ b.around[2] = r + w
  BY <1>6
<1>9. Water(b.admitted, S) + ((r + w) - (r + w)) >= L + w /\ 0 < r + w /\ r + w <= r + w
  BY <1>1, <1>2, <1>6, <1>7
<1>10. QED
  BY <1>2, <1>5, <1>6, <1>8, <1>9 DEF CalmKept, b

\* A night on which it shows 0 takes nothing of what counts already.
LEMMA NightLoses ==
  ASSUME NEW acc \in Accs, NEW row \in BucketRow, NEW v \in Nat, acc.register = v,
         NEW S, row.start \in S, NEW r \in Nat, NEW w \in Nat, NEW L \in Int, NEW n \in Nat,
         NEW faulty, CalmKept(acc, v, r, S, L, n, faulty), n \notin faulty, n - 1 \notin faulty,
         row.state = 0, row.change = r + w - v \/ row.change = 0 - v
  PROVE  NightKept(M!Bucket(acc, row), 0, r + w, S, L)
<1> DEFINE b == M!Bucket(acc, row)
<1>1. acc.drop = 0 /\ 0 < v /\ v = r /\ row.change \in Int
  BY DEF CalmKept, BucketRow
<1>2. acc.around # None => acc.around \in Int \X Int /\ 0 < acc.around[1] /\ acc.around[2] <= v
  BY DEF CalmKept, Accs
<1>3. ~M!ShowsASpike(acc.around, row.state)
  BY <1>2 DEF M!ShowsASpike
<1>4. acc.around # None => 0 < acc.around[1] /\ acc.around[2] <= r + w
  <2>1. acc.around # None => acc.around[2] \in Int
    BY <1>2
  <2>2. QED
    BY <1>1, <1>2, <2>1
<1>5. Water(acc.admitted, S) >= L
  <2>1. Water(acc.admitted, S) \in Int
    BY WaterIsOne DEF Accs
  <2>2. QED
    BY <1>1, <2>1 DEF CalmKept
<1>6. CASE row.change >= 0
  <2>1. /\ Leaves(acc, b, row, S) /\ b.drop = 0
        /\ \/ TakenBack(acc, b, S, row.state)
           \/ LeftOut(acc, b, S)
           \/ /\ CountedFrom(acc, b, S, row, v, Climb(row, v))
              /\ ~M!ExceedsTheRegister(row) \/ v <= row.state
    BY <1>1, <1>6, ClimbMoves
  <2> HIDE DEF b
  <2>2. ~TakenBack(acc, b, S, row.state)
    BY <1>3 DEF TakenBack
  <2>3. CASE LeftOut(acc, b, S)
    BY <1>1, <1>4, <1>5, <2>1, <2>3 DEF LeftOut, NightKept, b
  <2>4. CASE CountedFrom(acc, b, S, row, v, Climb(row, v)) /\ (~M!ExceedsTheRegister(row) \/ v <= row.state)
    <3>1. Climb(row, v) = 0
      BY <1>1, <1>6, <2>4 DEF Climb, M!ExceedsTheRegister
    <3>2. Water(b.admitted, S) = Water(acc.admitted, S) + 0 /\ b.around = <<v, 0>>
          /\ Water(acc.admitted, S) \in Int
      BY <2>1, <2>4, <3>1 DEF CountedFrom, Leaves
    <3>3. b.around[1] = v /\ b.around[2] = 0 /\ Water(b.admitted, S) >= L /\ 0 <= r + w
      BY <1>5, <3>2
    <3>4. QED
      BY <1>1, <2>1, <3>3 DEF NightKept, b
  <2>5. QED
    BY <2>1, <2>2, <2>3, <2>4
<1>7. CASE row.change < 0
  <2>1. b.drop = row.change /\ LeftOut(acc, b, S)
    BY <1>1, <1>3, <1>7, FallMoves DEF TakenBack
  <2> HIDE DEF b
  <2>2. QED
    BY <1>1, <1>4, <1>5, <1>7, <2>1 DEF LeftOut, NightKept, b
<1>8. QED
  BY <1>1, <1>6, <1>7

\* Nor does the day after it, whose own water may be lost.
LEMMA NightIsOver ==
  ASSUME NEW acc \in Accs, NEW row \in BucketRow, NEW v \in Nat, acc.register = v,
         NEW S, row.start \in S, NEW r \in Nat, NEW w \in Nat, NEW L \in Int, NEW n \in Nat,
         NightKept(acc, v, r, S, L), row.start = n + 1, row.state = r + w, row.change = r + w,
         NEW later
  PROVE  CalmKept(M!Bucket(acc, row), r + w, r + w, S, L, n + 1, later)
<1> DEFINE b == M!Bucket(acc, row)
<1>1. v = 0 /\ 0 < r /\ acc.drop \in Int /\ acc.drop <= 0 /\ row.change >= 0 /\ M!ExceedsTheRegister(row)
  BY DEF NightKept, Accs, M!ExceedsTheRegister
<1>2. acc.around # None => /\ acc.around[2] \in Int /\ 0 < acc.around[1]
                           /\ acc.around[2] <= r + w /\ ~(r + w < acc.around[2])
  <2>1. acc.around # None => acc.around[2] \in Int /\ 0 < acc.around[1] /\ acc.around[2] <= r
    BY DEF NightKept, Accs
  <2>2. QED
    BY <2>1
<1>3. ~M!ShowsASpike(acc.around, row.state)
  BY <1>2 DEF M!ShowsASpike
<1>4. /\ Leaves(acc, b, row, S) /\ b.drop = 0
      /\ \/ LeftOut(acc, b, S)
         \/ b.around = None /\ Water(b.admitted, S) >= Water(acc.admitted, S)
  <2>1. CASE acc.drop = 0
    <3>1. /\ Leaves(acc, b, row, S) /\ b.drop = 0
          /\ \/ TakenBack(acc, b, S, row.state)
             \/ LeftOut(acc, b, S)
             \/ 0 < v
      BY <1>1, <2>1, ClimbMoves
    <3> HIDE DEF b
    <3>2. QED
      BY <1>1, <1>3, <3>1 DEF TakenBack
  <2>2. CASE acc.drop < 0
    <3>1. /\ Leaves(acc, b, row, S) /\ b.drop = 0
          /\ \/ LeftOut(acc, b, S)
             \/ /\ row.change + acc.drop > 0 /\ b.around = None
                /\ Water(b.admitted, S) = Water(acc.admitted, S) + (row.change + acc.drop)
      BY <1>1, <2>2, NetMoves
    <3> HIDE DEF b
    <3>2. row.change + acc.drop \in Int
      BY <1>1
    <3>3. QED
      BY <3>1, <3>2 DEF Leaves
  <2>3. QED
    BY <1>1, <2>1, <2>2
<1> HIDE DEF b
<1>5. Water(b.admitted, S) \in Int /\ Water(b.admitted, S) >= L /\ b.previous = n + 1
  BY <1>4 DEF NightKept, Leaves, LeftOut
<1>6. Water(b.admitted, S) + ((r + w) - (r + w)) >= L /\ 0 < r + w /\ r + w <= r + w
  BY <1>1, <1>5
<1>7. b.around # None => 0 < b.around[1] /\ b.around[2] <= r + w
  BY <1>2, <1>4 DEF LeftOut
<1>8. QED
  BY <1>4, <1>5, <1>6, <1>7 DEF CalmKept, b

\* A misread a day could hold counts, and the day's water with it.
LEMMA MisreadCounts ==
  ASSUME M!Plausible, NEW acc \in Accs, NEW row \in BucketRow, NEW v \in Nat, acc.register = v,
         NEW S, row.start \in S, NEW r \in Nat, NEW w \in Draws, NEW s \in Spikes, s <= Jump,
         NEW L \in Int, NEW n \in Nat, NEW faulty, CalmKept(acc, v, r, S, L, n, faulty), n \notin faulty,
         row.state = r + w + s, row.change = r + w + s - v
  PROVE  HighKept(M!Bucket(acc, row), r + w + s, r + w, S, L + w)
<1> DEFINE b == M!Bucket(acc, row)
           last == b.admitted[Len(b.admitted)]
<1>1. w \in Nat /\ s \in Nat /\ s > 0 /\ Jump \in Nat /\ w + s <= Jump
  BY Bounds, Buckets DEF M!Plausible
<1>2. acc.drop = 0 /\ 0 < v /\ v = r /\ v <= row.state
  BY <1>1 DEF CalmKept
<1>3. row.change = row.state - v /\ row.state - v <= Jump
  BY <1>1, <1>2
<1>4. /\ Leaves(acc, b, row, S) /\ b.drop = 0
      /\ CountedFrom(acc, b, S, row, v, row.state - v)
  BY <1>2, <1>3, ClimbCounts
<1> HIDE DEF b
<1>5. /\ Water(b.admitted, S) = Water(acc.admitted, S) + (r + w + s - v)
      /\ b.around = <<v, r + w + s>> /\ last.start \in S /\ last.m3 = r + w + s - v
      /\ Water(acc.admitted, S) \in Int
  <2>1. Water(acc.admitted, S) \in Int
    BY <1>4 DEF Leaves
  <2>2. /\ Water(b.admitted, S) = Water(acc.admitted, S) + (row.state - v)
        /\ b.around = <<v, row.state>> /\ last.start \in S /\ last.m3 = row.state - v
    BY <1>4 DEF CountedFrom
  <2> HIDE DEF last
  <2>3. QED
    BY <1>1, <2>1, <2>2
<1>6. b.around \in Int \X Int /\ b.around[1] = v /\ b.around[2] = r + w + s
  BY <1>1, <1>5
<1>7. Water(acc.admitted, S) + (r - v) >= L
  BY DEF CalmKept
<1> HIDE DEF last
<1>8. Water(b.admitted, S) + ((r + w) - (r + w + s)) >= L + w /\ r + w + s > r + w /\ v <= r + w
  BY <1>1, <1>2, <1>5, <1>7
<1>9. /\ b.drop = 0 /\ 0 < b.around[1] /\ b.around[1] <= r + w /\ b.around[2] = r + w + s
      /\ last.start \in S /\ last.m3 = (r + w + s) - b.around[1]
  BY <1>1, <1>2, <1>4, <1>5, <1>6, <1>8
<1>10. HighKept(b, r + w + s, r + w, S, L + w)
  BY <1>6, <1>8, <1>9 DEF HighKept, last
<1>11. QED
  BY <1>10 DEF b

\* When the register is back, only the misread is taken out.
LEMMA MisreadIsOver ==
  ASSUME M!Plausible, NEW acc \in Accs, NEW row \in BucketRow, NEW v \in Nat, acc.register = v,
         NEW S, row.start \in S, NEW r \in Nat, NEW w \in Draws, NEW L \in Int, NEW n \in Nat,
         HighKept(acc, v, r, S, L), row.start = n + 1, row.state = r + w,
         row.change = r + w - v \/ (row.change = r + w /\ r + w < v),
         NEW later, n \in later
  PROVE  CalmKept(M!Bucket(acc, row), r + w, r + w, S, L + w, n + 1, later)
<1> DEFINE b == M!Bucket(acc, row)
           last == acc.admitted[Len(acc.admitted)]
           W == Water(acc.admitted, S)
<1>1. /\ w \in Nat /\ Jump \in Nat /\ w <= Jump /\ row.change \in Int
      /\ acc.drop = 0 /\ r < v /\ acc.around \in Int \X Int /\ acc.around # None
      /\ 0 < acc.around[1] /\ acc.around[1] <= r /\ acc.around[2] = v
      /\ last.start \in S /\ last.m3 = acc.around[2] - acc.around[1] /\ W + (r - v) >= L
  BY Bounds, Buckets DEF HighKept, M!Plausible, BucketRow
<1>2. W \in Int /\ acc.around[1] \in Int
  BY <1>1, WaterIsOne DEF Accs
<1>3. r + w < v => M!ShowsASpike(acc.around, row.state)
  BY <1>1, <1>2 DEF M!ShowsASpike
\* The register is past what it showed.
<1>4. CASE v <= r + w
  <2>1. row.change = row.state - v /\ 0 < v /\ row.state - v <= Jump /\ v <= row.state
    BY <1>1, <1>4
  <2>2. /\ Leaves(acc, b, row, S) /\ b.drop = 0
        /\ CountedFrom(acc, b, S, row, v, row.state - v)
    BY <1>1, <2>1, ClimbCounts
  <2> HIDE DEF b
  <2>3. /\ b.previous = n + 1 /\ b.around = <<v, r + w>> /\ Water(b.admitted, S) = W + (r + w - v)
    <3>1. b.previous = row.start
      BY <2>2 DEF Leaves
    <3>2. b.around = <<v, row.state>> /\ Water(b.admitted, S) = W + (row.state - v)
      BY <2>2 DEF CountedFrom
    <3> HIDE DEF W, last
    <3>3. QED
      BY <1>1, <1>2, <3>1, <3>2
  <2>4. b.around[1] = v /\ b.around[2] = r + w
    BY <2>3
  <2> HIDE DEF W, last
  <2>5. Water(b.admitted, S) + ((r + w) - (r + w)) >= L + w /\ 0 < r + w /\ r + w <= r + w
    BY <1>1, <1>2, <1>4, <2>1, <2>3
  <2>6. QED
    BY <2>1, <2>2, <2>3, <2>4, <2>5 DEF CalmKept, b
\* It is back between the two: the misread is taken out.
<1>5. CASE r + w < v
  <2>1. Leaves(acc, b, row, S) /\ b.drop = 0 /\ TakenBack(acc, b, S, row.state)
    <3>1. CASE row.change >= 0
      <4>1. row.change = r + w /\ M!ExceedsTheRegister(row)
        BY <1>1, <1>2, <1>5, <3>1 DEF M!ExceedsTheRegister
      <4>2. /\ Leaves(acc, b, row, S) /\ b.drop = 0
            /\ \/ TakenBack(acc, b, S, row.state)
               \/ ~M!ShowsASpike(acc.around, row.state)
        BY <1>1, <3>1, <4>1, ClimbMoves
      <4>3. QED
        BY <1>3, <1>5, <4>2
    <3>2. CASE row.change < 0
      <4>1. /\ Leaves(acc, b, row, S)
            /\ \/ b.drop = 0 /\ TakenBack(acc, b, S, row.state)
               \/ ~M!ShowsASpike(acc.around, row.state)
        BY <1>1, <3>2, FallMoves
      <4>2. QED
        BY <1>3, <1>5, <4>1
    <3>3. QED
      BY <1>1, <3>1, <3>2
  <2> HIDE DEF b
  <2>2. b.previous = n + 1 /\ b.around = acc.around /\ Water(b.admitted, S) = W - v + (r + w)
    BY <1>1, <2>1 DEF Leaves, TakenBack
  <2> HIDE DEF W, last
  <2>3. Water(b.admitted, S) + ((r + w) - (r + w)) >= L + w /\ 0 < r + w /\ r + w <= r + w
    BY <1>1, <1>2, <2>2
  <2>4. (n + 1) - 1 \in later
    OBVIOUS
  <2>5. QED
    BY <1>1, <2>1, <2>2, <2>3, <2>4 DEF CalmKept, b
<1>6. QED
  BY <1>1, <1>4, <1>5

\* The first day takes nothing, whether its own water counts or not.
LEMMA FirstDayCounts ==
  ASSUME NEW acc \in Accs, NEW row \in BucketRow, acc.register = None, acc.around = None, acc.drop = 0,
         NEW S, row.start \in S, NEW r \in Nat, NEW w \in Nat, r > 0,
         Water(acc.admitted, S) = 0, row.start = 1, row.state = r + w, row.change = w, NEW later
  PROVE  CalmKept(M!Bucket(acc, row), r + w, r + w, S, 0, 1, later)
<1> DEFINE b == M!Bucket(acc, row)
<1>1. row.change >= 0 /\ acc.drop >= 0 /\ ~M!ShowsASpike(acc.around, row.state)
  BY DEF M!ShowsASpike
<1>2. /\ b \in Accs /\ b.drop = 0 /\ b.previous = 1 /\ b.around = None
      /\ Refused(acc, b) \/ Counts(acc, b, row, w)
  <2>1. CASE M!IsTheWholeRegister(row)
    BY <2>1, WholeRegister DEF Refused
  <2>2. CASE ~M!IsTheWholeRegister(row)
    BY <1>1, <2>2, Climbed DEF TakesBack, Refused
  <2>3. QED
    BY <2>1, <2>2
<1> HIDE DEF b
<1>3. Water(b.admitted, S) \in Int /\ Water(b.admitted, S) >= 0
  BY <1>2, CountsMoves, WaterIsOne DEF Refused, Accs
<1>4. Water(b.admitted, S) + ((r + w) - (r + w)) >= 0 /\ 0 < r + w /\ r + w <= r + w
  BY <1>3
<1>5. QED
  BY <1>2, <1>4 DEF CalmKept, b

\* What counts for more counts for less.
LEMMA CalmLess ==
  ASSUME NEW acc \in Accs, NEW v, NEW r, NEW S, NEW L \in Int, NEW n, NEW faulty, v \in Nat, r \in Nat,
         CalmKept(acc, v, r, S, L, n, faulty), NEW less \in Int, less <= L
  PROVE  CalmKept(acc, v, r, S, less, n, faulty)
<1>1. Water(acc.admitted, S) \in Int
  BY WaterIsOne DEF Accs
<1>2. Water(acc.admitted, S) + (r - v) >= less
  BY <1>1 DEF CalmKept
<1>3. QED
  BY <1>2 DEF CalmKept

\* The readers on day n, of faulty days faulty, some of them nights.
Kept(acc, v, r, S, L, n, faulty, nights) ==
  \/ CalmKept(acc, v, r, S, L, n, faulty)
  \/ n \in nights /\ NightKept(acc, v, r, S, L)
  \/ n \in faulty /\ HighKept(acc, v, r, S, L)

\* A healthy day keeps what counts, and its own water but for the day after a night.
LEMMA HealthyKeeps ==
  ASSUME M!Plausible, NEW acc \in Accs, NEW row \in BucketRow, NEW v \in Nat, acc.register = v,
         NEW S, row.start \in S, NEW r \in Nat, NEW w \in Draws, NEW L \in Int, NEW n \in Nat,
         NEW faulty, NEW nights, Kept(acc, v, r, S, L, n, faulty, nights),
         row.start = n + 1, row.state = r + w,
         row.change = r + w - v \/ (row.change = r + w /\ 10 * (r + w) < 9 * v),
         NEW less \in Int, less <= L + w, n \in nights => less <= L
  PROVE  CalmKept(M!Bucket(acc, row), r + w, r + w, S, less, n + 1, faulty)
<1>1. /\ w \in Nat /\ r + w \in Nat /\ L + w \in Int
      /\ M!Bucket(acc, row) \in Accs
  BY Bounds, BucketIsOne
<1>2. CASE CalmKept(acc, v, r, S, L, n, faulty)
  <2>1. v <= r
    BY <1>2 DEF CalmKept
  <2>2. row.change = r + w - v
    BY <1>1, <2>1
  <2>3. CalmKept(M!Bucket(acc, row), r + w, r + w, S, L + w, n + 1, faulty)
    BY <1>2, <2>2, CalmCounts
  <2>4. QED
    BY <1>1, <2>3, CalmLess
<1>3. CASE n \in nights /\ NightKept(acc, v, r, S, L)
  <2>1. row.change = r + w
    BY <1>1, <1>3 DEF NightKept
  <2>2. CalmKept(M!Bucket(acc, row), r + w, r + w, S, L, n + 1, faulty)
    BY <1>1, <1>3, <2>1, NightIsOver
  <2>3. QED
    BY <1>1, <1>3, <2>2, CalmLess
<1>4. CASE n \in faulty /\ HighKept(acc, v, r, S, L)
  <2>1. row.change = r + w - v \/ (row.change = r + w /\ r + w < v)
    BY <1>1
  <2>2. CalmKept(M!Bucket(acc, row), r + w, r + w, S, L + w, n + 1, faulty)
    BY <1>4, <2>1, MisreadIsOver
  <2>3. QED
    BY <1>1, <2>2, CalmLess
<1>5. QED
  BY <1>2, <1>3, <1>4 DEF Kept

\* A fault of the same meter that a day could hold, when the ones before it are over.
LEMMA FaultKeeps ==
  ASSUME M!Plausible, MeterType, ReadersType, NEW w \in Draws, day > 0, rows # <<>>,
         FaultDay(w), ~SwapDay(w), "wild" \notin {f.kind : f \in {g \in faults' : g.day = day + 1}},
         NEW S, day + 1 \in S, NEW L \in Int, NEW faulty, day \notin faulty, day - 1 \notin faulty,
         CalmKept(M!Admitted(rows), shown, reading, S, L, day, faulty),
         shown' \in Nat, reading' \in Nat, NEW later, day + 1 \in later, NEW nights,
         NightDay(w) => day + 1 \in nights,
         NEW less \in Int, less <= L + w, NightDay(w) => less <= L
  PROVE  Kept(M!Admitted(rows'), shown', reading', S, less, day + 1, later, nights)
<1> DEFINE acc == M!Admitted(rows)
           b == M!Admitted(rows')
<1>1. /\ acc \in Accs /\ acc.register = shown /\ shown \in Nat /\ reading \in Nat /\ day \in Nat
      /\ w \in Nat /\ reading + w \in Nat /\ L + w \in Int
      /\ shown = reading /\ acc.previous = day /\ Water(acc.admitted, S) \in Int
  BY Bounds, WaterIsOne DEF MeterType, ReadersType, CalmKept, Accs
<1> HIDE DEF acc, b
<1>2. CalmKept(acc, shown, reading, S, L, day, faulty)
  BY DEF acc
<1>3. ASSUME NEW change, Bucketed(change)
      PROVE  \E row \in BucketRow : /\ row.start = day + 1 /\ row.start \in S /\ row.change = change
                                    /\ row.state = shown' /\ b = M!Bucket(acc, row) /\ b \in Accs
  <2>1. PICK row \in BucketRow : /\ row.start = day + 1 /\ row.change = change /\ row.state = shown'
                                 /\ rows' = Append(rows, row)
    BY <1>3 DEF Bucketed
  <2>2. b = M!Bucket(acc, row) /\ b \in Accs
    BY <2>1, BucketedGoes DEF acc, b
  <2>3. QED
    BY <2>1, <2>2
<1>4. ~PurgedDay(w)
  BY <1>1 DEF PurgedDay
<1>5. CASE DipDay(w)
  <2>1. PICK change \in Int : Bucketed(change) /\ (change = reading + w - shown \/ change = reading + w)
    BY <1>5 DEF DipDay
  <2>2. PICK row \in BucketRow : /\ row.start = day + 1 /\ row.start \in S /\ row.change = change
                                 /\ row.state = shown' /\ b = M!Bucket(acc, row) /\ b \in Accs
    BY <1>3, <2>1
  <2>3. shown' = reading + w /\ reading' = reading + w
    BY <1>5 DEF DipDay
  <2>4. CalmKept(b, reading + w, reading + w, S, L + w, day + 1, later)
    BY <1>1, <1>2, <2>1, <2>2, <2>3, CalmCounts
  <2>5. CalmKept(b, reading + w, reading + w, S, less, day + 1, later)
    BY <1>1, <2>2, <2>4, CalmLess
  <2>6. QED
    BY <2>3, <2>5 DEF Kept, b
<1>6. CASE NightDay(w)
  <2>1. PICK change \in Int : /\ Moves(shown, reading + w, change)
                              /\ \/ Bucketed(change) \/ Bucketed(change - (reading + w))
    BY <1>6 DEF NightDay
  <2>2. change = reading + w - shown
    BY <1>1, <2>1 DEF Moves
  <2>3. PICK c : Bucketed(c) /\ (c = reading + w - shown \/ c = 0 - shown)
    BY <1>1, <2>1, <2>2
  <2>4. PICK row \in BucketRow : /\ row.start \in S /\ row.change = c /\ row.state = shown'
                                 /\ b = M!Bucket(acc, row) /\ b \in Accs
    BY <1>3, <2>3
  <2>5. shown' = 0 /\ reading' = reading + w
    BY <1>6 DEF NightDay
  <2>6. NightKept(b, 0, reading + w, S, L)
    BY <1>1, <1>2, <2>3, <2>4, <2>5, NightLoses
  <2>7. Water(b.admitted, S) \in Int
    BY <2>4, WaterIsOne DEF Accs
  <2>8. NightKept(b, 0, reading + w, S, less)
    BY <1>6, <2>6, <2>7 DEF NightKept
  <2>9. QED
    BY <1>6, <2>5, <2>8 DEF Kept, b
<1>7. CASE HighDay(w)
  <2>1. PICK s \in Spikes :
          /\ shown' = reading' + s
          /\ \E change \in Int : Bucketed(change) /\ Moves(shown, reading' + s, change)
          /\ faults' = faults \cup [day : {day + 1}, kind : {IF s > Jump THEN "wild" ELSE "spike"}]
    BY <1>7 DEF HighDay
  <2>2. s \in Nat \ {0} /\ reading' = reading + w /\ Jump \in Nat
    BY <1>7, Bounds, Buckets DEF HighDay
  <2>3. s <= Jump
    <3>1. SUFFICES ASSUME s > Jump
                   PROVE  FALSE
      BY <2>2
    <3>2. [day |-> day + 1, kind |-> "wild"] \in faults'
      BY <2>1, <3>1
    <3>3. [day |-> day + 1, kind |-> "wild"].day = day + 1 /\ [day |-> day + 1, kind |-> "wild"].kind = "wild"
      OBVIOUS
    <3>4. QED
      BY <3>2, <3>3
  <2>4. PICK change \in Int : Bucketed(change) /\ Moves(shown, reading + w + s, change)
    BY <2>1, <2>2
  <2>5. change = reading + w + s - shown /\ shown' = reading + w + s
    BY <1>1, <2>1, <2>2, <2>4 DEF Moves
  <2>6. PICK row \in BucketRow : /\ row.start \in S /\ row.change = change /\ row.state = shown'
                                 /\ b = M!Bucket(acc, row) /\ b \in Accs
    BY <1>3, <2>4
  <2>7. HighKept(b, reading + w + s, reading + w, S, L + w)
    BY <1>1, <1>2, <2>2, <2>3, <2>5, <2>6, MisreadCounts
  <2>8. Water(b.admitted, S) \in Int
    BY <2>6, WaterIsOne DEF Accs
  <2>9. HighKept(b, reading + w + s, reading + w, S, less)
    <3>1. Water(b.admitted, S) + ((reading + w) - (reading + w + s)) >= less
      BY <1>1, <2>2, <2>7, <2>8 DEF HighKept
    <3>2. QED
      BY <2>7, <3>1 DEF HighKept
  <2>10. QED
    BY <2>2, <2>5, <2>9 DEF Kept, b
<1>8. CASE SilentDay(w)
  <2>1. b = acc /\ shown' = shown /\ reading' = reading + w
    BY <1>8 DEF SilentDay, acc, b
  <2>2. (reading + w) - shown = w /\ (day + 1) - 1 = day /\ 0 < shown /\ shown <= reading + w
    BY <1>1, <1>2 DEF CalmKept
  <2>3. Water(acc.admitted, S) + ((reading + w) - shown) >= less
    BY <1>1, <1>2, <2>2 DEF CalmKept
  <2>4. acc.drop = 0 /\ (acc.around # None => 0 < acc.around[1] /\ acc.around[2] <= shown)
    BY <1>2 DEF CalmKept
  <2>5. CalmKept(acc, shown, reading + w, S, less, day + 1, later)
    BY <1>1, <2>2, <2>3, <2>4 DEF CalmKept
  <2>6. QED
    BY <2>1, <2>5 DEF Kept, b
<1>9. QED
  BY <1>4, <1>5, <1>6, <1>7, <1>8 DEF FaultDay

\* The days of a kind of fault.
LEMMA KindsGo ==
  ASSUME NEW k, NEW kinds, faults' = faults \cup [day : {day + 1}, kind : {k}]
  PROVE  M!FaultyDaysOf(kinds)' = M!FaultyDaysOf(kinds) \cup (IF k \in kinds THEN {day + 1} ELSE {})
<1> DEFINE x == [day |-> day + 1, kind |-> k]
<1>1. \A y \in [day : {day + 1}, kind : {k}] : y = x
  OBVIOUS
<1>2. x \in [day : {day + 1}, kind : {k}] /\ x.day = day + 1 /\ x.kind = k
  OBVIOUS
<1> HIDE DEF x
<1>3. faults' = faults \cup {x}
  BY <1>1, <1>2
<1>4. {f.day : f \in {g \in faults \cup {x} : g.kind \in kinds}}
        = {f.day : f \in {g \in faults : g.kind \in kinds}} \cup (IF k \in kinds THEN {day + 1} ELSE {})
  BY <1>2
<1>5. QED
  BY <1>3, <1>4 DEF M!FaultyDaysOf

\* The days that close on a dip past midnight.
Nights == M!FaultyDaysOf({"overnight"})

\* Such a night is a fault.
LEMMA NightsAre == Nights \subseteq M!FaultyDays
BY DEF Nights, M!FaultyDaysOf, M!FaultyDays

\* A day adds itself to the nights, or none, and a replacement to the replacements.
LEMMA NightsGo ==
  ASSUME NEW w, Goes(w)
  PROVE  /\ Nights' = Nights \/ Nights' = Nights \cup {day + 1}
         /\ NightDay(w) => day + 1 \in Nights'
         /\ M!FaultyDaysOf({"swap", "wild"}) \subseteq M!FaultyDaysOf({"swap", "wild"})'
         /\ SwapDay(w) => day + 1 \in M!FaultyDaysOf({"swap", "wild"})'
<1>1. \/ faults' = faults
      \/ \E k : faults' = faults \cup [day : {day + 1}, kind : {k}]
  BY DEF Goes, HealthyDay, PurgedDay, DipDay, NightDay, HighDay, SwapDay, SilentDay
<1>2. CASE faults' = faults
  <2>1. Nights' = Nights /\ M!FaultyDaysOf({"swap", "wild"})' = M!FaultyDaysOf({"swap", "wild"})
    BY <1>2 DEF Nights, M!FaultyDaysOf
  <2>2. NightDay(w) => day + 1 \in Nights'
    <3>1. NightDay(w) => faults' = faults \cup [day : {day + 1}, kind : {"overnight"}]
      BY DEF NightDay
    <3>2. QED
      BY <3>1, KindsGo DEF Nights
  <2>3. SwapDay(w) => day + 1 \in M!FaultyDaysOf({"swap", "wild"})'
    <3>1. SwapDay(w) => faults' = faults \cup [day : {day + 1}, kind : {"swap"}]
      BY DEF SwapDay
    <3>2. QED
      BY <3>1, KindsGo
  <2>4. QED
    BY <2>1, <2>2, <2>3
<1>3. CASE \E k : faults' = faults \cup [day : {day + 1}, kind : {k}]
  <2> PICK k : faults' = faults \cup [day : {day + 1}, kind : {k}]
    BY <1>3
  <2>kinds. \A kinds : M!FaultyDaysOf(kinds)' = M!FaultyDaysOf(kinds) \cup (IF k \in kinds THEN {day + 1} ELSE {})
    BY KindsGo
  <2>1. Nights' = Nights \/ Nights' = Nights \cup {day + 1}
    BY <2>kinds DEF Nights
  <2>2. M!FaultyDaysOf({"swap", "wild"}) \subseteq M!FaultyDaysOf({"swap", "wild"})'
    BY <2>kinds
  <2>3. NightDay(w) => day + 1 \in Nights'
    <3>1. NightDay(w) => faults' = faults \cup [day : {day + 1}, kind : {"overnight"}]
      BY DEF NightDay
    <3>2. QED
      BY <3>1, KindsGo DEF Nights
  <2>4. SwapDay(w) => day + 1 \in M!FaultyDaysOf({"swap", "wild"})'
    <3>1. SwapDay(w) => faults' = faults \cup [day : {day + 1}, kind : {"swap"}]
      BY DEF SwapDay
    <3>2. QED
      BY <3>1, KindsGo
  <2>5. QED
    BY <2>1, <2>2, <2>3, <2>4
<1>4. QED
  BY <1>1, <1>2, <1>3

\* The days, but for the first, that neither follow such a night nor close on one.
Good(n, nights) == {d \in 2 .. n : {d, d - 1} \cap nights = {}}

\* Of days 1 .. n, those of nights, and of days 1 .. n + 1, those of later.
NightsOf(n, nights, later) ==
  nights \subseteq 1 .. n /\ (later = nights \/ later = nights \cup {n + 1})

\* A day adds its water to that of the good days, unless a night is on it or ahead of it.
LEMMA GoodGoes ==
  ASSUME NEW n \in Nat, NEW u \in Seq(Nat), Len(u) = n, NEW w \in Nat, NEW nights, NEW later,
         NightsOf(n, nights, later)
  PROVE  LET L == Poured(u, n, Good(n, nights))
             more == Poured(Append(u, w), n + 1, Good(n + 1, later))
         IN /\ L \in Int /\ more \in Int /\ more <= L + w
            /\ n \in nights \/ n + 1 \in later => more <= L
            /\ n = 0 => more = 0
<1> DEFINE L == Poured(u, n, Good(n, nights))
           more == Poured(Append(u, w), n + 1, Good(n + 1, later))
<1>1. \A d \in 1 .. n : d \in Good(n + 1, later) <=> d \in Good(n, nights)
  BY DEF Good, NightsOf
<1>2. Poured(u, n, Good(n + 1, later)) = L
  BY <1>1, PouredBy
<1>3. /\ L \in Int
      /\ more = L + (IF n + 1 \in Good(n + 1, later) THEN w ELSE 0)
  BY <1>2, PouredOfMore
<1> HIDE DEF L, more
<1>4. n \in nights \/ n + 1 \in later \/ n = 0 => n + 1 \notin Good(n + 1, later)
  BY DEF Good, NightsOf
<1>5. n = 0 => L = 0
  <2>1. n = 0 => \A d \in 1 .. n : d \notin Good(n, nights)
    OBVIOUS
  <2>2. QED
    BY <2>1, PouredOfNone DEF L
<1>6. QED
  BY <1>3, <1>4, <1>5 DEF L, more

\* What counts of a household of one meter.
AllCounts ==
  Apart(M!FaultyDays) /\ 1 \notin M!FaultyDays /\ M!FaultyDaysOf({"swap", "wild"}) = {} =>
    /\ day = 0 => reading > 0
    /\ day > 0 => Kept(M!Admitted(rows), shown, reading, After(0),
                       Poured(used, day, Good(day, Nights)), day, M!FaultyDays, Nights)

\* The window opens on a meter that has counted.
LEMMA AllCountsStarts == M!Plausible /\ M!Init => AllCounts
<1> SUFFICES ASSUME M!Plausible, M!Init
             PROVE  AllCounts
  OBVIOUS
<1>1. day = 0 /\ reading > 0
  BY PartsAssumption DEF M!Init, M!BucketAssumption, M!Plausible
<1>2. QED
  BY <1>1 DEF AllCounts

\* A day keeps what counts above what was drawn on the good days.
LEMMA AllCountsGoesOn ==
  ASSUME M!Plausible, MeterType, ReadersType, AllCounts, M!Next
  PROVE  AllCounts'
<1>1. PICK w \in Draws : used' = Append(used, w) /\ Goes(w)
  BY DayGoes
<1>2. /\ day' = day + 1 /\ day \in Nat /\ w \in Nat /\ used \in Seq(Nat) /\ Len(used) = day
      /\ shown \in Nat /\ reading \in Nat /\ shown' \in Nat /\ reading' \in Nat /\ day + 1 > 0
      /\ M!Admitted(rows) \in Accs
  BY DayGoes, Bounds DEF MeterType, ReadersType
<1> DEFINE b == M!Admitted(rows')
           L == Poured(used, day, Good(day, Nights))
           more == Poured(used', day + 1, Good(day + 1, Nights'))
<1>3. SUFFICES ASSUME Apart(M!FaultyDays'), 1 \notin M!FaultyDays',
                      M!FaultyDaysOf({"swap", "wild"})' = {}
               PROVE  Kept(b, shown', reading', After(0), more, day + 1, M!FaultyDays', Nights')
  BY <1>2 DEF AllCounts
<1>4. M!FaultyDays \subseteq M!FaultyDays' /\ M!FaultyDays \subseteq 1 .. day
  BY <1>1, FaultsGo, FaultsAre
<1>5. /\ Apart(M!FaultyDays) /\ 1 \notin M!FaultyDays /\ M!FaultyDaysOf({"swap", "wild"}) = {}
      /\ ~SwapDay(w)
  BY <1>1, <1>3, <1>4, NightsGo DEF Apart
<1>6. /\ Nights' = Nights \/ Nights' = Nights \cup {day + 1}
      /\ NightDay(w) => day + 1 \in Nights'
      /\ Nights \subseteq 1 .. day /\ Nights \subseteq M!FaultyDays
  BY <1>1, <1>4, NightsGo, NightsAre
<1>7. /\ L \in Int /\ more \in Int /\ more <= L + w
      /\ day \in Nights \/ day + 1 \in Nights' => more <= L
      /\ day = 0 => more = 0
  <2>1. ASSUME NEW nights, NEW later, nights = Nights, later = Nights'
        PROVE  /\ L \in Int /\ more \in Int /\ more <= L + w
               /\ day \in nights \/ day + 1 \in later => more <= L
               /\ day = 0 => more = 0
    <3>1. NightsOf(day, nights, later)
      BY <1>6, <2>1 DEF NightsOf
    <3> DEFINE X == Poured(used, day, Good(day, nights))
               Y == Poured(Append(used, w), day + 1, Good(day + 1, later))
    <3>2. L = X /\ more = Y
      BY <1>1, <2>1
    <3> HIDE DEF L, more
    <3>3. /\ X \in Int /\ Y \in Int /\ Y <= X + w
          /\ day \in nights \/ day + 1 \in later => Y <= X
          /\ day = 0 => Y = 0
      <4>1. day \in Nat /\ w \in Nat /\ used \in Seq(Nat) /\ Len(used) = day
        BY <1>2
      <4>2. QED
        BY <3>1, <4>1, GoodGoes
    <3> HIDE DEF X, Y
    <3>4. QED
      BY <3>2, <3>3
  <2>2. QED
    BY <2>1
<1>8. day > 0 => /\ Kept(M!Admitted(rows), shown, reading, After(0), L, day, M!FaultyDays, Nights)
                 /\ rows # <<>> /\ M!Admitted(rows).register = shown
  BY <1>5 DEF AllCounts, ReadersType
<1>9. day + 1 \in After(0)
  BY <1>2 DEF After
<1> HIDE DEF b, L, more
<1>10. CASE HealthyDay(w) /\ M!FaultyDays' = M!FaultyDays
  <2>1. PICK change \in Int : Bucketed(change) /\ Moves(shown, reading', change)
    BY <1>10 DEF HealthyDay
  <2>2. reading' = reading + w /\ shown' = reading + w
    BY <1>10 DEF HealthyDay
  <2>3. change = reading + w - shown \/ (change = reading + w /\ 10 * (reading + w) < 9 * shown)
    BY <1>2, <2>1, <2>2 DEF Moves
  <2>4. PICK row \in BucketRow : /\ row.start = day + 1 /\ row.change = change /\ row.state = shown'
                                 /\ rows' = Append(rows, row)
    BY <2>1 DEF Bucketed
  <2>5. b = M!Bucket(M!Admitted(rows), row)
    BY <2>4, BucketedGoes DEF b
  <2>6. CASE day > 0
    <3>1. CalmKept(b, reading + w, reading + w, After(0), more, day + 1, M!FaultyDays)
      BY <1>2, <1>7, <1>8, <1>9, <2>2, <2>3, <2>4, <2>5, <2>6, HealthyKeeps
    <3>2. QED
      BY <1>10, <2>2, <3>1 DEF Kept
  <2>7. CASE day = 0
    <3> DEFINE acc == M!Admitted(rows)
    <3>1. /\ acc.register = None /\ acc.around = None /\ acc.drop = 0 /\ acc.admitted = <<>>
          /\ shown = reading /\ reading > 0
      BY <1>5, <2>7, FreshIsOne DEF ReadersType, AllCounts
    <3>2. Water(acc.admitted, After(0)) = 0
      BY <3>1, WaterOfNothing
    <3>3. row.start = 1 /\ row.start \in After(0) /\ row.state = reading + w /\ row.change = w
      BY <1>2, <1>9, <2>2, <2>3, <2>4, <2>7, <3>1
    <3> HIDE DEF acc
    <3>4. CalmKept(M!Bucket(acc, row), reading + w, reading + w, After(0), 0, 1, M!FaultyDays)
      BY <1>2, <3>1, <3>2, <3>3, FirstDayCounts DEF acc
    <3>5. day + 1 = 1
      BY <2>7
    <3>6. QED
      BY <1>7, <1>10, <2>2, <2>5, <2>7, <3>4, <3>5 DEF Kept, acc
  <2>8. QED
    BY <1>2, <2>6, <2>7
<1>11. CASE FaultDay(w) /\ M!FaultyDays' = M!FaultyDays \cup {day + 1}
  <2>1. day + 1 \in M!FaultyDays' /\ day > 0
    <3>1. day + 1 \in M!FaultyDays'
      BY <1>11
    <3>2. day + 1 # 1
      BY <1>3, <3>1
    <3>3. QED
      BY <1>2, <3>1, <3>2
  <2>2. day \notin M!FaultyDays /\ day - 1 \notin M!FaultyDays
    <3>1. \A f \in M!FaultyDays' : day + 1 # f + 1 /\ day + 1 # f + 2
      BY <1>3, <2>1 DEF Apart
    <3>2. QED
      BY <1>2, <1>4, <3>1
  <2>3. CalmKept(M!Admitted(rows), shown, reading, After(0), L, day, M!FaultyDays)
    BY <1>6, <1>8, <2>1, <2>2 DEF Kept
  <2>4. "wild" \notin {f.kind : f \in {g \in faults' : g.day = day + 1}}
    <3>1. ASSUME NEW g \in faults', g.kind = "wild"
          PROVE  FALSE
      <4>1. g.day \in M!FaultyDaysOf({"swap", "wild"})'
        BY <3>1 DEF M!FaultyDaysOf
      <4>2. QED
        BY <1>3, <4>1
    <3>2. QED
      BY <3>1
  <2>5. NightDay(w) => more <= L
    BY <1>6, <1>7
  <2>6. Kept(M!Admitted(rows'), shown', reading', After(0), more, day + 1, M!FaultyDays', Nights')
    BY <1>2, <1>5, <1>6, <1>7, <1>8, <1>9, <1>11, <2>1, <2>2, <2>3, <2>4, <2>5, FaultKeeps
  <2>7. QED
    BY <2>6 DEF b
<1>12. QED
  BY <1>1, <1>10, <1>11, FaultsGo

\* When the meter is settled, the year is at least what was drawn on the good days.
LEMMA OnlyNightsAre ==
  ASSUME MeterInv, AllCounts, M!Settled, M!FaultyDaysOf({"swap", "wild"}) = {}
  PROVE  M!Total(rows) >= M!Drawn(Good(day, Nights))
<1> DEFINE acc == M!Admitted(rows)
           L == Poured(used, day, Good(day, Nights))
<1>1. /\ day \in Nat /\ shown \in Nat /\ reading \in Nat /\ acc \in Accs /\ day > 0
      /\ Apart(M!FaultyDays) /\ 1 \notin M!FaultyDays /\ day \notin M!FaultyDays
      /\ used \in Seq(Nat) /\ Len(used) = day
  BY DEF MeterInv, MeterType, ReadersType, M!Settled, M!FarApart, Apart
<1>2. Kept(acc, shown, reading, After(0), L, day, M!FaultyDays, Nights)
  BY <1>1 DEF AllCounts
<1>3. CalmKept(acc, shown, reading, After(0), L, day, M!FaultyDays)
  BY <1>1, <1>2, NightsAre DEF Kept
<1>4. Water(acc.admitted, After(0)) \in Int /\ L \in Int
  BY <1>1, WaterIsOne, PouredOfMore DEF Accs
<1>5. Water(acc.admitted, After(0)) >= L
  BY <1>1, <1>3, <1>4 DEF CalmKept
<1>6. QED
  BY <1>5, TotalIs, DrawnIs DEF MeterInv

\* A behaviour of the meter is one of the parts side by side.
HouseholdCounts == topic = "meter" => AllCounts

\* The household's invariant, of every behaviour of the parts.
LEMMA HouseholdCountsHolds == PartsSpec => []HouseholdCounts
<1>1. PartsInit => HouseholdCounts
  <2> SUFFICES ASSUME PartsInit, topic = "meter"
               PROVE  AllCounts
    BY DEF HouseholdCounts
  <2>1. M!Init
    BY DEF PartsInit
  <2>2. QED
    BY <2>1, HouseholdAssumption, AllCountsStarts
<1>2. MeterBelow /\ HouseholdCounts /\ [PartsNext]_partsVars => HouseholdCounts'
  <2> SUFFICES ASSUME MeterBelow, HouseholdCounts, [PartsNext]_partsVars, topic' = "meter"
               PROVE  AllCounts'
    BY DEF HouseholdCounts
  <2>1. \/ topic = "meter" /\ M!Next
        \/ topic = "meter" /\ UNCHANGED meterVars
    BY DEF PartsNext, YearNext, PriceNext, MeterNext, ArchiveNext, BillNext, SensorNext, FetchNext,
           CookieNext, partsVars, M!Done, M!vars, meterVars
  <2>2. MeterInv /\ AllCounts
    BY <2>1 DEF MeterBelow, HouseholdCounts
  <2>3. CASE M!Next
    BY <2>2, <2>3, HouseholdAssumption, AllCountsGoesOn DEF MeterInv
  <2>4. CASE UNCHANGED meterVars
    <3>1. /\ reading' = reading /\ shown' = shown /\ rows' = rows /\ day' = day /\ used' = used
          /\ faults' = faults
      BY <2>4 DEF meterVars
    <3>2. /\ M!FaultyDays' = M!FaultyDays /\ Nights' = Nights
          /\ M!FaultyDaysOf({"swap", "wild"})' = M!FaultyDaysOf({"swap", "wild"})
      BY <3>1 DEF M!FaultyDays, M!FaultyDaysOf, Nights
    <3>3. QED
      BY <2>2, <3>1, <3>2 DEF AllCounts
  <2>5. QED
    BY <2>1, <2>3, <2>4
<1>3. QED
  BY <1>1, <1>2, MeterInvHolds, PTL DEF PartsSpec

-----------------------------------------------------------------------------
(* A total_increasing meter at 0 whenever a day closes has every bucket    *)
(* refused: the first for a change above its register, the others for one  *)
(* with no register to climb from.                                         *)

\* The last day is one of these kinds.
Unseen == M!FaultyDaysOf({"silent", "swap"})

\* Nothing counts, and so many buckets at the least were refused.
NoneCounts(acc, least) ==
  acc.admitted = <<>> /\ acc.around = None /\ acc.drop = 0 /\ acc.refused >= least

AllNights == increasing /\ used[1] > 0 /\ 1 .. day \subseteq Nights

AllRefused ==
  /\ day > 0 /\ AllNights =>
       rows # <<>> /\ shown = 0 /\ reading > 0 /\ NoneCounts(M!Admitted(rows), day - 1)
  /\ /\ day > 1 /\ increasing /\ used[1] > 0 /\ 1 .. day - 1 \subseteq Nights /\ day \notin Unseen
     => NoneCounts(M!Admitted(rows), day - 1)

\* A bucket that claims its register, with none before it or a 0, is not counted, and with
\* a 0 before it is refused.
LEMMA ClaimIsRefused ==
  ASSUME NEW acc \in Accs, NEW row \in BucketRow, NEW least \in Int, NoneCounts(acc, least),
         row.change > 0, row.change >= row.state, acc.register \in {None, 0}
  PROVE  NoneCounts(M!Bucket(acc, row), IF acc.register = 0 THEN least + 1 ELSE least)
<1> DEFINE s == [acc EXCEPT !.register = row.state, !.previous = row.start]
           b == M!Bucket(acc, row)
<1>1. /\ s.admitted = <<>> /\ s.around = None /\ s.drop = 0 /\ s.refused = acc.refused
      /\ acc.refused \in Int /\ row.change \in Int /\ row.state \in Int /\ None # 0
  BY Buckets DEF NoneCounts, Accs, BucketRow
<1>2. /\ M!Refuse(s).admitted = <<>> /\ M!Refuse(s).around = None /\ M!Refuse(s).drop = 0
      /\ M!Refuse(s).refused = acc.refused + 1
  <2>1. s \in Accs
    <3>1. s = Seen(acc, row)
      BY DEF Seen
    <3>2. QED
      BY <3>1, SeenIs
  <2>2. M!Refuse(s) = [s EXCEPT !.refused = s.refused + 1]
    BY DEF M!Refuse
  <2> HIDE DEF s
  <2>3. QED
    BY <1>1, <2>1, <2>2 DEF Accs
<1> HIDE DEF b
<1>3. CASE acc.register = None /\ M!IsTheWholeRegister(row)
  <2>1. b = s
    BY <1>3 DEF M!Bucket, b
  <2> HIDE DEF s
  <2>2. QED
    BY <1>1, <1>3, <2>1 DEF NoneCounts, b
<1>4. CASE ~(acc.register = None /\ M!IsTheWholeRegister(row))
  <2>1. M!ExceedsTheRegister(row) /\ ~(row.change < 0) /\ ~(acc.drop < 0) /\ row.change >= 0
    BY <1>1 DEF M!ExceedsTheRegister, NoneCounts
  <2>2. b = M!Recovered(s, row, acc.register, Gap(acc, row))
    BY <1>1, <1>4, <2>1 DEF M!Bucket, Gap, b
  <2>3. ~M!ShowsASpike(s.around, row.state)
    BY <1>1 DEF M!ShowsASpike
  <2>4. b = M!Refuse(s)
    <3>1. ~(IF acc.register = None THEN FALSE ELSE 0 < acc.register /\ acc.register <= row.state)
      OBVIOUS
    <3> HIDE DEF s
    <3>2. QED
      BY <2>2, <2>3, <3>1 DEF M!Recovered
  <2> HIDE DEF s
  <2>5. QED
    BY <1>1, <1>2, <2>4 DEF NoneCounts, b
<1>5. QED
  BY <1>3, <1>4

\* A day is a night when it is counted one.
LEMMA NightIsOne ==
  ASSUME MeterType, NEW w, Goes(w)
  PROVE  /\ day + 1 \in Nights' => NightDay(w)
         /\ \A d \in 1 .. day : d \in Nights' => d \in Nights
         /\ SilentDay(w) \/ SwapDay(w) => day + 1 \in Unseen'
<1>1. day + 1 \notin Nights /\ day \in Nat
  BY NightsAre, FaultsAre DEF MeterType
<1>2. \A d \in 1 .. day : d \in Nights' => d \in Nights
  <2>1. Nights' = Nights \/ Nights' = Nights \cup {day + 1}
    BY NightsGo
  <2>2. QED
    BY <1>1, <2>1
<1>3. ASSUME NEW k, k # "overnight", faults' = faults \cup [day : {day + 1}, kind : {k}]
      PROVE  day + 1 \notin Nights'
  <2>1. Nights' = Nights \cup {}
    BY <1>3, KindsGo DEF Nights
  <2>2. QED
    BY <1>1, <2>1
<1>4. HealthyDay(w) => day + 1 \notin Nights'
  <2>1. HealthyDay(w) => Nights' = Nights
    BY DEF HealthyDay, Nights, M!FaultyDaysOf
  <2>2. QED
    BY <1>1, <2>1
<1>5. PurgedDay(w) \/ DipDay(w) \/ HighDay(w) \/ SwapDay(w) \/ SilentDay(w) => day + 1 \notin Nights'
  <2>1. PurgedDay(w) \/ DipDay(w) \/ HighDay(w) \/ SwapDay(w) \/ SilentDay(w) =>
          \E k : k # "overnight" /\ faults' = faults \cup [day : {day + 1}, kind : {k}]
    BY DEF PurgedDay, DipDay, HighDay, SwapDay, SilentDay
  <2>2. QED
    BY <1>3, <2>1
<1>6. SilentDay(w) \/ SwapDay(w) => day + 1 \in Unseen'
  <2>1. SilentDay(w) \/ SwapDay(w) =>
          \E k : k \in {"silent", "swap"} /\ faults' = faults \cup [day : {day + 1}, kind : {k}]
    BY DEF SwapDay, SilentDay
  <2>2. QED
    BY <2>1, KindsGo DEF Unseen
<1>7. QED
  BY <1>2, <1>4, <1>5, <1>6 DEF Goes

\* A day after the nights claims its register, but for a silence or a replacement.
LEMMA DayClaims ==
  ASSUME MeterType, NEW w \in Nat, Goes(w), increasing, day > 0, shown = 0, reading > 0,
         NightDay(w) \/ (~SilentDay(w) /\ ~SwapDay(w))
  PROVE  \E change \in Int : Bucketed(change) /\ change > 0 /\ change >= shown'
<1>1. reading \in Nat /\ shown \in Nat /\ increasing \in BOOLEAN /\ reading + w > 0
  BY DEF MeterType
<1>2. CASE HealthyDay(w)
  BY <1>1, <1>2 DEF HealthyDay, Moves
<1>3. CASE DipDay(w)
  BY <1>1, <1>3 DEF DipDay
<1>4. CASE NightDay(w)
  <2>1. reading' = reading + w /\ shown' = 0
    BY <1>4 DEF NightDay
  <2>2. PICK change \in Int : /\ Moves(shown, reading', change)
                              /\ \/ increasing /\ reading' > 0 /\ Bucketed(change)
                                 \/ ~(increasing /\ reading' > 0) /\ Bucketed(change - reading')
    BY <1>4 DEF NightDay
  <2>3. change = reading + w
    BY <1>1, <2>1, <2>2 DEF Moves
  <2>4. QED
    BY <1>1, <2>1, <2>2, <2>3
<1>5. CASE HighDay(w)
  BY <1>1, <1>5, Bounds DEF HighDay, Moves
<1>6. QED
  BY <1>2, <1>3, <1>4, <1>5 DEF Goes, PurgedDay

\* A day more leaves every bucket of the nights refused.
LEMMA AllRefusedGoesOn ==
  ASSUME MeterType, ReadersType, AllRefused, M!Next
  PROVE  AllRefused'
<1>1. PICK w \in Draws : used' = Append(used, w) /\ Goes(w)
  BY DayGoes
<1>2. /\ day' = day + 1 /\ increasing' = increasing /\ day \in Nat /\ w \in Nat
      /\ used \in Seq(Nat) /\ Len(used) = day /\ reading \in Nat /\ shown \in Nat
  BY DayGoes, Bounds DEF MeterType
<1>3. /\ day + 1 \in Nights' => NightDay(w)
      /\ \A d \in 1 .. day : d \in Nights' => d \in Nights
      /\ SilentDay(w) \/ SwapDay(w) => day + 1 \in Unseen'
  BY <1>1, NightIsOne
<1>4. day > 0 => used'[1] = used[1]
  BY <1>1, <1>2
<1>5. CASE day = 0
  <2> SUFFICES ASSUME AllNights'
               PROVE  rows' # <<>> /\ shown' = 0 /\ reading' > 0 /\ NoneCounts(M!Admitted(rows'), 0)
    BY <1>2, <1>5 DEF AllRefused
  <2>1. NightDay(w) /\ w > 0 /\ increasing
    <3>1. used'[1] = w
      BY <1>1, <1>2, <1>5
    <3>2. 1 \in 1 .. day'
      BY <1>2, <1>5
    <3>3. QED
      BY <1>2, <1>3, <1>5, <3>1, <3>2 DEF AllNights
  <2>2. shown = reading /\ M!Admitted(rows) = M!Fresh
    BY <1>5 DEF ReadersType
  <2>3. reading' = reading + w /\ shown' = 0 /\ reading' > 0
    BY <1>2, <2>1 DEF NightDay
  <2>4. PICK change \in Int : Moves(shown, reading', change) /\ Bucketed(change)
    BY <2>1, <2>3 DEF NightDay
  <2>5. change > 0
    BY <1>2, <2>1, <2>2, <2>3, <2>4 DEF Moves
  <2>6. PICK row \in BucketRow : /\ row.start = day + 1 /\ row.change = change /\ row.state = shown'
                                 /\ rows' = Append(rows, row)
    BY <2>4 DEF Bucketed
  <2>7. M!Admitted(rows') = M!Bucket(M!Fresh, row) /\ rows' # <<>>
    BY <2>2, <2>6, BucketedGoes
  <2>8. NoneCounts(M!Fresh, 0) /\ M!Fresh \in Accs /\ M!Fresh.register = None /\ None # 0
    BY FreshIsOne, Buckets DEF NoneCounts, M!Fresh
  <2>9. NoneCounts(M!Bucket(M!Fresh, row), 0)
    BY <2>3, <2>5, <2>6, <2>8, ClaimIsRefused
  <2>10. QED
    BY <2>3, <2>7, <2>9
<1>6. CASE day > 0
  <2> SUFFICES ASSUME increasing, used[1] > 0, 1 .. day \subseteq Nights
               PROVE  /\ day + 1 \in Nights' => /\ rows' # <<>> /\ shown' = 0 /\ reading' > 0
                                                /\ NoneCounts(M!Admitted(rows'), day)
                      /\ day + 1 \notin Unseen' => NoneCounts(M!Admitted(rows'), day)
    <3>1. AllNights' => increasing /\ used[1] > 0 /\ 1 .. day \subseteq Nights /\ day + 1 \in Nights'
      BY <1>2, <1>3, <1>4, <1>6 DEF AllNights
    <3>2. 1 .. day \subseteq Nights' => 1 .. day \subseteq Nights
      BY <1>3
    <3>3. (day + 1) - 1 = day
      BY <1>2
    <3>4. QED
      BY <1>2, <1>4, <1>6, <3>1, <3>2, <3>3 DEF AllRefused
  <2>1. rows # <<>> /\ shown = 0 /\ reading > 0 /\ NoneCounts(M!Admitted(rows), day - 1)
    BY <1>6 DEF AllRefused, AllNights
  <2>2. M!Admitted(rows).register = 0 /\ M!Admitted(rows) \in Accs
    BY <2>1 DEF ReadersType
  <2>3. ASSUME NightDay(w) \/ (~SilentDay(w) /\ ~SwapDay(w))
        PROVE  rows' # <<>> /\ NoneCounts(M!Admitted(rows'), day)
    <3>1. PICK change \in Int : Bucketed(change) /\ change > 0 /\ change >= shown'
      BY <1>1, <1>2, <1>6, <2>1, <2>3, DayClaims
    <3>2. PICK row \in BucketRow : /\ row.start = day + 1 /\ row.change = change /\ row.state = shown'
                                   /\ rows' = Append(rows, row)
      BY <3>1 DEF Bucketed
    <3>3. M!Admitted(rows') = M!Bucket(M!Admitted(rows), row) /\ rows' # <<>>
      BY <3>2, BucketedGoes
    <3>4. NoneCounts(M!Bucket(M!Admitted(rows), row), (day - 1) + 1)
      <4>1. day - 1 \in Int
        BY <1>2
      <4>2. QED
        BY <2>1, <2>2, <3>1, <3>2, <4>1, ClaimIsRefused
    <3>5. (day - 1) + 1 = day
      BY <1>2
    <3>6. QED
      BY <3>3, <3>4, <3>5
  <2>4. NightDay(w) => shown' = 0 /\ reading' > 0
    BY <1>2, <2>1 DEF NightDay
  <2>5. QED
    BY <1>3, <2>3, <2>4
<1>7. QED
  BY <1>2, <1>5, <1>6

\* A behaviour of the meter is one of the parts side by side.
NightsRefused == topic = "meter" => AllRefused

\* Every bucket of the nights is refused in every behaviour of the parts.
LEMMA NightsRefusedHolds == PartsSpec => []NightsRefused
<1>1. PartsInit => NightsRefused
  <2> SUFFICES ASSUME PartsInit, topic = "meter"
               PROVE  AllRefused
    BY DEF NightsRefused
  <2>1. day = 0
    BY DEF PartsInit, M!Init
  <2>2. QED
    BY <2>1 DEF AllRefused
<1>2. MeterBelow /\ NightsRefused /\ [PartsNext]_partsVars => NightsRefused'
  <2> SUFFICES ASSUME MeterBelow, NightsRefused, [PartsNext]_partsVars, topic' = "meter"
               PROVE  AllRefused'
    BY DEF NightsRefused
  <2>1. \/ topic = "meter" /\ M!Next
        \/ topic = "meter" /\ UNCHANGED meterVars
    BY DEF PartsNext, YearNext, PriceNext, MeterNext, ArchiveNext, BillNext, SensorNext, FetchNext,
           CookieNext, partsVars, M!Done, M!vars, meterVars
  <2>2. MeterInv /\ AllRefused
    BY <2>1 DEF MeterBelow, NightsRefused
  <2>3. CASE M!Next
    BY <2>2, <2>3, AllRefusedGoesOn DEF MeterInv
  <2>4. CASE UNCHANGED meterVars
    <3>1. /\ reading' = reading /\ shown' = shown /\ rows' = rows /\ day' = day /\ used' = used
          /\ faults' = faults /\ increasing' = increasing
      BY <2>4 DEF meterVars
    <3>2. Nights' = Nights /\ Unseen' = Unseen
      BY <3>1 DEF M!FaultyDaysOf, Nights, Unseen
    <3>3. QED
      BY <2>2, <3>1, <3>2 DEF AllRefused, AllNights
  <2>5. QED
    BY <2>1, <2>3, <2>4
<1>3. QED
  BY <1>1, <1>2, MeterInvHolds, PTL DEF PartsSpec

\* Of one meter, a dip that is over by the evening, a misread a day could hold and a
\* silence cost no water at all, and a dip past midnight no more than its own day's and
\* the next's; and a year of such nights cannot be read, which is not to read 0
\* (DailyBuckets' OnlyNightsAreLost and RefusedYearIsNotEmpty; meter_reads.py,
\* _admitted_changes and _recorder_ytd_m3).
THEOREM YearLosesOnlyNights ==
  PartsSpec => []OnlyNightsAreLost
<1>1. MeterBelow /\ HouseholdCounts /\ NightsRefused => OnlyNightsAreLost
  <2> SUFFICES ASSUME MeterInv, AllCounts, AllRefused
               PROVE  M!OnlyNightsAreLost /\ M!RefusedYearIsNotEmpty
    BY DEF MeterBelow, HouseholdCounts, NightsRefused, OnlyNightsAreLost
  <2>1. M!OnlyNightsAreLost
    BY OnlyNightsAre DEF M!OnlyNightsAreLost, Good, Nights
  <2>2. M!RefusedYearIsNotEmpty
    <3> SUFFICES ASSUME increasing, day > MinRefusals + 1, used[1] > 0,
                        1 .. day - 1 \subseteq Nights, day \notin Unseen
                 PROVE  M!YearToDateOf(rows) = None
      BY DEF M!RefusedYearIsNotEmpty, Nights, Unseen
    <3>1. day \in Nat /\ MinRefusals \in Nat
      BY PartsAssumption DEF MeterInv, MeterType, M!BucketAssumption
    <3>2. NoneCounts(M!Admitted(rows), day - 1)
      BY <3>1 DEF AllRefused
    <3>3. M!Admitted(rows).refused \in Int
      BY DEF MeterInv, ReadersType, Accs
    <3>4. QED
      BY <3>1, <3>2, <3>3 DEF NoneCounts, M!YearToDateOf
  <2>3. QED
    BY <2>1, <2>2
<1>2. QED
  BY <1>1, MeterInvHolds, HouseholdCountsHolds, NightsRefusedHolds, PTL
=============================================================================
