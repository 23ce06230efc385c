-------------------------- MODULE TariffCardProofs --------------------------
(***************************************************************************)
(* What holds of TariffCard whatever the number of reloads, the archive    *)
(* and the calendar: its types, who speaks for the entry, and the Repair   *)
(* card.                                                                   *)
(***************************************************************************)
EXTENDS TariffCard, TLAPS

InFlight(c) == task[c].pc # "idle"

\* Who may speak for the entry: a refresh belongs to the coordinator of the
\* last setup, or to one that is retired; and before the entry has one, every
\* refresh but the setup's own belongs to a retired one.
Spoken ==
  /\ \A c \in Tasks : InFlight(c) =>
       /\ task[c].of \in 1..current
       /\ task[c].of # current => coord[task[c].of].retired
       /\ (c # Setup /\ entry \in {"not_loaded", "setup", "removed"}) =>
            coord[task[c].of].retired
  /\ InFlight(Setup) => entry = "setup" /\ task[Setup].of = current
  /\ entry \in {"setup", "forward", "loaded", "unloading"} =>
       current # 0 /\ ~coord[current].retired

\* The Repair card and the entry: down before the first refresh publishes,
\* then what the last publication says.
Shown ==
  /\ entry \in {"not_loaded", "setup", "removed"} => ~issue
  /\ entry \in {"forward", "loaded"} =>
       /\ coord[current].data # None
       /\ "flow" \notin Callers => issue = coord[current].data.stale

CardInv == CardTypeOK /\ Spoken /\ Shown

-----------------------------------------------------------------------------
(* The helpers keep their types.                                           *)

\* What a caller has when it has no refresh.
LEMMA NoRefreshType == NoRefresh \in Refreshes /\ NoRefresh.pc = "idle"
BY DEF NoRefresh, Refreshes

\* A refresh that begins.
LEMMA BegunType ==
  ASSUME CardTypeOK, NEW k \in Coordinators
  PROVE  /\ Begun(k) \in Refreshes
         /\ Begun(k).pc = "fetch" /\ Begun(k).of = k
BY DEF Begun, NoRefresh, Refreshes, CardTypeOK

\* A card is only ever judged stale or not.
LEMMA IsStaleType == ASSUME NEW card PROVE IsStale(card) \in BOOLEAN
BY DEF IsStale

\* What a new coordinator keeps.
LEMMA NewCoordinatorType ==
  ASSUME NEW held \in Cards \cup {None}
  PROVE  /\ NewCoordinator(held) \in CoordinatorStates
         /\ ~NewCoordinator(held).retired
BY DEF NewCoordinator, CoordinatorStates

\* Keeping a card touches what is held and what is unsaved.
LEMMA HoldType ==
  ASSUME CardTypeOK, NEW k \in Coordinators, NEW card \in Cards
  PROVE  /\ Hold(k, card) \in CoordinatorStates
         /\ Hold(k, card).retired = coord[k].retired
BY DEF Hold, CoordinatorStates, CardTypeOK

\* Joining the line for the lock touches one refresh, and only its card.
LEMMA JoinLineJoins ==
  ASSUME CardTypeOK, NEW c \in Tasks, NEW card \in Cards, NEW keep \in BOOLEAN,
         JoinLine(c, card, keep)
  PROVE  /\ task' \in [Tasks -> Refreshes]
         /\ task'[c].pc = "fold" /\ task'[c].card = card
         /\ task'[c].of = task[c].of
         /\ \A other \in Tasks \ {c} : task'[other] = task[other]
<1>1. InLine(task[c].of) \in SUBSET Tasks
  BY DEF InLine
<1>0. task[c] \in Refreshes
  BY DEF CardTypeOK
<1>2. [task[c] EXCEPT !.pc = "fold", !.card = card, !.keep = keep,
                      !.ahead = InLine(task[c].of)] \in Refreshes
  BY <1>0, <1>1 DEF Refreshes
<1>3. task' = [task EXCEPT ![c] =
                 [task[c] EXCEPT !.pc = "fold", !.card = card, !.keep = keep,
                                 !.ahead = InLine(task[c].of)]]
  BY DEF JoinLine, CardTypeOK, Refreshes
<1> QED
  BY <1>2, <1>3 DEF CardTypeOK, Refreshes

\* A refresh that ends leaves the others as they were, but for the line.
LEMMA WithoutEnds ==
  ASSUME CardTypeOK, NEW c
  PROVE  /\ Without(c) \in [Tasks -> Refreshes]
         /\ c \in Tasks => Without(c)[c] = NoRefresh
         /\ \A other \in Tasks \ {c} :
              /\ Without(c)[other].pc = task[other].pc
              /\ Without(c)[other].of = task[other].of
              /\ Without(c)[other].card = task[other].card
BY NoRefreshType DEF Without, CardTypeOK, Refreshes

-----------------------------------------------------------------------------
(* The invariant.                                                          *)

\* The initial state satisfies the invariant.
LEMMA CardInit == Init => CardInv
<1> SUFFICES ASSUME Init PROVE CardInv
  OBVIOUS
<1>1. CardTypeOK
  BY NoRefreshType, NewCoordinatorType DEF Init, CardTypeOK, EntryStates
<1>2. Spoken
  BY DEF Init, Spoken, InFlight, NoRefresh, Setup, Tasks
<1>3. Shown
  BY DEF Init, Shown
<1> QED
  BY <1>1, <1>2, <1>3 DEF CardInv

\* A refresh in flight has a coordinator.
LEMMA OfWhom ==
  ASSUME CardInv, NEW c \in Tasks, InFlight(c)
  PROVE  task[c].of \in Coordinators
<1>1. task[c].of \in 1..current /\ current \in {0} \cup Coordinators /\ Setups \in Nat
  BY CardAssumption DEF CardInv, CardTypeOK, Spoken
<1> QED
  BY <1>1 DEF Coordinators

\* A refresh that begins on the coordinator that speaks for the entry.
LEMMA FetchKeeps ==
  ASSUME CardInv, NEW c \in Callers, c # Setup, Fetch(c, current),
         entry \in {"forward", "loaded"},
         UNCHANGED <<clock, entry, current, issue, file>>
  PROVE  CardInv'
<1> USE DEF CardInv
<1>1. current \in Coordinators /\ c \in Tasks
  BY DEF Spoken, CardTypeOK, Tasks
<1>2. task' = [task EXCEPT ![c] = Begun(current)]
      /\ coord' = [coord EXCEPT ![current].recent = TRUE]
  BY DEF Fetch
<1>3. \A k \in Coordinators :
        coord'[k] \in CoordinatorStates /\ coord'[k].retired = coord[k].retired
          /\ coord'[k].data = coord[k].data
  BY <1>1, <1>2 DEF CardTypeOK, CoordinatorStates
<1>4. CardTypeOK'
  <2>1. coord' \in [Coordinators -> CoordinatorStates]
    BY <1>1, <1>2, <1>3 DEF CardTypeOK
  <2>2. task' \in [Tasks -> Refreshes]
    BY <1>1, <1>2, BegunType DEF CardTypeOK
  <2>3. \A d \in Tasks : task'[d].pc = "fold" => task'[d].card # None
    BY <1>1, <1>2, BegunType DEF CardTypeOK
  <2> QED
    BY <2>1, <2>2, <2>3 DEF CardTypeOK
<1>5. Spoken'
  BY <1>1, <1>2, <1>3, BegunType DEF Spoken, InFlight, CardTypeOK, Coordinators
<1>6. Shown'
  BY <1>1, <1>3 DEF Shown
<1> QED
  BY <1>4, <1>5, <1>6

\* A refresh that moves on without ending.
LEMMA MovesOn ==
  ASSUME CardInv, NEW c \in Tasks, InFlight(c),
         task' \in [Tasks -> Refreshes],
         task'[c].of = task[c].of,
         task'[c].pc = "fold" => task'[c].card # None,
         \A other \in Tasks \ {c} : task'[other] = task[other],
         UNCHANGED <<clock, entry, current, coord, issue, file>>
  PROVE  CardInv'
<1> USE DEF CardInv
<1>1. CardTypeOK'
  BY DEF CardTypeOK
<1>2. Spoken'
  <2>1. /\ Setup \in Tasks
        /\ \A d \in Tasks : task'[d].of = task[d].of /\ (InFlight(d)' => InFlight(d))
    BY DEF InFlight, Tasks
  <2> QED
    BY <2>1 DEF Spoken
<1>3. Shown'
  BY DEF Shown
<1> QED
  BY <1>1, <1>2, <1>3
\* The fetch is over, one way or the other.
LEMMA FetchSucceedsKeeps ==
  ASSUME CardInv, NEW c \in Tasks, FetchSucceeds(c) PROVE CardInv'
<1>1. PICK y \in {YearOf(clock), 1} : JoinLine(c, [year |-> y, at |-> clock], TRUE)
  BY DEF FetchSucceeds
<1>2. [year |-> y, at |-> clock] \in Cards
  BY DEF Cards, YearOf, CardInv, CardTypeOK
<1>3. None # [year |-> y, at |-> clock]
  BY <1>2, CardAssumption
<1> QED
  BY <1>1, <1>2, <1>3, JoinLineJoins, MovesOn DEF FetchSucceeds, CardInv, InFlight

\* The fetch failed: what is held is served, or the archive is asked.
LEMMA FetchFailsKeeps ==
  ASSUME CardInv, NEW c \in Tasks, FetchFails(c) PROVE CardInv'
<1> DEFINE held == coord[task[c].of].held
<1>0. held \in Cards \cup {None} /\ InFlight(c)
  <2>1. InFlight(c)
    BY DEF FetchFails, InFlight
  <2>2. task[c].of \in Coordinators
    BY <2>1, OfWhom
  <2> QED
    BY <2>1, <2>2 DEF CardInv, CardTypeOK, CoordinatorStates
<1>1. CASE AsksArchive(held)
  <2>1. task' = [task EXCEPT ![c].pc = "archive", ![c].held = held]
    BY <1>1 DEF FetchFails
  <2>2. task[c] \in Refreshes
    BY DEF CardInv, CardTypeOK
  <2>3. [task[c] EXCEPT !.pc = "archive", !.held = held] \in Refreshes
    BY <1>0, <2>2 DEF Refreshes
  <2>4. task' = [task EXCEPT ![c] = [task[c] EXCEPT !.pc = "archive", !.held = held]]
    BY <2>1 DEF CardInv, CardTypeOK, Refreshes
  <2>5. /\ task' \in [Tasks -> Refreshes] /\ task'[c].of = task[c].of
        /\ task'[c].pc = "archive"
        /\ \A other \in Tasks \ {c} : task'[other] = task[other]
    BY <2>2, <2>3, <2>4 DEF CardInv, CardTypeOK, Refreshes
  <2> QED
    BY <1>0, <2>5, MovesOn DEF FetchFails
<1>2. CASE ~AsksArchive(held)
  <2>1. held \in Cards /\ held # None
    BY <1>0, <1>2 DEF AsksArchive
  <2>2. JoinLine(c, held, FALSE)
    BY <1>2 DEF FetchFails
  <2> QED
    BY <1>0, <2>1, <2>2, JoinLineJoins, MovesOn DEF FetchFails, CardInv
<1> QED
  BY <1>1, <1>2

\* The archive answers: a card to serve, or none and the refresh fails.
LEMMA ArchiveAnswersKeeps ==
  ASSUME CardInv, NEW c \in Tasks, ArchiveAnswers(c) PROVE CardInv'
<1> USE DEF CardInv
<1>1. PICK archived \in Archived \cup {None} :
        LET held == task[c].held
        IN IF Adopts(archived, held)
             THEN JoinLine(c, archived, TRUE) /\ UNCHANGED entry
           ELSE IF held # None
             THEN JoinLine(c, held, FALSE) /\ UNCHANGED entry
           ELSE /\ task' = [task EXCEPT ![c] = NoRefresh]
                /\ entry' = IF c = Setup THEN "not_loaded" ELSE entry
  BY DEF ArchiveAnswers
<1>2. /\ InFlight(c) /\ task[c] \in Refreshes /\ Setup \in Tasks
      /\ UNCHANGED <<clock, current, coord, issue, file>>
  BY DEF ArchiveAnswers, InFlight, CardTypeOK, Tasks
<1>3. archived \in Cards \cup {None} /\ task[c].held \in Cards \cup {None}
  BY <1>2, CardAssumption DEF Archived, Refreshes
<1>4. CASE Adopts(archived, task[c].held)
  <2>1. archived \in Cards /\ archived # None
    BY <1>3, <1>4 DEF Adopts
  <2> QED
    BY <1>1, <1>2, <1>4, <2>1, JoinLineJoins, MovesOn
<1>5. CASE ~Adopts(archived, task[c].held) /\ task[c].held # None
  BY <1>1, <1>2, <1>3, <1>5, JoinLineJoins, MovesOn
<1>6. CASE ~Adopts(archived, task[c].held) /\ task[c].held = None
  <2>1. /\ task' = [task EXCEPT ![c] = NoRefresh]
        /\ entry' = IF c = Setup THEN "not_loaded" ELSE entry
    BY <1>1, <1>6
  <2>2. CardTypeOK'
    BY <1>2, <2>1, NoRefreshType DEF CardTypeOK, EntryStates
  <2>3. /\ ~InFlight(c)'
        /\ \A d \in Tasks : InFlight(d)' => InFlight(d) /\ d # c /\ task'[d].of = task[d].of
    BY <2>1, NoRefreshType DEF InFlight, CardTypeOK
  <2>4. Spoken'
    BY <1>2, <2>1, <2>3 DEF Spoken
  <2>5. Shown'
    BY <1>2, <2>1 DEF Shown, Spoken
  <2> QED
    BY <2>2, <2>4, <2>5
<1> QED
  BY <1>4, <1>5, <1>6

\* A refresh publishes.  Only the coordinator that owns the entry touches the
\* Repair card, and then the card says what it has just published.
LEMMA PublishKeeps ==
  ASSUME CardInv, NEW c \in Tasks, Publish(c) PROVE CardInv'
<1> USE DEF CardInv
<1> DEFINE k == task[c].of
           card == task[c].card
           stale == IsStale(card)
           kept == IF task[c].keep THEN Hold(k, card) ELSE coord[k]
           after == [kept EXCEPT !.data = [card |-> card, stale |-> stale]]
<1>1. /\ InFlight(c) /\ task[c] \in Refreshes /\ Setup \in Tasks
      /\ card \in Cards
      /\ UNCHANGED <<clock, current, file>>
      /\ coord' = [coord EXCEPT ![k] = after]
      /\ issue' = (RepairCard(k, stale) /\ ~FlowClears(c, stale))
      /\ task' = Without(c)
      /\ entry' = IF c = Setup THEN "forward" ELSE entry
  BY DEF Publish, InFlight, CardTypeOK, Refreshes, Tasks
<1>2. k \in Coordinators
  BY <1>1, OfWhom
<1>3. kept \in CoordinatorStates /\ kept.retired = coord[k].retired
  BY <1>1, <1>2, HoldType DEF CardTypeOK
<1>4. stale \in BOOLEAN
  BY IsStaleType
<1>5. /\ after \in CoordinatorStates /\ after.retired = coord[k].retired
      /\ after.data = [card |-> card, stale |-> stale]
  BY <1>1, <1>3, <1>4 DEF CoordinatorStates
<1>6. /\ coord' \in [Coordinators -> CoordinatorStates]
      /\ coord'[k] = after
      /\ \A d \in Coordinators : coord'[d].retired = coord[d].retired
      /\ \A d \in Coordinators \ {k} : coord'[d] = coord[d]
  BY <1>1, <1>2, <1>5 DEF CardTypeOK
<1>7. /\ task' \in [Tasks -> Refreshes] /\ ~InFlight(c)'
      /\ \A d \in Tasks : InFlight(d)' =>
           InFlight(d) /\ d # c /\ task'[d].of = task[d].of
      /\ \A d \in Tasks : task'[d].pc = "fold" => task'[d].card # None
  BY <1>1, WithoutEnds, NoRefreshType DEF InFlight, CardTypeOK
<1>8. CardTypeOK'
  BY <1>1, <1>4, <1>6, <1>7 DEF CardTypeOK, EntryStates, RepairCard, FlowClears
<1>9. Spoken'
  <2>1. \A d \in Tasks : InFlight(d)' => task[d].of \in Coordinators
    BY <1>7, OfWhom
  <2> QED
    BY <1>1, <1>6, <1>7, <2>1 DEF Spoken, CardTypeOK
<1>10. "flow" \notin Callers => ~FlowClears(c, stale)
  BY DEF FlowClears, Tasks, Setup
<1>11. Shown'
  <2>1. CASE coord[k].retired
    <3>1. issue' = (issue /\ ~FlowClears(c, stale))
      BY <1>1, <2>1 DEF RepairCard, Owns
    <3>2. c # Setup
      BY <1>1, <2>1 DEF Spoken
    <3>3. entry' = entry
      BY <1>1, <3>2
    <3>4. entry \in {"forward", "loaded"} => k # current /\ current \in Coordinators
      BY <2>1 DEF Spoken, CardTypeOK
    <3>5. "flow" \notin Callers => issue' = issue
      BY <1>10, <3>1 DEF CardTypeOK
    <3>6. entry \in {"forward", "loaded"} => coord'[current] = coord[current]
      BY <1>6, <3>4
    <3>7. ~issue => ~issue'
      BY <3>1
    <3>8. current' = current
      BY <1>1
    <3> QED
      BY <3>3, <3>5, <3>6, <3>7, <3>8 DEF Shown
  <2>2. CASE ~coord[k].retired
    <3>1. k = current /\ (c # Setup => entry \notin {"not_loaded", "setup", "removed"})
      BY <1>1, <2>2 DEF Spoken
    <3>2. c = Setup => entry = "setup"
      BY <1>1 DEF Spoken
    <3>3. coord'[current].data = [card |-> card, stale |-> stale]
      BY <1>5, <1>6, <3>1
    <3>4. coord'[current].data # None
      BY <1>1, <1>4, <3>3, CardAssumption
    <3>5. CASE entry \in {"setup", "forward", "loaded"}
      <4>1. issue' = (stale /\ ~FlowClears(c, stale))
        BY <1>1, <2>2, <3>5 DEF RepairCard, Owns
      <4>2. "flow" \notin Callers => issue' = stale
        BY <1>4, <1>10, <4>1
      <4>3. entry' \in {"forward", "loaded"} /\ current' = current
        BY <1>1, <3>1, <3>5
      <4>4. coord'[current].data.stale = stale
        BY <3>3
      <4>5. "flow" \notin Callers => issue' = coord'[current].data.stale
        BY <4>2, <4>4
      <4> QED
        BY <3>4, <4>3, <4>5 DEF Shown
    <3>6. CASE entry = "unloading"
      BY <1>1, <3>2, <3>6 DEF Shown
    <3> QED
      BY <3>1, <3>2, <3>5, <3>6 DEF CardTypeOK, EntryStates
  <2> QED
    BY <2>1, <2>2
<1> QED
  BY <1>8, <1>9, <1>11

\* A setup begins with a coordinator of its own.
LEMMA SetupBeginsKeeps ==
  ASSUME CardInv, SetupBegins PROVE CardInv'
<1> USE DEF CardInv
<1> DEFINE k == current + 1
           new == [NewCoordinator(file) EXCEPT !.recent = TRUE]
<1>1. /\ entry = "not_loaded" /\ k \in Coordinators /\ current' = k
      /\ entry' = "setup"
      /\ coord' = [coord EXCEPT ![k] = new]
      /\ task' = [task EXCEPT ![Setup] = Begun(k)]
      /\ UNCHANGED <<clock, issue, file>>
      /\ Setup \in Tasks
  BY DEF SetupBegins, Tasks
<1>2. new \in CoordinatorStates /\ ~new.retired
  BY NewCoordinatorType DEF CardTypeOK, CoordinatorStates
<1>3. Begun(k) \in Refreshes /\ Begun(k).pc = "fetch" /\ Begun(k).of = k
  BY <1>1, BegunType
<1>4. CardTypeOK'
  BY <1>1, <1>2, <1>3 DEF CardTypeOK, EntryStates
<1>5. Spoken'
  <2>1. \A c \in Tasks \ {Setup} : InFlight(c) =>
          /\ task[c].of \in 1..current /\ task[c].of # k
          /\ task[c].of \in Coordinators
          /\ coord[task[c].of].retired
    <3> SUFFICES ASSUME NEW c \in Tasks \ {Setup}, InFlight(c)
                 PROVE  /\ task[c].of \in 1..current /\ task[c].of # k
                        /\ task[c].of \in Coordinators
                        /\ coord[task[c].of].retired
      OBVIOUS
    <3>1. task[c].of \in 1..current /\ current \in Int
      BY <1>1 DEF Spoken, CardTypeOK, Coordinators
    <3>2. task[c].of \in Coordinators
      BY OfWhom
    <3> QED
      BY <1>1, <3>1, <3>2 DEF Spoken
  <2>2. k \in 1..k /\ current \in Int /\ k # 0
    BY <1>1, CardAssumption DEF Coordinators, CardTypeOK
  <2>3. \A c \in Tasks \ {Setup} : InFlight(c)' =>
          InFlight(c) /\ task'[c].of = task[c].of
    BY <1>1 DEF InFlight, CardTypeOK
  <2>4. task'[Setup].of = k /\ coord'[k] = new
    BY <1>1, <1>3 DEF CardTypeOK
  <2>5. \A c \in Tasks \ {Setup} : InFlight(c)' =>
          task'[c].of \in 1..k /\ coord'[task'[c].of].retired
    BY <1>1, <2>1, <2>2, <2>3 DEF CardTypeOK
  <2> QED
    BY <1>1, <1>2, <2>2, <2>4, <2>5 DEF Spoken
<1>6. Shown'
  BY <1>1 DEF Shown
<1> QED
  BY <1>4, <1>5, <1>6

\* A coordinator whose entry forgets it is retired and its card taken down.
LEMMA ForgetForgets ==
  ASSUME CardInv, Forget, current # 0
  PROVE  /\ coord' \in [Coordinators -> CoordinatorStates]
         /\ coord'[current].retired
         /\ \A k \in Coordinators : coord[k].retired => coord'[k].retired
         /\ ~issue' /\ issue' \in BOOLEAN
<1>1. current \in Coordinators
  BY DEF CardInv, CardTypeOK
<1> QED
  BY <1>1 DEF Forget, CardInv, CardTypeOK, CoordinatorStates

\* A setup that fails past its first refresh.
LEMMA SetupBreaksKeeps ==
  ASSUME CardInv, SetupBreaks PROVE CardInv'
<1> USE DEF CardInv
<1>1. /\ entry = "forward" /\ entry' = "not_loaded" /\ current # 0 /\ Forget
      /\ UNCHANGED <<clock, current, task, file>>
  BY DEF SetupBreaks, Spoken
<1>2. CardTypeOK'
  BY <1>1, ForgetForgets DEF CardTypeOK, EntryStates
<1>3. \A c \in Tasks : InFlight(c) => task[c].of \in Coordinators
  BY OfWhom
<1>4. ~InFlight(Setup)
  BY <1>1 DEF Spoken
<1>5. Spoken'
  BY <1>1, <1>3, <1>4, ForgetForgets DEF Spoken, InFlight
<1>6. Shown'
  BY <1>1, ForgetForgets DEF Shown
<1> QED
  BY <1>2, <1>5, <1>6

\* The entry lets go of its coordinator, and the tick's refresh is cancelled.
LEMMA UnloadEndsKeeps ==
  ASSUME CardInv, UnloadEnds PROVE CardInv'
<1> USE DEF CardInv
<1>1. /\ entry = "unloading" /\ entry' = "not_loaded" /\ current # 0 /\ Forget
      /\ task' = Without("tick")
      /\ UNCHANGED <<clock, current, file>>
  BY DEF UnloadEnds, Spoken
<1>2. /\ task' \in [Tasks -> Refreshes]
      /\ \A c \in Tasks : InFlight(c)' => InFlight(c) /\ task'[c].of = task[c].of
      /\ \A c \in Tasks : task'[c].pc = "fold" => task'[c].card # None
  <2>1. /\ task' \in [Tasks -> Refreshes]
        /\ "tick" \in Tasks => task'["tick"] = NoRefresh
        /\ \A c \in Tasks \ {"tick"} :
             task'[c].pc = task[c].pc /\ task'[c].of = task[c].of
               /\ task'[c].card = task[c].card
    BY <1>1, WithoutEnds
  <2> QED
    BY <2>1, NoRefreshType DEF InFlight, CardTypeOK
<1>3. CardTypeOK'
  BY <1>1, <1>2, ForgetForgets DEF CardTypeOK, EntryStates
<1>4. \A c \in Tasks : InFlight(c) => task[c].of \in Coordinators
  BY OfWhom
<1>5. ~InFlight(Setup) /\ Setup \in Tasks
  BY <1>1 DEF Spoken, Tasks
<1>6. Spoken'
  BY <1>1, <1>2, <1>4, <1>5, ForgetForgets DEF Spoken
<1>7. Shown'
  BY <1>1, ForgetForgets DEF Shown
<1> QED
  BY <1>3, <1>6, <1>7

\* A restart leaves the file and nothing else.
LEMMA CrashKeeps ==
  ASSUME CardInv, Crash PROVE CardInv'
<1> USE DEF CardInv
<1> DEFINE dead == [NewCoordinator(None) EXCEPT !.retired = TRUE]
<1>1. /\ entry' \in {"removed", "not_loaded"}
      /\ coord' = [k \in Coordinators |-> dead]
      /\ task' = [c \in Tasks |-> NoRefresh]
      /\ issue' = FALSE
      /\ UNCHANGED <<clock, current, file>>
  BY DEF Crash
<1>2. dead \in CoordinatorStates
  BY DEF NewCoordinator, CoordinatorStates
<1>3. CardTypeOK'
  BY <1>1, <1>2, NoRefreshType DEF CardTypeOK, EntryStates
<1>4. Setup \in Tasks /\ \A c \in Tasks : ~InFlight(c)'
  BY <1>1, NoRefreshType DEF InFlight, Tasks
<1>5. Spoken'
  BY <1>1, <1>4 DEF Spoken
<1>6. Shown'
  BY <1>1 DEF Shown
<1> QED
  BY <1>3, <1>5, <1>6

\* The rest of the entry's life touches its state alone, or the file.
LEMMA LifeKeeps ==
  ASSUME CardInv, SetupEnds \/ UnloadBegins \/ RemoveEntry PROVE CardInv'
<1> USE DEF CardInv
<1>1. CASE SetupEnds
  BY <1>1 DEF SetupEnds, CardTypeOK, EntryStates, Spoken, Shown, InFlight
<1>2. CASE UnloadBegins
  BY <1>2 DEF UnloadBegins, CardTypeOK, EntryStates, Spoken, Shown, InFlight
<1>3. CASE RemoveEntry
  BY <1>3 DEF RemoveEntry, CardTypeOK, EntryStates, Spoken, Shown, InFlight
<1> QED
  BY <1>1, <1>2, <1>3

\* A delayed save and the end of an interval touch what is unsaved, the file
\* and the gate.
LEMMA TimersKeep ==
  ASSUME CardInv, NEW k \in Coordinators, DelayedSave(k) \/ IntervalEnds(k)
  PROVE  CardInv'
<1> USE DEF CardInv
<1>1. /\ UNCHANGED <<clock, entry, current, task, issue>>
      /\ file' \in Cards \cup {None}
      /\ coord' \in [Coordinators -> CoordinatorStates]
      /\ \A d \in Coordinators :
           coord'[d].retired = coord[d].retired /\ coord'[d].data = coord[d].data
  <2>1. CASE DelayedSave(k)
    BY <2>1 DEF DelayedSave, CardTypeOK, CoordinatorStates
  <2>2. CASE IntervalEnds(k)
    BY <2>2 DEF IntervalEnds, CardTypeOK, CoordinatorStates
  <2> QED
    BY <2>1, <2>2
<1>2. CardTypeOK'
  BY <1>1 DEF CardTypeOK
<1>3. \A c \in Tasks : InFlight(c) => task[c].of \in Coordinators
  BY OfWhom
<1>4. current # 0 => current \in Coordinators
  BY DEF CardTypeOK
<1>5. Spoken'
  BY <1>1, <1>3, <1>4 DEF Spoken, InFlight
<1>6. Shown'
  BY <1>1, <1>4 DEF Shown, Spoken
<1> QED
  BY <1>2, <1>5, <1>6

\* Every step keeps the invariant.
LEMMA CardNext == CardInv /\ [Next]_vars => CardInv'
<1> SUFFICES ASSUME CardInv, [Next]_vars PROVE CardInv'
  OBVIOUS
<1>1. CASE TickStart
  BY <1>1, FetchKeeps DEF TickStart, Setup
<1>2. CASE Press
  BY <1>2, FetchKeeps DEF Press, Setup
<1>3. CASE RefreshAction
  BY <1>3, FetchKeeps DEF RefreshAction, Setup
<1>4. CASE RepairRetry
  <2>1. entry \in {"forward", "loaded"}
    BY <1>4 DEF RepairRetry, Owns, CardInv, Shown
  <2> QED
    BY <1>4, <2>1, FetchKeeps DEF RepairRetry, Setup
<1>5. ASSUME NEW c \in Tasks, Progress(c) PROVE CardInv'
  BY <1>5, FetchSucceedsKeeps, FetchFailsKeeps, ArchiveAnswersKeeps, PublishKeeps
     DEF Progress
<1>6. CASE Life
  BY <1>6, SetupBeginsKeeps, SetupBreaksKeeps, UnloadEndsKeeps, CrashKeeps, LifeKeeps
     DEF Life
<1>7. ASSUME NEW k \in Coordinators, DelayedSave(k) \/ IntervalEnds(k) PROVE CardInv'
  BY <1>7, TimersKeep
<1>8. CASE NextDay
  BY <1>8 DEF NextDay, CardInv, CardTypeOK, Spoken, Shown, InFlight
<1>9. CASE UNCHANGED vars
  BY <1>9 DEF vars, CardInv, CardTypeOK, Spoken, Shown, InFlight
<1> QED
  BY <1>1, <1>2, <1>3, <1>4, <1>5, <1>6, <1>7, <1>8, <1>9 DEF Next, Refresh

-----------------------------------------------------------------------------
(* The theorems.                                                           *)

\* The invariant holds of every reachable state.
THEOREM CardInvariance == Spec => []CardInv
BY CardInit, CardNext, PTL DEF Spec

\* Every coordinator, refresh and file is of its type, and no refresh waits to
\* publish a card it does not have.
THEOREM CardTypeCorrect == Spec => []CardTypeOK
<1>1. CardInv => CardTypeOK
  BY DEF CardInv
<1> QED
  BY <1>1, CardInvariance, PTL

\* The Repair card never outlives its entry's coordinator, however many times
\* the entry is set up and whatever is in flight when it unloads.
THEOREM NoOrphanedCard == Spec => []NoCardWithoutAnEntry
<1>1. CardInv => NoCardWithoutAnEntry
  BY DEF CardInv, CardTypeOK, EntryStates, Shown, NoCardWithoutAnEntry
<1> QED
  BY <1>1, CardInvariance, PTL

\* Without a Repair flow in flight a loaded entry shows the Repair card exactly
\* while it publishes a stale card, for any number of reloads.
THEOREM CardTellsTheTruth ==
  ASSUME "flow" \notin Callers
  PROVE  Spec => []StaleIsShown
<1>1. CardInv => StaleIsShown
  BY DEF CardInv, Shown, StaleIsShown, Loaded
<1> QED
  BY <1>1, CardInvariance, PTL

-----------------------------------------------------------------------------
(* One refresh at a time: the card held, published and saved.              *)

OneCaller == \A c, d \in Callers : c = d

\* No card is from a day still to come.
NotAhead ==
  /\ \A k \in Coordinators :
       /\ coord[k].held # None => coord[k].held.at <= clock
       /\ coord[k].unsaved # None => coord[k].unsaved.at <= clock
  /\ file # None => file.at <= clock

\* A refresh has read what its coordinator still holds: it will publish that card,
\* or keep one that is no older.
Waiting ==
  \A c \in Tasks : InFlight(c) =>
    LET held == coord[task[c].of].held
    IN /\ task[c].pc = "archive" => task[c].held = held
       /\ task[c].pc = "fold" =>
            /\ task[c].card.at <= clock
            /\ task[c].keep => held = None \/ task[c].card.at >= held.at
            /\ ~task[c].keep => task[c].card = held

\* What is published is what is held.
Published ==
  \A k \in Coordinators : coord[k].data # None => coord[k].data.card = coord[k].held

HeldInv == CardInv /\ NotAhead /\ Waiting /\ Published

\* A step that leaves what coordinator k holds, publishes and has to save.
Stands(k) ==
  /\ coord'[k].held = coord[k].held
  /\ coord'[k].unsaved = coord[k].unsaved
  /\ coord'[k].data = coord[k].data
  /\ ~coord'[k].retired => ~coord[k].retired

\* What is known of a refresh and of its coordinator.
LEMMA TypesAre ==
  ASSUME CardInv
  PROVE  /\ clock \in Nat /\ current \in Nat /\ Setups \in Nat /\ file \in Cards \cup {None}
         /\ None \notin Cards /\ \A card \in Cards : card.at \in Nat
         /\ \A k \in Coordinators :
              /\ coord[k].held \in Cards \cup {None} /\ coord[k].unsaved \in Cards \cup {None}
              /\ coord[k].data \in [card : Cards, stale : BOOLEAN] \cup {None}
         /\ \A c \in Tasks : InFlight(c) => task[c].of \in Coordinators /\ task[c].of \in 1 .. current
         /\ \A c \in Tasks : task[c].pc = "fold" => InFlight(c) /\ task[c].card \in Cards
<1>1. \A c \in Tasks : InFlight(c) => task[c].of \in Coordinators /\ task[c].of \in 1 .. current
  BY OfWhom DEF CardInv, Spoken
<1>2. \A k \in Coordinators : coord[k] \in CoordinatorStates
  BY DEF CardInv, CardTypeOK
<1>3. \A c \in Tasks : task[c].pc = "fold" => InFlight(c) /\ task[c].card \in Cards
  BY DEF CardInv, CardTypeOK, Refreshes, InFlight
<1>4. None \notin Cards /\ \A card \in Cards : card.at \in Nat
  BY CardAssumption DEF Cards
<1>5. clock \in Nat /\ current \in Nat /\ Setups \in Nat /\ file \in Cards \cup {None}
  BY CardAssumption DEF CardInv, CardTypeOK, Coordinators
<1> QED
  BY <1>1, <1>2, <1>3, <1>4, <1>5 DEF CoordinatorStates

\* Two refreshes in flight are of two coordinators: the setup's own is of the new
\* one, the caller's of one that is retired.
LEMMA Alone ==
  ASSUME OneCaller, CardInv, NEW c \in Tasks, NEW d \in Tasks, c # d, InFlight(c), InFlight(d)
  PROVE  task[c].of # task[d].of
<1>1. ASSUME NEW e \in Tasks \ {Setup}, InFlight(e), InFlight(Setup)
      PROVE  task[e].of # task[Setup].of
  BY <1>1 DEF CardInv, Spoken
<1>2. c = Setup \/ d = Setup
  BY DEF OneCaller, Tasks
<1> QED
  BY <1>1, <1>2

\* A step that holds, publishes and saves nothing, and leaves every refresh waiting.
LEMMA StandsHolds ==
  ASSUME HeldInv, CardInv', \A k \in Coordinators : Stands(k),
         clock <= clock', clock' \in Nat, file' = file \/ file' = None, Waiting'
  PROVE  HeldInv'
<1>1. NotAhead'
  BY TypesAre DEF HeldInv, NotAhead, Stands
<1>2. Published'
  BY DEF HeldInv, Published, Stands
<1> QED
  BY <1>1, <1>2 DEF HeldInv

\* A refresh is as it was, but for the line.
AsItWas(c) ==
  /\ task'[c].pc = task[c].pc /\ task'[c].of = task[c].of /\ task'[c].held = task[c].held
  /\ task'[c].card = task[c].card /\ task'[c].keep = task[c].keep

\* Those still in flight are as they were, or just fetching.
LEMMA StillWaiting ==
  ASSUME HeldInv, \A k \in Coordinators : Stands(k), clock <= clock', clock' \in Nat,
         \A c \in Tasks : \/ task'[c].pc \in {"idle", "fetch"}
                          \/ AsItWas(c)
  PROVE  Waiting'
<1> SUFFICES ASSUME NEW c \in Tasks, InFlight(c)'
             PROVE  LET held == coord'[task'[c].of].held
                    IN /\ task'[c].pc = "archive" => task'[c].held = held
                       /\ task'[c].pc = "fold" =>
                            /\ task'[c].card.at <= clock'
                            /\ task'[c].keep => held = None \/ task'[c].card.at >= held.at
                            /\ ~task'[c].keep => task'[c].card = held
  BY DEF Waiting
<1>1. CASE task'[c].pc \in {"idle", "fetch"}
  BY <1>1
<1>2. CASE AsItWas(c)
  <2>1. InFlight(c)
    BY <1>2 DEF AsItWas, InFlight
  <2>2. task[c].of \in Coordinators
    BY <2>1, TypesAre DEF HeldInv
  <2>3. coord'[task'[c].of].held = coord[task[c].of].held
    BY <1>2, <2>2 DEF AsItWas, Stands
  <2>4. task[c].pc = "fold" => task[c].card.at \in Nat /\ clock \in Nat
    BY TypesAre DEF HeldInv
  <2> QED
    BY <1>2, <2>1, <2>3, <2>4 DEF AsItWas, HeldInv, Waiting
<1> QED
  BY <1>1, <1>2

\* Without a refresh the others are as they were.
LEMMA WithoutLeaves ==
  ASSUME CardInv, NEW c \in Tasks, NEW d \in Tasks, c # d, task' = Without(c)
  PROVE  AsItWas(d)
BY DEF AsItWas, Without, CardInv, CardTypeOK, Refreshes

\* A refresh joins the line with a card in hand.
LEMMA JoinsInHand ==
  ASSUME HeldInv, NEW c \in Tasks, InFlight(c), NEW card \in Cards, NEW keep \in BOOLEAN,
         JoinLine(c, card, keep), UNCHANGED <<clock, coord>>, card.at <= clock,
         NEW held, held = coord[task[c].of].held,
         keep => held = None \/ card.at >= held.at, ~keep => card = held
  PROVE  Waiting'
<1>1. task[c] \in Refreshes
  BY DEF HeldInv, CardInv, CardTypeOK
<1>2. /\ task'[c].pc = "fold" /\ task'[c].card = card /\ task'[c].of = task[c].of
      /\ \A d \in Tasks \ {c} : task'[d] = task[d]
  BY JoinLineJoins DEF HeldInv, CardInv
<1>3. task'[c].keep = keep
  BY <1>1 DEF JoinLine, HeldInv, CardInv, CardTypeOK, Refreshes
<1>4. ASSUME NEW d \in Tasks, d # c, InFlight(d)'
      PROVE  LET was == coord'[task'[d].of].held
             IN /\ task'[d].pc = "archive" => task'[d].held = was
                /\ task'[d].pc = "fold" =>
                     /\ task'[d].card.at <= clock'
                     /\ task'[d].keep => was = None \/ task'[d].card.at >= was.at
                     /\ ~task'[d].keep => task'[d].card = was
  <2>1. task'[d] = task[d] /\ InFlight(d)
    BY <1>2, <1>4 DEF InFlight
  <2> QED
    BY <2>1 DEF HeldInv, Waiting
<1>5. coord'[task'[c].of].held = held
  BY <1>2
<1> QED
  BY <1>2, <1>3, <1>4, <1>5 DEF Waiting

\* A refresh begins.
LEMMA FetchHolds ==
  ASSUME HeldInv, CardInv', NEW c \in Tasks, Fetch(c, current), current \in Coordinators,
         UNCHANGED <<clock, entry, current, issue, file>>
  PROVE  HeldInv' /\ \A k \in Coordinators : Stands(k)
<1>1. /\ task' = [task EXCEPT ![c] = Begun(current)]
      /\ coord' = [coord EXCEPT ![current].recent = TRUE]
  BY DEF Fetch
<1>2. \A k \in Coordinators : coord[k] \in CoordinatorStates
  BY DEF HeldInv, CardInv, CardTypeOK
<1>3. \A k \in Coordinators : Stands(k)
  BY <1>1, <1>2 DEF Stands, HeldInv, CardInv, CardTypeOK, CoordinatorStates
<1>4. \A d \in Tasks : task'[d].pc = "fetch" \/ task'[d] = task[d]
  BY <1>1, BegunType DEF HeldInv, CardInv, CardTypeOK
<1>5. Waiting'
  BY <1>3, <1>4, StillWaiting, TypesAre DEF AsItWas, HeldInv
<1> QED
  BY <1>3, <1>5, StandsHolds, TypesAre DEF HeldInv

\* The fetch is over, one way or the other, or the archive has answered.
LEMMA FetchSucceedsHolds ==
  ASSUME HeldInv, CardInv', NEW c \in Tasks, FetchSucceeds(c)
  PROVE  HeldInv' /\ \A k \in Coordinators : Stands(k)
<1>1. PICK y \in {YearOf(clock), 1} : JoinLine(c, [year |-> y, at |-> clock], TRUE)
  BY DEF FetchSucceeds
<1>2. /\ [year |-> y, at |-> clock] \in Cards /\ InFlight(c)
      /\ UNCHANGED <<clock, entry, current, coord, issue, file>>
  BY DEF Cards, YearOf, HeldInv, CardInv, CardTypeOK, FetchSucceeds, InFlight
<1>3. task[c].of \in Coordinators /\ clock \in Nat
  BY <1>2, TypesAre DEF HeldInv
<1>4. coord[task[c].of].held # None => coord[task[c].of].held.at <= clock
  BY <1>3 DEF HeldInv, NotAhead
<1>5. Waiting'
  <2> DEFINE card == [year |-> y, at |-> clock]
  <2>1. card \in Cards /\ card.at = clock /\ JoinLine(c, card, TRUE)
    BY <1>1, <1>2
  <2> HIDE DEF card
  <2>2. card.at <= clock /\ (coord[task[c].of].held # None => card.at >= coord[task[c].of].held.at)
    BY <1>3, <1>4, <2>1, TypesAre DEF HeldInv
  <2> QED
    BY <1>2, <2>1, <2>2, JoinsInHand
<1>6. \A k \in Coordinators : Stands(k)
  BY <1>2 DEF Stands
<1> QED
  BY <1>2, <1>3, <1>5, <1>6, StandsHolds DEF HeldInv

LEMMA FetchFailsHolds ==
  ASSUME HeldInv, CardInv', NEW c \in Tasks, FetchFails(c)
  PROVE  HeldInv' /\ \A k \in Coordinators : Stands(k)
<1>1. InFlight(c) /\ UNCHANGED <<clock, entry, current, coord, issue, file>>
  BY DEF FetchFails, InFlight
<1> SUFFICES ASSUME NEW held, held = coord[task[c].of].held
             PROVE  HeldInv' /\ \A k \in Coordinators : Stands(k)
  OBVIOUS
<1>2. /\ task[c].of \in Coordinators /\ clock \in Nat /\ held \in Cards \cup {None}
      /\ held # None => held.at <= clock
  BY <1>1, TypesAre DEF HeldInv, NotAhead
<1>3. Waiting'
  <2>1. CASE AsksArchive(held)
    <3>1. task' = [task EXCEPT ![c].pc = "archive", ![c].held = held]
      BY <2>1 DEF FetchFails
    <3>2. /\ task'[c].pc = "archive" /\ task'[c].held = held /\ task'[c].of = task[c].of
          /\ \A d \in Tasks \ {c} : task'[d] = task[d]
      BY <3>1 DEF HeldInv, CardInv, CardTypeOK, Refreshes
    <3>3. coord' = coord /\ clock' = clock /\ coord'[task'[c].of].held = held
      BY <1>1, <3>2
    <3>4. ASSUME NEW d \in Tasks, d # c, InFlight(d)'
          PROVE  LET was == coord'[task'[d].of].held
                 IN /\ task'[d].pc = "archive" => task'[d].held = was
                    /\ task'[d].pc = "fold" =>
                         /\ task'[d].card.at <= clock'
                         /\ task'[d].keep => was = None \/ task'[d].card.at >= was.at
                         /\ ~task'[d].keep => task'[d].card = was
      <4>1. task'[d] = task[d] /\ InFlight(d)
        BY <3>2, <3>4 DEF InFlight
      <4> QED
        BY <3>3, <4>1 DEF HeldInv, Waiting
    <3> QED
      BY <3>2, <3>3, <3>4 DEF Waiting
  <2>2. CASE ~AsksArchive(held)
    <3>1. held \in Cards /\ JoinLine(c, held, FALSE)
      BY <1>2, <2>2 DEF FetchFails, AsksArchive
    <3> QED
      BY <1>1, <1>2, <3>1, JoinsInHand, TypesAre DEF HeldInv
  <2> QED
    BY <2>1, <2>2
<1>4. \A k \in Coordinators : Stands(k)
  BY <1>1 DEF Stands
<1> QED
  BY <1>1, <1>2, <1>3, <1>4, StandsHolds DEF HeldInv

LEMMA ArchiveAnswersHolds ==
  ASSUME HeldInv, CardInv', NEW c \in Tasks, ArchiveAnswers(c)
  PROVE  HeldInv' /\ \A k \in Coordinators : Stands(k)
<1>1. PICK archived \in Archived \cup {None} :
        LET held == task[c].held
        IN IF Adopts(archived, held)
             THEN JoinLine(c, archived, TRUE) /\ UNCHANGED entry
           ELSE IF held # None
             THEN JoinLine(c, held, FALSE) /\ UNCHANGED entry
           ELSE /\ task' = [task EXCEPT ![c] = NoRefresh]
                /\ entry' = IF c = Setup THEN "not_loaded" ELSE entry
  BY DEF ArchiveAnswers
<1>2. /\ InFlight(c) /\ task[c].pc = "archive"
      /\ UNCHANGED <<clock, current, coord, issue, file>>
  BY DEF ArchiveAnswers, InFlight
<1> SUFFICES ASSUME NEW held, held = coord[task[c].of].held
             PROVE  HeldInv' /\ \A k \in Coordinators : Stands(k)
  OBVIOUS
<1>3. task[c].held = held
  BY <1>2 DEF HeldInv, Waiting
<1>4. /\ task[c].of \in Coordinators /\ clock \in Nat /\ held \in Cards \cup {None}
      /\ held # None => held.at <= clock
  BY <1>2, TypesAre DEF HeldInv, NotAhead
<1>5. archived # None => archived \in Cards /\ archived.at <= clock
  BY CardAssumption DEF Archived
<1>6. \A k \in Coordinators : Stands(k)
  BY <1>2 DEF Stands
<1>7. Waiting'
  <2>1. CASE Adopts(archived, held)
    <3>1. /\ archived \in Cards /\ archived.at <= clock /\ JoinLine(c, archived, TRUE)
          /\ held = None \/ archived.at > held.at
      BY <1>1, <1>3, <1>5, <2>1 DEF Adopts
    <3>2. held # None => archived.at >= held.at
      BY <1>4, <3>1, TypesAre DEF HeldInv
    <3> QED
      BY <1>2, <3>1, <3>2, JoinsInHand
  <2>2. CASE ~Adopts(archived, held) /\ held # None
    BY <1>1, <1>2, <1>3, <1>4, <2>2, JoinsInHand
  <2>3. CASE ~Adopts(archived, held) /\ held = None
    <3>1. task' = [task EXCEPT ![c] = NoRefresh]
      BY <1>1, <1>3, <2>3
    <3>2. \A d \in Tasks : task'[d].pc \in {"idle", "fetch"} \/ AsItWas(d)
      BY <3>1, NoRefreshType DEF AsItWas, HeldInv, CardInv, CardTypeOK
    <3> QED
      BY <1>2, <1>4, <1>6, <3>2, StillWaiting
  <2> QED
    BY <2>1, <2>2, <2>3
<1> QED
  BY <1>2, <1>4, <1>6, <1>7, StandsHolds

\* What a refresh publishes it holds, and has to save if its coordinator still owns
\* the entry; it is no older than what was held.
LEMMA PublishHolds ==
  ASSUME OneCaller, HeldInv, CardInv', NEW c \in Tasks, Publish(c), NEW k, k = task[c].of,
         NEW card, card = task[c].card
  PROVE  /\ HeldInv' /\ k \in Coordinators /\ k \in 1 .. current /\ card \in Cards
         /\ coord'[k].held = card /\ coord'[k].retired = coord[k].retired
         /\ coord[k].held # None => card.at >= coord[k].held.at
         /\ \/ coord'[k].unsaved = card /\ Owns(k)
            \/ coord'[k].unsaved = coord[k].unsaved /\ (Owns(k) => card = coord[k].held)
         /\ \A d \in Coordinators \ {k} : coord'[d] = coord[d]
         /\ UNCHANGED <<clock, current, file>>
         /\ entry' = IF c = Setup THEN "forward" ELSE entry
<1> DEFINE kept == IF task[c].keep THEN Hold(k, card) ELSE coord[k]
           after == [kept EXCEPT !.data = [card |-> card, stale |-> IsStale(card)]]
<1>1. /\ task[c].pc = "fold" /\ InFlight(c) /\ task' = Without(c)
      /\ coord' = [coord EXCEPT ![k] = after] /\ UNCHANGED <<clock, current, file>>
      /\ entry' = IF c = Setup THEN "forward" ELSE entry
  BY DEF Publish, InFlight
<1>2. /\ k \in Coordinators /\ k \in 1 .. current /\ card \in Cards /\ coord[k] \in CoordinatorStates
      /\ clock \in Nat /\ card.at \in Nat
  BY <1>1, TypesAre DEF HeldInv, CardInv, CardTypeOK
<1>3. /\ card.at <= clock
      /\ task[c].keep => coord[k].held = None \/ card.at >= coord[k].held.at
      /\ ~task[c].keep => card = coord[k].held
  BY <1>1 DEF HeldInv, Waiting
<1>4. /\ kept.held = card /\ kept.retired = coord[k].retired /\ kept \in CoordinatorStates
      /\ \/ kept.unsaved = card /\ Owns(k)
         \/ kept.unsaved = coord[k].unsaved /\ (Owns(k) => card = coord[k].held)
  <2>1. CASE task[c].keep
    <3>1. kept = [coord[k] EXCEPT !.held = card, !.unsaved = IF Owns(k) THEN card ELSE coord[k].unsaved]
      BY <2>1 DEF Hold
    <3>2. CASE Owns(k)
      BY <1>2, <3>1, <3>2 DEF CoordinatorStates
    <3>3. CASE ~Owns(k)
      BY <1>2, <3>1, <3>3 DEF CoordinatorStates
    <3> QED
      BY <3>2, <3>3
  <2>2. CASE ~task[c].keep
    BY <1>2, <1>3, <2>2
  <2> QED
    BY <2>1, <2>2
<1> HIDE DEF kept
<1>5. /\ coord'[k].held = card /\ coord'[k].retired = coord[k].retired
      /\ coord'[k].unsaved = kept.unsaved /\ coord'[k].data.card = card
      /\ \A d \in Coordinators \ {k} : coord'[d] = coord[d]
  <2>1. after.held = card /\ after.retired = coord[k].retired /\ after.unsaved = kept.unsaved
        /\ after.data = [card |-> card, stale |-> IsStale(card)]
    BY <1>4 DEF CoordinatorStates
  <2>2. coord'[k] = after /\ \A d \in Coordinators \ {k} : coord'[d] = coord[d]
    BY <1>1, <1>2 DEF HeldInv, CardInv, CardTypeOK
  <2> HIDE DEF after
  <2> QED
    BY <2>1, <2>2
<1>6. coord[k].held # None => card.at >= coord[k].held.at
  BY <1>2, <1>3, TypesAre DEF HeldInv
<1>7. NotAhead'
  BY <1>1, <1>2, <1>3, <1>4, <1>5 DEF HeldInv, NotAhead
<1>8. Published'
  BY <1>5 DEF HeldInv, Published
<1>9. Waiting'
  <2>1. ASSUME NEW d \in Tasks, InFlight(d)'
        PROVE  /\ d # c /\ AsItWas(d) /\ InFlight(d)
               /\ coord'[task[d].of].held = coord[task[d].of].held
    <3>1. d # c
      BY <1>1, <2>1, WithoutEnds, NoRefreshType DEF InFlight, HeldInv, CardInv
    <3>2. AsItWas(d) /\ InFlight(d)
      BY <1>1, <2>1, <3>1, WithoutLeaves DEF HeldInv, AsItWas, InFlight
    <3>3. task[d].of # k /\ task[d].of \in Coordinators
      BY <1>1, <3>1, <3>2, Alone, TypesAre DEF HeldInv
    <3> QED
      BY <1>5, <3>1, <3>2, <3>3
  <2> QED
    BY <1>1, <2>1 DEF AsItWas, HeldInv, Waiting
<1> QED
  BY <1>1, <1>2, <1>4, <1>5, <1>6, <1>7, <1>8, <1>9 DEF HeldInv

\* A delayed save puts in the file what its coordinator had to save.
LEMMA DelayedSaveHolds ==
  ASSUME HeldInv, CardInv', NEW k \in Coordinators, DelayedSave(k)
  PROVE  /\ HeldInv' /\ coord'[k].unsaved = None /\ file' = coord[k].unsaved
         /\ \A d \in Coordinators : /\ coord'[d].held = coord[d].held
                                    /\ coord'[d].retired = coord[d].retired
                                    /\ d # k => coord'[d].unsaved = coord[d].unsaved
<1>1. /\ file' = coord[k].unsaved /\ coord' = [coord EXCEPT ![k].unsaved = None]
      /\ coord[k].unsaved # None /\ UNCHANGED <<clock, entry, current, task, issue>>
  BY DEF DelayedSave
<1>2. \A d \in Coordinators : coord[d] \in CoordinatorStates
  BY DEF HeldInv, CardInv, CardTypeOK
<1>3. /\ coord'[k].unsaved = None
      /\ \A d \in Coordinators : /\ coord'[d].held = coord[d].held /\ coord'[d].data = coord[d].data
                                 /\ coord'[d].retired = coord[d].retired
                                 /\ d # k => coord'[d].unsaved = coord[d].unsaved
  BY <1>1, <1>2 DEF HeldInv, CardInv, CardTypeOK, CoordinatorStates
<1>4. NotAhead'
  BY <1>1, <1>3 DEF HeldInv, NotAhead
<1>5. Waiting'
  <2>1. \A c \in Tasks : InFlight(c) => coord'[task[c].of].held = coord[task[c].of].held
    BY <1>3, TypesAre DEF HeldInv
  <2> QED
    BY <1>1, <2>1 DEF HeldInv, Waiting, InFlight
<1>6. Published'
  BY <1>3 DEF HeldInv, Published
<1> QED
  BY <1>1, <1>3, <1>4, <1>5, <1>6 DEF HeldInv

\* A setup's coordinator holds what the file has.
LEMMA SetupBeginsHolds ==
  ASSUME HeldInv, CardInv', SetupBegins, NEW k, k = current + 1
  PROVE  /\ HeldInv' /\ k \in Coordinators /\ current' = k
         /\ coord'[k].held = file /\ coord'[k].unsaved = None
         /\ \A d \in Coordinators \ {k} : coord'[d] = coord[d]
<1> DEFINE new == [NewCoordinator(file) EXCEPT !.recent = TRUE]
<1>1. /\ k \in Coordinators /\ current' = k
      /\ coord' = [coord EXCEPT ![k] = new] /\ task' = [task EXCEPT ![Setup] = Begun(k)]
      /\ UNCHANGED <<clock, issue, file>>
  BY DEF SetupBegins
<1>2. new.held = file /\ new.unsaved = None /\ new.data = None
  BY DEF NewCoordinator
<1>3. /\ coord'[k] = new /\ \A d \in Coordinators \ {k} : coord'[d] = coord[d]
  BY <1>1 DEF HeldInv, CardInv, CardTypeOK
<1> HIDE DEF new
<1>4. NotAhead'
  BY <1>1, <1>2, <1>3 DEF HeldInv, NotAhead
<1>5. Published'
  BY <1>2, <1>3 DEF HeldInv, Published
<1>6. Waiting'
  <2>1. Begun(k).pc = "fetch"
    BY <1>1, BegunType DEF HeldInv, CardInv
  <2>2. \A c \in Tasks : \/ task'[c].pc = "fetch"
                         \/ task'[c] = task[c]
    BY <1>1, <2>1 DEF HeldInv, CardInv, CardTypeOK
  <2>3. \A c \in Tasks : InFlight(c) => task[c].of # k /\ task[c].of \in Coordinators
    BY TypesAre DEF HeldInv
  <2>4. \A c \in Tasks : InFlight(c) => coord'[task[c].of].held = coord[task[c].of].held
    BY <1>3, <2>3
  <2> QED
    BY <1>1, <2>2, <2>4 DEF HeldInv, Waiting, InFlight
<1> QED
  BY <1>1, <1>2, <1>3, <1>4, <1>5, <1>6 DEF HeldInv

\* A crash leaves the file alone.
LEMMA CrashHolds ==
  ASSUME HeldInv, CardInv', Crash
  PROVE  /\ HeldInv' /\ entry' \in {"removed", "not_loaded"}
         /\ \A k \in Coordinators : coord'[k].unsaved = None /\ coord'[k].retired
<1>1. /\ entry' \in {"removed", "not_loaded"}
      /\ coord' = [k \in Coordinators |-> [NewCoordinator(None) EXCEPT !.retired = TRUE]]
      /\ task' = [c \in Tasks |-> NoRefresh]
      /\ UNCHANGED <<clock, current, file>>
  BY DEF Crash
<1>2. \A k \in Coordinators : /\ coord'[k].held = None /\ coord'[k].unsaved = None
                              /\ coord'[k].data = None /\ coord'[k].retired
  BY <1>1 DEF NewCoordinator
<1>3. \A c \in Tasks : ~InFlight(c)'
  BY <1>1, NoRefreshType DEF InFlight
<1>4. NotAhead' /\ Published' /\ Waiting'
  BY <1>1, <1>2, <1>3 DEF HeldInv, NotAhead, Published, Waiting
<1> QED
  BY <1>1, <1>2, <1>4 DEF HeldInv

\* The rest leaves what is held, published and to be saved, and the refreshes but
\* for the tick's.
Quiet ==
  \/ SetupEnds \/ SetupBreaks \/ UnloadBegins \/ UnloadEnds \/ RemoveEntry
  \/ \E k \in Coordinators : IntervalEnds(k)
  \/ NextDay \/ UNCHANGED vars

LEMMA QuietHolds ==
  ASSUME HeldInv, CardInv', Quiet
  PROVE  HeldInv' /\ current' = current /\ \A k \in Coordinators : Stands(k)
<1>1. \A k \in Coordinators : coord[k] \in CoordinatorStates
  BY DEF HeldInv, CardInv, CardTypeOK
<1>2. \A k \in Coordinators : Stands(k)
  <2>1. CASE SetupBreaks \/ UnloadEnds
    <3>1. coord' = [coord EXCEPT ![current].retired = TRUE]
      BY <2>1 DEF SetupBreaks, UnloadEnds, Forget
    <3> QED
      BY <1>1, <3>1 DEF Stands, HeldInv, CardInv, CardTypeOK, CoordinatorStates
  <2>2. CASE \E k \in Coordinators : IntervalEnds(k)
    <3>1. PICK k \in Coordinators : coord' = [coord EXCEPT ![k].recent = FALSE]
      BY <2>2 DEF IntervalEnds
    <3> QED
      BY <1>1, <3>1 DEF Stands, HeldInv, CardInv, CardTypeOK, CoordinatorStates
  <2>3. CASE coord' = coord
    BY <2>3 DEF Stands
  <2> QED
    BY <2>1, <2>2, <2>3 DEF Quiet, SetupEnds, UnloadBegins, RemoveEntry, NextDay, vars
<1>3. clock \in Nat /\ clock <= clock' /\ clock' \in Nat /\ current' = current
  <2>1. clock \in Nat
    BY TypesAre DEF HeldInv
  <2> QED
    BY <2>1 DEF Quiet, SetupEnds, SetupBreaks, UnloadBegins, UnloadEnds, RemoveEntry, NextDay, vars,
                IntervalEnds
<1>4. file' = file \/ file' = None
  BY DEF Quiet, SetupEnds, SetupBreaks, UnloadBegins, UnloadEnds, RemoveEntry, NextDay, vars,
         IntervalEnds
<1>5. \A c \in Tasks : task'[c].pc \in {"idle", "fetch"} \/ AsItWas(c)
  <2>1. CASE UnloadEnds
    <3>1. task' = Without("tick")
      BY <2>1 DEF UnloadEnds
    <3>2. "tick" \in Tasks => task'["tick"].pc = "idle"
      BY <3>1, WithoutEnds, NoRefreshType DEF HeldInv, CardInv
    <3>3. ASSUME NEW c \in Tasks, c # "tick" PROVE AsItWas(c)
      BY <3>1, <3>3 DEF AsItWas, Without, HeldInv, CardInv, CardTypeOK, Refreshes
    <3> QED
      BY <3>2, <3>3
  <2>2. CASE task' = task
    BY <2>2 DEF AsItWas
  <2> QED
    BY <2>1, <2>2 DEF Quiet, SetupEnds, SetupBreaks, UnloadBegins, RemoveEntry, NextDay, vars,
                     IntervalEnds
<1>6. Waiting'
  BY <1>2, <1>3, <1>5, StillWaiting
<1> QED
  BY <1>2, <1>3, <1>4, <1>6, StandsHolds

LEMMA HeldInit == Init => HeldInv
<1> SUFFICES ASSUME Init PROVE HeldInv
  OBVIOUS
<1>1. \A k \in Coordinators : /\ coord[k].held = None /\ coord[k].unsaved = None
                              /\ coord[k].data = None
  BY DEF Init, NewCoordinator
<1>2. \A c \in Tasks : ~InFlight(c)
  BY NoRefreshType DEF Init, InFlight
<1> QED
  BY <1>1, <1>2, CardInit DEF HeldInv, NotAhead, Waiting, Published, Init

\* A refresh or a quiet step that publishes nothing.
Unpublished ==
  \/ TickStart \/ Press \/ RefreshAction \/ RepairRetry \/ Quiet
  \/ \E c \in Tasks : FetchSucceeds(c) \/ FetchFails(c) \/ ArchiveAnswers(c)

LEMMA UnpublishedHolds ==
  ASSUME HeldInv, CardInv', Unpublished
  PROVE  HeldInv' /\ current' = current /\ \A k \in Coordinators : Stands(k)
<1>1. CASE TickStart \/ Press \/ RefreshAction \/ RepairRetry
  <2>1. PICK c \in Tasks : /\ Fetch(c, current)
                           /\ UNCHANGED <<clock, entry, current, issue, file>>
    BY <1>1 DEF TickStart, Press, RefreshAction, RepairRetry, Tasks
  <2>2. current \in Coordinators
    BY <1>1 DEF TickStart, Press, RefreshAction, RepairRetry, HeldInv, CardInv, CardTypeOK, Spoken
  <2> QED
    BY <2>1, <2>2, FetchHolds
<1>2. CASE Quiet
  BY <1>2, QuietHolds
<1>3. ASSUME NEW c \in Tasks, FetchSucceeds(c) \/ FetchFails(c) \/ ArchiveAnswers(c)
      PROVE  HeldInv' /\ current' = current /\ \A k \in Coordinators : Stands(k)
  <2>1. current' = current
    BY <1>3 DEF FetchSucceeds, FetchFails, ArchiveAnswers
  <2> QED
    BY <1>3, <2>1, FetchSucceedsHolds, FetchFailsHolds, ArchiveAnswersHolds
<1> QED
  BY <1>1, <1>2, <1>3 DEF Unpublished

LEMMA StepIs ==
  ASSUME [Next]_vars
  PROVE  \/ Unpublished \/ (\E c \in Tasks : Publish(c)) \/ (\E k \in Coordinators : DelayedSave(k))
         \/ SetupBegins \/ Crash
BY DEF Next, Refresh, Progress, Life, Unpublished, Quiet

LEMMA HeldNext == ASSUME OneCaller, HeldInv, [Next]_vars PROVE HeldInv'
<1>1. CardInv'
  BY CardNext DEF HeldInv
<1> QED
  BY <1>1, StepIs, UnpublishedHolds, PublishHolds, DelayedSaveHolds, SetupBeginsHolds, CrashHolds

\* With one refresh at a time only a newer card replaces the one held, whatever the
\* archive answers and however often the entry is set up under the refresh.
THEOREM NewerCardHolds == ASSUME OneCaller PROVE Spec => NewerCardStands
<1> DEFINE Newer == \A k \in Coordinators :
                      (/\ coord[k].held # None /\ ~Crash /\ ~SetupBegins) =>
                         coord'[k].held.at >= coord[k].held.at
<1>1. HeldInv /\ [Next]_vars => [Newer]_vars
  <2> SUFFICES ASSUME HeldInv, [Next]_vars, NEW k \in Coordinators, coord[k].held # None,
                      ~Crash, ~SetupBegins
               PROVE  coord'[k].held.at >= coord[k].held.at
    OBVIOUS
  <2>1. CardInv' /\ coord[k].held.at \in Nat
    BY CardNext, TypesAre DEF HeldInv
  <2>2. coord'[k].held = coord[k].held => coord'[k].held.at >= coord[k].held.at
    BY <2>1
  <2>3. CASE Unpublished
    BY <2>1, <2>2, <2>3, UnpublishedHolds DEF Stands
  <2>4. ASSUME NEW c \in Tasks, Publish(c) PROVE coord'[k].held.at >= coord[k].held.at
    BY <2>1, <2>2, <2>4, PublishHolds
  <2>5. ASSUME NEW d \in Coordinators, DelayedSave(d)
        PROVE  coord'[k].held.at >= coord[k].held.at
    BY <2>1, <2>2, <2>5, DelayedSaveHolds
  <2> QED
    BY <2>3, <2>4, <2>5, StepIs
<1>2. HeldInv /\ [Next]_vars => HeldInv'
  BY HeldNext
<1> QED
  BY <1>1, <1>2, HeldInit, PTL DEF Spec, NewerCardStands

-----------------------------------------------------------------------------
(* The file: the newest card held is saved in the end.                     *)

\* A third setup and every later one find no save pending: of three setups within
\* the Store's second the second may save an older card over the first one's.
SavesInTime == SetupBegins /\ current > 1 => NothingUnsaved

\* What coordinator k holds it has still to save, or the file has it, or something no
\* older, once those before it have saved.
Goes(k) ==
  coord[k].held # None =>
    \/ coord[k].unsaved = coord[k].held
    \/ /\ coord[k].unsaved = None
       /\ \A j \in Coordinators : coord[j].unsaved # None => coord[j].unsaved.at >= coord[k].held.at
       /\ NothingUnsaved => file # None /\ file.at >= coord[k].held.at

\* What is to be saved of the first setup is no older than the file, nor newer than
\* what it held when the entry was last its.
FirstSaves ==
  current = 1 =>
    /\ coord[1].unsaved # None /\ file # None => coord[1].unsaved.at >= file.at
    /\ ~coord[1].retired =>
         /\ file # None => coord[1].held # None /\ coord[1].held.at >= file.at
         /\ coord[1].unsaved # None =>
              coord[1].held # None /\ coord[1].held.at >= coord[1].unsaved.at

SavedInv ==
  /\ \A j \in Coordinators : j > current => coord[j].unsaved = None
  /\ entry \in {"setup", "forward", "loaded"} => Goes(current)
  /\ FirstSaves

LEMMA SavedInit == Init => SavedInv
<1> SUFFICES ASSUME Init PROVE SavedInv
  OBVIOUS
<1>1. \A k \in Coordinators : coord[k].unsaved = None
  BY DEF Init, NewCoordinator
<1> QED
  BY <1>1 DEF Init, SavedInv, FirstSaves

\* A step that leaves what is held and to be saved, and the file but for its removal.
LEMMA StandsSaved ==
  ASSUME HeldInv, SavedInv, \A k \in Coordinators : Stands(k), current' = current,
         file' = file \/ (file' = None /\ entry' = "removed"),
         entry' \in {"setup", "forward", "loaded"} => entry \in {"setup", "forward", "loaded"}
  PROVE  SavedInv'
<1>1. \A j \in Coordinators : j > current' => coord'[j].unsaved = None
  BY DEF SavedInv, Stands
<1>2. entry' \in {"setup", "forward", "loaded"} => Goes(current)'
  <2> SUFFICES ASSUME entry' \in {"setup", "forward", "loaded"} PROVE Goes(current)'
    OBVIOUS
  <2>1. current \in Coordinators /\ file' = file
    BY DEF HeldInv, CardInv, CardTypeOK, Spoken
  <2>2. NothingUnsaved' <=> NothingUnsaved
    BY DEF NothingUnsaved, Stands
  <2> QED
    BY <2>1, <2>2 DEF SavedInv, Goes, Stands
<1>3. FirstSaves'
  <2>1. current = 1 => 1 \in Coordinators
    BY DEF HeldInv, CardInv, CardTypeOK
  <2> QED
    BY <2>1 DEF SavedInv, FirstSaves, Stands
<1> QED
  BY <1>1, <1>2, <1>3 DEF SavedInv

LEMMA PublishSaves ==
  ASSUME OneCaller, HeldInv, SavedInv, CardInv', NEW c \in Tasks, Publish(c)
  PROVE  SavedInv'
<1> SUFFICES ASSUME NEW k, k = task[c].of, NEW card, card = task[c].card PROVE SavedInv'
  OBVIOUS
<1>1. /\ k \in Coordinators /\ k \in 1 .. current /\ card \in Cards
      /\ coord'[k].held = card /\ coord'[k].retired = coord[k].retired
      /\ coord[k].held # None => card.at >= coord[k].held.at
      /\ \/ coord'[k].unsaved = card /\ Owns(k)
         \/ coord'[k].unsaved = coord[k].unsaved /\ (Owns(k) => card = coord[k].held)
      /\ \A d \in Coordinators \ {k} : coord'[d] = coord[d]
      /\ UNCHANGED <<clock, current, file>>
      /\ entry' = IF c = Setup THEN "forward" ELSE entry
  BY PublishHolds
<1>2. current \in Nat /\ (current # 0 => current \in Coordinators)
  BY TypesAre DEF HeldInv, CardInv, CardTypeOK
<1>3. c = Setup => entry = "setup"
  BY DEF Publish, HeldInv, CardInv, Spoken, InFlight
<1>4. \A j \in Coordinators : j > current' => coord'[j].unsaved = None
  BY <1>1, <1>2 DEF SavedInv
<1>5. ASSUME entry' \in {"setup", "forward", "loaded"} PROVE Goes(current)'
  <2>1. entry \in {"setup", "forward", "loaded"} /\ current' = current /\ file' = file
    BY <1>1, <1>3, <1>5
  <2>2. Goes(current) /\ current \in Coordinators /\ ~coord[current].retired
    BY <2>1 DEF SavedInv, HeldInv, CardInv, CardTypeOK, Spoken
  <2>3. CASE coord'[k].unsaved = card /\ Owns(k)
    <3>1. k = current
      BY <1>1, <2>2, <2>3 DEF Owns, HeldInv, CardInv, Spoken, Publish, InFlight
    <3> QED
      BY <1>1, <2>1, <2>3, <3>1 DEF Goes
  <2>4. CASE coord'[k].unsaved = coord[k].unsaved /\ (Owns(k) => card = coord[k].held)
    <3>1. \A j \in Coordinators : coord'[j].unsaved = coord[j].unsaved
      BY <1>1, <2>4
    <3>2. k = current => Owns(k)
      BY <2>1, <2>2 DEF Owns
    <3>3. coord'[current].held = coord[current].held
      BY <1>1, <2>2, <2>4, <3>2
    <3>4. NothingUnsaved' <=> NothingUnsaved
      BY <3>1 DEF NothingUnsaved
    <3> QED
      BY <2>1, <2>2, <3>1, <3>3, <3>4 DEF Goes
  <2> QED
    BY <1>1, <2>3, <2>4
<1>6. FirstSaves'
  <2> SUFFICES ASSUME current = 1
               PROVE  /\ coord'[1].unsaved # None /\ file' # None => coord'[1].unsaved.at >= file'.at
                      /\ ~coord'[1].retired =>
                           /\ file' # None => coord'[1].held # None /\ coord'[1].held.at >= file'.at
                           /\ coord'[1].unsaved # None =>
                                coord'[1].held # None /\ coord'[1].held.at >= coord'[1].unsaved.at
    BY <1>1 DEF FirstSaves
  <2>1. k = 1 /\ file' = file
    BY <1>1
  <2>2. FirstSaves
    BY DEF SavedInv
  <2>3. /\ card.at \in Nat /\ card # None
        /\ coord[1].held # None => coord[1].held.at \in Nat
        /\ coord[1].unsaved # None => coord[1].unsaved.at \in Nat
        /\ file # None => file.at \in Nat
    BY <1>1, <2>1, TypesAre DEF HeldInv
  <2>4. ~coord[1].retired =>
          /\ file # None => card.at >= file.at
          /\ coord[1].unsaved # None => card.at >= coord[1].unsaved.at
    BY <1>1, <2>1, <2>2, <2>3 DEF FirstSaves
  <2>5. Owns(k) => ~coord[1].retired
    BY <2>1 DEF Owns
  <2> QED
    BY <1>1, <2>1, <2>2, <2>3, <2>4, <2>5 DEF FirstSaves
<1> QED
  BY <1>4, <1>5, <1>6 DEF SavedInv

LEMMA DelayedSaveSaves ==
  ASSUME HeldInv, SavedInv, CardInv', NEW k \in Coordinators, DelayedSave(k)
  PROVE  SavedInv'
<1>1. /\ coord'[k].unsaved = None /\ file' = coord[k].unsaved
      /\ \A d \in Coordinators : /\ coord'[d].held = coord[d].held
                                 /\ coord'[d].retired = coord[d].retired
                                 /\ d # k => coord'[d].unsaved = coord[d].unsaved
  BY DelayedSaveHolds
<1>2. /\ coord[k].unsaved # None /\ UNCHANGED <<clock, entry, current>>
      /\ \A j \in Coordinators : j < k => coord[j].unsaved = None
  BY DEF DelayedSave
<1>3. /\ current \in Nat /\ Setups \in Nat /\ k \in 1 .. Setups /\ Coordinators = 1 .. Setups
      /\ \A j \in Coordinators : j > current => coord[j].unsaved = None
  BY TypesAre DEF HeldInv, Coordinators, SavedInv
<1>4. k <= current
  BY <1>2, <1>3
<1>5. ASSUME entry' \in {"setup", "forward", "loaded"} PROVE Goes(current)'
  <2> SUFFICES ASSUME NEW m, m = current, coord[m].held # None
               PROVE  \/ coord'[m].unsaved = coord'[m].held
                      \/ /\ coord'[m].unsaved = None
                         /\ \A j \in Coordinators :
                              coord'[j].unsaved # None => coord'[j].unsaved.at >= coord'[m].held.at
                         /\ NothingUnsaved' => file' # None /\ file'.at >= coord'[m].held.at
    <3>1. current \in Coordinators
      BY <1>2, <1>5 DEF HeldInv, CardInv, CardTypeOK, Spoken
    <3> QED
      BY <1>1, <1>2, <3>1 DEF Goes
  <2>1. m \in Coordinators /\ Goes(m)
    BY <1>2, <1>5 DEF HeldInv, CardInv, CardTypeOK, Spoken, SavedInv
  <2>2. coord[m].held.at \in Nat
    BY <2>1, TypesAre DEF HeldInv
  <2>3. CASE coord[m].unsaved = coord[m].held /\ k = m
    <3>1. \A j \in Coordinators : j # k => coord[j].unsaved = None
      BY <1>2, <1>3, <2>3
    <3> QED
      BY <1>1, <2>2, <2>3, <3>1
  <2>4. CASE coord[m].unsaved = coord[m].held /\ k # m
    BY <1>1, <2>1, <2>4
  <2>5. CASE coord[m].unsaved # coord[m].held
    <3>1. /\ coord[m].unsaved = None
          /\ \A j \in Coordinators : coord[j].unsaved # None => coord[j].unsaved.at >= coord[m].held.at
      BY <2>5, <2>1 DEF Goes
    <3> QED
      BY <1>1, <1>2, <2>1, <3>1
  <2> QED
    BY <2>3, <2>4, <2>5
<1>6. FirstSaves'
  <2>1. ASSUME current = 1 PROVE k = 1
    BY <1>3, <1>4, <2>1
  <2> QED
    BY <1>1, <1>2, <2>1 DEF FirstSaves, SavedInv
<1>7. \A j \in Coordinators : j > current' => coord'[j].unsaved = None
  BY <1>1, <1>2, <1>3
<1> QED
  BY <1>5, <1>6, <1>7 DEF SavedInv

LEMMA SetupBeginsSaves ==
  ASSUME HeldInv, SavedInv, CardInv', SetupBegins, SavesInTime PROVE SavedInv'
<1> SUFFICES ASSUME NEW k, k = current + 1 PROVE SavedInv'
  OBVIOUS
<1>1. /\ k \in Coordinators /\ current' = k /\ coord'[k].held = file /\ coord'[k].unsaved = None
      /\ \A d \in Coordinators \ {k} : coord'[d] = coord[d]
  BY SetupBeginsHolds
<1>2. entry' = "setup" /\ file' = file
  BY DEF SetupBegins
<1>3. /\ current \in Nat /\ Coordinators = 1 .. Setups /\ Setups \in Nat
      /\ file # None => file.at \in Nat
  BY TypesAre DEF HeldInv, Coordinators
<1>4. \A j \in Coordinators : j > current => coord[j].unsaved = None
  BY DEF SavedInv
<1>5. \A j \in Coordinators : j # k /\ coord[j].unsaved # None /\ file # None =>
        coord[j].unsaved.at >= file.at
  <2>1. CASE current > 1
    BY <2>1 DEF SavesInTime, NothingUnsaved
  <2>2. CASE current = 1
    BY <1>3, <1>4, <2>2 DEF SavedInv, FirstSaves
  <2>3. CASE current = 0
    BY <1>3, <1>4, <2>3
  <2> QED
    BY <1>3, <2>1, <2>2, <2>3
<1>6. Goes(k)'
  <2>1. file # None => /\ \A j \in Coordinators : coord'[j].unsaved # None =>
                            coord'[j].unsaved.at >= file.at
                       /\ file'.at >= file.at
    BY <1>1, <1>2, <1>3, <1>5
  <2> QED
    BY <1>1, <1>2, <2>1 DEF Goes
<1>7. FirstSaves'
  BY <1>1, <1>2, <1>3 DEF FirstSaves
<1>8. \A j \in Coordinators : j > current' => coord'[j].unsaved = None
  BY <1>1, <1>3, <1>4
<1> QED
  BY <1>1, <1>6, <1>7, <1>8 DEF SavedInv

LEMMA SavedNext ==
  ASSUME OneCaller, HeldInv, SavedInv, [Next]_vars, SavesInTime PROVE SavedInv'
<1>1. CardInv'
  BY CardNext DEF HeldInv
<1>2. CASE Unpublished
  <2>1. /\ file' = file \/ (file' = None /\ entry' = "removed")
        /\ entry' \in {"setup", "forward", "loaded"} => entry \in {"setup", "forward", "loaded"}
    BY <1>2 DEF Unpublished, Quiet, TickStart, Press, RefreshAction, RepairRetry, FetchSucceeds,
         FetchFails, ArchiveAnswers, SetupEnds, SetupBreaks, UnloadBegins, UnloadEnds, RemoveEntry,
         IntervalEnds, NextDay, vars
  <2> QED
    BY <1>1, <1>2, <2>1, UnpublishedHolds, StandsSaved
<1>3. CASE Crash
  <2>1. current' = current /\ file' = file /\ (current = 1 => 1 \in Coordinators)
    BY <1>3 DEF Crash, HeldInv, CardInv, CardTypeOK
  <2> QED
    BY <1>1, <1>3, <2>1, CrashHolds DEF SavedInv, FirstSaves
<1> QED
  BY <1>1, <1>2, <1>3, StepIs, PublishSaves, DelayedSaveSaves, SetupBeginsSaves

\* With one refresh at a time a loaded entry publishes the last good card, and a
\* restart serves it: the file holds one no older once no save is pending, for any
\* number of reloads of which the third and later find the earlier saves done.
THEOREM LastGoodIsServed ==
  ASSUME OneCaller
  PROVE  Spec /\ [][SavesInTime]_vars => []ServesTheLastGood
<1>1. HeldInv /\ SavedInv => ServesTheLastGood
  <2> SUFFICES ASSUME HeldInv, SavedInv PROVE ServesTheLastGood
    OBVIOUS
  <2>1. entry = "loaded" => current \in Coordinators
    BY DEF HeldInv, CardInv, CardTypeOK, Spoken
  <2> QED
    BY <2>1 DEF ServesTheLastGood, Loaded, HeldInv, Published, SavedInv, Goes, NothingUnsaved
<1>2. HeldInv /\ SavedInv /\ [Next]_vars /\ [SavesInTime]_vars => HeldInv' /\ SavedInv'
  <2> SUFFICES ASSUME HeldInv, SavedInv, [Next]_vars, [SavesInTime]_vars PROVE HeldInv' /\ SavedInv'
    OBVIOUS
  <2>1. HeldInv' /\ CardInv'
    BY HeldNext, CardNext DEF HeldInv
  <2>2. CASE SavesInTime
    BY <2>1, <2>2, SavedNext
  <2>3. CASE UNCHANGED vars
    <3>1. ~SetupBegins
      BY <2>3 DEF vars, SetupBegins
    <3>2. SavesInTime
      BY <3>1 DEF SavesInTime
    <3> QED
      BY <2>1, <3>2, SavedNext
  <2> QED
    BY <2>1, <2>2, <2>3
<1> QED
  BY <1>1, <1>2, HeldInit, SavedInit, PTL DEF Spec
=============================================================================
