----------------------------- MODULE TariffCard -----------------------------
(***************************************************************************)
(* The card a config entry prices on (coordinator.py) over the entry's     *)
(* life (__init__.py): refreshes by the daily tick, the button, the        *)
(* refresh action and the Repair card's retry run at once, each awaiting   *)
(* the utility, the project's card archive and the year's lock in turn;    *)
(* the entry may be unloaded, set up again or removed under any of them.   *)
(* What a refresh publishes, the card it keeps for the next failure, the   *)
(* card's file and the stale-snapshot Repair issue are all it leaves.      *)
(*                                                                         *)
(* Days are counted from the start of the run; a card is the year it is    *)
(* for and the day it was fetched or captured.                             *)
(*                                                                         *)
(* As in YtdFold, a definition that stands just before the one it is a     *)
(* variant of, and that no other uses, is a plausible mistake in the code. *)
(***************************************************************************)
EXTENDS Integers

CONSTANTS
  None,          \* Python's None
  Callers,       \* who refreshes: some of "tick", "press", "action", "flow"
  Archive,       \* the rows of the card archive, cards as well
  Setups,        \* bound on the coordinators the entry is set up with
  StaleAfter,    \* SNAPSHOT_STALE_AFTER_DAYS
  NewYear,       \* the first day of year 2
  Grace,         \* days of year 2 a card of year 1 still stands (31 March)
  MaxDay         \* bound on the clock

Setup == "setup"
Tasks == Callers \cup {Setup}

YearOf(day) == IF day < NewYear THEN 1 ELSE 2

Coordinators == 1..Setups

Cards == [year : {1, 2}, at : Nat]

ASSUME CardAssumption ==
  /\ {StaleAfter, NewYear, Grace, MaxDay, Setups} \subseteq Nat
  /\ Callers \subseteq {"tick", "press", "action", "flow"}
  /\ Archive \subseteq Cards
  /\ None \notin Cards \cup [card : Cards, stale : BOOLEAN]

VARIABLES
  clock,    \* the day
  entry,    \* the state of the config entry
  current,  \* the coordinator of the entry's last setup, 0 before any
  coord,    \* per coordinator, what it keeps
  task,     \* per caller, the refresh it has in flight
  issue,    \* whether the stale-snapshot Repair card is up
  file      \* the card in the Store's file

vars == <<clock, entry, current, coord, task, issue, file>>

EntryStates == {"not_loaded", "setup", "forward", "loaded", "unloading", "removed"}

\* _last_good, (data.tariff and its age, data.snapshot_stale), whether a fetch
\* began less than MIN_FETCH_INTERVAL ago, _retired, and the delayed save.
NewCoordinator(held) ==
  [held |-> held, data |-> None, recent |-> FALSE, retired |-> FALSE, unsaved |-> None]

\* A refresh: the await it is behind, its coordinator, the day it began, the
\* card it read as held, the card it will publish, whether it keeps that one,
\* and the refreshes before it in the line for the year's lock.
NoRefresh ==
  [pc |-> "idle", of |-> 0, day |-> 0, held |-> None, card |-> None,
   keep |-> FALSE, ahead |-> {}]

Begun(k) == [NoRefresh EXCEPT !.pc = "fetch", !.of = k, !.day = clock]

-----------------------------------------------------------------------------
(* The card.                                                               *)

\* _is_stale, on a clock that does not step back: too old, or last year's
\* after 31 March.
IsStale(card) ==
  \/ clock - card.at > StaleAfter
  \/ card.year < YearOf(clock) /\ clock >= NewYear + Grace

\* A failed refresh asks the archive with nothing held, a stale card or last
\* year's.
AsksArchive(held) == held = None \/ IsStale(held) \/ held.year < YearOf(clock)

OwnsOnceLoaded(k) == ~coord[k].retired /\ entry = "loaded"

OwnsByState(k) == entry \in {"setup", "forward", "loaded"}

\* _owns_the_entry
Owns(k) == ~coord[k].retired /\ entry \in {"setup", "forward", "loaded"}

AdoptsAny(archived, held) == archived # None

\* "Only a capture newer than what is held replaces it."
Adopts(archived, held) ==
  archived # None /\ (held = None \/ archived.at > held.at)

\* The last card the archive holds, by the day.
Archived ==
  LET captured == {row \in Archive : row.at <= clock}
  IN {row \in captured : \A other \in captured : other.at <= row.at}

-----------------------------------------------------------------------------
(* A refresh begins.                                                       *)

Fetch(c, k) ==
  /\ task' = [task EXCEPT ![c] = Begun(k)]
  /\ coord' = [coord EXCEPT ![k].recent = TRUE]

\* The daily timer; within MIN_FETCH_INTERVAL of a fetch it does nothing.
TickStart ==
  /\ "tick" \in Callers
  /\ entry = "loaded"
  /\ task["tick"].pc = "idle"
  /\ ~coord[current].recent
  /\ Fetch("tick", current)
  /\ UNCHANGED <<clock, entry, current, issue, file>>

\* The button, which refuses a press the coordinator would not fetch for.
Press ==
  /\ "press" \in Callers
  /\ entry = "loaded"
  /\ task["press"].pc = "idle"
  /\ ~coord[current].recent
  /\ Fetch("press", current)
  /\ UNCHANGED <<clock, entry, current, issue, file>>

\* The refresh action: async_fetch_now.
RefreshAction ==
  /\ "action" \in Callers
  /\ entry = "loaded"
  /\ task["action"].pc = "idle"
  /\ Fetch("action", current)
  /\ UNCHANGED <<clock, entry, current, issue, file>>

\* The Repair card's retry, in the flow's own task.
RepairRetry ==
  /\ "flow" \in Callers
  /\ issue
  /\ current # 0 /\ coord[current].data # None /\ Owns(current)
  /\ task["flow"].pc = "idle"
  /\ Fetch("flow", current)
  /\ UNCHANGED <<clock, entry, current, issue, file>>

-----------------------------------------------------------------------------
(* The fetch, and what a failed one serves.                                *)

\* The refreshes of coordinator k that wait for the year's lock or hold it.
InLine(k) == {c \in Tasks : task[c].pc = "fold" /\ task[c].of = k}

\* The year is computed under a lock, first come first served.
JoinLine(c, card, keep) ==
  task' = [task EXCEPT ![c].pc = "fold", ![c].card = card, ![c].keep = keep,
                       ![c].ahead = InLine(task[c].of)]

\* A refresh ends, and those behind it move up.
Without(c) ==
  [other \in Tasks |->
     IF other = c THEN NoRefresh ELSE [task[other] EXCEPT !.ahead = @ \ {c}]]

\* The utility's page is read: this year's card, or still last year's.
FetchSucceeds(c) ==
  /\ task[c].pc = "fetch"
  /\ \E y \in {YearOf(clock), 1} : JoinLine(c, [year |-> y, at |-> clock], TRUE)
  /\ UNCHANGED <<clock, entry, current, coord, issue, file>>

\* It is not: _serve_cached reads what is held, and may ask the archive.
FetchFails(c) ==
  /\ task[c].pc = "fetch"
  /\ LET held == coord[task[c].of].held
     IN IF AsksArchive(held)
          THEN task' = [task EXCEPT ![c].pc = "archive", ![c].held = held]
          ELSE JoinLine(c, held, FALSE)
  /\ UNCHANGED <<clock, entry, current, coord, issue, file>>

\* The archive answers, or is switched off, unreachable or empty.
ArchiveAnswers(c) ==
  /\ task[c].pc = "archive"
  /\ \E archived \in Archived \cup {None} :
       LET held == task[c].held
       IN IF Adopts(archived, held)
            THEN /\ JoinLine(c, archived, TRUE)
                 /\ UNCHANGED entry
          ELSE IF held # None
            THEN /\ JoinLine(c, held, FALSE)
                 /\ UNCHANGED entry
          ELSE \* UpdateFailed: a first refresh fails the setup.
               /\ task' = [task EXCEPT ![c] = NoRefresh]
               /\ entry' = IF c = Setup THEN "not_loaded" ELSE entry
  /\ UNCHANGED <<clock, current, coord, issue, file>>

HoldOnDisk(k, card) ==
  [coord[k] EXCEPT !.unsaved = IF Owns(k) THEN card ELSE @]

\* _hold
Hold(k, card) ==
  [coord[k] EXCEPT !.held = card, !.unsaved = IF Owns(k) THEN card ELSE @]

RepairCardStays(k, stale) == issue \/ (Owns(k) /\ stale)

\* _sync_repair_issue
RepairCard(k, stale) == IF Owns(k) THEN stale ELSE issue

FlowCompletes(c, stale) == c = "flow"

\* A retry that returned a fresh snapshot completes its flow, and the Repairs
\* manager deletes the issue of a completed flow.
FlowClears(c, stale) == c = "flow" /\ ~stale

\* The year is in: the refresh publishes, keeps the card it fetched or
\* adopted, and raises or clears the Repair card, all without an await.
Publish(c) ==
  LET k     == task[c].of
      card  == task[c].card
      stale == IsStale(card)
      kept  == IF task[c].keep THEN Hold(k, card) ELSE coord[k]
  IN /\ task[c].pc = "fold"
     /\ task[c].ahead = {}
     /\ coord' = [coord EXCEPT ![k] =
                    [kept EXCEPT !.data = [card |-> card, stale |-> stale]]]
     /\ issue' = (RepairCard(k, stale) /\ ~FlowClears(c, stale))
     /\ task' = Without(c)
     /\ entry' = IF c = Setup THEN "forward" ELSE entry
     /\ UNCHANGED <<clock, current, file>>

\* The Store's one second is over.  Two coordinators' files are one, and the
\* earlier one's delay began first.
DelayedSave(k) ==
  /\ coord[k].unsaved # None
  /\ \A other \in Coordinators : other < k => coord[other].unsaved = None
  /\ file' = coord[k].unsaved
  /\ coord' = [coord EXCEPT ![k].unsaved = None]
  /\ UNCHANGED <<clock, entry, current, task, issue>>

-----------------------------------------------------------------------------
(* The entry.                                                              *)

\* async_setup_entry: a new coordinator loads the card in the file, and its
\* first refresh fetches.
SetupBegins ==
  /\ entry = "not_loaded"
  /\ current + 1 \in Coordinators
  /\ current' = current + 1
  /\ entry' = "setup"
  /\ coord' = [coord EXCEPT ![current + 1] =
                 [NewCoordinator(file) EXCEPT !.recent = TRUE]]
  /\ task' = [task EXCEPT ![Setup] = Begun(current + 1)]
  /\ UNCHANGED <<clock, issue, file>>

\* The platforms are forwarded, and the entry is loaded.
SetupEnds ==
  /\ entry = "forward"
  /\ entry' = "loaded"
  /\ UNCHANGED <<clock, current, coord, task, issue, file>>

ForgetKeepsCard ==
  /\ coord' = [coord EXCEPT ![current].retired = TRUE]
  /\ UNCHANGED issue

\* _forget_coordinator: retired, and its Repair card taken down.
Forget ==
  /\ coord' = [coord EXCEPT ![current].retired = TRUE]
  /\ issue' = FALSE

\* A setup that fails past the first refresh.
SetupBreaks ==
  /\ entry = "forward"
  /\ entry' = "not_loaded"
  /\ Forget
  /\ UNCHANGED <<clock, current, task, file>>

\* A reload or a removal begins: the platforms unload, the year is flushed.
UnloadBegins ==
  /\ entry = "loaded"
  /\ entry' = "unloading"
  /\ UNCHANGED <<clock, current, coord, task, issue, file>>

\* The on_unload callbacks run, and the entry's own task, the daily tick's
\* refresh, is cancelled; any other refresh goes on.
UnloadEnds ==
  /\ entry = "unloading"
  /\ entry' = "not_loaded"
  /\ Forget
  /\ task' = Without("tick")
  /\ UNCHANGED <<clock, current, file>>

\* async_remove_entry, once unloaded: the file is deleted through a Store
\* object of its own.
RemoveEntry ==
  /\ entry = "not_loaded"
  /\ current # 0
  /\ entry' = "removed"
  /\ file' = None
  /\ UNCHANGED <<clock, current, coord, task, issue>>

\* Home Assistant dies: only the file is left.
Crash ==
  /\ current # 0
  /\ entry' = IF entry = "removed" THEN entry ELSE "not_loaded"
  /\ coord' = [k \in Coordinators |-> [NewCoordinator(None) EXCEPT !.retired = TRUE]]
  /\ task' = [c \in Tasks |-> NoRefresh]
  /\ issue' = FALSE
  /\ UNCHANGED <<clock, current, file>>

\* The Store's second does not last as long as an interval.
NothingUnsaved == \A k \in Coordinators : coord[k].unsaved = None

\* MIN_FETCH_INTERVAL is over.
IntervalEnds(k) ==
  /\ coord[k].recent
  /\ NothingUnsaved
  /\ coord' = [coord EXCEPT ![k].recent = FALSE]
  /\ UNCHANGED <<clock, entry, current, task, issue, file>>

\* A refresh may see one midnight and no more.
NextDay ==
  /\ clock < MaxDay
  /\ NothingUnsaved
  /\ \A c \in Tasks : task[c].pc # "idle" => task[c].day = clock
  /\ clock' = clock + 1
  /\ UNCHANGED <<entry, current, coord, task, issue, file>>

-----------------------------------------------------------------------------
Init ==
  /\ clock = 0
  /\ entry = "not_loaded"
  /\ current = 0
  /\ coord = [k \in Coordinators |-> NewCoordinator(None)]
  /\ task = [c \in Tasks |-> NoRefresh]
  /\ issue = FALSE
  /\ file = None

Progress(c) == FetchSucceeds(c) \/ FetchFails(c) \/ ArchiveAnswers(c) \/ Publish(c)

Refresh ==
  \/ TickStart \/ Press \/ RefreshAction \/ RepairRetry
  \/ \E c \in Tasks : Progress(c)

Life ==
  \/ SetupBegins \/ SetupEnds \/ SetupBreaks
  \/ UnloadBegins \/ UnloadEnds \/ RemoveEntry \/ Crash

Next ==
  \/ Refresh
  \/ Life
  \/ \E k \in Coordinators : DelayedSave(k) \/ IntervalEnds(k)
  \/ NextDay

Spec == Init /\ [][Next]_vars

\* Every await of a refresh ends and every day's tick comes round.  The
\* utility is not always up: a fetch succeeds if enough of them are made, and
\* then with the card of the year.
FetchSucceedsThisYear(c) ==
  FetchSucceeds(c) /\ task'[c].card.year = YearOf(clock)

Fairness ==
  /\ \A c \in Tasks : WF_vars(Progress(c))
  /\ WF_vars(TickStart)
  /\ \A c \in Tasks : SF_vars(FetchSucceedsThisYear(c))
  /\ \A k \in Coordinators : WF_vars(DelayedSave(k)) /\ WF_vars(IntervalEnds(k))
  /\ WF_vars(SetupEnds \/ SetupBreaks)
  /\ WF_vars(UnloadEnds)

FairSpec == Spec /\ Fairness

-----------------------------------------------------------------------------
(* What the coordinator promises.                                          *)

CoordinatorStates ==
  [held : Cards \cup {None}, data : [card : Cards, stale : BOOLEAN] \cup {None},
   recent : BOOLEAN, retired : BOOLEAN, unsaved : Cards \cup {None}]

Refreshes ==
  [pc : {"idle", "fetch", "archive", "fold"}, of : {0} \cup Coordinators,
   day : Nat, held : Cards \cup {None}, card : Cards \cup {None},
   keep : BOOLEAN, ahead : SUBSET Tasks]

\* The types of the coordinators, the refreshes and the file; and no refresh
\* waits to publish a card it does not have (coordinator.py, _serve_cached).
CardTypeOK ==
  /\ clock \in Nat
  /\ entry \in EntryStates
  /\ current \in {0} \cup Coordinators
  /\ coord \in [Coordinators -> CoordinatorStates]
  /\ task \in [Tasks -> Refreshes]
  /\ \A c \in Tasks : task[c].pc = "fold" => task[c].card # None
  /\ issue \in BOOLEAN
  /\ file \in Cards \cup {None}

Loaded == entry = "loaded" /\ coord[current].data # None

\* A loaded entry shows the Repair card exactly while it publishes a stale
\* card: no refresh of an earlier coordinator that lands late raises it or
\* takes it down (coordinator.py, _owns_the_entry), and no retry that did not
\* help hides it (repairs.py, the still_stale abort).
StaleIsShown == Loaded => issue = coord[current].data.stale

\* No Repair card outlives its entry's coordinator, "with a Retry button that
\* has nothing left to refresh" (__init__.py, _forget_coordinator).
NoCardWithoutAnEntry == issue => entry \in {"setup", "forward", "loaded", "unloading"}

\* Only a capture newer than what is held replaces it (coordinator.py,
\* _serve_cached).
NewerCardStands ==
  [][\A k \in Coordinators :
       (/\ coord[k].held # None /\ ~Crash /\ ~SetupBegins) =>
          coord'[k].held.at >= coord[k].held.at]_vars

\* What is published is the last good card, whichever refresh published last
\* (coordinator.py, _serve_cached: "The last good snapshot"), and a restart serves
\* it too: once no save is pending the file holds one no older than it.
ServesTheLastGood ==
  /\ Loaded => coord[current].data.card = coord[current].held
  /\ (entry = "loaded" /\ coord[current].held # None /\ NothingUnsaved) =>
       file # None /\ file.at >= coord[current].held.at

\* A removed entry leaves no card behind (docs/coordinator.md: "deletes all
\* three, so removing and re-adding a utility starts clean").
RemovedLeavesNothing == entry = "removed" => file = None

\* The Repair card clears by itself once the utility can be read: no gate,
\* failure or reload keeps it up (coordinator.py, _sync_repair_issue).
RepairClears == issue ~> ~issue
=============================================================================
