----------------------------- MODULE EntryFlows -----------------------------
(***************************************************************************)
(* What an entry says of the household, and who writes it: the config,     *)
(* reconfigure and options dialogs (config_flow.py), and the setup that    *)
(* migrates it, drops a commune no longer served, adopts the commune its   *)
(* postcode is billed on and takes that back when the first refresh fails  *)
(* (__init__.py).                                                          *)
(*                                                                         *)
(* The household's answers are named by the region whose social option     *)
(* they answer. `chosen` is the postcode the household had when it last    *)
(* chose the entry's commune, which no part of the program keeps.          *)
(***************************************************************************)
EXTENDS FiniteSets, Naturals

CONSTANTS Operators, Region,  \* Region[o]: "flanders", "brussels" or "wallonia"
          Communes,    \* Communes[o]: the communes o has cards for, {} without a list
          Postcodes,
          Candidates,  \* Candidates[p]: resolve_candidates
          Billed,      \* Billed[o][p]: commune_for_postcode, or None
          MaxDialogs, MaxChanges,  \* bounds
          Overlaps,    \* TRUE: a dialog may be sent in beside another or while a setup runs
          None

ASSUME FlowAssumption ==
  /\ Region \in [Operators -> {"flanders", "brussels", "wallonia"}]
  /\ \A o \in Operators : IsFiniteSet(Communes[o])
  /\ \A o, q \in Operators : o # q => Communes[o] \cap Communes[q] = {}
  /\ Candidates \in [Postcodes -> SUBSET Operators]
  /\ \A o \in Operators, p \in Postcodes : Billed[o][p] \in Communes[o] \cup {None}
  /\ {MaxDialogs, MaxChanges} \subseteq Nat /\ Overlaps \in BOOLEAN

VARIABLES
  entry,     \* the entry's data and options, None before it is created
  chosen,    \* the postcode its commune was chosen for
  state,     \* of the entry: "none", "unloaded", "setup", "retry" or "loaded"
  running,   \* the operator its coordinator was made for
  before,    \* in setup: the options it began with, and whether it changed them
  listed,    \* the communes the operators' lists hold just now
  blocked,   \* the phantom blocklists of this release
  dialog,    \* the reconfigure dialog, None without one
  options,   \* the options dialog, None without one
  left       \* what is left of the bounds

vars == <<entry, chosen, state, running, before, listed, blocked, dialog, options, left>>

outside == <<listed, blocked>>

AllCommunes == UNION {Communes[o] : o \in Operators}

\* _prices_household
PricesHousehold(o) == Region[o] \in {"flanders", "brussels"}

\* _commune_for_postcode
CommuneFor(o, p) == IF p = None THEN None ELSE Billed[o][p]

\* What a fetch of the list gives: the live list, or nothing when it fails.
Lists(o) == {listed \cap Communes[o], {}}

Answer(o) == IF PricesHousehold(o) THEN Region[o] ELSE None

-----------------------------------------------------------------------------
(* The first dialog: postcode, operator, options. *)

Install ==
  /\ state = "none" /\ left.dialogs > 0
  /\ \E p \in Postcodes, o \in Operators :
       /\ Candidates[p] # {} => o \in Candidates[p]
       /\ \E shown \in Lists(o) : \E c \in shown \cup {None} :
            /\ entry' = [utility |-> o, commune |-> c, postcode |-> p, resolved |-> {},
                         household |-> Answer(o), archive |-> TRUE, minor |-> 2]
            /\ chosen' = p
  /\ state' = "unloaded"
  /\ left' = [left EXCEPT !.dialogs = @ - 1]
  /\ UNCHANGED <<running, before, outside, dialog, options>>

-----------------------------------------------------------------------------
(* Setup. *)

\* Mutant: the archive switch is not asked about.
KeptInBrussels(e) ==
  IF e.minor = 2 THEN e
  ELSE [e EXCEPT !.minor = 2,
                 !.household = IF PricesHousehold(e.utility) THEN @ ELSE None]

\* async_migrate_entry, _drop_leftover_household.
Migrated(e) ==
  IF e.minor = 2 THEN e
  ELSE [e EXCEPT !.minor = 2,
                 !.household = IF Region[e.utility] = "flanders" THEN @
                               ELSE IF Region[e.utility] = "brussels" /\ e.archive THEN @
                               ELSE None]

\* _drop_phantom_commune_if_blocked
WithoutPhantom(e) == IF e.commune \in blocked THEN [e EXCEPT !.commune = None] ELSE e

\* _adopt_commune_for_postcode
Adopted(e) ==
  IF e.commune # None THEN e ELSE [e EXCEPT !.commune = CommuneFor(e.utility, e.postcode)]

\* async_setup_entry, up to the first refresh.
SetupBegins ==
  /\ state \in {"unloaded", "retry"}
  /\ LET old == Migrated(entry)
         new == Adopted(WithoutPhantom(old))
     IN /\ entry' = new
        /\ chosen' = IF new.commune \notin {None, old.commune} THEN new.postcode ELSE chosen
        /\ before' = [entry |-> old, chosen |-> chosen, changed |-> new # old]
  /\ state' = "setup" /\ running' = entry.utility
  /\ UNCHANGED <<outside, dialog, options, left>>

\* The refresh is in and the update listener registered.
SetupLoads ==
  /\ state = "setup" /\ state' = "loaded" /\ before' = None
  /\ UNCHANGED <<entry, chosen, running, outside, dialog, options, left>>

\* It failed: the options are put back, and setup is tried again.
SetupFails ==
  /\ state = "setup" /\ state' = "retry" /\ before' = None
  /\ IF before.changed
     THEN /\ entry' = [before.entry EXCEPT !.utility = entry.utility]
          /\ chosen' = before.chosen
     ELSE UNCHANGED <<entry, chosen>>
  /\ UNCHANGED <<running, outside, dialog, options, left>>

\* An entry that is written reloads when it has its listener.
Reloads(new) == IF state = "loaded" /\ new # entry THEN "unloaded" ELSE state

-----------------------------------------------------------------------------
(* The reconfigure dialog. *)

NewDialog ==
  [step |-> "menu", utility |-> None, postcode |-> None, lists |-> {}, suggested |-> None,
   commune |-> None, submitted |-> FALSE, drop |-> FALSE, household |-> None]

\* Whether a dialog may be opened, and sent in.
MayOpen == left.dialogs > 0 /\ (Overlaps \/ (dialog = None /\ options = None))

MaySend == Overlaps \/ state # "setup"

OpenReconfigure ==
  /\ state \notin {"none"} /\ dialog = None /\ MayOpen
  /\ dialog' = NewDialog
  /\ left' = [left EXCEPT !.dialogs = @ - 1]
  /\ UNCHANGED <<entry, chosen, state, running, before, outside, options>>

\* Mutant: an address is never left.
NeverMoves(d) == FALSE

\* _moved_from
Moved(d) == entry.postcode # None /\ d.postcode \notin {None, entry.postcode}

\* The household is asked on a move into a region that prices on it.
AsksHousehold(d) ==
  /\ PricesHousehold(d.utility) /\ d.household = None
  /\ Region[d.utility] # Region[entry.utility]

\* Mutant: an old operator's household stays.
HouseholdStays(d) == IF d.household # None THEN d.household ELSE entry.household

\* The household a finished dialog leaves.
HouseholdAfter(d) ==
  IF d.household # None THEN d.household
  ELSE IF Region[d.utility] # Region[entry.utility] /\ ~PricesHousehold(d.utility) THEN None
  ELSE entry.household

\* The commune it leaves.
CommuneAfter(d) ==
  IF d.commune # None THEN d.commune
  ELSE IF d.submitted \/ d.utility # entry.utility \/ d.drop \/ Moved(d) THEN None
  ELSE entry.commune

\* What the resolver answered for a postcode the household overrides by hand.
ResolvedAfter(d) ==
  IF d.postcode # None \/ entry.postcode = None THEN {}
  ELSE IF d.utility \in Candidates[entry.postcode] THEN {} ELSE Candidates[entry.postcode]

\* _async_finish_reconfigure: the entry is rewritten and reloaded, once the household
\* has been asked what it has to be. The commune is what `d` has it chosen for.
Finish(d, for) ==
  IF AsksHousehold(d)
  THEN /\ dialog' = [d EXCEPT !.step = "household"]
       /\ UNCHANGED <<entry, chosen, state>>
  ELSE LET new == [entry EXCEPT !.utility = d.utility,
                                !.postcode = IF d.postcode # None THEN d.postcode ELSE @,
                                !.resolved = ResolvedAfter(d),
                                !.household = HouseholdAfter(d),
                                !.commune = CommuneAfter(d)]
       IN /\ MaySend
          /\ entry' = new /\ dialog' = None
          /\ chosen' = IF d.commune # None THEN for ELSE chosen
          /\ state' = IF state \in {"retry", "loaded"} THEN "unloaded" ELSE state

\* The communes suggested back by the commune step.
Suggested(d, shown) ==
  LET saved == IF entry.utility = d.utility /\ entry.commune \in shown THEN entry.commune ELSE None
      billed == CommuneFor(d.utility, IF d.postcode # None THEN d.postcode ELSE entry.postcode)
  IN IF billed \in shown /\ (Moved(d) \/ saved = None) THEN billed
     ELSE IF Moved(d) THEN None ELSE saved

\* The operator is known: the commune step is shown, or skipped without a list.
OperatorKnown(d, o) ==
  LET e == [d EXCEPT !.utility = o] IN
  \/ /\ Communes[o] \cap listed # {}
     /\ LET shown == Communes[o] \cap listed IN
        dialog' = [e EXCEPT !.step = "commune", !.lists = shown, !.suggested = Suggested(e, shown),
                            !.drop = @ \/ entry.commune \notin shown \cup {None}]
     /\ UNCHANGED <<entry, chosen, state>>
  \/ Finish(e, None)

\* async_step_reconfigure_postcode, and the choice it may hand over to.
SubmitPostcode ==
  /\ dialog # None /\ dialog.step = "menu"
  /\ \E p \in Postcodes :
       LET d == [dialog EXCEPT !.postcode = p] IN
       IF Cardinality(Candidates[p]) = 1
       THEN \E o \in Candidates[p] : OperatorKnown(d, o)
       ELSE /\ dialog' = [d EXCEPT !.step = IF Candidates[p] = {} THEN "manual" ELSE "choose"]
            /\ UNCHANGED <<entry, chosen, state>>
  /\ UNCHANGED <<running, before, outside, options, left>>

\* async_step_reconfigure_choose and async_step_reconfigure_manual.
PickOperator ==
  /\ dialog # None /\ dialog.step \in {"menu", "choose", "manual"}
  /\ \E o \in Operators :
       /\ dialog.step = "choose" => o \in Candidates[dialog.postcode]
       /\ OperatorKnown(dialog, o)
  /\ UNCHANGED <<running, before, outside, options, left>>

\* async_step_reconfigure_commune, sent in: what was suggested, cleared, or another.
SubmitCommune ==
  /\ dialog # None /\ dialog.step = "commune"
  /\ \E c \in dialog.lists \cup {None} :
       LET at == IF dialog.postcode # None THEN dialog.postcode ELSE entry.postcode
           saved == c = dialog.suggested /\ c = entry.commune /\ c # CommuneFor(dialog.utility, at)
       IN Finish([dialog EXCEPT !.commune = c, !.submitted = TRUE, !.step = "sent"],
                 IF saved THEN chosen ELSE at)
  /\ UNCHANGED <<running, before, outside, options, left>>

\* async_step_reconfigure_household
SubmitHousehold ==
  /\ dialog # None /\ dialog.step = "household"
  /\ Finish([dialog EXCEPT !.household = Region[dialog.utility]],
            IF dialog.postcode # None THEN dialog.postcode ELSE entry.postcode)
  /\ UNCHANGED <<running, before, outside, options, left>>

CloseReconfigure ==
  /\ dialog # None /\ dialog' = None
  /\ UNCHANGED <<entry, chosen, state, running, before, outside, options, left>>

-----------------------------------------------------------------------------
(* The options dialog. *)

OpenOptions ==
  /\ state # "none" /\ options = None /\ MayOpen
  /\ \E shown \in Lists(entry.utility) :
       options' = [utility |-> entry.utility, lists |-> shown,
                   offered |-> IF entry.commune \in shown THEN entry.commune
                               ELSE CommuneFor(entry.utility, entry.postcode)]
  /\ left' = [left EXCEPT !.dialogs = @ - 1]
  /\ UNCHANGED <<entry, chosen, state, running, before, outside, dialog>>

\* async_step_init of the options flow, sent in.
SubmitOptions ==
  /\ options # None /\ MaySend
  /\ \E c \in options.lists \cup {None} :
       LET new == [entry EXCEPT
                     !.household = Answer(options.utility), !.archive = TRUE,
                     !.commune = IF options.lists = {} THEN @ ELSE c]
       IN /\ entry' = new /\ state' = Reloads(new)
          /\ chosen' = IF options.lists = {} \/ c = entry.commune THEN chosen ELSE entry.postcode
  /\ options' = None
  /\ UNCHANGED <<running, before, outside, dialog, left>>

-----------------------------------------------------------------------------
(* The world outside (external), and a new release. *)

ListsChange ==
  /\ left.changes > 0
  /\ \E c \in AllCommunes : listed' = IF c \in listed THEN listed \ {c} ELSE listed \cup {c}
  /\ left' = [left EXCEPT !.changes = @ - 1]
  /\ UNCHANGED <<entry, chosen, state, running, before, blocked, dialog, options>>

\* Home Assistant restarts, on a release that may block one more commune.
Restart ==
  /\ left.changes > 0 /\ state # "none"
  /\ \E c \in AllCommunes \cup {None} :
       /\ blocked' = blocked \cup ({c} \ {None})
       /\ listed' = listed \ {c}
  /\ state' = "unloaded" /\ before' = None /\ dialog' = None /\ options' = None
  /\ left' = [left EXCEPT !.changes = @ - 1]
  /\ UNCHANGED <<entry, chosen, running>>

\* Entries of earlier releases: without a postcode, or with the household a move out
\* of Flanders left.
Legacy ==
  {[utility |-> o, commune |-> c, postcode |-> None, resolved |-> {}, household |-> h,
    archive |-> a, minor |-> 1] :
     o \in Operators, c \in AllCommunes \cup {None}, h \in {None, "flanders", "brussels"},
     a \in BOOLEAN}

LegacyEntries ==
  {e \in Legacy :
     /\ e.commune \in Communes[e.utility] \cup {None}
     /\ Region[e.utility] = "flanders" => e.household \in {None, "flanders"}
     /\ Region[e.utility] # "flanders" =>
          e.household \in {None, IF e.archive THEN Answer(e.utility) ELSE "flanders"}}

Init ==
  /\ \/ entry = None /\ state = "none"
     \/ entry \in LegacyEntries /\ state = "unloaded"
  /\ chosen = None /\ running = None /\ before = None
  /\ listed = AllCommunes /\ blocked = {} /\ dialog = None /\ options = None
  /\ left = [dialogs |-> MaxDialogs, changes |-> MaxChanges]

Next ==
  \/ Install \/ SetupBegins \/ SetupLoads \/ SetupFails
  \/ OpenReconfigure \/ SubmitPostcode \/ PickOperator \/ SubmitCommune \/ SubmitHousehold
  \/ CloseReconfigure \/ OpenOptions \/ SubmitOptions
  \/ ListsChange \/ Restart

Spec == Init /\ [][Next]_vars

-----------------------------------------------------------------------------
(* Properties. *)

\* Whatever dialogs, lists, releases and failed setups came in between, an entry's
\* commune is one of its operator's and was chosen for the postcode it has, or when
\* it had none (config_flow.py, _async_finish_reconfigure, async_step_reconfigure_commune;
\* __init__.py, _adopt_commune_for_postcode).
CommuneIsOfTheAddress ==
  (IF entry = None THEN None ELSE entry.commune) # None =>
    /\ entry.commune \in Communes[entry.utility]
    /\ chosen \in {None, entry.postcode}

\* A loaded entry's residents and social option were answered for the region its
\* operator bills in, and a Walloon entry has none (config_flow.py,
\* async_step_reconfigure_household; __init__.py, _drop_leftover_household).
HouseholdIsOfTheRegion ==
  state = "loaded" /\ entry.household # None => entry.household = Answer(entry.utility)
=============================================================================
