-------------------------- MODULE EntryFlowsProofs --------------------------
(***************************************************************************)
(* Theorems of EntryFlows, for every set of operators, communes and        *)
(* postcodes and every number of dialogs, releases and failed setups: what *)
(* an entry says of the household is about the operator and the address it *)
(* has.                                                                    *)
(*                                                                         *)
(* No dialog is sent in beside another or while a setup runs.  Without     *)
(* that assumption neither holds: an options form left open beside a       *)
(* reconfigure writes the old operator's answers into the new one's entry. *)
(*                                                                         *)
(* And of MeterHistory: what the projection's Repair card says of the      *)
(* meter is about the entry as it is, also of the two parts side by side   *)
(* (MCEntry).                                                              *)
(***************************************************************************)
EXTENDS MCEntry, TLAPS

-----------------------------------------------------------------------------
(* The types of the entry and of what the dialogs and the setup keep.      *)

Regions == {"flanders", "brussels", "wallonia"}

Entries ==
  [utility : Operators, commune : AllCommunes \cup {None}, postcode : Postcodes \cup {None},
   resolved : SUBSET Operators, household : Regions \cup {None}, archive : BOOLEAN,
   minor : {1, 2}]

Dialogs ==
  [step : {"menu", "choose", "manual", "commune", "household"},
   utility : Operators \cup {None}, postcode : Postcodes \cup {None},
   lists : SUBSET AllCommunes, suggested : AllCommunes \cup {None},
   commune : AllCommunes \cup {None}, submitted : BOOLEAN, drop : BOOLEAN,
   household : {None}]

OptionsDialogs ==
  [utility : Operators, lists : SUBSET AllCommunes, offered : AllCommunes \cup {None}]

Befores == [entry : Entries, chosen : Postcodes \cup {None}, changed : BOOLEAN]

FlowsType ==
  /\ state \in {"none", "unloaded", "setup", "retry", "loaded"}
  /\ state = "none" => entry = None /\ dialog = None /\ options = None
  /\ state # "none" => entry \in Entries
  /\ chosen \in Postcodes \cup {None}
  /\ state = "setup" => before \in Befores
  /\ listed \subseteq AllCommunes
  /\ blocked \subseteq AllCommunes
  /\ dialog # None => dialog \in Dialogs
  /\ options # None => options \in OptionsDialogs

-----------------------------------------------------------------------------
(* The invariant.                                                          *)

\* Once it is migrated the entry says of the household what its operator's
\* region asks, or nothing.
Answered(e) == Migrated(e).household \in {None, Answer(e.utility)}

\* Its commune is one of its operator's, chosen for its address.
Placed(e, for) ==
  e.commune # None =>
    /\ e.commune \in Communes[e.utility]
    /\ for \in {None, e.postcode}

EntryStands == state # "none" => Answered(entry) /\ Placed(entry, chosen)

\* What a failed setup puts back is as good, and of the same address.
CanBePutBack ==
  state = "setup" =>
    /\ entry.minor = 2 /\ before.entry.minor = 2
    /\ before.entry.utility = entry.utility
    /\ before.entry.postcode = entry.postcode
    /\ Answered(before.entry)
    /\ Placed(before.entry, before.chosen)

Loaded == state = "loaded" => entry.minor = 2

\* The commune step lists its operator's communes, and suggests on a move only
\* the one the new address is billed on.
CommuneStep ==
  dialog # None /\ dialog.step = "commune" =>
    /\ dialog.utility \in Operators
    /\ dialog.lists \subseteq Communes[dialog.utility]
    /\ Moved(dialog) => dialog.suggested \in {None, CommuneFor(dialog.utility, dialog.postcode)}

\* The household is asked of an operator that prices on it, once its commune
\* is known.
HouseholdStep ==
  dialog # None /\ dialog.step = "household" =>
    /\ dialog.utility \in Operators /\ PricesHousehold(dialog.utility)
    /\ dialog.commune \in Communes[dialog.utility] \cup {None}

EarlySteps ==
  dialog # None /\ dialog.step # "household" => dialog.commune = None

\* The options form is alone, and is of the entry's operator.
OptionsStep ==
  options # None =>
    /\ dialog = None
    /\ options.utility = entry.utility
    /\ options.lists \subseteq Communes[options.utility]

DialogsStand == CommuneStep /\ HouseholdStep /\ EarlySteps /\ OptionsStep

FlowsInv == FlowsType /\ EntryStands /\ CanBePutBack /\ Loaded /\ DialogsStand

-----------------------------------------------------------------------------
(* The operators.                                                          *)

\* An operator's communes are among all communes, and an address is billed on
\* one of them or on none.
LEMMA BilledType ==
  ASSUME NEW o \in Operators, NEW p \in Postcodes \cup {None}
  PROVE  /\ Communes[o] \subseteq AllCommunes
         /\ CommuneFor(o, p) \in Communes[o] \cup {None}
  BY FlowAssumption DEF AllCommunes, CommuneFor

\* What a region asks of a household.
LEMMA AnswerType ==
  ASSUME NEW o \in Operators
  PROVE  /\ Region[o] \in Regions
         /\ Answer(o) \in Regions \cup {None}
         /\ PricesHousehold(o) => Answer(o) = Region[o]
  BY FlowAssumption DEF Answer, Regions

\* The migration keeps everything but the household.
LEMMA MigratedType ==
  ASSUME NEW e \in Entries
  PROVE  /\ Migrated(e) \in Entries
         /\ Migrated(e).utility = e.utility /\ Migrated(e).postcode = e.postcode
         /\ Migrated(e).commune = e.commune /\ Migrated(e).minor = 2
  BY DEF Migrated, Entries

\* An entry that is of today's release, or that says nothing, is as answered
\* as its household.
LEMMA AnsweredToday ==
  ASSUME NEW e \in Entries, e.minor = 2
  PROVE  Answered(e) <=> e.household \in {None, Answer(e.utility)}
  BY DEF Answered, Migrated

\* Migrating an entry whose household answers its region keeps that.
LEMMA AnswersStand ==
  ASSUME NEW e \in Entries, e.household \in {None, Answer(e.utility)}
  PROVE  Answered(e)
  BY DEF Answered, Migrated, Entries

\* Whether an entry is answered depends on its region, household, archive
\* switch and release alone.
LEMMA AnsweredAlike ==
  ASSUME NEW e \in Entries, NEW f \in Entries, Answered(e),
         Region[f.utility] = Region[e.utility], f.household = e.household,
         f.archive = e.archive, f.minor = e.minor
  PROVE  Answered(f)
  BY DEF Answered, Migrated, Answer, PricesHousehold, Entries

\* Setup drops a phantom commune and adopts the one its address is billed on.
LEMMA AdoptedType ==
  ASSUME NEW e \in Entries
  PROVE  LET a == Adopted(WithoutPhantom(e))
         IN /\ a \in Entries
            /\ a.utility = e.utility /\ a.postcode = e.postcode
            /\ a.household = e.household /\ a.archive = e.archive /\ a.minor = e.minor
            /\ a.commune \in {None, e.commune, CommuneFor(e.utility, e.postcode)}
<1> DEFINE w == WithoutPhantom(e)
<1>1. /\ w \in Entries
      /\ w.utility = e.utility /\ w.postcode = e.postcode
      /\ w.household = e.household /\ w.archive = e.archive /\ w.minor = e.minor
      /\ w.commune \in {None, e.commune}
  BY DEF WithoutPhantom, Entries
<1>2. CommuneFor(w.utility, w.postcode) \in AllCommunes \cup {None}
  BY <1>1, BilledType DEF Entries
<1> HIDE DEF w
<1>3. LET a == Adopted(w)
      IN /\ a \in Entries
         /\ a.utility = w.utility /\ a.postcode = w.postcode
         /\ a.household = w.household /\ a.archive = w.archive /\ a.minor = w.minor
         /\ a.commune \in {w.commune, CommuneFor(w.utility, w.postcode)}
  BY <1>1, <1>2 DEF Adopted, Entries
<1> QED
  BY <1>1, <1>3 DEF w

-----------------------------------------------------------------------------
(* Installing, setting up.                                                 *)

LEMMA InitFlows == Init => FlowsInv
<1> SUFFICES ASSUME Init
             PROVE  FlowsInv
  OBVIOUS
<1>1. /\ dialog = None /\ options = None /\ chosen = None
      /\ listed = AllCommunes /\ blocked = {}
      /\ \/ entry = None /\ state = "none"
         \/ entry \in LegacyEntries /\ state = "unloaded"
  BY DEF Init
<1>2. ASSUME entry \in LegacyEntries
      PROVE  entry \in Entries /\ Answered(entry) /\ Placed(entry, None)
  <2>1. PICK o \in Operators, c \in AllCommunes \cup {None},
             h \in {None, "flanders", "brussels"}, a \in BOOLEAN :
          entry = [utility |-> o, commune |-> c, postcode |-> None, resolved |-> {},
                   household |-> h, archive |-> a, minor |-> 1]
    BY <1>2 DEF LegacyEntries, Legacy
  <2>2. entry \in Entries
    BY <2>1 DEF Entries, Regions
  <2>3. Placed(entry, None)
    BY <1>2 DEF LegacyEntries, Placed
  <2>4. Region[o] \in Regions
    BY AnswerType
  <2>5. /\ Region[o] = "flanders" => h \in {None, "flanders"}
        /\ Region[o] # "flanders" => h \in {None, IF a THEN Answer(o) ELSE "flanders"}
    BY <1>2, <2>1 DEF LegacyEntries
  <2>6. Migrated(entry).household =
          IF Region[o] = "flanders" \/ (Region[o] = "brussels" /\ a) THEN h ELSE None
    BY <2>1 DEF Migrated
  <2>7. Answered(entry)
    BY <2>1, <2>4, <2>5, <2>6 DEF Answered, Answer, PricesHousehold, Regions
  <2> QED
    BY <2>2, <2>3, <2>7
<1>3. FlowsType
  BY <1>1, <1>2 DEF FlowsType
<1>4. EntryStands /\ CanBePutBack /\ Loaded
  BY <1>1, <1>2 DEF EntryStands, CanBePutBack, Loaded
<1>5. DialogsStand
  BY <1>1 DEF DialogsStand, CommuneStep, HouseholdStep, EarlySteps, OptionsStep
<1> QED
  BY <1>3, <1>4, <1>5 DEF FlowsInv

\* The first dialog writes an entry whose commune is on its list.
LEMMA InstallKeeps == FlowsInv /\ Install => FlowsInv'
<1> SUFFICES ASSUME FlowsInv, Install
             PROVE  FlowsInv'
  OBVIOUS
<1>1. PICK p \in Postcodes, o \in Operators : \E choices \in Lists(o) : \E c \in choices \cup {None} :
        /\ entry' = [utility |-> o, commune |-> c, postcode |-> p, resolved |-> {},
                     household |-> Answer(o), archive |-> TRUE, minor |-> 2]
        /\ chosen' = p
  BY DEF Install
<1>2. PICK c \in Communes[o] \cup {None} :
        /\ entry' = [utility |-> o, commune |-> c, postcode |-> p, resolved |-> {},
                     household |-> Answer(o), archive |-> TRUE, minor |-> 2]
        /\ chosen' = p
  BY <1>1 DEF Lists
<1>3. Communes[o] \subseteq AllCommunes
  BY BilledType
<1>4. entry' \in Entries
  BY <1>2, <1>3, AnswerType DEF Entries
<1>5. Placed(entry', chosen')
  BY <1>1, <1>2, <1>3 DEF Placed
<1>6. Answered(entry')
  BY <1>2, <1>4, AnswersStand
<1>7. /\ state' = "unloaded" /\ chosen' \in Postcodes /\ state = "none"
      /\ UNCHANGED <<listed, blocked, dialog, options>>
  BY <1>1 DEF Install, outside
<1>8. dialog = None /\ options = None
  BY <1>7 DEF FlowsInv, FlowsType
<1>9. FlowsType'
  BY <1>4, <1>7, <1>8 DEF FlowsInv, FlowsType
<1>10. (EntryStands /\ CanBePutBack /\ Loaded)'
  BY <1>5, <1>6, <1>7 DEF EntryStands, CanBePutBack, Loaded
<1>11. DialogsStand'
  BY <1>7, <1>8 DEF DialogsStand, CommuneStep, HouseholdStep, EarlySteps, OptionsStep
<1> QED
  BY <1>9, <1>10, <1>11 DEF FlowsInv

\* The dialogs stand while the entry keeps its operator and its address.
LEMMA DialogsStay ==
  ASSUME DialogsStand, entry'.utility = entry.utility, entry'.postcode = entry.postcode,
         UNCHANGED <<dialog, options>>
  PROVE  DialogsStand'
<1>1. dialog' = dialog /\ options' = options
  OBVIOUS
<1>2. CommuneStep'
  BY <1>1 DEF DialogsStand, CommuneStep, Moved
<1>3. HouseholdStep' /\ EarlySteps' /\ OptionsStep'
  BY <1>1 DEF DialogsStand, HouseholdStep, EarlySteps, OptionsStep
<1> QED
  BY <1>2, <1>3 DEF DialogsStand

\* Setup migrates the entry and adopts a commune of its operator's for its address.
LEMMA SetupBeginsKeeps == FlowsInv /\ SetupBegins => FlowsInv'
<1> SUFFICES ASSUME FlowsInv, SetupBegins
             PROVE  FlowsInv'
  OBVIOUS
<1> DEFINE old == Migrated(entry)
           new == Adopted(WithoutPhantom(old))
<1>1. /\ entry \in Entries /\ chosen \in Postcodes \cup {None}
      /\ Answered(entry) /\ Placed(entry, chosen)
  BY DEF SetupBegins, FlowsInv, FlowsType, EntryStands
<1>2. /\ old \in Entries
      /\ old.utility = entry.utility /\ old.postcode = entry.postcode
      /\ old.commune = entry.commune /\ old.minor = 2
  BY <1>1, MigratedType
<1>3. /\ entry' = new
      /\ chosen' = IF new.commune \notin {None, old.commune} THEN new.postcode ELSE chosen
      /\ before' = [entry |-> old, chosen |-> chosen, changed |-> new # old]
      /\ state' = "setup"
      /\ UNCHANGED <<listed, blocked, dialog, options>>
  BY DEF SetupBegins, outside
<1>4. Answered(old) /\ Placed(old, chosen)
  BY <1>1, <1>2 DEF Answered, Placed, Migrated
<1> HIDE DEF old
<1>5. /\ new \in Entries
      /\ new.utility = old.utility /\ new.postcode = old.postcode
      /\ new.household = old.household /\ new.archive = old.archive /\ new.minor = old.minor
      /\ new.commune \in {None, old.commune, CommuneFor(old.utility, old.postcode)}
  BY <1>2, AdoptedType
<1> DEFINE changed == new # old
<1>6. changed \in BOOLEAN
  OBVIOUS
<1> HIDE DEF new, changed
<1>7. Answered(entry')
  BY <1>2, <1>3, <1>4, <1>5, AnsweredAlike
<1>8. CommuneFor(old.utility, old.postcode) \in Communes[old.utility] \cup {None}
  BY <1>2, BilledType DEF Entries
<1>9. Placed(entry', chosen')
  BY <1>3, <1>4, <1>5, <1>8 DEF Placed
<1>10. before' = [entry |-> old, chosen |-> chosen, changed |-> changed]
  BY <1>3 DEF changed
<1>11. before' \in Befores
  BY <1>1, <1>2, <1>6, <1>10 DEF Befores
<1>12. chosen' \in Postcodes \cup {None}
  BY <1>1, <1>3, <1>5 DEF Entries
<1>13. FlowsType'
  BY <1>3, <1>5, <1>11, <1>12 DEF FlowsInv, FlowsType
<1>14. EntryStands' /\ Loaded'
  BY <1>3, <1>7, <1>9 DEF EntryStands, Loaded
<1>15. CanBePutBack'
  BY <1>2, <1>3, <1>4, <1>5, <1>10 DEF CanBePutBack
<1>16. DialogsStand'
  BY <1>2, <1>3, <1>5, DialogsStay DEF FlowsInv
<1> QED
  BY <1>13, <1>14, <1>15, <1>16 DEF FlowsInv

\* A setup that finished leaves the entry as it wrote it.
LEMMA SetupLoadsKeeps == FlowsInv /\ SetupLoads => FlowsInv'
<1> SUFFICES ASSUME FlowsInv, SetupLoads
             PROVE  FlowsInv'
  OBVIOUS
<1>1. /\ state = "setup" /\ state' = "loaded"
      /\ UNCHANGED <<entry, chosen, listed, blocked, dialog, options>>
  BY DEF SetupLoads, outside
<1>2. FlowsType'
  BY <1>1 DEF FlowsInv, FlowsType
<1>3. EntryStands' /\ CanBePutBack' /\ Loaded'
  BY <1>1 DEF FlowsInv, EntryStands, CanBePutBack, Loaded, Placed, Answered, Migrated, Answer,
              PricesHousehold
<1>4. DialogsStand'
  BY <1>1, DialogsStay DEF FlowsInv
<1> QED
  BY <1>2, <1>3, <1>4 DEF FlowsInv

\* A setup that failed puts back what it found, of the same operator and address.
LEMMA SetupFailsKeeps == FlowsInv /\ SetupFails => FlowsInv'
<1> SUFFICES ASSUME FlowsInv, SetupFails
             PROVE  FlowsInv'
  OBVIOUS
<1> DEFINE back == [before.entry EXCEPT !.utility = entry.utility]
<1>1. /\ state = "setup" /\ state' = "retry"
      /\ UNCHANGED <<listed, blocked, dialog, options>>
      /\ \/ entry' = back /\ chosen' = before.chosen
         \/ entry' = entry /\ chosen' = chosen
  BY DEF SetupFails, outside
<1>2. /\ before \in Befores
      /\ before.entry.utility = entry.utility /\ before.entry.postcode = entry.postcode
      /\ Answered(before.entry) /\ Placed(before.entry, before.chosen)
      /\ entry \in Entries /\ Answered(entry) /\ Placed(entry, chosen)
      /\ chosen \in Postcodes \cup {None}
  BY <1>1 DEF FlowsInv, FlowsType, CanBePutBack, EntryStands
<1>3. before.entry \in Entries /\ before.chosen \in Postcodes \cup {None}
  BY <1>2 DEF Befores
<1>4. back = before.entry
  BY <1>2, <1>3 DEF Entries
<1> HIDE DEF back
<1>5. /\ entry' \in Entries /\ chosen' \in Postcodes \cup {None}
      /\ Answered(entry') /\ Placed(entry', chosen')
      /\ entry'.utility = entry.utility /\ entry'.postcode = entry.postcode
  BY <1>1, <1>2, <1>3, <1>4
<1>6. FlowsType'
  BY <1>1, <1>5 DEF FlowsInv, FlowsType
<1>7. EntryStands' /\ CanBePutBack' /\ Loaded'
  BY <1>1, <1>5 DEF EntryStands, CanBePutBack, Loaded
<1>8. DialogsStand'
  BY <1>1, <1>5, DialogsStay DEF FlowsInv
<1> QED
  BY <1>6, <1>7, <1>8 DEF FlowsInv

-----------------------------------------------------------------------------
(* The reconfigure dialog.                                                 *)

\* A step that leaves the entry alone keeps the invariant if it keeps the dialogs'.
LEMMA EntryStays ==
  ASSUME FlowsInv, UNCHANGED <<entry, chosen, state, before, listed, blocked>>,
         state # "none", DialogsStand',
         dialog' # None => dialog' \in Dialogs,
         options' # None => options' \in OptionsDialogs
  PROVE  FlowsInv'
<1>1. FlowsType'
  BY DEF FlowsInv, FlowsType
<1>2. EntryStands' /\ CanBePutBack' /\ Loaded'
  BY DEF FlowsInv, EntryStands, CanBePutBack, Loaded, Placed, Answered, Migrated, Answer,
         PricesHousehold
<1> QED
  BY <1>1, <1>2 DEF FlowsInv

\* A reconfigure is opened when no other dialog is.
LEMMA OpenReconfigureKeeps ==
  ASSUME ~Overlaps
  PROVE  FlowsInv /\ OpenReconfigure => FlowsInv'
<1> SUFFICES ASSUME FlowsInv, OpenReconfigure
             PROVE  FlowsInv'
  OBVIOUS
<1>1. /\ state # "none" /\ options = None /\ dialog' = NewDialog
      /\ UNCHANGED <<entry, chosen, state, before, listed, blocked, options>>
  BY DEF OpenReconfigure, MayOpen, outside
<1>2. NewDialog \in Dialogs /\ NewDialog.step = "menu" /\ NewDialog.commune = None
  BY DEF NewDialog, Dialogs
<1>3. DialogsStand'
  BY <1>1, <1>2 DEF DialogsStand, CommuneStep, HouseholdStep, EarlySteps, OptionsStep
<1> QED
  BY <1>1, <1>2, <1>3, EntryStays DEF FlowsInv, FlowsType

\* A reconfigure that ends writes the operator it asked about, its household's
\* answers and a commune of that operator's for its address, or asks for the
\* household first.
LEMMA FinishKeeps ==
  ASSUME ~Overlaps, FlowsInv, dialog # None,
         NEW d, d.utility \in Operators,
         d.postcode \in Postcodes \cup {None},
         d.commune \in Communes[d.utility] \cup {None},
         d.household \in {None, Answer(d.utility)},
         d.household = None => [d EXCEPT !.step = "household"] \in Dialogs,
         DOMAIN d = {"step", "utility", "postcode", "lists", "suggested", "commune",
                     "submitted", "drop", "household"},
         NEW for \in Postcodes \cup {None},
         d.commune # None =>
           for = None \/ for = IF d.postcode # None THEN d.postcode ELSE entry.postcode,
         Finish(d, for), UNCHANGED <<before, listed, blocked, options>>
  PROVE  FlowsInv'
<1>1. /\ entry \in Entries /\ chosen \in Postcodes \cup {None} /\ state # "none"
      /\ Answered(entry) /\ Placed(entry, chosen)
      /\ options = None
  BY DEF FlowsInv, FlowsType, EntryStands, DialogsStand, OptionsStep
<1>2. CASE AsksHousehold(d)
  <2> DEFINE asked == [d EXCEPT !.step = "household"]
  <2>1. dialog' = asked /\ UNCHANGED <<entry, chosen, state>>
    BY <1>2 DEF Finish
  <2>2. PricesHousehold(d.utility) /\ asked \in Dialogs
    BY <1>2 DEF AsksHousehold
  <2>3. asked.step = "household" /\ asked.utility = d.utility /\ asked.commune = d.commune
    OBVIOUS
  <2> HIDE DEF asked
  <2>4. DialogsStand'
    BY <1>1, <2>1, <2>2, <2>3 DEF DialogsStand, CommuneStep, HouseholdStep, EarlySteps, OptionsStep
  <2> QED
    BY <1>1, <2>1, <2>2, <2>4, EntryStays
<1>3. CASE ~AsksHousehold(d)
  <2> DEFINE postcode == IF d.postcode # None THEN d.postcode ELSE entry.postcode
             resolved == ResolvedAfter(d)
             household == HouseholdAfter(d)
             commune == CommuneAfter(d)
             new == [entry EXCEPT !.utility = d.utility, !.postcode = postcode,
                                  !.resolved = resolved, !.household = household,
                                  !.commune = commune]
  <2>1. /\ MaySend
        /\ entry' = new /\ dialog' = None
        /\ chosen' = IF d.commune # None THEN for ELSE chosen
        /\ state' = IF state \in {"retry", "loaded"} THEN "unloaded" ELSE state
    BY <1>3 DEF Finish
  <2>2. state # "setup" /\ state' = "unloaded"
    BY <1>1, <2>1 DEF MaySend, FlowsInv, FlowsType
  <2>3. postcode \in Postcodes \cup {None}
    BY <1>1 DEF Entries
  <2>4. resolved \subseteq Operators
    BY <1>1, FlowAssumption DEF ResolvedAfter, Entries
  <2>5. Answer(d.utility) \in Regions \cup {None}
    BY AnswerType
  <2>6. \/ household = Answer(d.utility)
        \/ household = None
        \/ household = entry.household /\ Region[d.utility] = Region[entry.utility]
    BY <1>3 DEF HouseholdAfter, AsksHousehold
  <2>7. household \in Regions \cup {None}
    BY <1>1, <2>5, <2>6 DEF Entries
  <2>8. \/ commune = None
        \/ commune = d.commune
        \/ /\ d.commune = None /\ commune = entry.commune
           /\ d.utility = entry.utility /\ ~Moved(d)
    BY DEF CommuneAfter
  <2>9. Communes[d.utility] \subseteq AllCommunes
    BY BilledType
  <2>10. commune \in AllCommunes \cup {None}
    BY <1>1, <2>8, <2>9 DEF Entries
  <2> HIDE DEF postcode, resolved, household, commune
  <2>11. /\ new \in Entries
         /\ new.utility = d.utility /\ new.postcode = postcode /\ new.household = household
         /\ new.commune = commune /\ new.archive = entry.archive /\ new.minor = entry.minor
    BY <1>1, <2>3, <2>4, <2>7, <2>10 DEF Entries
  <2> HIDE DEF new
  <2>12. Answered(new)
    BY <1>1, <2>6, <2>11, AnswersStand, AnsweredAlike
  <2>13. Placed(new, chosen')
    <3>1. CASE commune = None
      BY <2>11, <3>1 DEF Placed
    <3>2. CASE commune # None /\ commune = d.commune
      BY <2>1, <2>11, <3>2 DEF Placed, postcode
    <3>3. CASE /\ commune # None /\ d.commune = None /\ commune = entry.commune
               /\ d.utility = entry.utility /\ ~Moved(d)
      <4>1. postcode = entry.postcode \/ entry.postcode = None
        BY <3>3 DEF postcode, Moved
      <4> QED
        BY <1>1, <2>1, <2>11, <3>3, <4>1 DEF Placed
    <3> QED
      BY <2>8, <3>1, <3>2, <3>3
  <2>14. chosen' \in Postcodes \cup {None}
    BY <1>1, <2>1
  <2>15. FlowsType'
    BY <1>1, <2>1, <2>2, <2>11, <2>14 DEF FlowsInv, FlowsType
  <2>16. EntryStands' /\ CanBePutBack' /\ Loaded'
    BY <2>1, <2>2, <2>12, <2>13 DEF EntryStands, CanBePutBack, Loaded
  <2>17. DialogsStand'
    BY <1>1, <2>1 DEF DialogsStand, CommuneStep, HouseholdStep, EarlySteps, OptionsStep
  <2> QED
    BY <2>15, <2>16, <2>17 DEF FlowsInv
<1> QED
  BY <1>2, <1>3

\* What the commune step suggests is one of the communes it shows, and on a move
\* only the one the new address is billed on.
LEMMA SuggestedType ==
  ASSUME NEW d, NEW choices, entry \in Entries
  PROVE  /\ Suggested(d, choices) \in choices \cup {None}
         /\ Moved(d) => Suggested(d, choices) \in {None, CommuneFor(d.utility, d.postcode)}
  BY DEF Suggested, Moved

\* Once the operator is known its communes are shown, or the dialog ends.
LEMMA OperatorKnownKeeps ==
  ASSUME ~Overlaps, FlowsInv, dialog # None,
         NEW d \in Dialogs, d.commune = None, NEW o \in Operators,
         OperatorKnown(d, o), UNCHANGED <<before, listed, blocked, options>>
  PROVE  FlowsInv'
<1>1. entry \in Entries /\ options = None /\ state # "none"
  BY DEF FlowsInv, FlowsType, DialogsStand, OptionsStep
<1> DEFINE e == [d EXCEPT !.utility = o]
<1>2. /\ e \in Dialogs /\ e.utility = o /\ e.commune = None /\ e.household = None
      /\ e.postcode = d.postcode
  BY DEF Dialogs
<1> HIDE DEF e
<1>3. CASE Finish(e, None)
  <2>1. [e EXCEPT !.step = "household"] \in Dialogs
    BY <1>2 DEF Dialogs
  <2>2. e.postcode \in Postcodes \cup {None}
    BY <1>2 DEF Dialogs
  <2>3. DOMAIN e = {"step", "utility", "postcode", "lists", "suggested", "commune",
                    "submitted", "drop", "household"}
    BY <1>2 DEF Dialogs
  <2> QED
    BY <1>2, <1>3, <2>1, <2>2, <2>3, FinishKeeps
<1>4. CASE ~Finish(e, None)
  <2> DEFINE choices == Communes[o] \cap listed
             suggested == Suggested(e, choices)
             drop == e.drop \/ entry.commune \notin choices \cup {None}
             next == [e EXCEPT !.step = "commune", !.lists = choices, !.suggested = suggested,
                               !.drop = drop]
  <2>1. dialog' = next /\ UNCHANGED <<entry, chosen, state>>
    BY <1>4 DEF OperatorKnown, e
  <2>2. choices \subseteq Communes[o] /\ choices \subseteq AllCommunes
    BY BilledType
  <2>3. /\ suggested \in choices \cup {None}
        /\ Moved(e) => suggested \in {None, CommuneFor(o, e.postcode)}
    BY <1>1, <1>2, SuggestedType
  <2>4. drop \in BOOLEAN
    OBVIOUS
  <2> HIDE DEF choices, suggested, drop
  <2>5. /\ next \in Dialogs
        /\ next.step = "commune" /\ next.utility = o /\ next.postcode = e.postcode
        /\ next.lists = choices /\ next.suggested = suggested /\ next.commune = None
    BY <1>2, <2>2, <2>3, <2>4 DEF Dialogs
  <2> HIDE DEF next
  <2>6. Moved(next) => Moved(e)
    BY <2>5 DEF Moved
  <2>7. CommuneStep'
    BY <2>1, <2>2, <2>3, <2>5, <2>6 DEF CommuneStep, Moved
  <2>8. DialogsStand'
    BY <1>1, <2>1, <2>5, <2>7 DEF DialogsStand, HouseholdStep, EarlySteps, OptionsStep
  <2> QED
    BY <1>1, <2>1, <2>5, <2>8, EntryStays
<1> QED
  BY <1>3, <1>4

\* A postcode leads to its one operator, or to a choice.
LEMMA SubmitPostcodeKeeps ==
  ASSUME ~Overlaps
  PROVE  FlowsInv /\ SubmitPostcode => FlowsInv'
<1> SUFFICES ASSUME FlowsInv, SubmitPostcode
             PROVE  FlowsInv'
  OBVIOUS
<1>1. /\ dialog # None /\ dialog.step = "menu"
      /\ UNCHANGED <<before, listed, blocked, options>>
  BY DEF SubmitPostcode, outside
<1>2. /\ dialog \in Dialogs /\ dialog.commune = None /\ options = None /\ state # "none"
  BY <1>1 DEF FlowsInv, FlowsType, DialogsStand, EarlySteps, OptionsStep
<1>3. PICK p \in Postcodes :
        LET d == [dialog EXCEPT !.postcode = p] IN
        IF Cardinality(Candidates[p]) = 1
        THEN \E o \in Candidates[p] : OperatorKnown(d, o)
        ELSE /\ dialog' = [d EXCEPT !.step = IF Candidates[p] = {} THEN "manual" ELSE "choose"]
             /\ UNCHANGED <<entry, chosen, state>>
  BY DEF SubmitPostcode
<1> DEFINE d == [dialog EXCEPT !.postcode = p]
           step == IF Candidates[p] = {} THEN "manual" ELSE "choose"
<1>4. d \in Dialogs /\ d.commune = None
  BY <1>2 DEF Dialogs
<1>5. CASE \E o \in Candidates[p] : OperatorKnown(d, o)
  <2>1. PICK o \in Candidates[p] : OperatorKnown(d, o)
    BY <1>5
  <2>2. o \in Operators
    BY FlowAssumption
  <2> HIDE DEF d
  <2> QED
    BY <1>1, <1>4, <2>1, <2>2, OperatorKnownKeeps
<1>6. CASE dialog' = [d EXCEPT !.step = step] /\ UNCHANGED <<entry, chosen, state>>
  <2> HIDE DEF d
  <2>1. [d EXCEPT !.step = "manual"] \in Dialogs /\ [d EXCEPT !.step = "choose"] \in Dialogs
    BY <1>4 DEF Dialogs
  <2>2. dialog' \in Dialogs /\ dialog'.step \in {"manual", "choose"} /\ dialog'.commune = None
    BY <1>4, <1>6, <2>1 DEF Dialogs
  <2>3. DialogsStand'
    BY <1>1, <1>2, <2>2 DEF DialogsStand, CommuneStep, HouseholdStep, EarlySteps, OptionsStep
  <2> QED
    BY <1>1, <1>2, <1>6, <2>2, <2>3, EntryStays
<1> QED
  BY <1>3, <1>5, <1>6

\* An operator is picked from those of the postcode, or from all.
LEMMA PickOperatorKeeps ==
  ASSUME ~Overlaps
  PROVE  FlowsInv /\ PickOperator => FlowsInv'
<1> SUFFICES ASSUME FlowsInv, PickOperator
             PROVE  FlowsInv'
  OBVIOUS
<1>1. /\ dialog # None /\ dialog.step \in {"menu", "choose", "manual"}
      /\ UNCHANGED <<before, listed, blocked, options>>
  BY DEF PickOperator, outside
<1>2. dialog \in Dialogs /\ dialog.commune = None
  BY <1>1 DEF FlowsInv, FlowsType, DialogsStand, EarlySteps
<1>3. PICK o \in Operators : OperatorKnown(dialog, o)
  BY DEF PickOperator
<1> QED
  BY <1>1, <1>2, <1>3, OperatorKnownKeeps

\* The commune that is sent in is one the step listed.  What was suggested counts as
\* the household's old choice only at its old address.
LEMMA SubmitCommuneKeeps ==
  ASSUME ~Overlaps
  PROVE  FlowsInv /\ SubmitCommune => FlowsInv'
<1> SUFFICES ASSUME FlowsInv, SubmitCommune
             PROVE  FlowsInv'
  OBVIOUS
<1> DEFINE at == IF dialog.postcode # None THEN dialog.postcode ELSE entry.postcode
           sent(c) == [dialog EXCEPT !.commune = c, !.submitted = TRUE, !.step = "sent"]
           saved(c) == /\ c = dialog.suggested /\ c = entry.commune
                       /\ c # CommuneFor(dialog.utility, at)
<1>1. /\ dialog # None /\ dialog.step = "commune"
      /\ UNCHANGED <<before, listed, blocked, options>>
      /\ \E c \in dialog.lists \cup {None} :
           Finish(sent(c), IF saved(c) THEN chosen ELSE at)
  BY DEF SubmitCommune, outside
<1>2. /\ dialog \in Dialogs /\ entry \in Entries /\ chosen \in Postcodes \cup {None}
      /\ Placed(entry, chosen)
      /\ dialog.utility \in Operators /\ dialog.lists \subseteq Communes[dialog.utility]
      /\ Moved(dialog) => dialog.suggested \in {None, CommuneFor(dialog.utility, dialog.postcode)}
  BY <1>1 DEF FlowsInv, FlowsType, DialogsStand, EntryStands, CommuneStep
<1>3. PICK c \in dialog.lists \cup {None} : Finish(sent(c), IF saved(c) THEN chosen ELSE at)
  BY <1>1
<1>4. c \in Communes[dialog.utility] \cup {None} /\ c \in AllCommunes \cup {None}
  BY <1>2, <1>3, BilledType
<1>5. /\ sent(c).utility = dialog.utility /\ sent(c).commune = c
      /\ sent(c).postcode = dialog.postcode /\ sent(c).household = None
      /\ DOMAIN sent(c) = {"step", "utility", "postcode", "lists", "suggested", "commune",
                           "submitted", "drop", "household"}
  BY <1>2 DEF Dialogs
<1>6. [sent(c) EXCEPT !.step = "household"] \in Dialogs
  BY <1>2, <1>4 DEF Dialogs
<1>7. at \in Postcodes \cup {None} /\ dialog.postcode \in Postcodes \cup {None}
  BY <1>2 DEF Entries, Dialogs
<1>8. ASSUME c # None, saved(c)
      PROVE  chosen \in {None, at}
  <2>1. ~Moved(dialog)
    BY <1>2, <1>8 DEF Moved
  <2>2. at = entry.postcode \/ entry.postcode = None
    BY <2>1 DEF Moved
  <2>3. chosen \in {None, entry.postcode}
    BY <1>2, <1>8 DEF Placed
  <2> QED
    BY <2>2, <2>3
<1> DEFINE for == IF saved(c) THEN chosen ELSE at
           d == sent(c)
<1>9. for \in Postcodes \cup {None} /\ (c # None => for \in {None, at})
  BY <1>2, <1>7, <1>8
<1> HIDE DEF sent, saved
<1>10. Finish(d, for)
  BY <1>3
<1>11. d.commune # None => for = None \/ for = IF d.postcode # None THEN d.postcode ELSE entry.postcode
  BY <1>5, <1>9
<1>12. /\ d.utility \in Operators /\ d.postcode \in Postcodes \cup {None}
       /\ d.commune \in Communes[d.utility] \cup {None}
       /\ d.household \in {None, Answer(d.utility)}
       /\ DOMAIN d = {"step", "utility", "postcode", "lists", "suggested", "commune",
                      "submitted", "drop", "household"}
       /\ [d EXCEPT !.step = "household"] \in Dialogs
  BY <1>2, <1>4, <1>5, <1>6, <1>7
<1> HIDE DEF d, for
<1> QED
  BY <1>1, <1>9, <1>10, <1>11, <1>12, FinishKeeps

\* The household answers for the region of the operator it was asked about.
LEMMA SubmitHouseholdKeeps ==
  ASSUME ~Overlaps
  PROVE  FlowsInv /\ SubmitHousehold => FlowsInv'
<1> SUFFICES ASSUME FlowsInv, SubmitHousehold
             PROVE  FlowsInv'
  OBVIOUS
<1> DEFINE d == [dialog EXCEPT !.household = Region[dialog.utility]]
           at == IF dialog.postcode # None THEN dialog.postcode ELSE entry.postcode
<1>1. /\ dialog # None /\ dialog.step = "household"
      /\ UNCHANGED <<before, listed, blocked, options>>
      /\ Finish(d, at)
  BY DEF SubmitHousehold, outside
<1>2. /\ dialog \in Dialogs /\ entry \in Entries
      /\ dialog.utility \in Operators /\ PricesHousehold(dialog.utility)
      /\ dialog.commune \in Communes[dialog.utility] \cup {None}
  BY <1>1 DEF FlowsInv, FlowsType, DialogsStand, HouseholdStep
<1>3. /\ d.utility = dialog.utility /\ d.commune = dialog.commune /\ d.postcode = dialog.postcode
      /\ d.household = Region[dialog.utility] /\ d.step = "household"
      /\ DOMAIN d = {"step", "utility", "postcode", "lists", "suggested", "commune",
                     "submitted", "drop", "household"}
  BY <1>1, <1>2 DEF Dialogs
<1>4. at \in Postcodes \cup {None} /\ d.postcode \in Postcodes \cup {None}
  BY <1>2, <1>3 DEF Dialogs, Entries
<1>5. d.household = Answer(d.utility)
  BY <1>2, <1>3, AnswerType
<1>6. d.household = None => [d EXCEPT !.step = "household"] \in Dialogs
  BY <1>2 DEF Dialogs
<1> HIDE DEF d
<1> QED
  BY <1>1, <1>2, <1>3, <1>4, <1>5, <1>6, FinishKeeps

\* A dialog that is closed leaves the entry as it is.
LEMMA CloseReconfigureKeeps == FlowsInv /\ CloseReconfigure => FlowsInv'
<1> SUFFICES ASSUME FlowsInv, CloseReconfigure
             PROVE  FlowsInv'
  OBVIOUS
<1>1. /\ dialog # None /\ dialog' = None
      /\ UNCHANGED <<entry, chosen, state, before, listed, blocked, options>>
  BY DEF CloseReconfigure, outside
<1>2. options = None /\ state # "none"
  BY <1>1 DEF FlowsInv, FlowsType, DialogsStand, OptionsStep
<1>3. DialogsStand'
  BY <1>1, <1>2 DEF DialogsStand, CommuneStep, HouseholdStep, EarlySteps, OptionsStep
<1> QED
  BY <1>1, <1>2, <1>3, EntryStays

-----------------------------------------------------------------------------
(* The options dialog, the world outside.                                  *)

\* The options form is opened alone, of the entry's operator.
LEMMA OpenOptionsKeeps ==
  ASSUME ~Overlaps
  PROVE  FlowsInv /\ OpenOptions => FlowsInv'
<1> SUFFICES ASSUME FlowsInv, OpenOptions
             PROVE  FlowsInv'
  OBVIOUS
<1>1. /\ state # "none" /\ dialog = None /\ options = None
      /\ UNCHANGED <<entry, chosen, state, before, listed, blocked, dialog>>
  BY DEF OpenOptions, MayOpen, outside
<1>2. entry \in Entries
  BY <1>1 DEF FlowsInv, FlowsType
<1>3. PICK choices \in Lists(entry.utility) :
        options' = [utility |-> entry.utility, lists |-> choices,
                    offered |-> IF entry.commune \in choices THEN entry.commune
                                ELSE CommuneFor(entry.utility, entry.postcode)]
  BY DEF OpenOptions
<1> DEFINE offered == IF entry.commune \in choices THEN entry.commune
                      ELSE CommuneFor(entry.utility, entry.postcode)
<1>4. entry.utility \in Operators /\ entry.postcode \in Postcodes \cup {None}
      /\ entry.commune \in AllCommunes \cup {None}
  BY <1>2 DEF Entries
<1>5. /\ choices \subseteq Communes[entry.utility] /\ choices \subseteq AllCommunes
      /\ offered \in AllCommunes \cup {None}
  BY <1>4, BilledType DEF Lists
<1> HIDE DEF offered
<1>6. options' = [utility |-> entry.utility, lists |-> choices, offered |-> offered]
  BY <1>3 DEF offered
<1>7. options' \in OptionsDialogs
  BY <1>4, <1>5, <1>6 DEF OptionsDialogs
<1>8. DialogsStand'
  BY <1>1, <1>5, <1>6 DEF DialogsStand, CommuneStep, HouseholdStep, EarlySteps, OptionsStep
<1> QED
  BY <1>1, <1>7, <1>8, EntryStays

\* The options form writes its operator's answers, and a commune of its list for
\* the entry's address.
LEMMA SubmitOptionsKeeps ==
  ASSUME ~Overlaps
  PROVE  FlowsInv /\ SubmitOptions => FlowsInv'
<1> SUFFICES ASSUME FlowsInv, SubmitOptions
             PROVE  FlowsInv'
  OBVIOUS
<1>1. /\ options # None /\ MaySend /\ options' = None
      /\ UNCHANGED <<before, listed, blocked, dialog>>
  BY DEF SubmitOptions, outside
<1>2. /\ options \in OptionsDialogs /\ dialog = None /\ state \notin {"none", "setup"}
      /\ state \in {"none", "unloaded", "setup", "retry", "loaded"}
      /\ options.utility = entry.utility /\ options.lists \subseteq Communes[entry.utility]
      /\ entry \in Entries /\ chosen \in Postcodes \cup {None}
      /\ Answered(entry) /\ Placed(entry, chosen)
  BY <1>1 DEF FlowsInv, FlowsType, DialogsStand, OptionsStep, EntryStands, MaySend
<1>3. PICK c \in options.lists \cup {None} :
        LET new == [entry EXCEPT
                      !.household = Answer(options.utility), !.archive = TRUE,
                      !.commune = IF options.lists = {} THEN @ ELSE c]
        IN /\ entry' = new /\ state' = Reloads(new)
           /\ chosen' = IF options.lists = {} \/ c = entry.commune THEN chosen ELSE entry.postcode
  BY DEF SubmitOptions
<1> DEFINE commune == IF options.lists = {} THEN entry.commune ELSE c
           new == [entry EXCEPT !.household = Answer(options.utility), !.archive = TRUE,
                                !.commune = commune]
<1>4. /\ entry' = new /\ state' = Reloads(new)
      /\ chosen' = IF options.lists = {} \/ c = entry.commune THEN chosen ELSE entry.postcode
  BY <1>3
<1>5. /\ entry.utility \in Operators /\ Answer(entry.utility) \in Regions \cup {None}
      /\ Communes[entry.utility] \subseteq AllCommunes
  BY <1>2, AnswerType, BilledType DEF Entries
<1>6. commune \in AllCommunes \cup {None}
  BY <1>2, <1>5 DEF Entries
<1>7. Placed(entry', chosen')
  <2>1. entry'.commune = commune /\ entry'.utility = entry.utility /\ entry'.postcode = entry.postcode
    BY <1>2, <1>4 DEF Entries
  <2> QED
    BY <1>2, <1>4, <2>1 DEF Placed
<1> HIDE DEF commune
<1>8. /\ new \in Entries /\ new.household = Answer(new.utility) /\ new.minor = entry.minor
      /\ new.utility = entry.utility /\ new.postcode = entry.postcode
  BY <1>2, <1>5, <1>6 DEF Entries
<1>9. Answered(entry')
  BY <1>4, <1>8, AnswersStand
<1>10. state' = state \/ state' = "unloaded"
  BY <1>4 DEF Reloads
<1> HIDE DEF new
<1>11. chosen' \in Postcodes \cup {None}
  BY <1>2, <1>4 DEF Entries
<1>12. FlowsType'
  BY <1>1, <1>2, <1>4, <1>8, <1>10, <1>11 DEF FlowsInv, FlowsType
<1>13. EntryStands' /\ CanBePutBack' /\ Loaded'
  BY <1>2, <1>4, <1>7, <1>8, <1>9, <1>10 DEF FlowsInv, EntryStands, CanBePutBack, Loaded
<1>14. DialogsStand'
  BY <1>1, <1>2 DEF DialogsStand, CommuneStep, HouseholdStep, EarlySteps, OptionsStep
<1> QED
  BY <1>12, <1>13, <1>14 DEF FlowsInv

\* The operators' lists change under an entry, and under its dialogs.
LEMMA ListsChangeKeeps == FlowsInv /\ ListsChange => FlowsInv'
<1> SUFFICES ASSUME FlowsInv, ListsChange
             PROVE  FlowsInv'
  OBVIOUS
<1>1. UNCHANGED <<entry, chosen, state, before, blocked, dialog, options>>
  BY DEF ListsChange
<1>2. listed' \subseteq AllCommunes
  BY DEF ListsChange, FlowsInv, FlowsType
<1>3. FlowsType'
  BY <1>1, <1>2 DEF FlowsInv, FlowsType
<1>4. EntryStands' /\ CanBePutBack' /\ Loaded'
  BY <1>1 DEF FlowsInv, EntryStands, CanBePutBack, Loaded, Placed, Answered, Migrated, Answer,
              PricesHousehold
<1>5. DialogsStand'
  BY <1>1, DialogsStay DEF FlowsInv
<1> QED
  BY <1>3, <1>4, <1>5 DEF FlowsInv

\* A restart loses the dialogs and what a setup would have put back.
LEMMA RestartKeeps == FlowsInv /\ Restart => FlowsInv'
<1> SUFFICES ASSUME FlowsInv, Restart
             PROVE  FlowsInv'
  OBVIOUS
<1>1. /\ state # "none" /\ state' = "unloaded" /\ dialog' = None /\ options' = None
      /\ UNCHANGED <<entry, chosen>>
      /\ listed' \subseteq AllCommunes /\ blocked' \subseteq AllCommunes
  BY DEF Restart, FlowsInv, FlowsType
<1>2. FlowsType'
  BY <1>1 DEF FlowsInv, FlowsType
<1>3. EntryStands' /\ CanBePutBack' /\ Loaded'
  BY <1>1 DEF FlowsInv, EntryStands, CanBePutBack, Loaded, Placed, Answered, Migrated, Answer,
              PricesHousehold
<1>4. DialogsStand'
  BY <1>1 DEF DialogsStand, CommuneStep, HouseholdStep, EarlySteps, OptionsStep
<1> QED
  BY <1>2, <1>3, <1>4 DEF FlowsInv

-----------------------------------------------------------------------------
(* The theorems.                                                           *)

\* Every step keeps the invariant.
LEMMA NextFlows ==
  ASSUME ~Overlaps
  PROVE  FlowsInv /\ [Next]_vars => FlowsInv'
<1> SUFFICES ASSUME FlowsInv, [Next]_vars
             PROVE  FlowsInv'
  OBVIOUS
<1>1. CASE UNCHANGED vars
  <2>1. UNCHANGED <<entry, chosen, state, before, listed, blocked, dialog, options>>
    BY <1>1 DEF vars
  <2>2. FlowsType'
    BY <2>1 DEF FlowsInv, FlowsType
  <2>3. EntryStands' /\ CanBePutBack' /\ Loaded'
    BY <2>1 DEF FlowsInv, EntryStands, CanBePutBack, Loaded, Placed, Answered, Migrated, Answer,
                PricesHousehold
  <2>4. DialogsStand'
    BY <2>1, DialogsStay DEF FlowsInv
  <2> QED
    BY <2>2, <2>3, <2>4 DEF FlowsInv
<1> QED
  BY <1>1, InstallKeeps, SetupBeginsKeeps, SetupLoadsKeeps, SetupFailsKeeps,
     OpenReconfigureKeeps, SubmitPostcodeKeeps, PickOperatorKeeps, SubmitCommuneKeeps,
     SubmitHouseholdKeeps, CloseReconfigureKeeps, OpenOptionsKeeps, SubmitOptionsKeeps,
     ListsChangeKeeps, RestartKeeps DEF Next

\* The invariant holds of every reachable state.
LEMMA FlowsInvariance ==
  ASSUME ~Overlaps
  PROVE  Spec => []FlowsInv
  BY InitFlows, NextFlows, PTL DEF Spec

\* With dialogs one after another, an entry's commune is always one of its
\* operator's, chosen for the postcode the entry has: no move, list, release or
\* failed setup leaves the old address's commune behind
\* (config_flow.py, _async_finish_reconfigure; __init__.py, _adopt_commune_for_postcode).
THEOREM CommuneFollowsTheAddress ==
  ASSUME ~Overlaps
  PROVE  Spec => []CommuneIsOfTheAddress
<1>1. FlowsInv => CommuneIsOfTheAddress
  BY DEF FlowsInv, FlowsType, EntryStands, Placed, CommuneIsOfTheAddress
<1> QED
  BY <1>1, FlowsInvariance, PTL

\* With dialogs one after another, a loaded entry's household answered for the region
\* its operator bills in (config_flow.py, async_step_reconfigure_household;
\* __init__.py, _drop_leftover_household).
THEOREM HouseholdFollowsTheRegion ==
  ASSUME ~Overlaps
  PROVE  Spec => []HouseholdIsOfTheRegion
<1>1. FlowsInv => HouseholdIsOfTheRegion
  <2> SUFFICES ASSUME FlowsInv, state = "loaded", entry.household # None
               PROVE  entry.household = Answer(entry.utility)
    BY DEF HouseholdIsOfTheRegion
  <2>1. entry \in Entries /\ Answered(entry) /\ entry.minor = 2
    BY DEF FlowsInv, FlowsType, EntryStands, Loaded
  <2> QED
    BY <2>1, AnsweredToday
<1> QED
  BY <1>1, FlowsInvariance, PTL

-----------------------------------------------------------------------------
(* The entry's meter (MeterHistory), whatever meters it has and however     *)
(* late an answer of the recorder comes.                                    *)

Kinds == {"bg", "read"}

\* A coordinator is a record of these fields.
IsCoordinator(c) ==
  c = [meter |-> c.meter, held |-> c.held, checked |-> c.checked, resets |-> c.resets,
       published |-> c.published, tasks |-> [bg |-> c.tasks.bg, read |-> c.tasks.read]]

\* A read that is to raise the card is for the consumption o.
Against(c, o) == \A k \in Kinds : c.tasks[k].stage = "card" => c.tasks[k].against = o

MeterType ==
  /\ life \in {"loaded", "unloaded", "removed"}
  /\ cur \in H!Slots
  /\ co = [s \in H!Slots |-> co[s]]
  /\ \A s \in H!Slots : IsCoordinator(co[s])

\* What the card would be raised against is still the option: a confirmed offer
\* retires the coordinator before its successor asks.
OwnReads == life = "loaded" => Against(co[cur], consumption)

MeterInv == MeterType /\ OwnReads /\ H!CardSpeaksForTheEntry

\* The parts of a read up to the query it asks keep a coordinator one, and ask for
\* the card against the option.
LEMMA LookedKeeps ==
  ASSUME NEW c, IsCoordinator(c), NEW m
  PROVE  IsCoordinator(H!Looked(c, m)) /\ H!Looked(c, m).tasks = c.tasks
BY DEF IsCoordinator, H!Looked

\* The fields of it that the reads set.
LEMMA FieldSet ==
  ASSUME NEW c, IsCoordinator(c), NEW v
  PROVE  /\ IsCoordinator([c EXCEPT !.meter = v]) /\ [c EXCEPT !.meter = v].tasks = c.tasks
         /\ IsCoordinator([c EXCEPT !.held = v]) /\ [c EXCEPT !.held = v].tasks = c.tasks
         /\ IsCoordinator([c EXCEPT !.published = v])
         /\ [c EXCEPT !.published = v].tasks = c.tasks
BY DEF IsCoordinator

LEMMA TaskSet ==
  ASSUME NEW c, IsCoordinator(c), NEW k \in Kinds, NEW v, NEW o,
         v.stage = "card" => v.against = o
  PROVE  /\ IsCoordinator([c EXCEPT !.tasks[k] = v])
         /\ Against(c, o) => Against([c EXCEPT !.tasks[k] = v], o)
<1> DEFINE m == c.meter
           h == c.held
           q == c.checked
           r == c.resets
           p == c.published
           b == c.tasks.bg
           d == c.tasks.read
           cb == [meter |-> m, held |-> h, checked |-> q, resets |-> r, published |-> p,
                  tasks |-> [bg |-> v, read |-> d]]
           cr == [meter |-> m, held |-> h, checked |-> q, resets |-> r, published |-> p,
                  tasks |-> [bg |-> b, read |-> v]]
<1>1. c = [meter |-> m, held |-> h, checked |-> q, resets |-> r, published |-> p,
           tasks |-> [bg |-> b, read |-> d]]
  BY DEF IsCoordinator
<1> HIDE DEF m, h, q, r, p, b, d
<1>2. CASE k = "bg"
  <2>1. IsCoordinator(cb) /\ (Against(c, o) => Against(cb, o))
    BY <1>1 DEF IsCoordinator, Against, Kinds
  <2>2. [c EXCEPT !.tasks[k] = v] = cb
    BY <1>1, <1>2
  <2>3. QED
    BY <2>1, <2>2
<1>3. CASE k = "read"
  <2>1. IsCoordinator(cr) /\ (Against(c, o) => Against(cr, o))
    BY <1>1 DEF IsCoordinator, Against, Kinds
  <2>2. [c EXCEPT !.tasks[k] = v] = cr
    BY <1>1, <1>3
  <2>3. QED
    BY <2>1, <2>2
<1>4. QED
  BY <1>2, <1>3 DEF Kinds

\* The two together, in either order.
LEMMA TaskAndFigures ==
  ASSUME NEW c, IsCoordinator(c), NEW k \in Kinds, NEW v, NEW w, NEW o,
         v.stage = "card" => v.against = o
  PROVE  /\ IsCoordinator([c EXCEPT !.tasks[k] = v, !.published = w])
         /\ Against(c, o) => Against([c EXCEPT !.tasks[k] = v, !.published = w], o)
         /\ IsCoordinator([c EXCEPT !.published = w, !.tasks[k] = v])
         /\ Against(c, o) => Against([c EXCEPT !.published = w, !.tasks[k] = v], o)
<1> DEFINE t == [c EXCEPT !.tasks[k] = v]
           p == [c EXCEPT !.published = w]
           tp == [t EXCEPT !.published = w]
           pt == [p EXCEPT !.tasks[k] = v]
<1>1. IsCoordinator(t) /\ (Against(c, o) => Against(t, o))
  BY TaskSet
<1>2. IsCoordinator(p) /\ p.tasks = c.tasks
  BY FieldSet
<1> HIDE DEF t, p
<1>3. IsCoordinator(tp) /\ tp.tasks = t.tasks
  BY <1>1, FieldSet
<1>4. IsCoordinator(pt) /\ (Against(p, o) => Against(pt, o))
  BY <1>2, TaskSet
<1>5. [c EXCEPT !.tasks[k] = v, !.published = w] = tp
  BY DEF t
<1>6. [c EXCEPT !.published = w, !.tasks[k] = v] = pt
  BY DEF p
<1> HIDE DEF tp, pt
<1>7. QED
  BY <1>1, <1>2, <1>3, <1>4, <1>5, <1>6 DEF Against

LEMMA AfterKeeps ==
  ASSUME NEW c, IsCoordinator(c), NEW k \in Kinds, NEW s, NEW o
  PROVE  /\ IsCoordinator(H!After(c, k, s))
         /\ Against(c, o) => Against(H!After(c, k, s), o)
<1>1. CASE k = "read"
  BY <1>1 DEF IsCoordinator, Against, Kinds, H!After, H!Idle
<1>2. CASE k = "bg"
  <2> DEFINE p == IF H!Owns(s) THEN H!Figures(c) ELSE c.published
             i == H!Idle
  <2>1. H!After(c, k, s) = [c EXCEPT !.tasks[k] = i, !.published = p]
    BY <1>2 DEF H!After
  <2>2. i.stage # "card"
    BY DEF H!Idle
  <2> HIDE DEF p, i
  <2> DEFINE a == [c EXCEPT !.tasks[k] = i, !.published = p]
  <2>3. IsCoordinator(a) /\ (Against(c, o) => Against(a, o))
    BY <2>2, TaskAndFigures
  <2> HIDE DEF a
  <2>4. H!After(c, k, s) = a
    BY <2>1 DEF a
  <2>5. QED
    BY <2>3, <2>4
<1>3. QED
  BY <1>1, <1>2 DEF Kinds

LEMMA AskDaysKeeps ==
  ASSUME NEW c, IsCoordinator(c), NEW k \in Kinds, NEW m, NEW s, NEW o
  PROVE  /\ IsCoordinator(H!AskDays(c, k, m, s))
         /\ Against(c, o) => Against(H!AskDays(c, k, m, s), o)
<1> DEFINE l == H!Looked(c, m)
           asked == [stage |-> "days", meter |-> m, day |-> day,
                     register |-> H!SeesARegister(c, m), held |-> c.held]
           there == IF c.held = None THEN FALSE
                    ELSE H!AlreadyRead(c.held, m, H!SeesARegister(c, m))
<1>1. IsCoordinator(l) /\ l.tasks = c.tasks
  BY LookedKeeps
<1>2. CASE there
  <2>1. H!AskDays(c, k, m, s) = H!After(l, k, s)
    BY <1>2 DEF H!AskDays
  <2> HIDE DEF l, there
  <2>2. Against(c, o) => Against(l, o)
    BY <1>1 DEF Against
  <2>3. QED
    BY <1>1, <2>1, <2>2, AfterKeeps
<1>3. CASE ~there
  <2>1. H!AskDays(c, k, m, s) = [l EXCEPT !.tasks[k] = asked]
    BY <1>3 DEF H!AskDays
  <2>2. asked.stage # "card"
    OBVIOUS
  <2> HIDE DEF l, asked, there
  <2>3. CASE k = "bg"
    BY <1>1, <2>1, <2>2, <2>3 DEF IsCoordinator, Against, Kinds
  <2>4. CASE k = "read"
    BY <1>1, <2>1, <2>2, <2>4 DEF IsCoordinator, Against, Kinds
  <2>5. QED
    BY <2>3, <2>4 DEF Kinds
<1>4. QED
  BY <1>2, <1>3

LEMMA AskCardKeeps ==
  ASSUME NEW c, IsCoordinator(c), NEW k \in Kinds, NEW m, NEW s
  PROVE  /\ IsCoordinator(H!AskCard(c, k, m, s))
         /\ Against(c, consumption) => Against(H!AskCard(c, k, m, s), consumption)
<1> DEFINE l == H!Looked(c, m)
           register == H!SeesARegister(c, m)
           asked == [stage |-> "card", meter |-> m, register |-> register,
                     key |-> H!Key(m, register), against |-> consumption]
           there == c.checked = H!Key(m, register)
<1>1. IsCoordinator(l) /\ l.tasks = c.tasks
  BY LookedKeeps
<1>2. CASE there
  <2>1. H!AskCard(c, k, m, s) = H!AskDays(l, k, m, s)
    BY <1>2 DEF H!AskCard
  <2> HIDE DEF l, there
  <2>2. Against(c, consumption) => Against(l, consumption)
    BY <1>1 DEF Against
  <2>3. QED
    BY <1>1, <2>1, <2>2, AskDaysKeeps
<1>3. CASE ~there
  <2>1. H!AskCard(c, k, m, s) = [l EXCEPT !.tasks[k] = asked]
    BY <1>3 DEF H!AskCard
  <2>2. asked.against = consumption
    OBVIOUS
  <2> HIDE DEF l, asked, there, register
  <2>3. CASE k = "bg"
    BY <1>1, <2>1, <2>2, <2>3 DEF IsCoordinator, Against, Kinds
  <2>4. CASE k = "read"
    BY <1>1, <2>1, <2>2, <2>4 DEF IsCoordinator, Against, Kinds
  <2>5. QED
    BY <2>3, <2>4 DEF Kinds
<1>4. QED
  BY <1>2, <1>3

LEMMA MeterInit == H!Init => MeterInv
BY DEF H!Init, MeterInv, MeterType, OwnReads, H!CardSpeaksForTheEntry, H!Slots,
       H!NewCoordinator, H!Idle, IsCoordinator, Against, Kinds

\* A step that only changes the coordinator s, and leaves the option, the entry and
\* what the card's read runs against, keeps the types and the reads.
LEMMA OneCoordinator ==
  ASSUME MeterInv, NEW s \in H!Slots, NEW c, IsCoordinator(c),
         Against(co[s], consumption) => Against(c, consumption),
         co' = [co EXCEPT ![s] = c], UNCHANGED <<consumption, life, cur>>
  PROVE  MeterType' /\ OwnReads'
<1>1. MeterType'
  BY DEF MeterInv, MeterType, H!Slots
<1>2. OwnReads'
  BY DEF MeterInv, MeterType, OwnReads, H!Slots, Against
<1>3. QED
  BY <1>1, <1>2

\* And so do the steps that retire the coordinator.
LEMMA RetiredKeeps ==
  ASSUME MeterInv, H!Retired, cur' = cur, life' \in {"unloaded", "removed"}
  PROVE  MeterType' /\ OwnReads'
<1> DEFINE stopped == [co[cur] EXCEPT !.tasks.bg = H!Idle]
           c == IF co[cur].tasks.read = H!Idle THEN H!NewCoordinator ELSE stopped
<1>1. co' = [co EXCEPT ![cur] = c] /\ IsCoordinator(c)
  <2>1. IsCoordinator(H!NewCoordinator)
    BY DEF IsCoordinator, H!NewCoordinator, H!Idle
  <2>2. IsCoordinator(co[cur])
    BY DEF MeterInv, MeterType
  <2>3. IsCoordinator(stopped)
    BY <2>2 DEF IsCoordinator
  <2>4. co' = [co EXCEPT ![cur] = c]
    BY DEF H!Retired, MeterInv, MeterType
  <2>5. QED
    BY <2>1, <2>3, <2>4
<1> HIDE DEF c
<1>2. MeterType'
  BY <1>1 DEF MeterInv, MeterType, H!Slots
<1>3. QED
  BY <1>2 DEF OwnReads

\* An answer of the recorder, or its failure, whoever's coordinator it finds.
LEMMA AnswersKeep ==
  ASSUME MeterInv, NEW s \in H!Slots, NEW k \in Kinds, H!Answers(s, k)
  PROVE  MeterInv'
<1> DEFINE t == co[s].tasks[k]
<1>1. IsCoordinator(co[s])
  BY DEF MeterInv, MeterType
<1>2. CASE H!CardRead(s, k)
  <2> DEFINE d == [co[s] EXCEPT !.checked = t.key]
  <2>1. IsCoordinator(d) /\ d.tasks = co[s].tasks
    BY <1>1 DEF IsCoordinator
  <2>2. co' = [co EXCEPT ![s] = H!AskDays(d, k, t.meter, s)]
    BY <1>2 DEF H!CardRead, MeterInv, MeterType
  <2>3. MeterType' /\ OwnReads'
    <3> HIDE DEF d
    <3>1. /\ IsCoordinator(H!AskDays(d, k, t.meter, s))
          /\ Against(d, consumption) => Against(H!AskDays(d, k, t.meter, s), consumption)
      BY <2>1, AskDaysKeeps
    <3>2. UNCHANGED <<consumption, life, cur>>
      BY <1>2 DEF H!CardRead
    <3>3. Against(co[s], consumption) => Against(d, consumption)
      BY <2>1 DEF Against
    <3>4. QED
      BY <2>2, <3>1, <3>2, <3>3, OneCoordinator
  <2>4. H!CardSpeaksForTheEntry'
    BY <1>2 DEF H!CardRead, H!CardSpeaksForTheEntry, H!Owns, H!Offer, MeterInv,
                OwnReads, Against
  <2>5. QED
    BY <2>3, <2>4 DEF MeterInv
<1>3. CASE H!CardFailed(s, k)
  <2>1. MeterType' /\ OwnReads'
    <3>1. /\ IsCoordinator(H!AskDays(co[s], k, t.meter, s))
          /\ Against(co[s], consumption)
               => Against(H!AskDays(co[s], k, t.meter, s), consumption)
      BY <1>1, AskDaysKeeps
    <3>2. UNCHANGED <<consumption, life, cur>> /\
          co' = [co EXCEPT ![s] = H!AskDays(co[s], k, t.meter, s)]
      BY <1>3 DEF H!CardFailed, MeterInv, MeterType
    <3>3. QED
      BY <3>1, <3>2, OneCoordinator
  <2>2. QED
    BY <1>3, <2>1 DEF H!CardFailed, H!CardSpeaksForTheEntry, MeterInv
<1>4. CASE H!DaysRead(s, k)
  <2> DEFINE read == [meter |-> t.meter, day |-> t.day, register |-> t.register]
             d == [co[s] EXCEPT !.held = read]
  <2>1. IsCoordinator(d) /\ d.tasks = co[s].tasks
    BY <1>1 DEF IsCoordinator
  <2>2. co' = [co EXCEPT ![s] = H!After(d, k, s)] /\ UNCHANGED <<consumption, life, cur>>
    BY <1>4 DEF H!DaysRead, MeterInv, MeterType
  <2>3. MeterType' /\ OwnReads'
    <3> HIDE DEF d
    <3>1. /\ IsCoordinator(H!After(d, k, s))
          /\ Against(d, consumption) => Against(H!After(d, k, s), consumption)
      BY <2>1, AfterKeeps
    <3>2. Against(co[s], consumption) => Against(d, consumption)
      BY <2>1 DEF Against
    <3>3. QED
      BY <2>2, <3>1, <3>2, OneCoordinator
  <2>4. H!CardSpeaksForTheEntry'
    BY <1>4 DEF H!DaysRead, H!CardSpeaksForTheEntry, H!Owns, MeterInv
  <2>5. QED
    BY <2>3, <2>4 DEF MeterInv
<1>5. CASE H!DaysFailed(s, k)
  <2> DEFINE kept == IF t.held = None THEN TRUE ELSE H!StandsIn(t.held, t)
             d == IF kept THEN co[s] ELSE [co[s] EXCEPT !.held = None]
  <2>1. IsCoordinator(d) /\ d.tasks = co[s].tasks
    BY <1>1 DEF IsCoordinator
  <2>2. co' = [co EXCEPT ![s] = H!After(d, k, s)] /\ UNCHANGED <<consumption, life, cur>>
    BY <1>5 DEF H!DaysFailed, MeterInv, MeterType
  <2>3. MeterType' /\ OwnReads'
    <3> HIDE DEF d
    <3>1. /\ IsCoordinator(H!After(d, k, s))
          /\ Against(d, consumption) => Against(H!After(d, k, s), consumption)
      BY <2>1, AfterKeeps
    <3>2. Against(co[s], consumption) => Against(d, consumption)
      BY <2>1 DEF Against
    <3>3. QED
      BY <2>2, <3>1, <3>2, OneCoordinator
  <2>4. QED
    BY <1>5, <2>3 DEF H!DaysFailed, H!CardSpeaksForTheEntry, MeterInv
<1>6. QED
  BY <1>2, <1>3, <1>4, <1>5 DEF H!Answers

\* A read begins, by a refresh or by the hour.
LEMMA BeginReadKeeps ==
  ASSUME MeterInv, NEW s \in H!Slots, H!Owns(s), H!BeginRead(s)
  PROVE  MeterInv'
<1> DEFINE c == [co[s] EXCEPT !.meter = H!Resolved]
           d == [c EXCEPT !.held = None]
           e == IF H!Resolved = None THEN H!After(d, "read", s)
                ELSE H!AskCard(c, "read", H!Resolved, s)
<1>1. IsCoordinator(c) /\ c.tasks = co[s].tasks /\ IsCoordinator(d) /\ d.tasks = co[s].tasks
  <2>1. IsCoordinator(c) /\ c.tasks = co[s].tasks
    BY FieldSet DEF MeterInv, MeterType
  <2> HIDE DEF c
  <2>2. QED
    BY <2>1, FieldSet
<1>2. co' = [co EXCEPT ![s] = e] /\ UNCHANGED <<consumption, life, cur, file, card>>
  BY DEF H!BeginRead, MeterInv, MeterType
<1>3. IsCoordinator(e) /\ (Against(co[s], consumption) => Against(e, consumption))
  <2> HIDE DEF c, d
  <2>1. (Against(co[s], consumption) => Against(c, consumption)) /\
        (Against(co[s], consumption) => Against(d, consumption))
    BY <1>1 DEF Against
  <2>2. CASE H!Resolved = None
    BY <1>1, <2>1, <2>2, AfterKeeps DEF Kinds
  <2>3. CASE H!Resolved # None
    BY <1>1, <2>1, <2>3, AskCardKeeps DEF Kinds
  <2>4. QED
    BY <2>2, <2>3
<1>4. MeterType' /\ OwnReads'
  <2> HIDE DEF e
  <2>1. QED
    BY <1>2, <1>3, OneCoordinator
<1>5. H!CardSpeaksForTheEntry'
  BY <1>2 DEF H!Owns, H!CardSpeaksForTheEntry, MeterInv
<1>6. QED
  BY <1>4, <1>5 DEF MeterInv

\* The other steps of a coordinator.
LEMMA ReadsKeep ==
  ASSUME MeterInv, H!Reads
  PROVE  MeterInv'
<1>1. ASSUME NEW s \in H!Slots, H!Refresh(s) \/ H!HourlyRead(s)
      PROVE  MeterInv'
  BY <1>1, BeginReadKeeps DEF H!Refresh, H!HourlyRead
<1>2. ASSUME NEW s \in H!Slots, H!BackgroundRead(s)
      PROVE  MeterInv'
  <2> DEFINE d == [co[s] EXCEPT !.tasks.bg = H!Idle]
             e == IF co[s].meter = None THEN d ELSE H!AskCard(co[s], "bg", co[s].meter, s)
  <2>1. IsCoordinator(co[s])
    BY DEF MeterInv, MeterType
  <2>2. /\ co' = [co EXCEPT ![s] = e]
        /\ UNCHANGED <<consumption, life, cur, file, card, several>>
    BY <1>2 DEF H!BackgroundRead, MeterInv, MeterType
  <2>3. IsCoordinator(d) /\ (Against(co[s], consumption) => Against(d, consumption))
    BY <2>1 DEF IsCoordinator, Against, Kinds, H!Idle
  <2>4. IsCoordinator(e) /\ (Against(co[s], consumption) => Against(e, consumption))
    BY <2>1, <2>3, AskCardKeeps DEF Kinds
  <2>5. MeterType' /\ OwnReads'
    <3> HIDE DEF e
    <3>1. QED
      BY <2>2, <2>4, OneCoordinator
  <2>6. QED
    BY <2>2, <2>5 DEF H!CardSpeaksForTheEntry, MeterInv
<1>3. ASSUME NEW s \in H!Slots, H!Folded(s)
      PROVE  MeterInv'
  <2> DEFINE c == IF co[s].meter = None THEN co[s] ELSE H!Looked(co[s], co[s].meter)
             e == [c EXCEPT !.published = H!Figures(c), !.tasks.read = H!Idle]
  <2>1. IsCoordinator(c) /\ c.tasks = co[s].tasks
    BY LookedKeeps DEF MeterInv, MeterType
  <2>2. /\ co' = [co EXCEPT ![s] = e]
        /\ UNCHANGED <<consumption, life, cur, file, card, several>>
    BY <1>3 DEF H!Folded, MeterInv, MeterType
  <2>3. IsCoordinator(e) /\ (Against(co[s], consumption) => Against(e, consumption))
    <3> DEFINE p == H!Figures(c)
               i == H!Idle
    <3>1. i.stage # "card"
      BY DEF H!Idle
    <3>2. e = [c EXCEPT !.published = p, !.tasks["read"] = i]
      OBVIOUS
    <3> HIDE DEF c, p, i, e
    <3>3. Against(co[s], consumption) => Against(c, consumption)
      BY <2>1 DEF Against
    <3>4. QED
      BY <2>1, <3>1, <3>2, <3>3, TaskAndFigures DEF Kinds
  <2>4. MeterType' /\ OwnReads'
    <3> HIDE DEF e
    <3>1. QED
      BY <2>2, <2>3, OneCoordinator
  <2>5. QED
    BY <2>2, <2>4 DEF H!CardSpeaksForTheEntry, MeterInv
<1>4. QED
  BY <1>1, <1>2, <1>3, AnswersKeep DEF H!Reads, Kinds

LEMMA MeterStep ==
  ASSUME MeterInv, [H!Next]_(H!vars)
  PROVE  MeterInv'
<1>1. CASE H!Reads
  BY <1>1, ReadsKeep
<1>2. CASE H!LiveReading
  <2> DEFINE c == co[cur]
             l == H!Looked(c, c.meter)
             p == [l EXCEPT !.published = H!Figures(c)]
             e == IF H!SeesARegister(c, c.meter) THEN p ELSE l
  <2>1. IsCoordinator(l) /\ l.tasks = c.tasks
    BY LookedKeeps DEF MeterInv, MeterType
  <2>2. /\ co' = [co EXCEPT ![cur] = e]
        /\ UNCHANGED <<consumption, life, cur, file, card, several>>
    BY <1>2 DEF H!LiveReading, MeterInv, MeterType
  <2>3. IsCoordinator(e) /\ (Against(c, consumption) => Against(e, consumption))
    <3> HIDE DEF l
    <3>1. IsCoordinator(p) /\ p.tasks = l.tasks
      BY <2>1 DEF IsCoordinator
    <3>2. QED
      BY <2>1, <3>1 DEF Against
  <2>4. MeterType' /\ OwnReads'
    <3> HIDE DEF e
    <3>1. cur \in H!Slots
      BY DEF MeterInv, MeterType
    <3>2. QED
      BY <2>2, <2>3, <3>1, OneCoordinator
  <2>5. QED
    BY <2>2, <2>4 DEF H!CardSpeaksForTheEntry, MeterInv
<1>3. CASE H!Setup
  <2> DEFINE s == CHOOSE x \in H!Slots : x # cur
             held == IF file = None THEN None ELSE IF day - file.day > Hold THEN None ELSE file
             c == [H!NewCoordinator EXCEPT !.held = held, !.meter = H!Resolved]
             l == H!Looked(c, H!Resolved)
             bare == [c EXCEPT !.held = None]
             due == [l EXCEPT !.published = H!Figures(c), !.tasks.bg = [stage |-> "new"]]
             first == IF H!Resolved = None THEN bare ELSE due
  <2>1. IsCoordinator(H!NewCoordinator) /\ Against(H!NewCoordinator, consumption)
    BY DEF IsCoordinator, Against, Kinds, H!NewCoordinator, H!Idle
  <2>2. IsCoordinator(c) /\ Against(c, consumption)
    <3> DEFINE h == held
               m == H!Resolved
               n == H!NewCoordinator
    <3>1. c = [n EXCEPT !.held = h, !.meter = m]
      OBVIOUS
    <3>2. IsCoordinator(n) /\ Against(n, consumption)
      BY <2>1
    <3> DEFINE g == [n EXCEPT !.held = h]
    <3>3. c = [g EXCEPT !.meter = m]
      BY <3>1
    <3> HIDE DEF h, m, n, c
    <3>4. IsCoordinator(g) /\ g.tasks = n.tasks
      BY <3>2, FieldSet
    <3> HIDE DEF g
    <3>5. IsCoordinator(c) /\ c.tasks = g.tasks
      BY <3>3, <3>4, FieldSet
    <3>6. QED
      BY <3>2, <3>4, <3>5 DEF Against
  <2>3. IsCoordinator(first) /\ Against(first, consumption)
    <3> HIDE DEF c
    <3>1. IsCoordinator(bare) /\ Against(bare, consumption)
      BY <2>2 DEF IsCoordinator, Against
    <3>2. IsCoordinator(l) /\ l.tasks = c.tasks
      BY <2>2, LookedKeeps
    <3>3. IsCoordinator(due) /\ Against(due, consumption)
      <4> DEFINE p == H!Figures(c)
                 i == [stage |-> "new"]
      <4>1. due = [l EXCEPT !.published = p, !.tasks["bg"] = i] /\ i.stage # "card"
        OBVIOUS
      <4> HIDE DEF l, p, i, due
      <4>2. Against(l, consumption)
        BY <2>2, <3>2 DEF Against
      <4>3. QED
        BY <3>2, <4>1, <4>2, TaskAndFigures DEF Kinds
    <3>4. QED
      BY <3>1, <3>3
  <2>4. s \in H!Slots
    BY DEF H!Slots
  <2>5. /\ life = "unloaded" /\ life' = "loaded" /\ cur' = s
        /\ co' = [x \in H!Slots |-> IF x = s THEN first
                                ELSE IF H!Busy(co[x]) THEN co[x] ELSE H!NewCoordinator]
        /\ UNCHANGED <<consumption, file, card>>
    BY <1>3 DEF H!Setup
  <2>6. MeterType' /\ OwnReads'
    <3> HIDE DEF s, first
    <3>1. \A x \in H!Slots : IsCoordinator(co[x])
      BY DEF MeterInv, MeterType
    <3>2. QED
      BY <2>1, <2>3, <2>4, <2>5, <3>1 DEF MeterType, OwnReads
  <2>7. H!CardSpeaksForTheEntry'
    BY <2>5 DEF H!CardSpeaksForTheEntry, MeterInv
  <2>8. QED
    BY <2>6, <2>7 DEF MeterInv
<1>4. CASE H!Unload \/ H!Remove
  <2>1. MeterType' /\ OwnReads'
    BY <1>4, RetiredKeeps DEF H!Unload, H!Remove
  <2>2. H!CardSpeaksForTheEntry'
    BY <1>4 DEF H!Unload, H!Remove, H!Retired, H!CardSpeaksForTheEntry
  <2>3. QED
    BY <2>1, <2>2 DEF MeterInv
<1>5. CASE H!Restart
  BY <1>5 DEF H!Restart, H!CardSpeaksForTheEntry, MeterInv, MeterType, OwnReads,
              IsCoordinator, H!NewCoordinator, H!Idle, H!Slots
<1>6. CASE H!ConfirmCard
  <2>1. CASE H!Retired /\ life' = "unloaded" /\ UNCHANGED <<cur, file>>
    <3>1. MeterType' /\ OwnReads'
      BY <2>1, RetiredKeeps
    <3>2. H!CardSpeaksForTheEntry'
      BY <2>1 DEF H!Retired, H!CardSpeaksForTheEntry
    <3>3. QED
      BY <3>1, <3>2 DEF MeterInv
  <2>2. CASE /\ life # "loaded"
             /\ UNCHANGED <<life, card, several, co, cur, file>>
    BY <2>2 DEF H!CardSpeaksForTheEntry, MeterInv, MeterType, OwnReads
  <2>3. QED
    BY <1>6, <2>1, <2>2 DEF H!ConfirmCard
<1>7. CASE UNCHANGED <<consumption, life, cur, co, file, card, several>>
  BY <1>7 DEF H!CardSpeaksForTheEntry, MeterInv, MeterType, OwnReads, Against
<1>8. QED
  BY <1>1, <1>2, <1>3, <1>4, <1>5, <1>6, <1>7
     DEF H!Next, H!OpenCard, H!DashboardChanges, H!MeterComesOrGoes,
         H!NewDay, H!vars

\* The projection's card is up only for a loaded entry, against the option it has, and
\* a removed entry has left no card and no file, for any meters and however late an
\* answer finds its coordinator retired (coordinator_meter.py, _owns_the_entry).
THEOREM CardSpeaks == H!Spec => []H!CardSpeaksForTheEntry
<1>1. MeterInv => H!CardSpeaksForTheEntry
  BY DEF MeterInv
<1>2. MeterInv /\ [H!Next]_(H!vars) => MeterInv'
  BY MeterStep
<1>3. QED
  BY MeterInit, <1>1, <1>2, PTL DEF H!Spec

\* The same of the entry's two parts side by side, as the run checks it.
THEOREM CardSpeaksInTheEntry == EntrySpec => []CardSpeaksForTheEntry
<1>1. EntryInit => MeterInv
  <2>1. NoHistory => MeterInv
    BY DEF NoHistory, MeterInv, MeterType, OwnReads, H!CardSpeaksForTheEntry, H!Slots,
           H!NewCoordinator, H!Idle, IsCoordinator, Against, Kinds
  <2>2. QED
    BY <2>1, MeterInit DEF EntryInit
<1>2. MeterInv /\ [EntryNext]_<<topic, vars, historyVars>> => MeterInv'
  <2>1. MeterInv /\ UNCHANGED historyVars => MeterInv'
    BY MeterStep DEF historyVars, H!vars
  <2>2. QED
    BY <2>1, MeterStep DEF EntryNext, FlowsNext, HistoryNext
<1>3. MeterInv => CardSpeaksForTheEntry
  BY DEF MeterInv, CardSpeaksForTheEntry
<1>4. QED
  BY <1>1, <1>2, <1>3, PTL DEF EntrySpec
=============================================================================
