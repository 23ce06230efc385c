------------------------------- MODULE MCEntry ------------------------------
(***************************************************************************)
(* The entry, for TLC: who writes what it says of the household, and the   *)
(* year its meter measured. The two share nothing here, so each behaviour  *)
(* is of one of them, the other staying where it can do nothing.           *)
(*                                                                         *)
(* Values: two Flemish operators with communes, one in Brussels and one in *)
(* Wallonia; a postcode billed on a commune of its own, one split between  *)
(* two operators, one nobody resolves; a water meter and one that goes     *)
(* back to zero on a schedule.                                             *)
(***************************************************************************)
EXTENDS EntryFlows, TLC

CONSTANTS Meters, Resetting, Reporting, Dashboards, Metered, Misread, Typed, Hold, MaxDay,
          MeterChanges, M1, M2

VARIABLES
  topic,  \* what the behaviour is of
  shown, dashboard, consumption, day, life, cur, co, file, card, several, flow, changes

H == INSTANCE MeterHistory WITH
       listed <- dashboard, entry <- life, MaxChanges <- MeterChanges

ASSUME H!MeterAssumption

historyVars == <<shown, dashboard, consumption, day, life, cur, co, file, card, several,
                 flow, changes>>

\* No entry and no operator list that could change.
NoFlows ==
  /\ entry = None /\ chosen = None /\ state = "none" /\ running = None /\ before = None
  /\ listed = {} /\ blocked = {} /\ dialog = None /\ options = None
  /\ left = [dialogs |-> 0, changes |-> 0]

\* The meter of an entry that was removed.
NoHistory ==
  /\ shown = {} /\ dashboard = <<>> /\ consumption = Typed /\ day = MaxDay
  /\ life = "removed" /\ cur = 1 /\ co = [s \in H!Slots |-> H!NewCoordinator]
  /\ file = None /\ card = None /\ several = FALSE /\ flow = None /\ changes = MeterChanges

EntryInit ==
  \/ topic = "flows" /\ Init /\ NoHistory
  \/ topic = "meter" /\ H!Init /\ NoFlows

FlowsNext == topic = "flows" /\ Next /\ UNCHANGED <<topic, historyVars>>

HistoryNext == topic = "meter" /\ H!Next /\ UNCHANGED <<topic, vars>>

EntryNext == FlowsNext \/ HistoryNext

EntrySpec ==
  EntryInit /\ [][EntryNext]_<<topic, vars, historyVars>> /\ H!Fairness

-----------------------------------------------------------------------------

MCRegion == ("pidpa" :> "flanders") @@ ("farys" :> "flanders")
            @@ ("vivaqua" :> "brussels") @@ ("swde" :> "wallonia")
MCCommunes == ("pidpa" :> {"geel", "nijlen"}) @@ ("farys" :> {"gent"})
              @@ ("vivaqua" :> {}) @@ ("swde" :> {})
MCCandidates == ("2440" :> {"pidpa"}) @@ ("2560" :> {"pidpa"}) @@ ("1070" :> {"vivaqua"})
                @@ ("4000" :> {"swde", "farys"}) @@ ("0000" :> {})
MCBilled ==
  [o \in DOMAIN MCRegion |->
     [p \in DOMAIN MCCandidates |-> IF o = "pidpa" /\ p = "2560" THEN "nijlen" ELSE None]]

MCDashboards == {<<M1>>, <<M2, M1>>}
MCReporting == {{M1, M2}}
MCMetered == (M1 :> 60) @@ (M2 :> 100)

-----------------------------------------------------------------------------
(* Properties of the meter's year, whose module this one instantiates. *)

\* MeterHistory's CardSpeaksForTheEntry (coordinator_meter.py, _owns_the_entry).
CardSpeaksForTheEntry == H!CardSpeaksForTheEntry

\* MeterHistory's FiguresComeRight and NothingOldStandsIn: the figures come right, and
\* stand on no old read until they do (coordinator_meter.py, _metered, _METERED_HOLD and
\* _projection_checked).
FiguresComeRight == H!FiguresComeRight /\ []H!NothingOldStandsIn
=============================================================================
