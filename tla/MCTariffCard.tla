---------------------------- MODULE MCTariffCard ----------------------------
(* The values TLC gives the constants of TariffCard.                       *)
EXTENDS TariffCard

Tick == {"tick"}
TickAndAction == {"tick", "action"}
FlowOnly == {"flow"}
ButtonAndAction == {"press", "action"}
TickAndFlow == {"tick", "flow"}

\* Rows of last year's card and one of this year's.
Rows == {[year |-> 1, at |-> 0], [year |-> 1, at |-> 1], [year |-> 2, at |-> 2]}
=============================================================================
