------------------------------- MODULE YearBill -----------------------------
(***************************************************************************)
(* The running year's bill: what a card bills a household for its water    *)
(* (pricing.py), the card in force it is priced on while a publisher is    *)
(* late or puts next year's card up early, and the floor below which the   *)
(* household's bill does not fall (coordinator_ytd.py), over refreshes,    *)
(* readings, changes of the entry, reloads and crashes.                    *)
(*                                                                         *)
(* Money is in a unit small enough for every share of it to be whole. The  *)
(* volume is what YtdRounds makes of it: it climbs, starts over with the   *)
(* year, and comes down when the recorder takes a misread back.            *)
(***************************************************************************)
EXTENDS Integers, FiniteSets, FiniteSetsExt

CONSTANTS Entries,     \* what an entry may say: [utility, commune, persons, social]
          Cards,       \* the cards: [utility, commune, region, year, fee, ...]
          Years, Days, \* the years, and the days each has
          Block,       \* the 30 m3 of the first block, and of each resident's
          TopBlock,    \* the 5000 m3 from which the CVD falls
          MostResidents, \* FLANDERS_KORTING_MAX_RESIDENTS
          Draws,       \* the water a round may bring
          Overtaken,   \* TRUE: a reading may begin a year that a refresh under way is not in
          MaxM3, MaxChanges,  \* bounds
          None

\* What the constants are; MCParts assumes it of its values.
BillAssumption ==
  /\ \A c \in Cards :
       /\ c.region \in {"flanders", "brussels", "wallonia"}
       /\ {c.year, c.sanering, c.fee, c.korting, c.fse, c.first, c.further, c.vat} \subseteq Nat
       /\ {c.rate, c.comfort} \subseteq Nat \cup {None}
       /\ c.rate = None => c.region = "flanders"
  /\ \A e \in Entries : e.persons \in Nat /\ e.social \in BOOLEAN
  /\ Years \subseteq Nat /\ Years # {} /\ Draws \subseteq Nat /\ None \notin Nat
  /\ \A c \in Cards, e \in Entries : None \notin {c, [card |-> c, commune |-> e.commune]}
  /\ {Days, Block, TopBlock, MostResidents, MaxM3, MaxChanges} \subseteq Nat /\ Days > 0

-----------------------------------------------------------------------------
(* pricing.py. *)

AtMost(a, b) == Min({a, b})

NotBelowZero(a) == Max({a, 0})

\* fee_factor of an amount a year costs: `day` days of it.
Accrued(amount, day) == (amount * day) \div Days

WithVat(card, amount) == (amount * (100 + card.vat)) \div 100

\* Brussels: one rate, and a yearly intervention for a social household.
BrusselsBill(card, m3, e, day) ==
  LET total == WithVat(card, m3 * (card.rate + card.sanering) + Accrued(card.fee, day))
  IN IF ~e.social \/ e.persons = 0 THEN total
     ELSE IF card.first <= 0 THEN None
     ELSE NotBelowZero(total - Accrued(card.first + (e.persons - 1) * card.further, day))

\* Wallonia: half the CVD and no CVA on the first block, nine tenths of it at the top.
WalloonBill(card, m3, day) ==
  LET low == AtMost(m3, Block) * (card.rate \div 2 + card.fse)
      middle == NotBelowZero(AtMost(m3, TopBlock) - Block) * (card.rate + card.sanering + card.fse)
      top == NotBelowZero(m3 - TopBlock) * ((9 * card.rate) \div 10 + card.sanering + card.fse)
  IN IF card.rate <= 0 THEN None
     ELSE WithVat(card, low + middle + top + Accrued(card.fee, day))

\* Flanders: a block for the house and one for each resident, twice the rate above
\* them, a korting on the fixed fee, and a fifth of it all for a social household.
FlemishBill(card, m3, e, day) ==
  LET basisVolume == Block + Block * e.persons
      basis == AtMost(m3, basisVolume) * (card.rate + card.sanering)
      comfort == IF card.comfort # None THEN card.comfort ELSE 2 * card.rate
      above == NotBelowZero(m3 - basisVolume) * (comfort + 2 * card.sanering)
      vastrecht == NotBelowZero(card.fee - AtMost(e.persons, MostResidents) * card.korting)
      total == WithVat(card, basis + above + Accrued(vastrecht, day))
  IN IF e.social THEN total \div 5 ELSE total

\* _compute_bill
Bill(card, m3, e, day) ==
  CASE card.region = "brussels" -> BrusselsBill(card, m3, e, day)
    [] card.region = "wallonia" -> WalloonBill(card, m3, day)
    [] OTHER -> IF card.rate = None THEN None ELSE FlemishBill(card, m3, e, day)

-----------------------------------------------------------------------------

VARIABLES
  entry,    \* the entry's data and options
  year, day,
  tariff,   \* the card the last refresh served, None before the first
  tick,     \* the refresh under way: [card, year], or None
  cycle,    \* self._ytd: [year, m3, cost, basis], year None before the first fold
  card,     \* self._ytd_card: [card, commune], or None
  dirty,    \* _cycle_dirty
  store,    \* the file: the cycle and the card
  bill,     \* what is published: [year, card, cost], None before
  priced,   \* history: the place whose bill has been on a card in force, and since which
  changes

vars == <<entry, year, day, tariff, tick, cycle, card, dirty, store, bill, priced, changes>>

NoCycle == [year |-> None, m3 |-> 0, cost |-> None, basis |-> None]

Place(e) == [utility |-> e.utility, commune |-> e.commune]

\* The cards the operator's page may show: this year's, last year's from a publisher
\* that is late, or on the last day of the year the next one's.
OnThePage(c) ==
  /\ Place(c) = Place(entry)
  /\ \/ c.year = year
     \/ c.year = year - 1 /\ day < Days
     \/ c.year = year + 1 /\ day = Days

\* Mutant: the card served is the card in force.
AsServed(t, y) == t

\* _card_in_force. A card is valid from the first day of its year.
CardInForce(t, y) ==
  IF t.year <= y THEN t
  ELSE IF card = None THEN t
  ELSE IF card.card.utility = t.utility /\ card.commune = entry.commune /\ card.card.year <= y
       THEN card.card
  ELSE t

\* The days of y gone by: all of them once the clock is past it (_priced_on).
Elapsed(y) == IF y = year THEN day ELSE Days

\* Mutant: a household that moves to another commune keeps its floor.
BasisWithoutCommune(c) ==
  [utility |-> c.utility, commune |-> None, persons |-> entry.persons,
   social |-> entry.social, card |-> c.year]

\* _cost_basis
CostBasis(c) ==
  [utility |-> c.utility, commune |-> entry.commune, persons |-> entry.persons,
   social |-> entry.social, card |-> c.year]

\* _fold_cycle, of m3 in the year y on the card t: the bill is priced, and held up by
\* the floor unless the recorder has taken water back.
FoldCycle(t, y, m3) ==
  LET c == CardInForce(t, y)
      current == cycle.year = y
      floor == IF current /\ cycle.basis = CostBasis(c) /\ m3 >= cycle.m3
               THEN cycle.cost ELSE None
      owed == Bill(c, m3, entry, Elapsed(y))
      cost == IF owed = None \/ floor = None THEN owed ELSE Max({owed, floor})
      folded == [year |-> y, m3 |-> m3, cost |-> IF owed = None THEN floor ELSE cost,
                 basis |-> CostBasis(c)]
      held == IF c.year <= y THEN [card |-> c, commune |-> entry.commune] ELSE card
  IN /\ cycle' = folded /\ card' = held
     /\ bill' = [year |-> y, card |-> c, cost |-> cost]
     /\ priced' = IF c.year > y THEN priced
                  ELSE [place |-> Place(entry),
                        since |-> IF priced = None THEN c.year ELSE AtMost(priced.since, c.year)]

\* What the year may come to in a round: more water, a correction, or another year's.
Volumes(y) ==
  IF cycle.year = y THEN {v \in {cycle.m3 + w : w \in Draws} : v <= MaxM3} \cup {cycle.m3 \div 2}
  ELSE {0}

\* A refresh begins: it has the page's card, or the last one when that could not be
\* read, and asks the recorder for the year.
BeginRefresh ==
  /\ tick = None
  /\ \E t \in {c \in Cards : OnThePage(c)} \cup ({tariff} \ {None}) :
       tick' = [card |-> t, year |-> year]
  /\ UNCHANGED <<entry, year, day, tariff, cycle, card, dirty, store, bill, priced, changes>>

\* It folds and saves the cycle, in the year it began in, and publishes.
Refresh ==
  /\ tick # None
  /\ \E m3 \in Volumes(tick.year) : FoldCycle(tick.card, tick.year, m3)
  /\ dirty' = FALSE /\ store' = [cycle |-> cycle', card |-> card']
  /\ tariff' = tick.card /\ tick' = None
  /\ UNCHANGED <<entry, year, day, changes>>

\* _recompute_live_ytd: a reading is folded on the card last served, and saved later.
LiveReading ==
  /\ tariff # None
  /\ Overtaken \/ (IF tick = None THEN year ELSE tick.year) = year
  /\ \E m3 \in {v \in Volumes(year) : v >= cycle.m3 \/ cycle.year # year} :
       FoldCycle(tariff, year, m3)
  /\ dirty' = (dirty \/ cycle' # cycle \/ card' # card)
  /\ UNCHANGED <<entry, year, day, tariff, tick, store, changes>>

\* The delayed save, which leaves the cycle dirty.
Save ==
  /\ dirty /\ store' = [cycle |-> cycle, card |-> card]
  /\ UNCHANGED <<entry, year, day, tariff, tick, cycle, card, dirty, bill, priced, changes>>

\* A change of the entry, or a reload of it: the old coordinator saves what is dirty
\* and the new one begins with the file.
Reload ==
  /\ changes < MaxChanges
  /\ entry' \in Entries
  /\ IF dirty THEN /\ dirty' = FALSE /\ store' = [cycle |-> cycle, card |-> card]
                   /\ UNCHANGED <<cycle, card>>
     ELSE cycle' = store.cycle /\ card' = store.card /\ UNCHANGED <<dirty, store>>
  /\ tariff' = None /\ tick' = None /\ bill' = None
  /\ priced' = IF Place(entry') = Place(entry) THEN priced ELSE None
  /\ changes' = changes + 1
  /\ UNCHANGED <<year, day>>

\* A crash: the file alone is left.
Crash ==
  /\ changes < MaxChanges
  /\ cycle' = store.cycle /\ card' = store.card /\ dirty' = FALSE
  /\ tariff' = None /\ tick' = None /\ bill' = None
  /\ priced' = IF dirty THEN None ELSE priced
  /\ changes' = changes + 1
  /\ UNCHANGED <<entry, year, day, store>>

PassTime ==
  /\ \/ day < Days /\ day' = day + 1 /\ UNCHANGED year
     \/ day = Days /\ year + 1 \in Years /\ year' = year + 1 /\ day' = 1
  /\ UNCHANGED <<entry, tariff, tick, cycle, card, dirty, store, bill, priced, changes>>

Init ==
  /\ entry \in Entries
  /\ year = Min(Years) /\ day = 1
  /\ tariff = None /\ tick = None /\ cycle = NoCycle /\ card = None /\ dirty = FALSE
  /\ store = [cycle |-> NoCycle, card |-> None]
  /\ bill = None /\ priced = None /\ changes = 0

Next == BeginRefresh \/ Refresh \/ LiveReading \/ Save \/ Reload \/ Crash \/ PassTime

Spec == Init /\ [][Next]_vars

-----------------------------------------------------------------------------

\* Once a place's bill has been on a card in force, no round prices a year on a card
\* that is ahead of it, however the page flips between the two cards, over reloads and
\* crashes that lost nothing of it; and the card is the place's own (coordinator_ytd.py,
\* _card_in_force).
BillStandsOnItsCard ==
  bill # None =>
    /\ Place(bill.card) = Place(entry)
    /\ priced # None => (priced.since <= bill.year => bill.card.year <= bill.year)

\* A bill is its own card's and household's: no more than what a card of its place and of
\* its card's year bills the household for the year's water on some day of it so far, and
\* no less than its own card does on one. So the floor keeps no other household's,
\* commune's, card year's or misread's bill (coordinator_ytd.py, _cost_basis), and may
\* keep what a dearer card of the same year billed.
BillIsTheHouseholds ==
  (IF bill = None THEN None ELSE bill.cost) # None =>
    \E c \in {x \in Cards : Place(x) = Place(entry) /\ x.year = bill.card.year},
       d, e \in 1 .. Elapsed(bill.year) :
      LET most == Bill(c, cycle.m3, entry, d)
          least == Bill(bill.card, cycle.m3, entry, e)
      IN None \notin {most, least} /\ least <= bill.cost /\ bill.cost <= most
=============================================================================
