--------------------------- MODULE CardFetchProofs ---------------------------
(***************************************************************************)
(* No extractor serves a card over an outage, whatever it is answered.     *)
(* The invariant follows the outages a fetch has met: one that is still    *)
(* under way has met none, but for Farys's look at its list of communes    *)
(* and AIEC's comparison. What an extractor makes of an answer it got      *)
(* leaves the outages alone (Same), so only Fails can break the invariant. *)
(*                                                                         *)
(* A card is served under the year its operator gives it, as this year's   *)
(* wherever the page has it: what a fetch has yet to ask for, or holds to  *)
(* fall back on, says which page it has seen (Stands).                     *)
(*                                                                         *)
(* And with one request at a time none of De Watergroep's entries is shown *)
(* another commune's card: the jar is empty but for the cookie of the one  *)
(* request whose answer is being read.                                     *)
(*                                                                         *)
(* Of the archive the cards are kept in: what its branch names is there,   *)
(* and its stamp is true of every row a replay did not report.             *)
(***************************************************************************)
EXTENDS CardFetch, Sequences, TLAPS, WellFoundedInduction

\* A fetch is a record of its own fields.
Shape(f) ==
  f = [operator |-> f.operator, commune |-> f.commune, archiver |-> f.archiver, at |-> f.at,
       asked |-> f.asked, target |-> f.target, published |-> f.published,
       offered |-> f.offered, out |-> f.out, blips |-> f.blips]

\* g is f, answered: of the same operator, with the outages it had met.
Same(f, g) == Shape(g) /\ g.operator = f.operator /\ g.blips = f.blips

MayGoOn(f) ==
  \/ f.blips = {}
  \/ f.operator = "farys" /\ f.at = "list"
  \/ f.operator = "aiec" /\ f.at = "compare" /\ f.blips \subseteq {"compare"}

\* Over, or under way with no outage that counts.
Clean(f) ==
  /\ Shape(f)
  /\ f.out = None => MayGoOn(f)
  /\ f.out # None /\ f.out.failed = None => f.blips \subseteq {"compare"}

OutageInv == fetch # None => Clean(fetch)

-----------------------------------------------------------------------------
(* Where a fetch goes from an answer. *)

LEMMA AskIsSame ==
  ASSUME NEW f, Shape(f), NEW at, NEW asked
  PROVE  Same(f, Ask(f, at, asked)) /\ Ask(f, at, asked).at = at
         /\ Ask(f, at, asked).out = f.out
<1> DEFINE g == [f EXCEPT !.at = at]
<1>1. Same(f, g) /\ g.at = at /\ g.out = f.out
  BY DEF Shape, Same
<1>2. Ask(f, at, asked) = [g EXCEPT !.asked = asked]
  BY DEF Shape, Ask
<1> HIDE DEF g
<1>3. Same(g, [g EXCEPT !.asked = asked]) /\ [g EXCEPT !.asked = asked].at = g.at
      /\ [g EXCEPT !.asked = asked].out = g.out
  BY <1>1 DEF Shape, Same
<1>4. QED
  BY <1>1, <1>2, <1>3 DEF Same

LEMMA RaiseIsSame ==
  ASSUME NEW f, Shape(f), NEW kind
  PROVE  Same(f, Raise(f, kind)) /\ Raise(f, kind).out = [failed |-> kind]
  BY DEF Shape, Same, Raise

LEMMA ServeFromIsSame ==
  ASSUME NEW f, Shape(f), NEW since, NEW real, NEW says, NEW target
  PROVE  Same(f, ServeFrom(f, since, real, says, target))
         /\ ServeFrom(f, since, real, says, target).at = f.at
  BY DEF Shape, Same, ServeFrom

LEMMA ServeIsSame ==
  ASSUME NEW f, Shape(f), NEW dated, NEW real, NEW says, NEW target
  PROVE  Same(f, Serve(f, dated, real, says, target))
  BY ServeFromIsSame DEF Serve

LEMMA FallbackIsSame ==
  ASSUME NEW f, Shape(f), NEW at
  PROVE  Same(f, Fallback(f, at))
  BY AskIsSame, RaiseIsSame DEF Fallback

-----------------------------------------------------------------------------
(* The extractors. *)

LEMMA WaterLinkIsSame ==
  ASSUME NEW f, Shape(f), NEW a
  PROVE  Same(f, WaterLink(f, a))
  BY AskIsSame, RaiseIsSame, ServeIsSame, FallbackIsSame DEF WaterLink

LEMMA AquaduinIsSame ==
  ASSUME NEW f, Shape(f), NEW a
  PROVE  Same(f, Aquaduin(f, a))
  BY AskIsSame, ServeIsSame, FallbackIsSame DEF Aquaduin

LEMMA DeWatergroepIsSame ==
  ASSUME NEW f, Shape(f), NEW a
  PROVE  Same(f, DeWatergroep(f, a))
<1> DEFINE g == Ask(f, "card", year)
           own == [g EXCEPT !.commune = "default"]
<1>1. Same(f, g)
  BY AskIsSame
<1> HIDE DEF g
<1>2. Same(f, own)
  BY <1>1 DEF Shape, Same
<1>3. [g EXCEPT !.commune = "default", !.target = year] = [own EXCEPT !.target = year]
  BY <1>1 DEF Shape, Same
<1> HIDE DEF own
<1>4. Same(f, [own EXCEPT !.target = year])
  BY <1>2 DEF Shape, Same
<1>5. Same(f, [Ask(f, "card", year) EXCEPT !.commune = "default", !.target = year])
  BY <1>3, <1>4 DEF g
<1>6. QED
  BY <1>5, ServeIsSame, FallbackIsSame DEF DeWatergroep

LEMMA FarysIsSame ==
  ASSUME NEW f, Shape(f), NEW a
  PROVE  Same(f, Farys(f, a))
  BY RaiseIsSame, ServeIsSame DEF Farys

LEMMA VivaquaIsSame ==
  ASSUME NEW f, Shape(f), NEW a
  PROVE  Same(f, Vivaqua(f, a))
<1>1. ASSUME NEW asked
      PROVE  Same(f, [Ask(f, "intervention", asked) EXCEPT !.target = year, !.offered = a])
  <2> DEFINE g == Ask(f, "intervention", asked)
             of_year == [g EXCEPT !.target = year]
  <2>1. Same(f, g)
    BY AskIsSame
  <2> HIDE DEF g
  <2>2. Same(f, of_year)
    BY <2>1 DEF Shape, Same
  <2>3. [g EXCEPT !.target = year, !.offered = a] = [of_year EXCEPT !.offered = a]
    BY <2>1 DEF Shape, Same
  <2> HIDE DEF of_year
  <2>4. Same(f, [of_year EXCEPT !.offered = a])
    BY <2>2 DEF Shape, Same
  <2>5. QED
    BY <2>3, <2>4 DEF g
<1>2. QED
  BY <1>1, RaiseIsSame, ServeIsSame DEF Vivaqua

\* A page that offers several years is kept, and the card served from it.
LEMMA OfferedIsSame ==
  ASSUME NEW f, Shape(f), NEW years, NEW dated, NEW real, NEW says, NEW target
  PROVE  Same(f, Serve([f EXCEPT !.offered = years], dated, real, says, target))
<1> DEFINE g == [f EXCEPT !.offered = years]
<1>1. Same(f, g)
  BY DEF Shape, Same
<1> SUFFICES Same(f, Serve(g, dated, real, says, target))
  OBVIOUS
<1> HIDE DEF g
<1>2. Same(g, Serve(g, dated, real, says, target))
  BY <1>1, ServeIsSame DEF Same
<1>3. QED
  BY <1>1, <1>2 DEF Same

LEMMA AgsoIsSame ==
  ASSUME NEW f, Shape(f), NEW a
  PROVE  Same(f, Agso(f, a))
  BY RaiseIsSame, OfferedIsSame DEF Agso

LEMMA PidpaIsSame ==
  ASSUME NEW f, Shape(f), NEW a
  PROVE  Same(f, Pidpa(f, a))
  BY RaiseIsSame, OfferedIsSame DEF Pidpa

LEMMA WalloonIsSame ==
  ASSUME NEW f, Shape(f), NEW a
  PROVE  Same(f, Walloon(f, a))
  BY RaiseIsSame, OfferedIsSame DEF Walloon

LEMMA InbwIsSame ==
  ASSUME NEW f, Shape(f), NEW a
  PROVE  Same(f, Inbw(f, a))
  BY AskIsSame, WalloonIsSame DEF Inbw

LEMMA AiecIsSame ==
  ASSUME NEW f, Shape(f), NEW a
  PROVE  Same(f, Aiec(f, a))
<1>1. ASSUME NEW at, NEW asked, NEW published
      PROVE  Same(f, [Ask(f, at, asked) EXCEPT !.published = published])
  <2> DEFINE g == Ask(f, at, asked)
  <2>1. Same(f, g)
    BY AskIsSame
  <2> HIDE DEF g
  <2>2. Same(f, [g EXCEPT !.published = published])
    BY <2>1 DEF Shape, Same
  <2>3. QED
    BY <2>2 DEF g
<1>2. QED
  BY <1>1, AskIsSame, RaiseIsSame, ServeFromIsSame DEF Aiec

\* An answer leaves the outages a fetch has met alone, of every extractor.
LEMMA AnsweredIsSame ==
  ASSUME NEW f, Shape(f), NEW a
  PROVE  Same(f, Answered(f, a))
  BY WaterLinkIsSame, AquaduinIsSame, DeWatergroepIsSame, FarysIsSame, VivaquaIsSame,
     AgsoIsSame, PidpaIsSame, WalloonIsSame, InbwIsSame, AiecIsSame DEF Answered

-----------------------------------------------------------------------------
(* The steps of a fetch. *)

\* A fetch that ends has failed, and serves nothing.
LEMMA RaiseIsClean ==
  ASSUME FetchAssumption, NEW f, Shape(f), NEW kind \in Failures
  PROVE  Clean(Raise(f, kind))
<1>1. Raise(f, kind).out = [failed |-> kind]
  BY RaiseIsSame
<1>2. Raise(f, kind).out # None /\ Raise(f, kind).out.failed # None
  BY <1>1 DEF FetchAssumption
<1>3. QED
  BY <1>2, RaiseIsSame DEF Clean, Same

\* Farys's list only says how its fetch fails; AIEC's comparison is over with its answer.
LEMMA AnsweredIsClean ==
  ASSUME FetchAssumption, NEW f, Shape(f), MayGoOn(f), NEW a
  PROVE  Clean(Answered(f, a))
<1>1. CASE f.blips = {}
  BY <1>1, AnsweredIsSame DEF Same, Clean, MayGoOn
<1>2. CASE f.operator = "farys" /\ f.at = "list"
  <2>1. Answered(f, a) = Farys(f, a)
    BY <1>2 DEF Answered
  <2>2. Farys(f, a) = Raise(f, IF a = "unlisted" THEN "gone" ELSE "blip")
    BY <1>2 DEF Farys
  <2>3. QED
    BY <2>1, <2>2, RaiseIsClean DEF Failures
<1>3. CASE f.operator = "aiec" /\ f.at = "compare" /\ f.blips \subseteq {"compare"}
  <2>1. Answered(f, a) = Aiec(f, a)
    BY <1>3 DEF Answered
  <2>2. Aiec(f, a) = ServeFrom(f, f.published, YearOf(f.published), TRUE, year)
    BY <1>3 DEF Aiec
  <2> DEFINE served == ServeFrom(f, f.published, YearOf(f.published), TRUE, year)
  <2>3. Same(f, served) /\ served.at = f.at
    <3> DEFINE says == TRUE
    <3> HIDE DEF says
    <3>1. /\ Same(f, ServeFrom(f, f.published, YearOf(f.published), says, year))
          /\ ServeFrom(f, f.published, YearOf(f.published), says, year).at = f.at
      BY ServeFromIsSame
    <3>2. QED
      BY <3>1 DEF says
  <2> HIDE DEF served
  <2>4. Clean(served)
    BY <1>3, <2>3 DEF Same, Clean, MayGoOn
  <2>5. QED
    BY <2>1, <2>2, <2>4 DEF served
<1>4. QED
  BY <1>1, <1>2, <1>3 DEF MayGoOn

\* An outage ends the fetch, but where Farys asks its list and AIEC serves its card.
LEMMA BlipIsClean ==
  ASSUME FetchAssumption, NEW f, Shape(f), f.out = None, MayGoOn(f)
  PROVE  Clean(Blip([f EXCEPT !.blips = @ \cup {f.at}]))
<1> DEFINE g == [f EXCEPT !.blips = @ \cup {f.at}]
<1>1. /\ Shape(g) /\ g.operator = f.operator /\ g.at = f.at /\ g.commune = f.commune
      /\ g.out = None /\ g.blips = f.blips \cup {f.at}
  BY DEF Shape
<1> SUFFICES Clean(Blip(g))
  OBVIOUS
<1> HIDE DEF g
<1>2. CASE f.operator = "farys" /\ f.at = "post" /\ f.commune = "own"
  <2>1. Blip(g) = Ask(g, "list", g.asked)
    BY <1>1, <1>2 DEF Blip
  <2>2. Same(g, Blip(g)) /\ Blip(g).at = "list" /\ Blip(g).out = None
    BY <1>1, <2>1, AskIsSame
  <2>3. QED
    BY <1>1, <1>2, <2>2 DEF Same, Clean, MayGoOn
<1>3. CASE f.operator = "aiec" /\ f.at = "compare"
  <2>1. Blip(g) = Answered(g, Gone)
    BY <1>1, <1>3 DEF Blip
  <2>2. MayGoOn(g)
    BY <1>1, <1>3 DEF MayGoOn
  <2>3. QED
    BY <1>1, <2>1, <2>2, AnsweredIsClean
<1>4. CASE ~(f.operator = "farys" /\ f.at = "post" /\ f.commune = "own")
           /\ ~(f.operator = "aiec" /\ f.at = "compare")
  <2>1. Blip(g) = Raise(g, "blip")
    BY <1>1, <1>4 DEF Blip
  <2>2. QED
    BY <1>1, <2>1, RaiseIsClean DEF Failures
<1>5. QED
  BY <1>2, <1>3, <1>4

LEMMA FailedIsClean ==
  ASSUME FetchAssumption, NEW f, Shape(f), f.out = None, MayGoOn(f), NEW outcome
  PROVE  Clean(Failed(f, outcome))
<1>1. CASE outcome \in Transient
  <2>1. Failed(f, outcome) = Blip([f EXCEPT !.blips = @ \cup {f.at}])
    BY <1>1 DEF Failed, Transient
  <2>2. QED
    BY <2>1, BlipIsClean
<1>2. CASE outcome \notin Transient
  <2>1. Clean(Raise(f, "gone")) /\ Clean(Answered(f, Gone))
    BY RaiseIsClean, AnsweredIsClean DEF Failures
  <2>2. QED
    BY <1>2, <2>1 DEF Failed
<1>3. QED
  BY <1>1, <1>2

LEMMA OutageInit == Init => OutageInv
  BY DEF Init, OutageInv

LEMMA OutageStep ==
  ASSUME FetchAssumption, OutageInv, [Next \/ Done]_vars
  PROVE  OutageInv'
<1>1. CASE Begin
  <2>1. PICK op \in Operators, commune \in {"default", "own"}, archiver \in BOOLEAN :
          fetch' = [operator |-> op, commune |-> commune, archiver |-> archiver,
                    at |-> FirstAt(op), asked |-> year, target |-> year, published |-> None,
                    offered |-> {}, out |-> None, blips |-> {}]
    BY <1>1 DEF Begin
  <2>2. Shape(fetch') /\ fetch'.out = None /\ fetch'.blips = {}
    BY <2>1 DEF Shape
  <2>3. Clean(fetch')
    BY <2>2 DEF Clean, MayGoOn
  <2>4. QED
    BY <2>3 DEF OutageInv, Clean, Shape, MayGoOn
<1>2. ASSUME UnderWay
      PROVE  fetch # None /\ fetch.out = None /\ Shape(fetch) /\ MayGoOn(fetch)
  BY <1>2 DEF UnderWay, OutageInv, Clean
<1>3. CASE Receive
  <2>1. PICK a \in Shown(fetch) : fetch' = Answered(fetch, a)
    BY <1>3 DEF Receive
  <2>2. Clean(fetch')
    BY <1>2, <1>3, <2>1, AnsweredIsClean DEF Receive
  <2>3. QED
    BY <2>2 DEF OutageInv, Clean, Shape, MayGoOn
<1>4. CASE Fails
  <2>1. PICK outcome \in Transient \cup Content : fetch' = Failed(fetch, outcome)
    BY <1>4 DEF Fails
  <2>2. Clean(fetch')
    BY <1>2, <1>4, <2>1, FailedIsClean DEF Fails
  <2>3. QED
    BY <2>2 DEF OutageInv, Clean, Shape, MayGoOn
<1>5. CASE GiveUp
  <2>1. Clean(fetch')
    BY <1>2, <1>5, RaiseIsClean DEF GiveUp, Failures
  <2>2. QED
    BY <2>1 DEF OutageInv, Clean, Shape, MayGoOn
<1>6. CASE NewYear \/ Done \/ UNCHANGED vars
  <2>1. fetch' = fetch
    BY <1>6 DEF NewYear, Done, vars
  <2>2. QED
    BY <2>1 DEF OutageInv, Clean, Shape, MayGoOn
<1>7. QED
  BY <1>1, <1>3, <1>4, <1>5, <1>6 DEF Next

\* Whatever the operators answer, and wherever an outage falls, no card is served
\* over it: a fallback is taken only for what an operator answered it does not have
\* (TransientFetchError and the extractors' fallbacks).
THEOREM OutageServesNothing ==
  ASSUME FetchAssumption
  PROVE  Spec => []NoCardOverAnOutage
<1>1. OutageInv => NoCardOverAnOutage
  BY DEF OutageInv, NoCardOverAnOutage, Served, Clean
<1>2. OutageInv /\ [Next \/ Done]_vars => OutageInv'
  BY OutageStep
<1>3. QED
  BY OutageInit, <1>1, <1>2, PTL DEF Spec

-----------------------------------------------------------------------------
(* What a card is served as.                                                *)

\* The card of an outcome o served over the years offered is dated by what the operator
\* says of it, of this year where the page has this year's, and not over yet.
RightOf(o, offered) ==
  /\ o.says => YearOf(o.since) = o.real
  /\ o.target \in offered => YearOf(o.since) = o.target
  /\ ~turned => o.until > Jan1(year)

\* Where a fetch under way may be, and what it knows by then.
At(f) ==
  /\ f.operator \in {"water_link", "aquaduin"} => f.at \in {"page", "pdf"}
  /\ f.operator = "de_watergroep" => f.at = "card"
  /\ f.operator = "farys" => f.at \in {"post", "list"}
  /\ f.operator \in {"agso_knokke", "pidpa", "walloon"} => f.at = "page"
  /\ f.operator = "inbw" => f.at \in {"page", "unverified"}
  /\ f.operator = "vivaqua" =>
       \/ f.at = "page" /\ f.offered = {}
       \/ f.at = "intervention" /\ (f.target \in f.offered => f.asked = f.target)
  /\ f.operator = "aiec" =>
       \/ f.at \in {"page", "aggregator"} /\ f.published \in Nat \cup {None}
       \/ f.at \in {"compare", "picture"} /\ f.published \in Nat

Asks(f) ==
  /\ f.operator \in Extractors /\ f.commune \in {"default", "own"}
  /\ f.asked \in Int /\ f.target \in Int
  /\ ~turned => f.target = year
  /\ f.operator # "vivaqua" => f.offered = {}
  /\ At(f)

Stands(f) ==
  /\ Shape(f)
  /\ f.out = None => Asks(f)
  /\ f.out # None /\ f.out.failed = None => RightOf(f.out, f.offered)

\* A fetch under way.
Going(f) == Shape(f) /\ f.out = None /\ Asks(f)

ServedInv == year \in Nat \ {0} /\ (fetch # None => Stands(fetch))

LEMMA AskIs ==
  ASSUME NEW f, Shape(f), NEW at, NEW asked
  PROVE  /\ Shape(Ask(f, at, asked))
         /\ Ask(f, at, asked).operator = f.operator /\ Ask(f, at, asked).commune = f.commune
         /\ Ask(f, at, asked).at = at /\ Ask(f, at, asked).asked = asked
         /\ Ask(f, at, asked).target = f.target /\ Ask(f, at, asked).out = f.out
         /\ Ask(f, at, asked).published = f.published /\ Ask(f, at, asked).offered = f.offered
<1> DEFINE g == [f EXCEPT !.at = at]
           h == [g EXCEPT !.asked = asked]
<1>1. /\ Shape(g) /\ g.operator = f.operator /\ g.commune = f.commune /\ g.at = at
      /\ g.target = f.target /\ g.out = f.out /\ g.published = f.published
      /\ g.offered = f.offered
  BY DEF Shape
<1>2. Ask(f, at, asked) = h
  BY DEF Shape, Ask
<1> HIDE DEF g
<1>3. /\ Shape(h) /\ h.operator = g.operator /\ h.commune = g.commune /\ h.at = g.at
      /\ h.asked = asked /\ h.target = g.target /\ h.out = g.out
      /\ h.published = g.published /\ h.offered = g.offered
  BY <1>1 DEF Shape
<1> HIDE DEF h
<1>4. QED
  BY <1>1, <1>2, <1>3

LEMMA RaiseStands ==
  ASSUME FetchAssumption, NEW f, Shape(f), NEW kind \in Failures
  PROVE  Stands(Raise(f, kind))
<1>1. Shape(Raise(f, kind)) /\ Raise(f, kind).out = [failed |-> kind]
  BY RaiseIsSame DEF Same
<1>2. Raise(f, kind).out # None /\ Raise(f, kind).out.failed # None
  BY <1>1 DEF FetchAssumption
<1>3. QED
  BY <1>1, <1>2 DEF Stands

\* Another request of the same fetch.
LEMMA AskStands ==
  ASSUME NEW f, Going(f), NEW at, NEW asked \in Int,
         f.operator # "vivaqua",
         At([operator |-> f.operator, at |-> at, asked |-> asked, target |-> f.target,
             published |-> f.published, offered |-> f.offered])
  PROVE  Stands(Ask(f, at, asked))
<1> DEFINE g == Ask(f, at, asked)
<1>1. /\ Shape(g) /\ g.operator = f.operator /\ g.commune = f.commune /\ g.at = at
      /\ g.asked = asked /\ g.target = f.target /\ g.out = f.out
      /\ g.published = f.published /\ g.offered = f.offered
  BY AskIs DEF Going
<1> HIDE DEF g
<1>2. At(g)
  BY <1>1 DEF At
<1>3. QED
  BY <1>1, <1>2 DEF Stands, Asks, Going, g

LEMMA FallbackStands ==
  ASSUME FetchAssumption, NEW f, Going(f),
         f.operator \in {"water_link", "aquaduin", "de_watergroep"},
         NEW at, at = IF f.operator = "de_watergroep" THEN "card" ELSE "page"
  PROVE  Stands(Fallback(f, at))
<1>1. f.target - 1 \in Int
  BY DEF Going, Asks
<1>2. At([operator |-> f.operator, at |-> at, asked |-> f.target - 1, target |-> f.target,
          published |-> f.published, offered |-> f.offered])
  BY DEF At
<1>3. Stands(Ask(f, at, f.target - 1))
  BY <1>1, <1>2, AskStands
<1>4. Stands(Raise(f, "gone"))
  BY RaiseStands DEF Going, Failures
<1>5. QED
  BY <1>3, <1>4 DEF Fallback

LEMMA CarriedIsNotOver ==
  ASSUME NEW since \in Int, NEW target \in Int
  PROVE  Carried(since, target) \in Int /\ Carried(since, target) > Jan1(target)
BY DEF Carried, YearOf, Jan1

\* The card that is served, of the years offered, the page's or none.
LEMMA ServeStands ==
  ASSUME FetchAssumption, year \in Nat \ {0}, NEW f, Shape(f), NEW since \in Int,
         NEW real \in Int, NEW says \in BOOLEAN, NEW target \in Int, ~turned => target = year,
         says => YearOf(since) = real, target \in f.offered => YearOf(since) = target
  PROVE  Stands(ServeFrom(f, since, real, says, target))
<1> DEFINE u == Carried(since, target)
           o == [failed |-> None, since |-> since, real |-> real, says |-> says,
                 target |-> target, until |-> u]
           g == ServeFrom(f, since, real, says, target)
<1>1. u \in Int /\ u > Jan1(target)
  BY CarriedIsNotOver
<1>2. g = [f EXCEPT !.out = o]
  BY DEF ServeFrom
<1> HIDE DEF u
<1>3. /\ o # None /\ o.failed = None /\ o.since = since /\ o.real = real /\ o.says = says
      /\ o.target = target /\ o.until = u
  BY <1>1 DEF FetchAssumption
<1> HIDE DEF o, g
<1>4. Shape(g) /\ g.out = o /\ g.offered = f.offered
  BY <1>2 DEF Shape
<1>5. RightOf(o, f.offered)
  BY <1>1, <1>3 DEF RightOf
<1>6. QED
  BY <1>3, <1>4, <1>5 DEF Stands, g

LEMMA YearOfJan1 ==
  ASSUME NEW y \in Int
  PROVE  Jan1(y) \in Int /\ YearOf(Jan1(y)) = y
BY DEF Jan1, YearOf

\* The same, dated 1 January.
LEMMA DatedStands ==
  ASSUME FetchAssumption, year \in Nat \ {0}, NEW f, Shape(f), NEW dated \in Int,
         NEW real \in Int, NEW says \in BOOLEAN, NEW target \in Int, ~turned => target = year,
         says => dated = real, target \in f.offered => dated = target
  PROVE  Stands(Serve(f, dated, real, says, target))
<1> DEFINE since == Jan1(dated)
<1>1. since \in Int /\ YearOf(since) = dated
  BY YearOfJan1
<1> HIDE DEF since
<1>2. Stands(ServeFrom(f, since, real, says, target))
  BY <1>1, ServeStands
<1>3. QED
  BY <1>2 DEF Serve, since

-----------------------------------------------------------------------------
(* The extractors again: each serves a card for what it is.                 *)

LEMMA WaterLinkStands ==
  ASSUME FetchAssumption, year \in Nat \ {0}, NEW f, Going(f), f.operator = "water_link",
         NEW a, a \in Shown(f) \cup {Gone}
  PROVE  Stands(WaterLink(f, a))
<1>1. f.at \in {"page", "pdf"} /\ f.asked \in Int /\ f.target \in Int /\ Shape(f)
      /\ f.offered = {}
  BY DEF Going, Asks, At
<1>2. CASE f.at = "page" /\ a # OffSite
  <2>1. At([operator |-> f.operator, at |-> "pdf", asked |-> f.asked, target |-> f.target,
            published |-> f.published, offered |-> f.offered])
    BY DEF At
  <2>2. Stands(Ask(f, "pdf", f.asked))
    BY <1>1, <2>1, AskStands
  <2>3. QED
    BY <1>2, <2>2 DEF WaterLink
<1>3. CASE (f.at = "page" /\ a = OffSite) \/ (f.at = "pdf" /\ a = Gone)
  <2>1. Stands(Fallback(f, "page"))
    BY FallbackStands
  <2>2. QED
    BY <1>3, <2>1 DEF WaterLink
<1>4. CASE f.at = "pdf" /\ a # Gone
  <2>1. a \in Docs(f.asked)
    BY <1>4 DEF Shown
  <2>2. a.year \in Int /\ a.states \in BOOLEAN
    BY <1>1, <2>1 DEF Docs
  <2>3. WaterLink(f, a) = IF StatesAnother(a, f.asked) THEN Raise(f, "gone")
                          ELSE Serve(f, f.asked, a.year, a.states, year)
    BY <1>4 DEF WaterLink
  <2>4. CASE StatesAnother(a, f.asked)
    BY <1>1, <2>3, <2>4, RaiseStands DEF Failures
  <2>5. CASE ~StatesAnother(a, f.asked)
    <3>1. a.states => f.asked = a.year
      BY <2>5 DEF StatesAnother
    <3>2. Stands(Serve(f, f.asked, a.year, a.states, year))
      BY <1>1, <2>2, <3>1, DatedStands
    <3>3. QED
      BY <2>3, <2>5, <3>2
  <2>6. QED
    BY <2>4, <2>5
<1>5. QED
  BY <1>1, <1>2, <1>3, <1>4

LEMMA AquaduinStands ==
  ASSUME FetchAssumption, year \in Nat \ {0}, NEW f, Going(f), f.operator = "aquaduin",
         NEW a, a \in Shown(f) \cup {Gone}
  PROVE  Stands(Aquaduin(f, a))
<1>1. f.at \in {"page", "pdf"} /\ f.asked \in Int /\ f.target \in Int /\ Shape(f)
      /\ f.offered = {} /\ (~turned => f.target = year)
  BY DEF Going, Asks, At
<1>2. Stands(Fallback(f, "page"))
  BY FallbackStands
<1>3. CASE f.at = "page" /\ a = "link"
  <2>1. At([operator |-> f.operator, at |-> "pdf", asked |-> f.asked, target |-> f.target,
            published |-> f.published, offered |-> f.offered])
    BY DEF At
  <2>2. Stands(Ask(f, "pdf", f.asked))
    BY <1>1, <2>1, AskStands
  <2>3. QED
    BY <1>3, <2>2 DEF Aquaduin
<1>4. CASE (f.at = "page" /\ a # "link") \/ (f.at = "pdf" /\ a = Gone)
  BY <1>2, <1>4 DEF Aquaduin
<1>5. CASE f.at = "pdf" /\ a # Gone
  <2>1. a \in Docs(f.asked)
    BY <1>5 DEF Shown
  <2>2. a.year \in Int /\ a.states \in BOOLEAN
    BY <1>1, <2>1 DEF Docs
  <2>3. Aquaduin(f, a) = IF StatesAnother(a, f.asked) THEN Fallback(f, "page")
                         ELSE Serve(f, f.asked, a.year, a.states, f.target)
    BY <1>5 DEF Aquaduin
  <2>4. CASE ~StatesAnother(a, f.asked)
    <3>1. a.states => f.asked = a.year
      BY <2>4 DEF StatesAnother
    <3>2. Stands(Serve(f, f.asked, a.year, a.states, f.target))
      BY <1>1, <2>2, <3>1, DatedStands
    <3>3. QED
      BY <2>3, <2>4, <3>2
  <2>5. QED
    BY <1>2, <2>3, <2>4
<1>6. QED
  BY <1>1, <1>3, <1>4, <1>5

LEMMA DeWatergroepStands ==
  ASSUME FetchAssumption, year \in Nat \ {0}, NEW f, Going(f), f.operator = "de_watergroep",
         NEW a, a \in Shown(f) \cup {Gone}
  PROVE  Stands(DeWatergroep(f, a))
<1>1. f.at = "card" /\ f.asked \in Int /\ f.target \in Int /\ Shape(f) /\ f.offered = {}
      /\ (~turned => f.target = year) /\ f.commune \in {"default", "own"} /\ f.out = None
  BY DEF Going, Asks, At
<1>2. Stands(Fallback(f, "card"))
  BY FallbackStands
<1>3. CASE a = Gone
  BY <1>2, <1>3 DEF DeWatergroep, FetchAssumption
<1>4. CASE a # Gone /\ a = Unshowable /\ f.commune = "own"
  <2> DEFINE g == Ask(f, "card", year)
             h == [g EXCEPT !.commune = "default"]
             i == [h EXCEPT !.target = year]
  <2>1. /\ Shape(g) /\ g.operator = f.operator /\ g.at = "card" /\ g.asked = year
        /\ g.out = f.out /\ g.offered = f.offered
    BY <1>1, AskIs
  <2>2. DeWatergroep(f, a) = [g EXCEPT !.commune = "default", !.target = year]
    BY <1>4 DEF DeWatergroep
  <2> HIDE DEF g
  <2>3. /\ Shape(h) /\ h.operator = f.operator /\ h.at = "card" /\ h.asked = year
        /\ h.out = f.out /\ h.offered = f.offered /\ h.commune = "default"
    BY <2>1 DEF Shape
  <2>4. [g EXCEPT !.commune = "default", !.target = year] = i
    BY <2>1 DEF Shape
  <2> HIDE DEF h
  <2>5. /\ Shape(i) /\ i.operator = f.operator /\ i.at = "card" /\ i.asked = year
        /\ i.out = f.out /\ i.offered = f.offered /\ i.commune = "default" /\ i.target = year
    BY <2>3 DEF Shape
  <2> HIDE DEF i
  <2>6. Stands(i)
    BY <1>1, <2>5 DEF Stands, Asks, At, Extractors
  <2>7. QED
    BY <2>2, <2>4, <2>6
<1>5. CASE a # Gone /\ a = Unshowable /\ f.commune = "default"
  BY <1>2, <1>5 DEF DeWatergroep
<1>6. CASE a # Gone /\ a # Unshowable
  <2>1. a \in Docs(f.asked)
    BY <1>1, <1>6 DEF Shown
  <2>2. a.year \in Int /\ a.states \in BOOLEAN
    BY <1>1, <2>1 DEF Docs
  <2> DEFINE dated == ServedYear(a, f.asked)
  <2>3. dated \in Int /\ (a.states => dated = a.year)
    BY <1>1, <2>2 DEF ServedYear
  <2>4. DeWatergroep(f, a) = Serve(f, dated, a.year, a.states, f.target)
    BY <1>6 DEF DeWatergroep
  <2> HIDE DEF dated
  <2>5. Stands(Serve(f, dated, a.year, a.states, f.target))
    BY <1>1, <2>2, <2>3, DatedStands
  <2>6. QED
    BY <2>4, <2>5
<1>7. QED
  BY <1>1, <1>3, <1>4, <1>5, <1>6

LEMMA FarysStands ==
  ASSUME FetchAssumption, year \in Nat \ {0}, NEW f, Going(f), f.operator = "farys",
         NEW a, a \in Shown(f) \cup {Gone}
  PROVE  Stands(Farys(f, a))
<1>1. f.at \in {"post", "list"} /\ Shape(f) /\ f.offered = {}
  BY DEF Going, Asks, At
<1>2. CASE f.at = "post" /\ a # Gone
  <2>1. a \in [year : Near, states : BOOLEAN]
    BY <1>2 DEF Shown
  <2>2. a.year \in Int /\ a.states \in BOOLEAN
    BY <2>1 DEF Near
  <2> DEFINE dated == IF a.states THEN a.year ELSE year
  <2>3. dated \in Int /\ (a.states => dated = a.year)
    BY <2>2
  <2>4. Farys(f, a) = Serve(f, dated, a.year, a.states, year)
    BY <1>2 DEF Farys
  <2> HIDE DEF dated
  <2>5. Stands(Serve(f, dated, a.year, a.states, year))
    BY <1>1, <2>2, <2>3, DatedStands
  <2>6. QED
    BY <2>4, <2>5
<1>3. CASE (f.at = "post" /\ a = Gone) \/ f.at = "list"
  <2>1. Stands(Raise(f, "gone")) /\ Stands(Raise(f, "blip"))
    BY <1>1, RaiseStands DEF Failures
  <2>2. QED
    BY <1>3, <2>1 DEF Farys
<1>4. QED
  BY <1>1, <1>2, <1>3

\* The last of a few years.
LEMMA MaxOfFew ==
  ASSUME NEW y \in Int, NEW S, S # {}, \A x \in S : x \in (y - 2) .. (y + 1)
  PROVE  Max(S) \in S /\ \A x \in S : x <= Max(S)
<1>1. \E m \in S : \A x \in S : m >= x
  <2>1. CASE y + 1 \in S
    BY <2>1
  <2>2. CASE y + 1 \notin S /\ y \in S
    BY <2>2
  <2>3. CASE y + 1 \notin S /\ y \notin S /\ y - 1 \in S
    BY <2>3
  <2>4. CASE y + 1 \notin S /\ y \notin S /\ y - 1 \notin S
    <3>1. \A x \in S : x = y - 2
      BY <2>4
    <3>2. QED
      BY <3>1
  <2>5. QED
    BY <2>1, <2>2, <2>3, <2>4
<1>2. Max(S) \in S /\ \A x \in S : Max(S) >= x
  BY <1>1 DEF Max
<1>3. Max(S) \in Int /\ \A x \in S : x \in Int
  BY <1>2
<1>4. QED
  BY <1>2, <1>3

LEMMA VivaquaStands ==
  ASSUME FetchAssumption, year \in Nat \ {0}, NEW f, Going(f), f.operator = "vivaqua",
         NEW a, a \in Shown(f) \cup {Gone}
  PROVE  Stands(Vivaqua(f, a))
<1>1. /\ \/ f.at = "page"
         \/ f.at = "intervention" /\ (f.target \in f.offered => f.asked = f.target)
      /\ Shape(f) /\ f.asked \in Int /\ f.target \in Int /\ (~turned => f.target = year)
      /\ f.commune \in {"default", "own"} /\ f.out = None
  BY DEF Going, Asks, At
<1>2. CASE f.at = "page" /\ a # Gone /\ a \cap {year, year - 1} # {}
  <2> DEFINE few == a \cap {year, year - 1}
             m == Max(few)
             g == Ask(f, "intervention", m)
             h == [g EXCEPT !.target = year]
             i == [h EXCEPT !.offered = a]
  <2>1. few # {} /\ \A x \in few : x \in (year - 2) .. (year + 1)
    BY <1>2
  <2>2. (\A x \in few : x = year \/ x = year - 1) /\ (year \in a => year \in few)
    OBVIOUS
  <2> HIDE DEF few
  <2>3. m \in few /\ \A x \in few : x <= m
    BY <2>1, MaxOfFew
  <2> HIDE DEF m
  <2>4. m \in Int /\ (year \in a => m = year)
    <3>1. m = year \/ m = year - 1
      BY <2>2, <2>3
    <3>2. year \in a => year <= m
      BY <2>2, <2>3
    <3>3. QED
      BY <3>1, <3>2
  <2>5. Vivaqua(f, a) = [g EXCEPT !.target = year, !.offered = a]
    BY <1>2 DEF Vivaqua, few, m
  <2>6. /\ Shape(g) /\ g.operator = f.operator /\ g.at = "intervention" /\ g.asked = m
        /\ g.out = f.out /\ g.commune = f.commune
    BY <1>1, AskIs
  <2> HIDE DEF g
  <2>7. /\ Shape(h) /\ h.operator = f.operator /\ h.at = "intervention" /\ h.asked = m
        /\ h.out = f.out /\ h.commune = f.commune /\ h.target = year
    BY <2>6 DEF Shape
  <2>8. [g EXCEPT !.target = year, !.offered = a] = i
    BY <2>6 DEF Shape
  <2> HIDE DEF h
  <2>9. /\ Shape(i) /\ i.operator = f.operator /\ i.at = "intervention" /\ i.asked = m
        /\ i.out = f.out /\ i.commune = f.commune /\ i.target = year /\ i.offered = a
    BY <2>7 DEF Shape
  <2> HIDE DEF i
  <2>10. Stands(i)
    BY <1>1, <2>4, <2>9 DEF Stands, Asks, At, Extractors
  <2>11. QED
    BY <2>5, <2>8, <2>10
<1>3. CASE f.at = "page" /\ ~(a # Gone /\ a \cap {year, year - 1} # {})
  <2>1. Stands(Raise(f, "gone"))
    BY <1>1, RaiseStands DEF Failures
  <2>2. QED
    BY <1>3, <2>1 DEF Vivaqua
<1>4. CASE f.at = "intervention" /\ (f.target \in f.offered => f.asked = f.target)
  <2> DEFINE says == TRUE
  <2>1. says \in BOOLEAN
    OBVIOUS
  <2>2. Vivaqua(f, a) = Serve(f, f.asked, f.asked, says, f.target)
    BY <1>4 DEF Vivaqua
  <2> HIDE DEF says
  <2>3. Stands(Serve(f, f.asked, f.asked, says, f.target))
    BY <1>1, <1>4, <2>1, DatedStands
  <2>4. QED
    BY <2>2, <2>3
<1>5. QED
  BY <1>1, <1>2, <1>3, <1>4

\* A page that offers several years is kept, and the card served from it.
LEMMA OfferedStands ==
  ASSUME FetchAssumption, year \in Nat \ {0}, NEW f, Shape(f), NEW years, NEW dated \in Int,
         NEW real \in Int, NEW says \in BOOLEAN,
         says => dated = real, year \in years => dated = year
  PROVE  Stands(Serve([f EXCEPT !.offered = years], dated, real, says, year))
<1> DEFINE g == [f EXCEPT !.offered = years]
<1>1. Shape(g) /\ g.offered = years
  BY DEF Shape
<1> SUFFICES Stands(Serve(g, dated, real, says, year))
  OBVIOUS
<1> HIDE DEF g
<1>2. QED
  BY <1>1, DatedStands

LEMMA MinOfTwo ==
  ASSUME NEW a \in Int, NEW b \in Int
  PROVE  Min({a, b}) \in Int
<1> DEFINE m == IF a <= b THEN a ELSE b
<1>1. m \in {a, b} /\ \A x \in {a, b} : m <= x
  OBVIOUS
<1> HIDE DEF m
<1>2. Min({a, b}) \in {a, b}
  BY <1>1 DEF Min
<1>3. QED
  BY <1>2

\* A page of tables of different years.
Tables ==
  {s \in SUBSET [year : Near, dated : BOOLEAN] :
     s # {} /\ \A t, u \in s : t.year = u.year => t = u}

LEMMA ChosenIs ==
  ASSUME year \in Nat \ {0}, NEW a \in Tables
  PROVE  LET chosen == ChosenTable(a, year) IN
         /\ chosen.year \in Int /\ chosen.dated \in Int
         /\ (\E t \in a : t.year = chosen.year /\ t.dated) => chosen.dated = chosen.year
         /\ (\A t \in a : t.dated) /\ year \in {t.year : t \in a} => chosen.dated = year
<1> DEFINE past == {t.year : t \in {x \in a : x.year <= year}}
           known == {t.year : t \in {x \in a : x.dated}}
           years == {t.year : t \in a}
           dearest == CHOOSE t \in a : \A x \in a : x.year <= t.year
           chosen == ChosenTable(a, year)
           late == IF dearest.dated THEN dearest.year
                   ELSE IF known # {} THEN Min({Max(known) + 1, year}) ELSE year
           first == (\A t \in a : t.dated) /\ past # {}
<1>1. /\ a # {} /\ \A t \in a : t.year \in Near /\ t.dated \in BOOLEAN
      /\ \A t, u \in a : t.year = u.year => t = u
  BY DEF Tables
<1>2. \A t \in a : t.year \in (year - 2) .. (year + 1)
  BY <1>1 DEF Near
<1>3. \A S : S # {} /\ (\A x \in S : \E t \in a : x = t.year)
        => Max(S) \in Int /\ Max(S) \in S /\ \A x \in S : x <= Max(S)
  <2> TAKE S
  <2> HAVE S # {} /\ (\A x \in S : \E t \in a : x = t.year)
  <2>1. \A x \in S : x \in (year - 2) .. (year + 1)
    BY <1>2
  <2>2. Max(S) \in S /\ \A x \in S : x <= Max(S)
    BY <2>1, MaxOfFew
  <2>3. QED
    BY <2>1, <2>2
<1>4. dearest \in a /\ \A x \in a : x.year <= dearest.year
  <2>1. Max(years) \in years /\ \A x \in years : x <= Max(years)
    <3>1. years # {} /\ \A x \in years : \E t \in a : x = t.year
      BY <1>1
    <3> HIDE DEF years
    <3>2. QED
      BY <3>1, <1>3
  <2>2. PICK t \in a : Max(years) = t.year
    BY <2>1
  <2>3. \A x \in a : x.year <= t.year
    BY <2>1, <2>2
  <2>4. QED
    BY <2>3
<1>5. chosen = IF first THEN [year |-> Max(past), dated |-> Max(past)]
               ELSE [year |-> dearest.year, dated |-> late]
  BY DEF ChosenTable
<1>6. CASE first
  <2>1. past # {} /\ \A x \in past : \E t \in a : x = t.year
    BY <1>6
  <2>2. Max(past) \in Int /\ Max(past) \in past /\ \A x \in past : x <= Max(past)
    BY <1>3, <2>1
  <2>3. Max(past) <= year
    BY <2>2
  <2>4. year \in years => year \in past
    BY <1>2
  <2>5. chosen.year = Max(past) /\ chosen.dated = Max(past)
    BY <1>5, <1>6
  <2> HIDE DEF past, chosen, first
  <2>6. year \in years => Max(past) = year
    BY <2>2, <2>3, <2>4
  <2>7. QED
    BY <2>2, <2>5, <2>6 DEF chosen
<1>7. CASE ~first
  <2>1. chosen.year = dearest.year /\ chosen.dated = late
    <3> HIDE DEF chosen, first, dearest, late, past
    <3>1. chosen = [year |-> dearest.year, dated |-> late]
      BY <1>5, <1>7
    <3>2. QED
      BY <3>1
  <2>2. dearest.year \in Int /\ dearest.dated \in BOOLEAN
    BY <1>1, <1>2, <1>4
  <2>3. late \in Int
    <3>1. known # {} => Max(known) \in Int
      BY <1>3
    <3>2. known # {} => Min({Max(known) + 1, year}) \in Int
      BY <3>1, MinOfTwo
    <3>3. QED
      BY <2>2, <3>2
  <2>4. (\E t \in a : t.year = dearest.year /\ t.dated) => late = dearest.year
    BY <1>1, <1>4
  <2>5. ~((\A t \in a : t.dated) /\ year \in years)
    <3> SUFFICES ASSUME \A t \in a : t.dated, year \in years
                 PROVE  FALSE
      OBVIOUS
    <3>1. PICK t \in a : t.year = year
      OBVIOUS
    <3>2. t.year \in past
      BY <3>1
    <3>3. QED
      BY <1>7, <3>2
  <2> HIDE DEF chosen, dearest, late
  <2>6. QED
    BY <2>1, <2>2, <2>3, <2>4, <2>5 DEF chosen
<1>8. QED
  BY <1>6, <1>7

LEMMA AgsoStands ==
  ASSUME FetchAssumption, year \in Nat \ {0}, NEW f, Going(f), f.operator = "agso_knokke",
         NEW a, a \in Shown(f) \cup {Gone}
  PROVE  Stands(Agso(f, a))
<1>1. f.at = "page" /\ Shape(f)
  BY DEF Going, Asks, At
<1>2. Stands(Raise(f, "gone"))
  BY <1>1, RaiseStands DEF Failures
<1>3. CASE a = Gone
  BY <1>2, <1>3 DEF Agso
<1>4. CASE a # Gone
  <2> DEFINE chosen == ChosenTable(a, year)
             years == IF \A t \in a : t.dated THEN {t.year : t \in a} ELSE {}
             says == \E t \in a : t.year = chosen.year /\ t.dated
             g == Serve([f EXCEPT !.offered = years], chosen.dated, chosen.year, says, year)
  <2>1. a \in Tables
    BY <1>1, <1>4 DEF Shown, Tables
  <2>2. /\ chosen.year \in Int /\ chosen.dated \in Int
        /\ says => chosen.dated = chosen.year
        /\ year \in years => chosen.dated = year
    BY <2>1, ChosenIs
  <2>3. says \in BOOLEAN
    OBVIOUS
  <2>4. Agso(f, a) = IF chosen.dated > year THEN Raise(f, "gone") ELSE g
    BY <1>4 DEF Agso
  <2>5. Stands(g)
    <3> HIDE DEF chosen, years, says
    <3>1. QED
      BY <1>1, <2>2, <2>3, OfferedStands
  <2> HIDE DEF chosen, g
  <2>6. QED
    BY <1>2, <2>4, <2>5
<1>5. QED
  BY <1>3, <1>4

LEMMA PidpaStands ==
  ASSUME FetchAssumption, year \in Nat \ {0}, NEW f, Going(f), f.operator = "pidpa",
         NEW a, a \in Shown(f) \cup {Gone}
  PROVE  Stands(Pidpa(f, a))
<1>1. f.at = "page" /\ Shape(f)
  BY DEF Going, Asks, At
<1> DEFINE past == {t \in a : t <= year}
           tab == Max(past)
           says == TRUE
<1>2. CASE a = Gone \/ past = {}
  <2>1. Stands(Raise(f, "gone"))
    BY <1>1, RaiseStands DEF Failures
  <2>2. QED
    BY <1>2, <2>1 DEF Pidpa
<1>3. CASE a # Gone /\ past # {}
  <2>1. a \in SUBSET (Near \cup {year - 2})
    BY <1>1, <1>3 DEF Shown
  <2>2. \A x \in past : x \in (year - 2) .. (year + 1)
    BY <2>1 DEF Near
  <2>3. \A x \in past : x <= year
    OBVIOUS
  <2>4. year \in a => year \in past
    OBVIOUS
  <2>5. Pidpa(f, a) = Serve([f EXCEPT !.offered = a], tab, tab, says, year)
    BY <1>3 DEF Pidpa
  <2>6. says \in BOOLEAN
    OBVIOUS
  <2> HIDE DEF past, says
  <2>7. tab \in past /\ \A x \in past : x <= tab
    BY <1>3, <2>2, MaxOfFew
  <2>8. tab \in Int /\ (year \in a => tab = year)
    BY <2>2, <2>3, <2>4, <2>7
  <2> HIDE DEF tab
  <2>9. QED
    BY <1>1, <2>5, <2>6, <2>8, OfferedStands
<1>4. QED
  BY <1>2, <1>3

\* A page whose headings name one year states that one.
LEMMA StatedIs ==
  ASSUME FetchAssumption, year \in Nat \ {0}, NEW a \in Pages
  PROVE  Stated(a) \in Int /\ a.year \in Int /\ (a.heads = {a.year} => Stated(a) = a.year)
<1> DEFINE heads == a.heads \cap ((year - 1) .. (year + 1))
           dates == a.dates \cap ((year - 1) .. (year + 1))
           prose == a.prose \cap ((year - 1) .. (year + 1))
           told == IF heads # {} THEN heads ELSE IF dates # {} THEN dates ELSE prose
           m == DetectPublishedYear(a)
<1>1. a.year \in Near
  BY DEF Pages
<1>2. \A x \in told : x \in (year - 2) .. (year + 1)
  <2>1. \A x \in (year - 1) .. (year + 1) : x \in (year - 2) .. (year + 1)
    OBVIOUS
  <2>2. QED
    BY <2>1
<1>3. m = CASE told = {} -> None [] told # {} /\ year \in told -> year [] OTHER -> Max(told)
  BY DEF DetectPublishedYear
<1>4. a.heads = {a.year} => told = {a.year}
  <2>1. a.year \in (year - 1) .. (year + 1)
    BY <1>1 DEF Near
  <2>2. QED
    BY <2>1
<1> HIDE DEF told, m
<1>5. told # {} => Max(told) \in told /\ Max(told) \in Int
  <2>1. told # {} => Max(told) \in told
    BY <1>2, MaxOfFew
  <2>2. QED
    BY <1>2, <2>1
<1>6. m = None \/ m \in Int
  BY <1>3, <1>5
<1>7. Stated(a) \in Int
  BY <1>6 DEF Stated, m
<1>8. a.year \in Nat
  BY <1>1 DEF Near
<1>9. ASSUME a.heads = {a.year}
      PROVE  Stated(a) = a.year
  <2>1. told = {a.year} /\ told # {}
    BY <1>4, <1>9
  <2>2. m = a.year
    BY <1>3, <1>5, <2>1
  <2>3. QED
    BY <1>8, <2>2 DEF Stated, m, FetchAssumption
<1>10. QED
  BY <1>7, <1>8, <1>9

LEMMA WalloonStands ==
  ASSUME FetchAssumption, year \in Nat \ {0}, NEW f, Shape(f), NEW a, a \in Pages \cup {Gone}
  PROVE  Stands(Walloon(f, a))
<1>1. CASE a = Gone
  <2>1. Stands(Raise(f, "gone"))
    BY RaiseStands DEF Failures
  <2>2. QED
    BY <1>1, <2>1 DEF Walloon
<1>2. CASE a # Gone
  <2> DEFINE years == IF a.heads = {a.year} THEN {a.year} ELSE {}
             says == a.heads = {a.year}
             dated == Stated(a)
  <2>1. dated \in Int /\ a.year \in Int /\ (says => dated = a.year)
    BY <1>2, StatedIs
  <2>2. says \in BOOLEAN /\ (year \in years => dated = year)
    BY <2>1
  <2>3. Walloon(f, a) = Serve([f EXCEPT !.offered = years], dated, a.year, says, year)
    BY <1>2 DEF Walloon
  <2> HIDE DEF years, says, dated
  <2>4. QED
    BY <2>1, <2>2, <2>3, OfferedStands
<1>3. QED
  BY <1>1, <1>2

LEMMA InbwStands ==
  ASSUME FetchAssumption, year \in Nat \ {0}, NEW f, Going(f), f.operator = "inbw",
         NEW a, a \in Shown(f) \cup {Gone}
  PROVE  Stands(Inbw(f, a))
<1>1. f.at \in {"page", "unverified"} /\ Shape(f) /\ f.asked \in Int
  BY DEF Going, Asks, At
<1>2. CASE a = Tls
  <2>1. At([operator |-> f.operator, at |-> "unverified", asked |-> f.asked,
            target |-> f.target, published |-> f.published, offered |-> f.offered])
    BY DEF At
  <2>2. Stands(Ask(f, "unverified", f.asked))
    BY <1>1, <2>1, AskStands
  <2>3. QED
    BY <1>2, <2>2 DEF Inbw
<1>3. CASE a # Tls
  <2>1. a \in Pages \cup {Gone}
    BY <1>1, <1>3 DEF Shown
  <2>2. QED
    BY <1>1, <1>3, <2>1, WalloonStands DEF Inbw
<1>4. QED
  BY <1>2, <1>3

\* The operator's picture moves a card's day only within its year.
LEMMA AgainstIs ==
  ASSUME NEW since \in Int, NEW published \in Nat \cup {None}, None \notin Nat
  PROVE  /\ AgainstOperator(since, published) \in Int
         /\ YearOf(AgainstOperator(since, published)) = YearOf(since)
BY DEF AgainstOperator

\* The operator's picture p is known, and another page is asked for.
LEMMA PictureAsked ==
  ASSUME NEW f, Going(f), f.operator = "aiec", NEW at, NEW p \in Nat \cup {None},
         (at \in {"compare", "picture"} /\ p \in Nat) \/ at = "aggregator"
  PROVE  Stands([Ask(f, at, f.asked) EXCEPT !.published = p])
<1> DEFINE g == Ask(f, at, f.asked)
           h == [g EXCEPT !.published = p]
<1>1. /\ Shape(g) /\ g.operator = f.operator /\ g.commune = f.commune /\ g.at = at
      /\ g.asked = f.asked /\ g.target = f.target /\ g.out = f.out /\ g.offered = f.offered
  BY AskIs DEF Going
<1> HIDE DEF g
<1>2. /\ Shape(h) /\ h.operator = f.operator /\ h.commune = f.commune /\ h.at = at
      /\ h.asked = f.asked /\ h.target = f.target /\ h.out = f.out /\ h.offered = f.offered
      /\ h.published = p
  BY <1>1 DEF Shape
<1> SUFFICES Stands(h)
  BY DEF g
<1> HIDE DEF h
<1>3. At(h)
  BY <1>2 DEF At
<1>4. QED
  BY <1>2, <1>3 DEF Stands, Asks, Going

LEMMA AiecStands ==
  ASSUME FetchAssumption, year \in Nat \ {0}, NEW f, Going(f), f.operator = "aiec",
         NEW a, a \in Shown(f) \cup {Gone}
  PROVE  Stands(Aiec(f, a))
<1>1. /\ Shape(f) /\ f.asked \in Int /\ f.offered = {} /\ None \notin Nat
      /\ \/ f.at \in {"page", "aggregator"} /\ f.published \in Nat \cup {None}
         \/ f.at \in {"compare", "picture"} /\ f.published \in Nat
  BY DEF Going, Asks, At, FetchAssumption
<1>2. ASSUME NEW day \in Nat
      PROVE  Stands(ServeFrom(f, day, YearOf(day), TRUE, year))
  <2> DEFINE says == TRUE
             real == YearOf(day)
  <2>1. says \in BOOLEAN /\ real \in Int
    BY DEF YearOf
  <2> SUFFICES Stands(ServeFrom(f, day, real, says, year))
    OBVIOUS
  <2>2. says => YearOf(day) = real
    OBVIOUS
  <2> HIDE DEF says, real
  <2>3. QED
    BY <1>1, <2>1, <2>2, ServeStands
<1>3. Stands(Ask(f, "aggregator", f.asked))
  <2>1. At([operator |-> f.operator, at |-> "aggregator", asked |-> f.asked,
            target |-> f.target, published |-> f.published, offered |-> f.offered])
    BY <1>1 DEF At
  <2>2. QED
    BY <1>1, <2>1, AskStands
<1>4. CASE f.at = "page" /\ a = Gone
  BY <1>3, <1>4 DEF Aiec
<1>5. CASE f.at = "page" /\ a # Gone
  <2>1. a \in [published : Pictures \cup {None}, url : BOOLEAN]
    BY <1>5 DEF Shown
  <2>2. a.published \in Nat \cup {None}
    <3>1. \A x \in Pictures : x \in Nat
      BY DEF Pictures, Jan1
    <3>2. QED
      BY <2>1, <3>1
  <2>3. CASE a.published \in Transcribed
    <3>1. a.published \in Nat
      BY <2>3 DEF FetchAssumption
    <3>2. Stands([Ask(f, "compare", f.asked) EXCEPT !.published = a.published])
      BY <3>1, PictureAsked
    <3>3. QED
      BY <1>2, <1>5, <2>3, <3>1, <3>2 DEF Aiec
  <2>4. CASE a.published \notin Transcribed
    <3> DEFINE at == IF a.published # None /\ a.url THEN "picture" ELSE "aggregator"
    <3>1. (at \in {"compare", "picture"} /\ a.published \in Nat) \/ at = "aggregator"
      BY <2>2
    <3>2. Aiec(f, a) = [Ask(f, at, f.asked) EXCEPT !.published = a.published]
      BY <1>5, <2>4 DEF Aiec
    <3> HIDE DEF at
    <3>3. QED
      BY <2>2, <3>1, <3>2, PictureAsked
  <2>5. QED
    BY <2>3, <2>4
<1>6. CASE f.at = "compare"
  BY <1>1, <1>2, <1>6 DEF Aiec
<1>7. CASE f.at = "picture"
  <2> DEFINE text == IF a = Gone THEN None ELSE IF f.archiver THEN a
                     ELSE PictureText(a, f.published)
  <2>1. Aiec(f, a) = IF ReadsAs(text, f.published)
                     THEN ServeFrom(f, f.published, YearOf(text), TRUE, year)
                     ELSE Ask(f, "aggregator", f.asked)
    BY <1>7 DEF Aiec
  <2> HIDE DEF text
  <2>2. CASE ReadsAs(text, f.published)
    <3>1. text = f.published /\ f.published \in Nat
      BY <1>1, <1>7, <2>2 DEF ReadsAs
    <3>2. QED
      BY <1>2, <2>1, <2>2, <3>1
  <2>3. CASE ~ReadsAs(text, f.published)
    BY <1>3, <1>7, <2>1, <2>3
  <2>4. QED
    BY <2>2, <2>3
<1>8. CASE f.at = "aggregator"
  <2>1. CASE a = Gone
    <3>1. Stands(Raise(f, "gone"))
      BY <1>1, RaiseStands DEF Failures
    <3>2. QED
      BY <1>8, <2>1, <3>1 DEF Aiec
  <2>2. CASE a # Gone
    <3> DEFINE dated == Stated(a)
               jan == Jan1(dated)
               since == AgainstOperator(jan, f.published)
               says == a.heads = {a.year}
    <3>1. a \in Pages
      BY <1>8, <2>2 DEF Shown
    <3>2. dated \in Int /\ a.year \in Int /\ (says => dated = a.year)
      BY <3>1, StatedIs
    <3>3. says \in BOOLEAN
      OBVIOUS
    <3>4. Aiec(f, a) = ServeFrom(f, since, a.year, says, year)
      BY <1>8, <2>2 DEF Aiec
    <3> HIDE DEF dated, says
    <3>5. jan \in Int /\ YearOf(jan) = dated
      BY <3>2, YearOfJan1
    <3> HIDE DEF jan
    <3>6. since \in Int /\ YearOf(since) = YearOf(jan)
      BY <1>1, <1>8, <3>5, AgainstIs
    <3> HIDE DEF since
    <3>7. QED
      BY <1>1, <3>2, <3>3, <3>4, <3>5, <3>6, ServeStands
  <2>3. QED
    BY <2>1, <2>2
<1>9. QED
  BY <1>1, <1>4, <1>5, <1>6, <1>7, <1>8

-----------------------------------------------------------------------------
(* The steps of a fetch, again.                                             *)

LEMMA AnsweredStands ==
  ASSUME FetchAssumption, year \in Nat \ {0}, NEW f, Going(f), NEW a, a \in Shown(f) \cup {Gone}
  PROVE  Stands(Answered(f, a))
<1>1. f.operator \in Extractors
  BY DEF Going, Asks
<1>2. CASE f.operator = "water_link"
  BY <1>2, WaterLinkStands DEF Answered
<1>3. CASE f.operator = "aquaduin"
  BY <1>3, AquaduinStands DEF Answered
<1>4. CASE f.operator = "de_watergroep"
  BY <1>4, DeWatergroepStands DEF Answered
<1>5. CASE f.operator = "farys"
  BY <1>5, FarysStands DEF Answered
<1>6. CASE f.operator = "vivaqua"
  BY <1>6, VivaquaStands DEF Answered
<1>7. CASE f.operator = "agso_knokke"
  BY <1>7, AgsoStands DEF Answered
<1>8. CASE f.operator = "pidpa"
  BY <1>8, PidpaStands DEF Answered
<1>9. CASE f.operator = "walloon"
  <2>1. a \in Pages \cup {Gone} /\ Shape(f)
    BY <1>9 DEF Going, Asks, At, Shown
  <2>2. QED
    BY <1>9, <2>1, WalloonStands DEF Answered
<1>10. CASE f.operator = "inbw"
  BY <1>10, InbwStands DEF Answered
<1>11. CASE f.operator = "aiec"
  BY <1>11, AiecStands DEF Answered
<1>12. QED
  BY <1>1, <1>2, <1>3, <1>4, <1>5, <1>6, <1>7, <1>8, <1>9, <1>10, <1>11 DEF Extractors

LEMMA FailedStands ==
  ASSUME FetchAssumption, year \in Nat \ {0}, NEW f, Going(f), NEW outcome
  PROVE  Stands(Failed(f, outcome))
<1> DEFINE g == [f EXCEPT !.blips = @ \cup {f.at}]
<1>1. /\ Shape(g) /\ g.operator = f.operator /\ g.commune = f.commune /\ g.at = f.at
      /\ g.asked = f.asked /\ g.target = f.target /\ g.out = f.out
      /\ g.published = f.published /\ g.offered = f.offered
  BY DEF Going, Shape
<1>2. Stands(Raise(f, "gone")) /\ Stands(Answered(f, Gone))
  BY RaiseStands, AnsweredStands DEF Going, Failures
<1>3. CASE outcome \in Transient
  <2>1. Failed(f, outcome) = Blip(g)
    BY <1>3 DEF Failed, Transient
  <2> HIDE DEF g
  <2>2. Going(g)
    <3>1. At(g)
      BY <1>1 DEF Going, Asks, At
    <3>2. QED
      BY <1>1, <3>1 DEF Going, Asks
  <2>3. CASE g.operator = "farys" /\ g.at = "post" /\ g.commune = "own"
    <3>1. At([operator |-> g.operator, at |-> "list", asked |-> g.asked, target |-> g.target,
              published |-> g.published, offered |-> g.offered])
      BY <2>3 DEF At
    <3>2. Stands(Ask(g, "list", g.asked))
      BY <2>2, <2>3, <3>1, AskStands DEF Going, Asks
    <3>3. QED
      BY <2>1, <2>3, <3>2 DEF Blip
  <2>4. CASE g.operator = "aiec" /\ g.at = "compare"
    <3>1. Stands(Answered(g, Gone))
      BY <2>2, AnsweredStands
    <3>2. QED
      BY <2>1, <2>4, <3>1 DEF Blip
  <2>5. CASE /\ ~(g.operator = "farys" /\ g.at = "post" /\ g.commune = "own")
             /\ ~(g.operator = "aiec" /\ g.at = "compare")
    <3>1. Stands(Raise(g, "blip"))
      BY <1>1, RaiseStands DEF Failures
    <3>2. QED
      BY <2>1, <2>5, <3>1 DEF Blip
  <2>6. QED
    BY <2>3, <2>4, <2>5
<1>4. CASE outcome \notin Transient
  BY <1>2, <1>4 DEF Failed
<1>5. QED
  BY <1>3, <1>4

LEMMA BeginStands ==
  ASSUME FetchAssumption, year \in Nat \ {0}, Begin
  PROVE  Stands(fetch')
<1>1. PICK op \in Operators, commune \in {"default", "own"}, archiver \in BOOLEAN :
        fetch' = [operator |-> op, commune |-> commune, archiver |-> archiver,
                  at |-> FirstAt(op), asked |-> year, target |-> year, published |-> None,
                  offered |-> {}, out |-> None, blips |-> {}]
  BY DEF Begin
<1>2. /\ Shape(fetch') /\ fetch'.out = None /\ fetch'.operator = op /\ fetch'.commune = commune
      /\ fetch'.at = FirstAt(op) /\ fetch'.asked = year /\ fetch'.target = year
      /\ fetch'.published = None /\ fetch'.offered = {}
  BY <1>1 DEF Shape
<1>3. op \in Extractors
  BY DEF FetchAssumption
<1>4. FirstAt(op) = IF op = "de_watergroep" THEN "card" ELSE IF op = "farys" THEN "post" ELSE "page"
  BY DEF FirstAt
<1>5. At(fetch')
  BY <1>2, <1>3, <1>4 DEF At, Extractors
<1>6. QED
  BY <1>2, <1>3, <1>5 DEF Stands, Asks

LEMMA PublishedStep ==
  ASSUME FetchAssumption, ServedInv, [Next \/ Done]_vars
  PROVE  ServedInv'
<1> USE DEF ServedInv
<1>1. ASSUME Stands(fetch'), UNCHANGED <<year, turned>>
      PROVE  ServedInv'
  <2>1. fetch' # None => Stands(fetch)'
    BY <1>1 DEF Stands, Asks, At, RightOf
  <2>2. QED
    BY <1>1, <2>1
<1>2. CASE Begin
  BY <1>1, <1>2, BeginStands DEF Begin
<1>3. ASSUME UnderWay
      PROVE  fetch # None /\ Going(fetch)
  BY <1>3 DEF UnderWay, Stands, Going
<1>4. CASE Receive
  <2>1. PICK a \in Shown(fetch) : fetch' = Answered(fetch, a)
    BY <1>4 DEF Receive
  <2>2. Stands(fetch')
    BY <1>3, <1>4, <2>1, AnsweredStands DEF Receive
  <2>3. QED
    BY <1>1, <1>3, <1>4, <2>2 DEF Receive
<1>5. CASE Fails
  <2>1. PICK outcome : fetch' = Failed(fetch, outcome)
    BY <1>5 DEF Fails
  <2>2. Stands(fetch')
    BY <1>3, <1>5, <2>1, FailedStands DEF Fails
  <2>3. QED
    BY <1>1, <1>3, <1>5, <2>2 DEF Fails
<1>6. CASE GiveUp
  <2>1. Stands(fetch')
    BY <1>3, <1>6, RaiseStands DEF GiveUp, Going, Failures
  <2>2. QED
    BY <1>1, <1>3, <1>6, <2>1 DEF GiveUp
<1>7. CASE NewYear
  <2>1. year' = year + 1 /\ fetch' = fetch /\ turned' = UnderWay
    BY <1>7 DEF NewYear
  <2>2. CASE UnderWay
    <3>1. Going(fetch) /\ fetch # None /\ turned' = TRUE
      BY <1>3, <2>1, <2>2
    <3>2. Stands(fetch)'
      BY <2>1, <3>1 DEF Going, Stands, Asks, At, Shape
    <3>3. QED
      BY <2>1, <3>1, <3>2
  <2>3. CASE ~UnderWay
    <3>1. fetch = None
      BY <1>7, <2>1, <2>3 DEF NewYear, UnderWay
    <3>2. QED
      BY <2>1, <3>1
  <2>4. QED
    BY <2>2, <2>3
<1>8. CASE Done \/ UNCHANGED vars
  BY <1>8 DEF Done, vars, Stands, Asks, At, RightOf, Shape
<1>9. QED
  BY <1>2, <1>4, <1>5, <1>6, <1>7, <1>8 DEF Next

\* A card is served under the year the operator gives it, as this year's wherever the
\* page has this year's, and not past its end already, for every extractor, picture,
\* table and page, and whenever the year turns (carry_prior_year_card, and each
\* extractor's parser).
THEOREM CardIsAsPublished ==
  ASSUME FetchAssumption
  PROVE  Spec => []ServedAsPublished
<1>1. Init => ServedInv
  BY DEF Init, ServedInv, FetchAssumption
<1>2. ServedInv /\ [Next \/ Done]_vars => ServedInv'
  BY PublishedStep
<1>3. ServedInv => ServedAsPublished
  BY DEF ServedInv, ServedAsPublished, Served, Stands, RightOf
<1>4. QED
  BY <1>1, <1>2, <1>3, PTL DEF Spec

-----------------------------------------------------------------------------
(* De Watergroep's requests for the card of a commune (CommuneCookie).     *)

CONSTANTS Homes, CommuneOf, Abreast
VARIABLES jar, request, shown

Cookie == INSTANCE CommuneCookie

\* The communes a cookie may name.
Cookies == {CommuneOf[h] : h \in Homes} \cup {None}

RequestType ==
  /\ request \in [Homes -> [at : {"idle", "sent", "body"}, cookie : Cookies]]
  /\ shown \in [Homes -> Cookies]

\* A request that is under way names its own entry's commune.
AsksForItsOwn ==
  \A h \in Homes :
    request[h] = Cookie!Idle \/ (request[h].at # "idle" /\ request[h].cookie = CommuneOf[h])

OneAtATime ==
  \A h, other \in Homes : request[h] # Cookie!Idle /\ request[other] # Cookie!Idle => h = other

\* The jar holds what an answer set only while its body is read.
JarIsEmptied ==
  jar # None => \E h \in Homes : request[h].at = "body" /\ jar = request[h].cookie

CookieInv ==
  /\ RequestType /\ AsksForItsOwn /\ OneAtATime /\ JarIsEmptied /\ Cookie!CardIsOfItsCommune

\* No request is under way at first.
LEMMA CookieInit == Cookie!Init => CookieInv
  BY DEF Cookie!Init, CookieInv, RequestType, AsksForItsOwn, OneAtATime, JarIsEmptied,
         Cookie!CardIsOfItsCommune, Cookie!Idle, Cookies

\* A request is sent only while none is under way, so with an empty jar.
LEMMA CookieStep ==
  ASSUME Cookie!CookieAssumption, ~Abreast, CookieInv, [Cookie!Next]_(Cookie!vars)
  PROVE  CookieInv'
<1> USE DEF CookieInv, Cookie!Idle
<1>1. CASE UNCHANGED Cookie!vars
  BY <1>1 DEF Cookie!vars, RequestType, AsksForItsOwn, OneAtATime, JarIsEmptied,
              Cookie!CardIsOfItsCommune
<1>2. ASSUME NEW h \in Homes, Cookie!Send(h)
      PROVE  CookieInv'
  <2>1. \A other \in Homes : request[other] = Cookie!Idle
    BY <1>2 DEF Cookie!Send
  <2>2. jar = None
    BY <2>1 DEF JarIsEmptied
  <2>3. request' = [request EXCEPT ![h] = [at |-> "sent", cookie |-> CommuneOf[h]]]
    BY <1>2, <2>2 DEF Cookie!Send
  <2>4. jar' = None /\ shown' = shown
    BY <1>2, <2>2 DEF Cookie!Send
  <2>5. RequestType'
    BY <2>3, <2>4 DEF RequestType, Cookies
  <2>6. request'[h] = [at |-> "sent", cookie |-> CommuneOf[h]]
        /\ \A other \in Homes \ {h} : request'[other] = Cookie!Idle
    BY <2>1, <2>3 DEF RequestType
  <2>7. AsksForItsOwn' /\ OneAtATime'
    BY <2>6 DEF AsksForItsOwn, OneAtATime
  <2>8. QED
    BY <2>4, <2>5, <2>7 DEF JarIsEmptied, Cookie!CardIsOfItsCommune
<1>3. ASSUME NEW h \in Homes, Cookie!HeadersCome(h)
      PROVE  CookieInv'
  <2>1. request'[h] = [at |-> "body", cookie |-> request[h].cookie]
        /\ \A other \in Homes \ {h} : request'[other] = request[other]
    BY <1>3 DEF Cookie!HeadersCome, RequestType
  <2>2. request[h] # Cookie!Idle
    BY <1>3 DEF Cookie!HeadersCome
  <2>3. RequestType'
    BY <1>3 DEF Cookie!HeadersCome, RequestType
  <2>4. AsksForItsOwn'
    BY <2>1, <2>2 DEF AsksForItsOwn
  <2>5. OneAtATime'
    BY <2>1, <2>2 DEF OneAtATime
  <2>6. jar' = None \/ jar' = request'[h].cookie
    <3>1. CASE jar' = request[h].cookie
      BY <3>1, <2>1
    <3>2. CASE jar' = jar /\ jar # None
      <4>1. PICK k \in Homes : request[k].at = "body" /\ jar = request[k].cookie
        BY <3>2 DEF JarIsEmptied
      <4>2. k = h
        BY <4>1, <2>2 DEF OneAtATime
      <4>3. QED
        BY <3>2, <4>1, <4>2, <2>1
    <3>3. QED
      BY <1>3, <3>1, <3>2 DEF Cookie!HeadersCome
  <2>7. QED
    BY <1>3, <2>1, <2>3, <2>4, <2>5, <2>6
       DEF Cookie!HeadersCome, JarIsEmptied, Cookie!CardIsOfItsCommune
<1>4. ASSUME NEW h \in Homes, Cookie!BodyRead(h) \/ Cookie!RequestFails(h)
      PROVE  CookieInv'
  <2>1. request[h] # Cookie!Idle /\ jar' = None /\ request' = [request EXCEPT ![h] = Cookie!Idle]
    BY <1>4 DEF Cookie!BodyRead, Cookie!RequestFails, Cookie!Cleared
  <2>2. RequestType'
    BY <1>4, <2>1 DEF RequestType, Cookie!BodyRead, Cookie!RequestFails, Cookies
  <2>3. request'[h] = Cookie!Idle /\ \A other \in Homes \ {h} : request'[other] = request[other]
    BY <2>1 DEF RequestType
  <2>4. AsksForItsOwn' /\ OneAtATime'
    BY <2>3 DEF AsksForItsOwn, OneAtATime
  <2>5. Cookie!CardIsOfItsCommune'
    BY <1>4, <2>1 DEF RequestType, AsksForItsOwn, Cookie!BodyRead, Cookie!RequestFails,
                      Cookie!CardIsOfItsCommune
  <2>6. QED
    BY <2>1, <2>2, <2>4, <2>5 DEF JarIsEmptied
<1>5. QED
  BY <1>1, <1>2, <1>3, <1>4 DEF Cookie!Next

\* One entry's request at a time is shown the card of its own commune, whatever the
\* answers set and however a request ends (de_watergroep.py, _fetch_commune_ajax).
THEOREM OwnCommune ==
  ASSUME Cookie!CookieAssumption, ~Abreast
  PROVE  Cookie!Spec => []Cookie!CardIsOfItsCommune
<1>1. CookieInv => Cookie!CardIsOfItsCommune
  BY DEF CookieInv
<1>2. CookieInv /\ [Cookie!Next]_(Cookie!vars) => CookieInv'
  BY CookieStep
<1>3. QED
  BY CookieInit, <1>1, <1>2, PTL DEF Cookie!Spec

-----------------------------------------------------------------------------
(* The archive of the cards (CardArchive).                                  *)

CONSTANTS Rows, Pdfs, Editions, Parsers, Reader, Reads, Months, KeepMonths, GiveUpAfter,
          MaxRuns, MaxFails, MaxLost, Unread
VARIABLES month, parser, reads, published, branch, releases, pc, work, run, unreplayable, left

A == INSTANCE CardArchive

\* The latest of some months, or of none, is one of them.
LEMMA MaxOfMonths ==
  ASSUME NEW bound \in Nat, NEW S, S \subseteq 0 .. bound, S # {}
  PROVE  A!Max(S) \in S
<1> DEFINE Short == {bound - x : x \in S}
           Less == {ss \in Nat \X Nat : ss[1] < ss[2]}
<1>1. Short \subseteq Nat
  <2> SUFFICES ASSUME NEW d \in Short
               PROVE  d \in Nat
    OBVIOUS
  <2>1. PICK x \in S : d = bound - x
    OBVIOUS
  <2>2. QED
    BY <2>1
<1>2. Short # {}
  <2>1. PICK x : x \in S
    OBVIOUS
  <2>2. bound - x \in Short
    BY <2>1
  <2>3. QED
    BY <2>2
<1>3. IsWellFoundedOn(Less, Nat)
  BY NatLessThanWellFounded DEF OpToRel
<1> HIDE DEF Less, Short
<1>4. PICK s \in Short : \A t \in Short : ~(<<t, s>> \in Less)
  BY <1>1, <1>2, <1>3, WFMin
<1>5. ASSUME NEW t \in Short
      PROVE  s <= t
  <2>1. t \in Nat /\ s \in Nat /\ <<t, s>> \notin Less
    BY <1>1, <1>4
  <2>2. <<t, s>> \in Nat \X Nat /\ <<t, s>>[1] = t /\ <<t, s>>[2] = s
    BY <2>1
  <2>3. ~(t < s)
    BY <2>1, <2>2 DEF Less
  <2>4. QED
    BY <2>1, <2>3
<1>6. PICK top \in S : s = bound - top
  BY <1>4 DEF Short
<1>7. \A x \in S : x <= top
  <2> SUFFICES ASSUME NEW x \in S
               PROVE  x <= top
    OBVIOUS
  <2>1. bound - x \in Short
    BY DEF Short
  <2>2. s <= bound - x
    BY <1>5, <2>1
  <2>3. x \in 0 .. bound /\ top \in 0 .. bound
    OBVIOUS
  <2>4. QED
    BY <1>6, <2>2, <2>3
<1>8. QED
  BY <1>7 DEF A!Max

-----------------------------------------------------------------------------
(* A copy of the branch: the branch itself, or a run's checkout of it. Each *)
(* row's text is there, and a row names the PDF its text is of.             *)

Copy(w) ==
  /\ w = [rows |-> w.rows, texts |-> w.texts, manifest |-> w.manifest, stamp |-> w.stamp]
  /\ w.rows = [r \in A!RowSet |-> [m \in A!MonthSet |-> w.rows[r][m]]]
  /\ w.stamp \in A!ParserSet \cup {None}

RowsStand(w) ==
  \A r \in A!RowSet, m \in A!MonthSet :
    LET x == w.rows[r][m]
    IN x # None =>
         /\ x.text \in w.texts
         /\ x.pdf = IF r \in Pdfs THEN <<r, x.text.edition>> ELSE None

\* s is the row as it is written, with its own text or a month before's.
StoredAs(w, r, m, row, s) ==
  /\ s.card = row.card /\ s.pdf = row.pdf /\ s.readers = row.readers
  /\ \/ s.text = row.text
     \/ \E p \in A!MonthSet :
          /\ p < m /\ w.rows[r][p] # None
          /\ A!SameCard(w.rows[r][p], row)
          /\ w.rows[r][p].text \in w.texts /\ s.text = w.rows[r][p].text

LEMMA StoredIs ==
  ASSUME A!ArchiveAssumption, NEW w, NEW r \in A!RowSet, NEW m \in A!MonthSet,
         NEW e, NEW v, NEW card
  PROVE  LET row == A!Row(r, e, v, card)
         IN StoredAs(w, r, m, row, A!Stored(w, r, m, row))
<1> DEFINE row == A!Row(r, e, v, card)
           before == {n \in 1 .. m - 1 : w.rows[r][n] # None}
           p == A!Previous(w.rows, r, m)
<1>1. p \in {0} \cup before
  <2>1. m \in Nat
    BY DEF A!MonthSet, A!ArchiveAssumption
  <2>2. {0} \cup before \subseteq 0 .. m /\ {0} \cup before # {}
    BY <2>1
  <2>3. QED
    BY <2>1, <2>2, MaxOfMonths DEF A!Previous
<1>2. /\ row.card = card /\ row.text = A!Text(r, e, Reader[v])
      /\ \A t : LET s == [row EXCEPT !.text = t]
                IN /\ s.card = row.card /\ s.pdf = row.pdf /\ s.readers = row.readers
                   /\ s.text = t
  BY DEF A!Row
<1> HIDE DEF row, p
<1>3. CASE p = 0
  BY <1>3 DEF A!Stored, StoredAs, p, row
<1>4. CASE p # 0 /\ A!SameCard(w.rows[r][p], row) /\ w.rows[r][p].text \in w.texts
  <2>1. p \in A!MonthSet /\ p < m /\ w.rows[r][p] # None
    BY <1>1, <1>4 DEF A!MonthSet, A!ArchiveAssumption
  <2>2. A!Stored(w, r, m, row) = [row EXCEPT !.text = w.rows[r][p].text]
    BY <1>4 DEF A!Stored, p
  <2>3. QED
    BY <1>2, <1>4, <2>1, <2>2 DEF StoredAs, row
<1>5. CASE p # 0 /\ ~(A!SameCard(w.rows[r][p], row) /\ w.rows[r][p].text \in w.texts)
  <2>1. A!Stored(w, r, m, row) = row
    BY <1>5 DEF A!Stored, p
  <2>2. QED
    BY <2>1 DEF StoredAs, row
<1>6. QED
  BY <1>3, <1>4, <1>5

\* v is w with s written as r's row of m.
Writes(w, v, r, m, s) ==
  /\ v.rows[r][m] = s
  /\ \A q \in A!RowSet, n \in A!MonthSet : <<q, n>> # <<r, m>> => v.rows[q][n] = w.rows[q][n]
  /\ v.texts = w.texts \cup {s.text}

LEMMA WrittenIs ==
  ASSUME A!ArchiveAssumption, NEW w, Copy(w), NEW r \in A!RowSet, NEW m \in A!MonthSet,
         NEW e, NEW u, NEW card
  PROVE  LET row == A!Row(r, e, u, card)
             v == A!Written(w, r, m, row)
         IN /\ Copy(v) /\ v.manifest = w.manifest /\ v.stamp = w.stamp
            /\ \/ v = w /\ w.rows[r][m] # None /\ A!SameCard(w.rows[r][m], row)
               \/ \E s : StoredAs(w, r, m, row, s) /\ Writes(w, v, r, m, s)
<1> DEFINE row == A!Row(r, e, u, card)
           s == A!Stored(w, r, m, row)
           v == A!Written(w, r, m, row)
<1>1. StoredAs(w, r, m, row, s)
  BY StoredIs
<1> HIDE DEF row, s
<1>2. CASE w.rows[r][m] # None /\ A!SameCard(w.rows[r][m], row)
  <2>1. v = w
    BY <1>2 DEF A!Written
  <2>2. QED
    BY <1>2, <2>1 DEF row
<1>3. CASE ~(w.rows[r][m] # None /\ A!SameCard(w.rows[r][m], row))
  <2> DEFINE rows == [w.rows EXCEPT ![r][m] = s]
  <2>1. v = [w EXCEPT !.rows[r][m] = s, !.texts = @ \cup {s.text}]
    BY <1>3 DEF A!Written, s
  <2>2. v = [rows |-> rows, texts |-> w.texts \cup {s.text}, manifest |-> w.manifest,
             stamp |-> w.stamp]
    BY <2>1 DEF Copy
  <2>3. rows[r][m] = s
    BY DEF Copy
  <2>4. \A q \in A!RowSet, n \in A!MonthSet : <<q, n>> # <<r, m>> => rows[q][n] = w.rows[q][n]
    BY DEF Copy
  <2>5. rows = [q \in A!RowSet |-> [n \in A!MonthSet |-> rows[q][n]]]
    BY DEF Copy
  <2> HIDE DEF rows, v
  <2>6. Writes(w, v, r, m, s)
    BY <2>2, <2>3, <2>4 DEF Writes
  <2>7. Copy(v) /\ v.manifest = w.manifest /\ v.stamp = w.stamp
    BY <2>2, <2>5 DEF Copy
  <2>8. QED
    BY <1>1, <2>6, <2>7 DEF row, v
<1>4. QED
  BY <1>2, <1>3

\* Rows stand when one is written of an edition of its own.
LEMMA WrittenStands ==
  ASSUME A!ArchiveAssumption, NEW w, Copy(w), RowsStand(w), NEW r \in A!RowSet,
         NEW m \in A!MonthSet, NEW e, NEW u, NEW card
  PROVE  RowsStand(A!Written(w, r, m, A!Row(r, e, u, card)))
<1> DEFINE row == A!Row(r, e, u, card)
           v == A!Written(w, r, m, row)
<1>1. row.text.edition = e /\ row.pdf = IF r \in Pdfs THEN <<r, e>> ELSE None
  BY DEF A!Row, A!Text
<1>2. \/ v = w
      \/ \E s : StoredAs(w, r, m, row, s) /\ Writes(w, v, r, m, s)
  BY WrittenIs
<1> HIDE DEF row, v
<1>3. CASE v = w
  BY <1>3 DEF v, row
<1>4. ASSUME NEW s, StoredAs(w, r, m, row, s), Writes(w, v, r, m, s)
      PROVE  RowsStand(v)
  <2>1. s.pdf = IF r \in Pdfs THEN <<r, s.text.edition>> ELSE None
    <3>1. CASE s.text = row.text
      BY <1>1, <1>4, <3>1 DEF StoredAs
    <3>2. ASSUME NEW p \in A!MonthSet, w.rows[r][p] # None, A!SameCard(w.rows[r][p], row),
                 s.text = w.rows[r][p].text
          PROVE  s.pdf = IF r \in Pdfs THEN <<r, s.text.edition>> ELSE None
      BY <1>4, <3>2 DEF StoredAs, A!SameCard, RowsStand
    <3>3. QED
      BY <1>4, <3>1, <3>2 DEF StoredAs
  <2>2. SUFFICES ASSUME NEW q \in A!RowSet, NEW n \in A!MonthSet, v.rows[q][n] # None
                 PROVE  /\ v.rows[q][n].text \in v.texts
                        /\ v.rows[q][n].pdf =
                             IF q \in Pdfs THEN <<q, v.rows[q][n].text.edition>> ELSE None
    BY DEF RowsStand
  <2>3. CASE <<q, n>> = <<r, m>>
    BY <1>4, <2>1, <2>3 DEF Writes
  <2>4. CASE <<q, n>> # <<r, m>>
    BY <1>4, <2>2, <2>4 DEF Writes, RowsStand
  <2>5. QED
    BY <2>3, <2>4
<1>5. QED
  BY <1>2, <1>3, <1>4 DEF v, row

\* The same rows are held, but for the one written.
LEMMA WrittenHolds ==
  ASSUME A!ArchiveAssumption, NEW w, Copy(w), NEW r \in A!RowSet, NEW m \in A!MonthSet,
         w.rows[r][m] # None, NEW e, NEW u, NEW card
  PROVE  A!StoredRows(w.rows) \subseteq
           A!StoredRows(A!Written(w, r, m, A!Row(r, e, u, card)).rows) \cup {<<r, m>>}
<1> DEFINE row == A!Row(r, e, u, card)
           v == A!Written(w, r, m, row)
<1>1. v = w \/ \E s : Writes(w, v, r, m, s)
  BY WrittenIs
<1> HIDE DEF row, v
<1>2. QED
  BY <1>1 DEF v, row, Writes, A!StoredRows

-----------------------------------------------------------------------------
(* Rows as the running parser reads their texts.                            *)

\* The row x of r is what the running parser makes of its text, if it reads it.
Current(r, x) ==
  LET now == reads[parser][r][x.text.edition]
  IN now # Unread => x.card = now /\ (x.pdf # None => x.readers = Reader[parser])

\* So are the rows of w, but for PDFs in bad, and for those still to be replayed.
Good(w, bad, todo) ==
  \A r \in A!RowSet, m \in A!MonthSet :
    w.rows[r][m] # None /\ <<r, m>> \notin todo =>
      Current(r, w.rows[r][m]) \/ (r \in Pdfs /\ <<r, m>> \in bad)

\* A row that is written is good, also where it takes a month before's text: that month
\* is not still to be replayed, and a page's text is excused by nothing.
LEMMA WrittenIsGood ==
  ASSUME A!ArchiveAssumption, NEW w, Copy(w), RowsStand(w), NEW r \in A!RowSet,
         NEW m \in A!MonthSet, NEW e, NEW card, card = reads[parser][r][e],
         NEW bad, NEW todo, Good(w, bad, todo),
         \A y \in todo : m <= y[2],
         w.rows[r][m] # None /\ <<r, m>> \in todo => w.rows[r][m].text.edition = e
  PROVE  Good(A!Written(w, r, m, A!Row(r, e, parser, card)), bad \ {<<r, m>>}, todo \ {<<r, m>>})
<1> DEFINE row == A!Row(r, e, parser, card)
           v == A!Written(w, r, m, row)
<1>1. /\ row.card = card /\ row.text.edition = e
      /\ row.pdf = IF r \in Pdfs THEN <<r, e>> ELSE None
      /\ row.readers = IF r \in Pdfs THEN Reader[parser] ELSE None
  BY DEF A!Row, A!Text
<1>2. \/ v = w /\ w.rows[r][m] # None /\ A!SameCard(w.rows[r][m], row)
      \/ \E s : StoredAs(w, r, m, row, s) /\ Writes(w, v, r, m, s)
  BY WrittenIs
<1> HIDE DEF row, v
\* A row of the same card and an edition of its own, or that was good.
<1>3. ASSUME NEW x, A!SameCard(x, row),
             x.pdf = IF r \in Pdfs THEN <<r, x.text.edition>> ELSE None,
             r \notin Pdfs => Current(r, x) \/ x.text.edition = e
      PROVE  Current(r, x)
  BY <1>1, <1>3 DEF A!SameCard, Current
<1>4. CASE v = w /\ w.rows[r][m] # None /\ A!SameCard(w.rows[r][m], row)
  <2>1. w.rows[r][m].pdf = IF r \in Pdfs THEN <<r, w.rows[r][m].text.edition>> ELSE None
    BY <1>4 DEF RowsStand
  <2>2. r \notin Pdfs => Current(r, w.rows[r][m]) \/ w.rows[r][m].text.edition = e
    BY <1>4 DEF Good
  <2>3. Current(r, v.rows[r][m])
    BY <1>3, <1>4, <2>1, <2>2
  <2>4. \A q \in A!RowSet, n \in A!MonthSet : <<q, n>> # <<r, m>> => v.rows[q][n] = w.rows[q][n]
    BY <1>4
  <2>5. QED
    BY <2>3, <2>4 DEF Good, v, row
<1>5. ASSUME NEW s, StoredAs(w, r, m, row, s), Writes(w, v, r, m, s)
      PROVE  Good(v, bad \ {<<r, m>>}, todo \ {<<r, m>>})
  <2>1. Current(r, s)
    <3>1. CASE s.text = row.text
      BY <1>1, <1>5, <3>1 DEF StoredAs, Current
    <3>2. ASSUME NEW p \in A!MonthSet, p < m, w.rows[r][p] # None, A!SameCard(w.rows[r][p], row),
                 s.text = w.rows[r][p].text
          PROVE  Current(r, s)
      <4>1. <<r, p>> \notin todo
        <5>1. p \in Nat /\ m \in Nat /\ <<r, p>>[2] = p
          BY DEF A!MonthSet, A!ArchiveAssumption
        <5>2. ~(m <= p)
          BY <3>2, <5>1
        <5>3. QED
          BY <5>1, <5>2
      <4>2. r \notin Pdfs => Current(r, w.rows[r][p])
        BY <3>2, <4>1 DEF Good
      <4>3. w.rows[r][p].pdf = IF r \in Pdfs THEN <<r, w.rows[r][p].text.edition>> ELSE None
        BY <3>2 DEF RowsStand
      <4>4. Current(r, w.rows[r][p])
        BY <1>3, <3>2, <4>2, <4>3
      <4>5. s.card = w.rows[r][p].card /\ s.pdf = w.rows[r][p].pdf
            /\ s.readers = w.rows[r][p].readers
        BY <1>5, <3>2 DEF StoredAs, A!SameCard
      <4>6. QED
        BY <3>2, <4>4, <4>5 DEF Current
    <3>3. QED
      BY <1>5, <3>1, <3>2 DEF StoredAs
  <2>2. QED
    BY <1>5, <2>1 DEF Writes, Good
<1>6. QED
  BY <1>2, <1>4, <1>5 DEF v, row

-----------------------------------------------------------------------------
(* The invariant. *)

\* A run's locals are a record of their own fields.
Locals(l) ==
  /\ l = [todo |-> l.todo, fails |-> l.fails, saved |-> l.saved, pending |-> l.pending,
          missed |-> l.missed, rerender |-> l.rerender, stored |-> l.stored, bad |-> l.bad]
  /\ l.todo \in Seq(A!RowSet) /\ l.missed \in BOOLEAN

Phases == {"idle", "walk", "replay", "prune", "keep", "push"}

ArchiveType ==
  /\ month \in A!MonthSet /\ parser \in A!ParserSet /\ pc \in Phases
  /\ Copy(branch) /\ Copy(work) /\ Locals(run)
  /\ left = [runs |-> left.runs, fails |-> left.fails, lost |-> left.lost]
  /\ pc = "replay" => run.stored \subseteq A!StoredRows(work.rows)

TextsStand == RowsStand(branch) /\ RowsStand(work)

\* A stamp is of a parser there has been, and a branch is stamped by its first push.
StampsStand ==
  /\ {branch.stamp, work.stamp} \subseteq {None} \cup 1 .. parser
  /\ branch.stamp = None => A!StoredRows(branch.rows) = {}
  /\ pc \in {"prune", "keep", "push"} => work.stamp # None

\* A branch stamped with the running parser is good, and so is what a run makes of it; a
\* replay that has missed no card leaves good what it has been over.
ReplayStands ==
  /\ branch.stamp = parser => Good(branch, unreplayable, {})
  /\ pc \in {"walk", "replay"} /\ branch.stamp \in {parser, None} => Good(work, run.bad, {})
  /\ pc = "replay" /\ ~run.missed => Good(work, run.bad, run.stored)
  /\ pc \in {"prune", "keep", "push"} /\ work.stamp = parser => Good(work, run.bad, {})

ArchiveInv == ArchiveType /\ TextsStand /\ StampsStand /\ ReplayStands

LEMMA ArchiveInit ==
  ASSUME A!ArchiveAssumption, A!Init
  PROVE  ArchiveInv
<1>1. /\ branch.rows = [r \in A!RowSet |-> [m \in A!MonthSet |-> None]]
      /\ branch.texts = {} /\ branch.stamp = None /\ work = branch
      /\ branch = [rows |-> branch.rows, texts |-> branch.texts,
                   manifest |-> branch.manifest, stamp |-> branch.stamp]
  BY DEF A!Init
<1>2. \A r \in A!RowSet, m \in A!MonthSet : branch.rows[r][m] = None
  BY <1>1
<1>3. Copy(branch) /\ RowsStand(branch) /\ A!StoredRows(branch.rows) = {}
  BY <1>1, <1>2 DEF Copy, RowsStand, A!StoredRows
<1>4. Locals(run)
  BY DEF A!Init, A!NoRun, Locals
<1>5. month \in A!MonthSet /\ parser \in A!ParserSet
  BY DEF A!Init, A!ArchiveAssumption, A!MonthSet, A!ParserSet
<1>6. ArchiveType
  BY <1>1, <1>3, <1>4, <1>5 DEF A!Init, ArchiveType, Phases
<1>7. branch.stamp # parser
  BY <1>1, <1>5 DEF A!ArchiveAssumption, A!ParserSet
<1>8. QED
  BY <1>1, <1>3, <1>6, <1>7 DEF A!Init, ArchiveInv, TextsStand, StampsStand, ReplayStands

\* Between the runs: what is good stays so, since only the parser's move could undo it,
\* and no branch is stamped with a parser to come.
LEMMA BetweenRuns ==
  ASSUME A!ArchiveAssumption, ArchiveInv,
         A!MonthTurns \/ A!ParserMoves \/ \E r \in A!RowSet : A!Publishes(r)
  PROVE  ArchiveInv'
<1>1. pc = "idle" /\ UNCHANGED <<reads, branch, pc, work, run, unreplayable, left>>
  BY DEF A!MonthTurns, A!ParserMoves, A!Publishes
<1>2. /\ month' \in A!MonthSet /\ parser' \in A!ParserSet
      /\ parser' = parser \/ parser' = parser + 1
  BY DEF A!MonthTurns, A!ParserMoves, A!Publishes, ArchiveInv, ArchiveType, A!ArchiveAssumption,
         A!MonthSet, A!ParserSet
<1>3. ArchiveType'
  BY <1>1, <1>2 DEF ArchiveInv, ArchiveType, Copy, Locals
<1>4. TextsStand'
  BY <1>1 DEF ArchiveInv, TextsStand, RowsStand
<1>5. parser \in Nat /\ None \notin Nat /\ branch.stamp \in {None} \cup 1 .. parser
  BY DEF ArchiveInv, ArchiveType, StampsStand, A!ArchiveAssumption, A!ParserSet
<1>6. StampsStand'
  BY <1>1, <1>2, <1>5 DEF ArchiveInv, StampsStand, A!StoredRows
<1>7. ReplayStands'
  <2>1. branch'.stamp = parser' => parser' = parser
    BY <1>1, <1>2, <1>5
  <2>2. QED
    BY <1>1, <2>1 DEF ArchiveInv, ReplayStands, Good, Current
<1>8. QED
  BY <1>3, <1>4, <1>6, <1>7 DEF ArchiveInv

LEMMA StartStep ==
  ASSUME A!ArchiveAssumption, ArchiveInv, A!Start
  PROVE  ArchiveInv'
<1>1. PICK n \in {1, Len(Rows)}, rerender \in BOOLEAN :
        run' = [A!NoRun EXCEPT !.todo = SubSeq(Rows, 1, n), !.rerender = rerender,
                             !.bad = unreplayable]
  BY DEF A!Start
<1>2. /\ work' = branch /\ pc' = "walk" /\ left' = [left EXCEPT !.runs = @ - 1]
      /\ UNCHANGED <<month, parser, reads, branch, unreplayable>>
  BY DEF A!Start, A!world
<1>3. /\ run' = [todo |-> run'.todo, fails |-> run'.fails, saved |-> run'.saved,
                 pending |-> run'.pending, missed |-> run'.missed,
                 rerender |-> run'.rerender, stored |-> run'.stored, bad |-> run'.bad]
      /\ run'.todo = SubSeq(Rows, 1, n) /\ run'.missed = FALSE /\ run'.bad = unreplayable
  BY <1>1 DEF A!NoRun
<1>4. SubSeq(Rows, 1, n) \in Seq(A!RowSet)
  BY DEF A!ArchiveAssumption
<1>5. Locals(run')
  BY <1>3, <1>4 DEF Locals
<1>6. ArchiveType'
  BY <1>2, <1>5 DEF ArchiveInv, ArchiveType, Phases, Copy, Locals
<1>7. TextsStand' /\ StampsStand'
  BY <1>2 DEF ArchiveInv, TextsStand, StampsStand, RowsStand, A!StoredRows
<1>8. branch.stamp = None => Good(branch, unreplayable, {})
  BY DEF ArchiveInv, StampsStand, A!StoredRows, Good
<1>9. ReplayStands'
  BY <1>2, <1>3, <1>8 DEF ArchiveInv, ReplayStands, Good, Current
<1>10. QED
  BY <1>6, <1>7, <1>9 DEF ArchiveInv

LEMMA CaptureStep ==
  ASSUME A!ArchiveAssumption, ArchiveInv, A!Capture
  PROVE  ArchiveInv'
<1> DEFINE r == Head(run.todo)
           card == reads[parser][r][published[r]]
           row == A!Row(r, published[r], parser, card)
<1>1. /\ pc = "walk" /\ pc' = "walk"
      /\ UNCHANGED <<month, parser, reads, branch, left, unreplayable>>
  BY DEF A!Capture, A!world
<1>2. r \in A!RowSet /\ Tail(run.todo) \in Seq(A!RowSet)
  BY DEF A!Capture, ArchiveInv, ArchiveType, Locals
<1>3. /\ Locals(run') /\ run'.missed = run.missed
      /\ \/ work' = work /\ run'.bad = run.bad
         \/ work' = A!Written(work, r, month, row) /\ run'.bad = run.bad \ {<<r, month>>}
  <2>1. \/ /\ \E p : run' = [run EXCEPT !.todo = Tail(@), !.fails = 0, !.pending = p]
           /\ work' = work
        \/ /\ \E s : run' = [run EXCEPT !.todo = Tail(@), !.fails = 0,
                                        !.bad = @ \ {<<r, month>>}, !.saved = s]
           /\ work' = A!Written(work, r, month, row)
    BY DEF A!Capture
  <2> HIDE DEF r, row
  <2>2. Locals(run)
    BY DEF ArchiveInv, ArchiveType
  <2>3. QED
    BY <1>2, <2>1, <2>2 DEF Locals
<1> HIDE DEF row
<1>4. CASE work' = work /\ run'.bad = run.bad
  <2>1. ArchiveType'
    BY <1>1, <1>3, <1>4 DEF ArchiveInv, ArchiveType, Copy, Locals
  <2>2. TextsStand' /\ StampsStand'
    BY <1>1, <1>4 DEF ArchiveInv, TextsStand, StampsStand, RowsStand, A!StoredRows
  <2>3. ReplayStands'
    BY <1>1, <1>4 DEF ArchiveInv, ReplayStands, Good, Current
  <2>4. QED
    BY <2>1, <2>2, <2>3 DEF ArchiveInv
<1>5. CASE work' = A!Written(work, r, month, row) /\ run'.bad = run.bad \ {<<r, month>>}
  <2>1. month \in A!MonthSet /\ Copy(work) /\ RowsStand(work)
    BY DEF ArchiveInv, ArchiveType, TextsStand
  <2>2. Copy(work') /\ work'.stamp = work.stamp
    BY <1>2, <1>5, <2>1, WrittenIs DEF row
  <2>3. RowsStand(work')
    BY <1>2, <1>5, <2>1, WrittenStands DEF row
  <2>4. ArchiveType'
    BY <1>1, <1>3, <2>2 DEF ArchiveInv, ArchiveType, Copy, Locals
  <2>5. TextsStand'
    BY <1>1, <2>3 DEF ArchiveInv, TextsStand, RowsStand
  <2>6. StampsStand'
    BY <1>1, <2>2 DEF ArchiveInv, StampsStand, A!StoredRows
  <2>7. ASSUME Good(work, run.bad, {})
        PROVE  Good(work', run'.bad, {} \ {<<r, month>>})
    <3>1. \A y \in {} : month <= y[2]
      OBVIOUS
    <3>2. <<r, month>> \notin {}
      OBVIOUS
    <3> DEFINE e == published[r]
    <3>3. work' = A!Written(work, r, month, A!Row(r, e, parser, card))
      BY <1>5 DEF row
    <3> HIDE DEF r
    <3>4. card = reads[parser][r][e]
      OBVIOUS
    <3> HIDE DEF e, card
    <3>5. Good(A!Written(work, r, month, A!Row(r, e, parser, card)),
               run.bad \ {<<r, month>>}, {} \ {<<r, month>>})
      BY <1>2, <2>1, <2>7, <3>1, <3>2, <3>4, WrittenIsGood
    <3>6. QED
      BY <1>5, <3>3, <3>5
  <2>8. Good(work, run.bad, {}) => Good(work', run'.bad, {})
    BY <2>7
  <2>9. ReplayStands'
    BY <1>1, <2>8 DEF ArchiveInv, ReplayStands, Good, Current
  <2>10. QED
    BY <2>4, <2>5, <2>6, <2>9 DEF ArchiveInv
<1>6. QED
  BY <1>3, <1>4, <1>5

LEMMA CaptureFailsStep ==
  ASSUME A!ArchiveAssumption, ArchiveInv, A!CaptureFails
  PROVE  ArchiveInv'
<1>1. /\ pc = "walk" /\ pc' = "walk" /\ left' = [left EXCEPT !.fails = @ - 1]
      /\ UNCHANGED <<month, parser, reads, branch, work, unreplayable>>
  BY DEF A!CaptureFails, A!world
<1>2. PICK todo \in Seq(A!RowSet) : run' = [run EXCEPT !.fails = @ + 1, !.todo = todo]
  <2> DEFINE rest == IF run.fails + 1 >= GiveUpAfter THEN <<>> ELSE Tail(run.todo)
  <2>1. run.todo \in Seq(A!RowSet) /\ run.todo # <<>>
    BY DEF A!CaptureFails, ArchiveInv, ArchiveType, Locals
  <2>2. rest \in Seq(A!RowSet)
    BY <2>1
  <2>3. run' = [run EXCEPT !.fails = @ + 1, !.todo = rest]
    BY DEF A!CaptureFails
  <2> HIDE DEF rest
  <2>4. QED
    BY <2>2, <2>3
<1>3. Locals(run') /\ run'.bad = run.bad
  BY <1>2 DEF ArchiveInv, ArchiveType, Locals
<1>4. ArchiveType'
  BY <1>1, <1>3 DEF ArchiveInv, ArchiveType, Copy, Locals
<1>5. TextsStand' /\ StampsStand'
  BY <1>1 DEF ArchiveInv, TextsStand, StampsStand, RowsStand, A!StoredRows
<1>6. ReplayStands'
  BY <1>1, <1>3 DEF ArchiveInv, ReplayStands, Good, Current
<1>7. QED
  BY <1>4, <1>5, <1>6 DEF ArchiveInv

\* A run that replays has every stored row before it; one that does not leaves the branch
\* as good as the walk did.
LEMMA WalkedStep ==
  ASSUME A!ArchiveAssumption, ArchiveInv, A!Walked
  PROVE  ArchiveInv'
<1>1. /\ pc = "walk" /\ UNCHANGED <<month, parser, reads, branch, unreplayable, left>>
  BY DEF A!Walked, A!world
<1>2. parser \in Nat \ {0} /\ None \notin Nat
  BY DEF ArchiveInv, ArchiveType, A!ParserSet, A!ArchiveAssumption
<1>3. CASE /\ pc' = "replay" /\ run' = [run EXCEPT !.stored = A!StoredRows(work.rows)]
           /\ work' = work
  <2>1. Locals(run') /\ run'.bad = run.bad /\ run'.stored = A!StoredRows(work.rows)
    BY <1>3 DEF ArchiveInv, ArchiveType, Locals
  <2>2. ArchiveType'
    BY <1>1, <1>3, <2>1 DEF ArchiveInv, ArchiveType, Copy, Locals, Phases
  <2>3. TextsStand' /\ StampsStand'
    BY <1>1, <1>3 DEF ArchiveInv, TextsStand, StampsStand, RowsStand, A!StoredRows
  <2>4. Good(work, run.bad, A!StoredRows(work.rows))
    BY DEF Good, A!StoredRows
  <2>5. ReplayStands'
    BY <1>1, <1>3, <2>1, <2>4 DEF ArchiveInv, ReplayStands, Good, Current
  <2>6. QED
    BY <2>2, <2>3, <2>5 DEF ArchiveInv
<1>4. CASE /\ pc' = "prune" /\ work' = [work EXCEPT !.stamp = parser] /\ run' = run
           /\ branch.stamp \in {parser, None}
  <2>1. /\ work' = [rows |-> work.rows, texts |-> work.texts, manifest |-> work.manifest,
                    stamp |-> parser]
    BY <1>4 DEF ArchiveInv, ArchiveType, Copy
  <2>2. Copy(work')
    BY <2>1 DEF ArchiveInv, ArchiveType, Copy
  <2>3. ArchiveType'
    BY <1>1, <1>4, <2>2 DEF ArchiveInv, ArchiveType, Copy, Locals, Phases
  <2>4. TextsStand' /\ StampsStand'
    BY <1>1, <1>2, <1>4, <2>1 DEF ArchiveInv, TextsStand, StampsStand, RowsStand, A!StoredRows
  <2>5. Good(work, run.bad, {})
    BY <1>1, <1>4 DEF ArchiveInv, ReplayStands
  <2>6. ReplayStands'
    BY <1>1, <1>4, <2>1, <2>5 DEF ArchiveInv, ReplayStands, Good, Current
  <2>7. QED
    BY <2>3, <2>4, <2>6 DEF ArchiveInv
<1>5. QED
  BY <1>3, <1>4 DEF A!Walked

\* A row of the earliest month still to be replayed.
LEMMA ReplayRowStep ==
  ASSUME A!ArchiveAssumption, ArchiveInv, A!ReplayRow
  PROVE  ArchiveInv'
<1>1. PICK at \in run.stored :
        /\ \A x \in run.stored : at[2] <= x[2]
        /\ A!Replays(at[1], at[2]) \/ A!CannotReplay(at[1], at[2]) \/ A!DownloadFails(at[1], at[2])
  BY DEF A!ReplayRow
<1>2. /\ pc = "replay" /\ pc' = "replay"
      /\ UNCHANGED <<month, parser, reads, branch, unreplayable>>
  BY DEF A!ReplayRow, A!world
<1>3. PICK r \in A!RowSet, m \in A!MonthSet : at = <<r, m>> /\ work.rows[r][m] # None
  BY <1>1, <1>2 DEF ArchiveInv, ArchiveType, A!StoredRows
<1>4. at[1] = r /\ at[2] = m
  BY <1>3
<1> DEFINE x == work.rows[r][m]
           e == x.text.edition
           card == reads[parser][r][e]
<1>5. /\ Copy(work) /\ RowsStand(work) /\ Locals(run)
      /\ run.stored \subseteq A!StoredRows(work.rows)
  BY <1>2 DEF ArchiveInv, ArchiveType, TextsStand
<1>6. /\ left' = [runs |-> left'.runs, fails |-> left'.fails, lost |-> left'.lost]
      /\ left'.lost = left.lost
  BY <1>1 DEF A!Replays, A!CannotReplay, A!DownloadFails, ArchiveInv, ArchiveType
<1>7. CASE A!Replays(r, m)
  <2>1. /\ work' = A!Written(work, r, m, A!Row(r, e, parser, card))
        /\ run' = [run EXCEPT !.stored = @ \ {<<r, m>>}, !.bad = @ \ {<<r, m>>}]
    BY <1>7 DEF A!Replays
  <2> HIDE DEF card
  <2>2. /\ Locals(run') /\ run'.stored = run.stored \ {<<r, m>>}
        /\ run'.bad = run.bad \ {<<r, m>>} /\ run'.missed = run.missed
    BY <1>5, <2>1 DEF Locals
  <2>3. Copy(work') /\ work'.stamp = work.stamp
    BY <1>5, <2>1, WrittenIs
  <2>4. RowsStand(work')
    BY <1>5, <2>1, WrittenStands
  <2>5. A!StoredRows(work.rows) \subseteq A!StoredRows(work'.rows) \cup {<<r, m>>}
    BY <1>3, <1>5, <2>1, WrittenHolds
  <2>6. ArchiveType'
    BY <1>2, <1>5, <1>6, <2>2, <2>3, <2>5 DEF ArchiveInv, ArchiveType, Copy, Locals
  <2>7. TextsStand' /\ StampsStand'
    BY <1>2, <2>3, <2>4 DEF ArchiveInv, TextsStand, StampsStand, RowsStand, A!StoredRows
  <2>8. ASSUME NEW todo, Good(work, run.bad, todo), \A y \in todo : m <= y[2]
        PROVE  Good(work', run'.bad, todo \ {<<r, m>>})
    <3>1. card = reads[parser][r][e]
      BY DEF card
    <3>2. x.text.edition = e
      OBVIOUS
    <3> HIDE DEF e
    <3>3. Good(A!Written(work, r, m, A!Row(r, e, parser, card)), run.bad \ {<<r, m>>},
               todo \ {<<r, m>>})
      BY <1>5, <2>8, <3>1, <3>2, WrittenIsGood
    <3>4. QED
      BY <2>1, <2>2, <3>3
  <2>9. Good(work, run.bad, {}) => Good(work', run'.bad, {} \ {<<r, m>>})
    BY <2>8
  <2>10. Good(work, run.bad, run.stored) => Good(work', run'.bad, run'.stored)
    BY <1>1, <1>4, <2>2, <2>8
  <2>11. Good(work, run.bad, {}) => Good(work', run'.bad, {})
    BY <2>9
  <2>12. ReplayStands'
    BY <1>2, <2>2, <2>10, <2>11 DEF ArchiveInv, ReplayStands, Good, Current
  <2>13. QED
    BY <2>6, <2>7, <2>12 DEF ArchiveInv
<1>8. CASE A!CannotReplay(r, m)
  <2>1. /\ work' = work
        /\ run' = [run EXCEPT !.stored = @ \ {<<r, m>>}, !.bad = @ \cup {<<r, m>>}]
    BY <1>8 DEF A!CannotReplay
  <2>2. /\ Locals(run') /\ run'.stored = run.stored \ {<<r, m>>}
        /\ run'.bad = run.bad \cup {<<r, m>>} /\ run'.missed = run.missed
    BY <1>5, <2>1 DEF Locals
  <2>3. r \notin Pdfs => Current(r, x)
    <3>1. SUFFICES ASSUME r \notin Pdfs
                   PROVE  card = Unread
      BY DEF Current
    <3>2. x.text \in work.texts /\ x.pdf = None
      BY <1>3, <1>5, <3>1 DEF RowsStand
    <3>3. A!Seeded(x)
      BY <3>2 DEF A!Seeded
    <3>4. QED
      BY <1>8, <3>2, <3>3 DEF A!CannotReplay
  <2>4. ArchiveType'
    BY <1>2, <1>5, <1>6, <2>1, <2>2 DEF ArchiveInv, ArchiveType, Copy, Locals
  <2>5. TextsStand' /\ StampsStand'
    BY <1>2, <2>1 DEF ArchiveInv, TextsStand, StampsStand, RowsStand, A!StoredRows
  <2>6. Good(work, run.bad, {}) => Good(work, run'.bad, {})
    BY <2>2 DEF Good
  <2>7. Good(work, run.bad, run.stored) => Good(work, run'.bad, run'.stored)
    <3> HIDE DEF x
    <3>1. SUFFICES ASSUME Good(work, run.bad, run.stored), NEW q \in A!RowSet,
                          NEW n \in A!MonthSet, work.rows[q][n] # None,
                          <<q, n>> \notin run'.stored
                   PROVE  Current(q, work.rows[q][n]) \/ (q \in Pdfs /\ <<q, n>> \in run'.bad)
      BY DEF Good
    <3>2. CASE <<q, n>> = <<r, m>>
      BY <2>2, <2>3, <3>2 DEF x
    <3>3. CASE <<q, n>> # <<r, m>>
      BY <2>2, <3>1, <3>3 DEF Good
    <3>4. QED
      BY <3>2, <3>3
  <2>8. ReplayStands'
    BY <1>2, <2>1, <2>2, <2>6, <2>7 DEF ArchiveInv, ReplayStands, Good, Current
  <2>9. QED
    BY <2>4, <2>5, <2>8 DEF ArchiveInv
<1>9. CASE A!DownloadFails(r, m)
  <2>1. /\ work' = work
        /\ run' = [run EXCEPT !.stored = @ \ {<<r, m>>}, !.missed = TRUE]
    BY <1>9 DEF A!DownloadFails
  <2>2. /\ Locals(run') /\ run'.stored = run.stored \ {<<r, m>>}
        /\ run'.bad = run.bad /\ run'.missed = TRUE
    BY <1>5, <2>1 DEF Locals
  <2>3. ArchiveType'
    BY <1>2, <1>5, <1>6, <2>1, <2>2 DEF ArchiveInv, ArchiveType, Copy, Locals
  <2>4. TextsStand' /\ StampsStand'
    BY <1>2, <2>1 DEF ArchiveInv, TextsStand, StampsStand, RowsStand, A!StoredRows
  <2>5. ReplayStands'
    BY <1>2, <2>1, <2>2 DEF ArchiveInv, ReplayStands, Good, Current
  <2>6. QED
    BY <2>3, <2>4, <2>5 DEF ArchiveInv
<1>10. QED
  BY <1>1, <1>4, <1>7, <1>8, <1>9

\* A branch is stamped with the running parser only by a replay that missed no card, or
\* was so already.
LEMMA ReplayedStep ==
  ASSUME A!ArchiveAssumption, ArchiveInv, A!Replayed
  PROVE  ArchiveInv'
<1>1. /\ pc = "replay" /\ pc' = "prune" /\ run.stored = {}
      /\ work' = [work EXCEPT !.stamp = A!Stamp]
      /\ UNCHANGED <<month, parser, reads, branch, run, unreplayable, left>>
  BY DEF A!Replayed, A!world
<1>2. parser \in Nat \ {0} /\ None \notin Nat
  BY DEF ArchiveInv, ArchiveType, A!ParserSet, A!ArchiveAssumption
<1>3. /\ A!Stamp \in 1 .. parser /\ A!Stamp \in A!ParserSet
      /\ A!Stamp = parser => ~run.missed \/ branch.stamp \in {parser, None}
  <2>1. parser \in 1 .. parser /\ parser \in A!ParserSet /\ branch.stamp \in {None} \cup 1 .. parser
    BY <1>2 DEF ArchiveInv, ArchiveType, StampsStand
  <2>2. 1 .. parser \subseteq A!ParserSet
    BY <1>2, <2>1 DEF A!ParserSet, A!ArchiveAssumption
  <2>3. CASE run.missed
    BY <2>1, <2>2, <2>3 DEF A!Stamp
  <2>4. CASE ~run.missed
    BY <2>1, <2>4 DEF A!Stamp
  <2>5. QED
    BY <2>3, <2>4
<1>4. work' = [rows |-> work.rows, texts |-> work.texts, manifest |-> work.manifest,
               stamp |-> A!Stamp]
  BY <1>1 DEF ArchiveInv, ArchiveType, Copy
<1>5. Copy(work')
  BY <1>3, <1>4 DEF ArchiveInv, ArchiveType, Copy
<1>6. ArchiveType'
  BY <1>1, <1>5 DEF ArchiveInv, ArchiveType, Copy, Locals, Phases
<1>7. TextsStand' /\ StampsStand'
  BY <1>1, <1>2, <1>3, <1>4 DEF ArchiveInv, TextsStand, StampsStand, RowsStand, A!StoredRows
<1>8. A!Stamp = parser => Good(work, run.bad, {})
  BY <1>1, <1>3 DEF ArchiveInv, ReplayStands
<1>9. ReplayStands'
  BY <1>1, <1>4, <1>8 DEF ArchiveInv, ReplayStands, Good, Current
<1>10. QED
  BY <1>6, <1>7, <1>9 DEF ArchiveInv

\* The pruning takes rows away, and no text one that stays refers to.
LEMMA PruneStep ==
  ASSUME A!ArchiveAssumption, ArchiveInv, A!Prune
  PROVE  ArchiveInv'
<1> DEFINE rows == A!Stays(work.rows)
<1>1. PICK kept : work' = [work EXCEPT !.rows = rows, !.texts = @ \cap A!Referenced(rows),
                                       !.manifest = A!Restrict(@, kept)]
  BY DEF A!Prune
<1>2. /\ pc = "prune" /\ pc' = "keep"
      /\ UNCHANGED <<month, parser, reads, branch, unreplayable, left>>
  BY DEF A!Prune, A!world
<1>3. Locals(run') /\ run'.bad = run.bad
  BY DEF A!Prune, ArchiveInv, ArchiveType, Locals
<1>4. /\ rows = [r \in A!RowSet |-> [m \in A!MonthSet |-> rows[r][m]]]
      /\ \A r \in A!RowSet, m \in A!MonthSet : rows[r][m] # None
                        => rows[r][m] = work.rows[r][m]
  BY DEF A!Stays
<1> HIDE DEF rows
<1>5. work' = [rows |-> rows, texts |-> work.texts \cap A!Referenced(rows),
               manifest |-> A!Restrict(work.manifest, kept), stamp |-> work.stamp]
  BY <1>1 DEF ArchiveInv, ArchiveType, Copy
<1>6. Copy(work')
  BY <1>4, <1>5 DEF ArchiveInv, ArchiveType, Copy
<1>7. RowsStand(work')
  <2>1. \A r \in A!RowSet, m \in A!MonthSet : rows[r][m] # None
                        => rows[r][m].text \in A!Referenced(rows)
    <3> SUFFICES ASSUME NEW r \in A!RowSet, NEW m \in A!MonthSet, rows[r][m] # None
                 PROVE  rows[r][m].text \in A!Referenced(rows)
      OBVIOUS
    <3>1. <<r, m>> \in A!StoredRows(rows) /\ <<r, m>>[1] = r /\ <<r, m>>[2] = m
      BY DEF A!StoredRows
    <3>2. QED
      BY <3>1 DEF A!Referenced
  <2>2. QED
    BY <1>4, <1>5, <2>1 DEF ArchiveInv, TextsStand, RowsStand
<1>8. ArchiveType'
  BY <1>2, <1>3, <1>6 DEF ArchiveInv, ArchiveType, Copy, Locals, Phases
<1>9. TextsStand' /\ StampsStand'
  BY <1>2, <1>5, <1>7 DEF ArchiveInv, TextsStand, StampsStand, RowsStand, A!StoredRows
<1>10. Good(work, run.bad, {}) => Good(work', run'.bad, {})
  BY <1>3, <1>4, <1>5 DEF Good
<1>11. ReplayStands'
  BY <1>2, <1>5, <1>10 DEF ArchiveInv, ReplayStands, Good, Current
<1>12. QED
  BY <1>8, <1>9, <1>11 DEF ArchiveInv

\* What a month's upload comes to: the manifest and the releases alone change.
LEMMA KeepStep ==
  ASSUME A!ArchiveAssumption, ArchiveInv, A!Keep
  PROVE  ArchiveInv'
<1>1. PICK manifest : work' = [work EXCEPT !.manifest = manifest]
  BY DEF A!Keep
<1>2. /\ pc = "keep" /\ pc' = "push"
      /\ UNCHANGED <<month, parser, reads, branch, run, unreplayable>>
  BY DEF A!Keep, A!world
<1>3. work' = [rows |-> work.rows, texts |-> work.texts, manifest |-> manifest,
               stamp |-> work.stamp]
  BY <1>1 DEF ArchiveInv, ArchiveType, Copy
<1>4. Copy(work')
  BY <1>3 DEF ArchiveInv, ArchiveType, Copy
<1>5. /\ left' = [runs |-> left'.runs, fails |-> left'.fails, lost |-> left'.lost]
      /\ left'.lost = left.lost
  BY DEF A!Keep, ArchiveInv, ArchiveType
<1>6. ArchiveType'
  BY <1>2, <1>4, <1>5 DEF ArchiveInv, ArchiveType, Copy, Locals, Phases
<1>7. TextsStand' /\ StampsStand'
  BY <1>2, <1>3 DEF ArchiveInv, TextsStand, StampsStand, RowsStand, A!StoredRows
<1>8. ReplayStands'
  BY <1>2, <1>3 DEF ArchiveInv, ReplayStands, Good, Current
<1>9. QED
  BY <1>6, <1>7, <1>8 DEF ArchiveInv

\* A run ends: what it pushed is the branch, or nothing of it is.
LEMMA EndStep ==
  ASSUME A!ArchiveAssumption, ArchiveInv, A!Push \/ A!PushFails \/ A!Dies
  PROVE  ArchiveInv'
<1>1. /\ pc' = "idle" /\ work' = branch' /\ run' = A!NoRun
      /\ UNCHANGED <<month, parser, reads>>
  BY DEF A!Push, A!PushFails, A!Dies, A!Rest, A!world
<1>2. \/ branch' = branch /\ unreplayable' = unreplayable
      \/ branch' = work /\ unreplayable' = run.bad /\ pc = "push"
  BY DEF A!Push, A!PushFails, A!Dies
<1>3. Locals(run')
  BY <1>1 DEF A!NoRun, Locals
<1>4. left' = [runs |-> left'.runs, fails |-> left'.fails, lost |-> left'.lost]
  BY DEF A!Push, A!PushFails, A!Dies, ArchiveInv, ArchiveType
<1>5. ArchiveType'
  BY <1>1, <1>2, <1>3, <1>4 DEF ArchiveInv, ArchiveType, Copy, Locals, Phases
<1>6. TextsStand'
  BY <1>1, <1>2 DEF ArchiveInv, TextsStand, RowsStand
<1>7. StampsStand'
  BY <1>1, <1>2 DEF ArchiveInv, StampsStand, A!StoredRows
<1>8. ReplayStands'
  BY <1>1, <1>2 DEF ArchiveInv, ReplayStands, Good, Current
<1>9. QED
  BY <1>5, <1>6, <1>7, <1>8 DEF ArchiveInv

LEMMA ArchiveStep ==
  ASSUME A!ArchiveAssumption, ArchiveInv, [A!Next \/ A!Done]_(A!vars)
  PROVE  ArchiveInv'
<1>1. CASE UNCHANGED A!vars
  <2>1. UNCHANGED <<month, parser, reads, branch, pc, work, run, unreplayable, left>>
    BY <1>1 DEF A!vars, A!world
  <2>2. ArchiveType'
    BY <2>1 DEF ArchiveInv, ArchiveType, Copy, Locals
  <2>3. TextsStand' /\ StampsStand'
    BY <2>1 DEF ArchiveInv, TextsStand, StampsStand, RowsStand, A!StoredRows
  <2>4. ReplayStands'
    BY <2>1 DEF ArchiveInv, ReplayStands, Good, Current
  <2>5. QED
    BY <2>2, <2>3, <2>4 DEF ArchiveInv
<1>2. CASE A!MonthTurns \/ A!ParserMoves \/ \E r \in A!RowSet : A!Publishes(r)
  BY <1>2, BetweenRuns
<1>3. CASE A!Push \/ A!PushFails \/ A!Dies
  BY <1>3, EndStep
<1>4. QED
  BY <1>1, <1>2, <1>3, StartStep, CaptureStep, CaptureFailsStep, WalkedStep, ReplayRowStep,
     ReplayedStep, PruneStep, KeepStep DEF A!Next, A!Done

\* Every row on the branch has its text there, for any rows, parsers, readers, months and
\* spans kept, whatever a walk stored or missed and wherever a run died
\* (archive_cards.py, _write_card and _prune).
THEOREM TextsAreThere ==
  ASSUME A!ArchiveAssumption
  PROVE  A!Spec => []A!EveryTextIsThere
<1>1. A!Init => ArchiveInv
  BY ArchiveInit
<1>2. ArchiveInv /\ [A!Next \/ A!Done]_(A!vars) => ArchiveInv'
  BY ArchiveStep
<1>3. ArchiveInv => A!EveryTextIsThere
  BY DEF ArchiveInv, TextsStand, RowsStand, A!EveryTextIsThere, A!Held, A!At, A!StoredRows
<1>4. QED
  BY <1>1, <1>2, <1>3, PTL DEF A!Spec

\* A branch stamped with the running parser holds what it makes of the texts beside the
\* rows, but for the PDFs a replay reported, whatever it could not download, which reader
\* a row was of and wherever a run died (archive_cards.py, archive).
THEOREM StampIsTrue ==
  ASSUME A!ArchiveAssumption
  PROVE  A!Spec => []A!StampedMeansReplayed
<1>1. A!Init => ArchiveInv
  BY ArchiveInit
<1>2. ArchiveInv /\ [A!Next \/ A!Done]_(A!vars) => ArchiveInv'
  BY ArchiveStep
<1>3. ArchiveInv => A!StampedMeansReplayed
  <2> SUFFICES ASSUME ArchiveInv, branch.stamp = parser, NEW x \in A!Held \ unreplayable
               PROVE  LET now == reads[parser][x[1]][A!At(x).text.edition]
                      IN now # Unread =>
                           /\ A!At(x).card = now
                           /\ A!At(x).pdf # None => A!At(x).readers = Reader[parser]
    BY DEF A!StampedMeansReplayed
  <2>1. PICK r \in A!RowSet, m \in A!MonthSet : x = <<r, m>> /\ branch.rows[r][m] # None
    BY DEF A!Held, A!StoredRows
  <2>2. x[1] = r /\ A!At(x) = branch.rows[r][m]
    BY <2>1 DEF A!At
  <2>3. Current(r, branch.rows[r][m])
    BY <2>1 DEF ArchiveInv, ReplayStands, Good
  <2>4. QED
    BY <2>2, <2>3 DEF Current
<1>4. QED
  BY <1>1, <1>2, <1>3, PTL DEF A!Spec

-----------------------------------------------------------------------------
(* The kept cards. *)

Kept(w) == \A d \in DOMAIN w.manifest : <<w.manifest[d], d>> \in releases

\* Every card a manifest names is in its release, where no push was lost: a run's checkout
\* forgets entries until its own are uploaded, and the releases that go are those the
\* manifest to be pushed does not point into.
KeptStands ==
  /\ left.lost \in 0 .. MaxLost
  /\ left.lost = MaxLost =>
       /\ pc # "push" => Kept(branch)
       /\ pc # "idle" => Kept(work)

LEMMA KeepKeeps ==
  ASSUME A!ArchiveAssumption, ArchiveInv, KeptStands, A!Keep
  PROVE  KeptStands'
<1> DEFINE Whole(up) == {d \in DOMAIN run.saved :
                           \A x \in DOMAIN run.saved : run.saved[x] = run.saved[d] => x \in up}
           Entry(up) == [d \in DOMAIN work.manifest \cup Whole(up) |->
                           IF d \in Whole(up) THEN run.saved[d] ELSE work.manifest[d]]
           Cards_(up) == releases \cup {<<run.saved[d], d>> : d \in up}
<1>1. PICK up \in SUBSET DOMAIN run.saved :
        /\ work' = [work EXCEPT !.manifest = Entry(up)]
        /\ releases' \in {A!Surviving(Cards_(up), Entry(up)), Cards_(up)}
  BY DEF A!Keep
<1>2. pc = "keep" /\ pc' = "push" /\ left'.lost = left.lost
  BY DEF A!Keep, ArchiveInv, ArchiveType
<1>3. work'.manifest = Entry(up)
  BY <1>1 DEF ArchiveInv, ArchiveType, Copy
<1>4. ASSUME Kept(work), NEW d \in DOMAIN Entry(up)
      PROVE  <<Entry(up)[d], d>> \in releases'
  <2>1. <<Entry(up)[d], d>> \in Cards_(up)
    <3>1. CASE d \in Whole(up)
      BY <3>1
    <3>2. CASE d \notin Whole(up)
      BY <1>4, <3>2 DEF Kept
    <3>3. QED
      BY <3>1, <3>2
  <2> DEFINE c == <<Entry(up)[d], d>>
  <2>2. c[1] = Entry(up)[d]
    OBVIOUS
  <2> HIDE DEF Entry, Cards_, c
  <2>3. c \in Cards_(up) => c \in A!Surviving(Cards_(up), Entry(up))
    BY <1>4, <2>2 DEF A!Surviving
  <2>4. QED
    BY <1>1, <2>1, <2>3 DEF c
<1> HIDE DEF Entry
<1>5. Kept(work) => Kept(work)'
  BY <1>3, <1>4 DEF Kept
<1>6. QED
  BY <1>2, <1>5 DEF KeptStands

LEMMA KeptStep ==
  ASSUME A!ArchiveAssumption, ArchiveInv, KeptStands, [A!Next \/ A!Done]_(A!vars)
  PROVE  KeptStands'
<1>1. CASE A!Keep
  BY <1>1, KeepKeeps
<1>2. CASE A!Push
  BY <1>2 DEF A!Push, A!Rest, KeptStands, Kept
<1>3. CASE A!PushFails
  <2>1. left'.lost = left.lost - 1 /\ left.lost > 0
    BY <1>3 DEF A!PushFails, ArchiveInv, ArchiveType
  <2>2. MaxLost \in Nat
    BY DEF A!ArchiveAssumption
  <2>3. QED
    BY <1>3, <2>1, <2>2 DEF KeptStands
<1>4. CASE A!Dies
  BY <1>4 DEF A!Dies, A!Rest, KeptStands, Kept, ArchiveInv, ArchiveType
<1>5. CASE A!Start
  BY <1>5 DEF A!Start, KeptStands, Kept, ArchiveInv, ArchiveType
<1>6. ASSUME work'.manifest = work.manifest, left'.lost = left.lost,
             UNCHANGED <<branch, releases>>,
             pc' = pc \/ (pc \in Phases \ {"idle", "push"} /\ pc' \in Phases \ {"idle", "push"})
      PROVE  KeptStands'
  BY <1>6 DEF KeptStands, Kept
<1>7. CASE A!Capture
  <2>1. /\ pc' = pc /\ UNCHANGED <<branch, releases, left>>
        /\ \/ work' = work
           \/ \E e, card : \E r \in A!RowSet :
                work' = A!Written(work, r, month, A!Row(r, e, parser, card))
    BY <1>7 DEF A!Capture, ArchiveInv, ArchiveType, Locals
  <2>2. Copy(work) /\ month \in A!MonthSet
    BY DEF ArchiveInv, ArchiveType
  <2>3. work'.manifest = work.manifest
    BY <2>1, <2>2, WrittenIs
  <2>4. QED
    BY <1>6, <2>1, <2>3
<1>8. CASE A!CaptureFails
  BY <1>6, <1>8 DEF A!CaptureFails, ArchiveInv, ArchiveType
<1>9. CASE A!Walked
  BY <1>6, <1>9 DEF A!Walked, ArchiveInv, ArchiveType, Copy, Phases
<1>10. CASE A!ReplayRow
  <2>1. PICK at \in run.stored :
          A!Replays(at[1], at[2]) \/ A!CannotReplay(at[1], at[2]) \/ A!DownloadFails(at[1], at[2])
    BY <1>10 DEF A!ReplayRow
  <2>2. /\ pc = "replay" /\ pc' = pc /\ UNCHANGED <<branch, releases>>
        /\ at[1] \in A!RowSet /\ at[2] \in A!MonthSet
    BY <1>10, <2>1 DEF A!ReplayRow, ArchiveInv, ArchiveType, A!StoredRows
  <2>3. left'.lost = left.lost
    BY <2>1 DEF A!Replays, A!CannotReplay, A!DownloadFails, ArchiveInv, ArchiveType
  <2>4. \/ work' = work
        \/ \E e, card : \E r \in A!RowSet, m \in A!MonthSet :
             work' = A!Written(work, r, m, A!Row(r, e, parser, card))
    BY <2>1, <2>2 DEF A!Replays, A!CannotReplay, A!DownloadFails
  <2>5. Copy(work)
    BY DEF ArchiveInv, ArchiveType
  <2>6. work'.manifest = work.manifest
    BY <2>4, <2>5, WrittenIs
  <2>7. QED
    BY <1>6, <2>2, <2>3, <2>6
<1>11. CASE A!Replayed
  BY <1>6, <1>11 DEF A!Replayed, ArchiveInv, ArchiveType, Copy, Phases
<1>12. CASE A!Prune
  <2>1. PICK kept \in SUBSET DOMAIN work.manifest :
          work'.manifest = A!Restrict(work.manifest, kept)
    BY <1>12 DEF A!Prune, ArchiveInv, ArchiveType, Copy
  <2>2. pc = "prune" /\ pc' = "keep" /\ UNCHANGED <<branch, releases, left>>
    BY <1>12 DEF A!Prune
  <2>3. Kept(work) => Kept(work)'
    BY <2>1, <2>2 DEF Kept, A!Restrict
  <2>4. QED
    BY <2>2, <2>3 DEF KeptStands, Kept
<1>13. CASE A!MonthTurns \/ A!ParserMoves \/ \E r \in A!RowSet : A!Publishes(r)
  BY <1>6, <1>13 DEF A!MonthTurns, A!ParserMoves, A!Publishes
<1>14. CASE UNCHANGED A!vars
  BY <1>6, <1>14 DEF A!vars
<1>15. QED
  BY <1>1, <1>2, <1>3, <1>4, <1>5, <1>7, <1>8, <1>9, <1>10, <1>11, <1>12, <1>13, <1>14
     DEF A!Next, A!Done

\* Where no push was lost, every card the manifest of the branch names is in the release
\* it points at, whatever uploads failed and whichever old releases went
\* (archive_cards.py, _prune; archive_cards.yml, the keep job).
THEOREM KeptAreThere ==
  ASSUME A!ArchiveAssumption
  PROVE  A!Spec => []A!KeptCardsAreThere
<1>1. A!Init => ArchiveInv /\ KeptStands
  <2>1. A!Init => ArchiveInv
    BY ArchiveInit
  <2>2. A!Init => KeptStands
    <3> SUFFICES ASSUME A!Init
                 PROVE  KeptStands
      OBVIOUS
    <3>1. DOMAIN branch.manifest = {} /\ pc = "idle"
      BY DEF A!Init
    <3>2. left.lost \in 0 .. MaxLost
      BY DEF A!Init, A!ArchiveAssumption
    <3>3. QED
      BY <3>1, <3>2 DEF KeptStands, Kept
  <2>3. QED
    BY <2>1, <2>2
<1>2. ArchiveInv /\ KeptStands /\ [A!Next \/ A!Done]_(A!vars) => (ArchiveInv /\ KeptStands)'
  BY ArchiveStep, KeptStep
<1>3. KeptStands => A!KeptCardsAreThere
  BY DEF KeptStands, Kept, A!KeptCardsAreThere
<1>4. QED
  BY <1>1, <1>2, <1>3, PTL DEF A!Spec
=============================================================================
