------------------------------ MODULE CardFetch -----------------------------
(***************************************************************************)
(* One fetch of an operator's card (providers/*.py): the requests an       *)
(* extractor makes one after the other, what it makes of each answer, the  *)
(* year it dates the card and how long it lets it stand. What the operator *)
(* shows may be another thing at each request: a card replaced or          *)
(* withdrawn, a page ahead of the year or behind it, an outage; and the    *)
(* year may turn between two of them.                                      *)
(*                                                                         *)
(* A card is known by the year its rates are for. A day is a number: twice *)
(* its year on 1 January, and one more later in the year.                  *)
(***************************************************************************)
EXTENDS Integers, FiniteSets, FiniteSetsExt

CONSTANTS Operators,   \* the extractors modelled, a subset of Extractors
          FirstYear, LastYear, \* bound: the years the clock may say
          Transcribed, \* the days of the AIEC pictures a release holds the figures of
          MonthsBack,  \* ARCHIVE_MONTHS_BACK
          Gone,        \* the answer that is no card; and what else may come for one:
          OffSite, Unshowable, Tls,
          None

Extractors == {"water_link", "aquaduin", "de_watergroep", "farys", "vivaqua", "agso_knokke",
               "pidpa", "walloon", "inbw", "aiec"}

\* How a fetch may fail: an outage, a card that is not there, given up.
Failures == {"blip", "gone", "ended"}

\* What the constants are; MCParts assumes it of its values.
FetchAssumption ==
  /\ Operators \subseteq Extractors /\ FirstYear \in Nat \ {0} /\ LastYear \in Nat
  /\ Transcribed \subseteq Nat /\ MonthsBack \in Nat
  /\ None \notin Failures /\ None \notin [failed : Failures] /\ None \notin Nat
  /\ Gone \notin {OffSite, Unshowable, Tls}
  /\ None \notin [failed : {None}, since : Int, real : Int, says : BOOLEAN, target : Int,
                  until : Int]

VARIABLES
  year,   \* belgian_today().year
  fetch,  \* the fetch: [operator, commune, archiver, at, asked, target, published,
          \*   offered, out, blips], None before it begins
  turned  \* whether the year turned during it

vars == <<year, fetch, turned>>

Jan1(y) == 2 * y

YearOf(day) == day \div 2

-----------------------------------------------------------------------------
(* Where a fetch goes from an answer. *)

\* The next request, for the card of the year `asked`.
Ask(f, at, asked) == [f EXCEPT !.at = at, !.asked = asked]

\* It raises: a TransientFetchError ("blip") or another ExtractorError ("gone").
Raise(f, kind) == [f EXCEPT !.out = [failed |-> kind]]

\* carry_prior_year_card: the day a card valid from `since` is valid until, 31 March
\* being one day after 1 January here.
Carried(since, target) ==
  IF YearOf(since) >= target THEN 2 * YearOf(since) + 2 ELSE Jan1(target) + 1

\* It returns the card of the year `real`, dated `since`; `says` is whether the operator
\* told which year the card is of.
ServeFrom(f, since, real, says, target) ==
  [f EXCEPT !.out = [failed |-> None, since |-> since, real |-> real, says |-> says,
                     target |-> target, until |-> Carried(since, target)]]

Serve(f, dated, real, says, target) == ServeFrom(f, Jan1(dated), real, says, target)

\* The year before is tried once.
Fallback(f, at) ==
  IF f.asked = f.target THEN Ask(f, at, f.target - 1) ELSE Raise(f, "gone")

-----------------------------------------------------------------------------
(* The extractors: the request a fetch is at, answered with a. *)

\* Mutant: a card is what its link says it is.
TakesItsLinksWord(doc, asked) == FALSE

\* parse_tariff of a linked card: one that states another year is refused.
StatesAnother(doc, asked) == doc.states /\ doc.year # asked

\* water_link: the link is read off the page, else the January path stands in; what
\* the card states is only seen once the fallback is behind.
WaterLink(f, a) ==
  CASE f.at = "page" /\ a # OffSite -> Ask(f, "pdf", f.asked)
    [] f.at = "page" /\ a = OffSite -> Fallback(f, "page")
    [] f.at = "pdf" /\ a = Gone -> Fallback(f, "page")
    [] OTHER -> IF StatesAnother(a, f.asked) THEN Raise(f, "gone")
                ELSE Serve(f, f.asked, a.year, a.states, year)

\* aquaduin: no path stands in, and the fallback covers what the card states.
Aquaduin(f, a) ==
  CASE f.at = "page" /\ a = "link" -> Ask(f, "pdf", f.asked)
    [] f.at = "page" /\ a # "link" -> Fallback(f, "page")
    [] f.at = "pdf" /\ a = Gone -> Fallback(f, "page")
    [] OTHER -> IF StatesAnother(a, f.asked) THEN Fallback(f, "page")
                ELSE Serve(f, f.asked, a.year, a.states, f.target)

\* _served_year: the answer's active tab names its year.
ServedYear(doc, asked) == IF doc.states THEN doc.year ELSE asked

\* de_watergroep: a commune whose card will not show a leg is served the default's,
\* from this year on.
DeWatergroep(f, a) ==
  CASE a = Gone -> Fallback(f, "card")
    [] a = Unshowable /\ f.commune = "own" ->
         [Ask(f, "card", year) EXCEPT !.commune = "default", !.target = year]
    [] a = Unshowable /\ f.commune = "default" -> Fallback(f, "card")
    [] OTHER -> Serve(f, ServedYear(a, f.asked), a.year, a.states, f.target)

\* farys: dated by the period it marks as active, or by the clock.
Farys(f, a) ==
  CASE f.at = "post" /\ a # Gone ->
         Serve(f, IF a.states THEN a.year ELSE year, a.year, a.states, year)
    [] f.at = "post" /\ a = Gone -> Raise(f, "gone")
    [] OTHER -> Raise(f, IF a = "unlisted" THEN "gone" ELSE "blip")

\* vivaqua: this year's table or last year's; then the social intervention, without
\* which the card is served all the same.
Vivaqua(f, a) ==
  CASE f.at = "page" /\ a # Gone /\ a \cap {year, year - 1} # {} ->
         [Ask(f, "intervention", Max(a \cap {year, year - 1}))
            EXCEPT !.target = year, !.offered = a]
    [] f.at = "page" /\ (a = Gone \/ a \cap {year, year - 1} = {}) -> Raise(f, "gone")
    [] OTHER -> Serve(f, f.asked, f.asked, TRUE, f.target)

\* Mutant: the dearest table is the newest, and so the year's.
DearestTable(tables, target) ==
  LET dearest == Max({t.year : t \in tables}) IN [year |-> dearest, dated |-> target]

\* agso_knokke's parse_tariff: where every table is dated the year's own or the last
\* one before it; otherwise the dearest, at most a year after the newest dated.
ChosenTable(tables, target) ==
  LET past == {t.year : t \in {x \in tables : x.year <= target}}
      known == {t.year : t \in {x \in tables : x.dated}}
      dearest == CHOOSE t \in tables : \A x \in tables : x.year <= t.year
  IN IF (\A t \in tables : t.dated) /\ past # {} THEN [year |-> Max(past), dated |-> Max(past)]
     ELSE [year |-> dearest.year,
           dated |-> IF dearest.dated THEN dearest.year
                     ELSE IF known # {} THEN Min({Max(known) + 1, target}) ELSE target]

Agso(f, a) ==
  IF a = Gone THEN Raise(f, "gone")
  ELSE LET chosen == ChosenTable(a, year)
       IN IF chosen.dated > year THEN Raise(f, "gone")
          ELSE Serve([f EXCEPT !.offered = IF \A t \in a : t.dated THEN {t.year : t \in a} ELSE {}],
                     chosen.dated, chosen.year,
                     \E t \in a : t.year = chosen.year /\ t.dated, year)

\* pidpa's parse_commune_tariff: the year's tab, else the last one before it.
Pidpa(f, a) ==
  IF a = Gone \/ {t \in a : t <= year} = {} THEN Raise(f, "gone")
  ELSE LET tab == Max({t \in a : t <= year})
       IN Serve([f EXCEPT !.offered = a], tab, tab, TRUE, year)

\* detect_published_year: of the years near this one that the headings name, or the
\* dates, or the prose, this one before the last.
DetectPublishedYear(page) ==
  LET near(years) == years \cap (year - 1 .. year + 1)
      told == IF near(page.heads) # {} THEN near(page.heads)
              ELSE IF near(page.dates) # {} THEN near(page.dates) ELSE near(page.prose)
  IN CASE told = {} -> None
       [] told # {} /\ year \in told -> year
       [] OTHER -> Max(told)

Stated(page) == IF DetectPublishedYear(page) = None THEN year ELSE DetectPublishedYear(page)

\* _walloon_simple and those that use its parser.
Walloon(f, a) ==
  IF a = Gone THEN Raise(f, "gone")
  ELSE Serve([f EXCEPT !.offered = IF a.heads = {a.year} THEN {a.year} ELSE {}],
             Stated(a), a.year, a.heads = {a.year}, year)

\* inbw: only a TLS failure is tried again, unverified.
Inbw(f, a) == IF a = Tls THEN Ask(f, "unverified", f.asked) ELSE Walloon(f, a)

\* archived_picture_text: the newest month's row that there is names the picture, or
\* nobody has read it.
PictureText(rows, url) ==
  LET months == {m \in DOMAIN rows : rows[m] # None}
  IN IF months = {} THEN None
     ELSE IF rows[Min(months)].url = url THEN rows[Min(months)].text ELSE None

\* date_against_operator: the aggregator's card is dated by the operator's picture.
AgainstOperator(since, published) ==
  IF published = None THEN since
  ELSE IF published > since /\ YearOf(published) = YearOf(since) THEN published ELSE since

\* Mutant: a text is of the picture it is stored for.
AnyTextWillDo(text, published) == text # None

\* _read_picture: the text must state the day of the picture.
ReadsAs(text, published) == text = published

\* aiec: the operator's picture, transcribed in the release or read by the archive,
\* else the aggregator's page.
Aiec(f, a) ==
  CASE f.at = "page" /\ a = Gone -> Ask(f, "aggregator", f.asked)
    [] f.at = "page" /\ a # Gone /\ a.published \in Transcribed ->
         IF f.archiver /\ a.url THEN [Ask(f, "compare", f.asked) EXCEPT !.published = a.published]
         ELSE ServeFrom(f, a.published, YearOf(a.published), TRUE, year)
    [] f.at = "page" /\ a # Gone /\ a.published \notin Transcribed ->
         [Ask(f, IF a.published # None /\ a.url THEN "picture" ELSE "aggregator", f.asked)
            EXCEPT !.published = a.published]
    [] f.at = "compare" -> ServeFrom(f, f.published, YearOf(f.published), TRUE, year)
    [] f.at = "picture" ->
         LET text == IF a = Gone THEN None ELSE IF f.archiver THEN a
                     ELSE PictureText(a, f.published)
         IN IF ReadsAs(text, f.published)
            THEN ServeFrom(f, f.published, YearOf(text), TRUE, year)
            ELSE Ask(f, "aggregator", f.asked)
    [] OTHER ->
         IF a = Gone THEN Raise(f, "gone")
         ELSE ServeFrom(f, AgainstOperator(Jan1(Stated(a)), f.published), a.year,
                        a.heads = {a.year}, year)

Answered(f, a) ==
  CASE f.operator = "water_link" -> WaterLink(f, a)
    [] f.operator = "aquaduin" -> Aquaduin(f, a)
    [] f.operator = "de_watergroep" -> DeWatergroep(f, a)
    [] f.operator = "farys" -> Farys(f, a)
    [] f.operator = "vivaqua" -> Vivaqua(f, a)
    [] f.operator = "agso_knokke" -> Agso(f, a)
    [] f.operator = "pidpa" -> Pidpa(f, a)
    [] f.operator = "walloon" -> Walloon(f, a)
    [] f.operator = "inbw" -> Inbw(f, a)
    [] OTHER -> Aiec(f, a)

\* Mutant: an outage is one more way not to have the card.
BlipIsGone(f) == Answered(f, Gone)

\* A TransientFetchError goes through all of them, but where it may be Farys's way to
\* say it does not know a commune, or met only a comparison.
Blip(f) ==
  CASE f.operator = "farys" /\ f.at = "post" /\ f.commune = "own" -> Ask(f, "list", f.asked)
    [] f.operator = "aiec" /\ f.at = "compare" -> Answered(f, Gone)
    [] OTHER -> Raise(f, "blip")

-----------------------------------------------------------------------------
(* What may come back (providers/_pdf.py). *)

\* _get, _http_error: a server's own failure, a rate limit, a network's or a timeout.
Transient == {"5xx", "429", "network", "timeout"}

\* Everything else that is no card: a page that is gone or has moved, a redirect off the
\* site or without end, a body too large, no PDF, a reader that refused it, was killed
\* or found no text, a figure that does not parse.
Content == {"4xx", "moved", "redirect", "too large", "no PDF", "reader", "unparsed"}

\* What a failed request makes of a fetch; a water_link card is parsed once the
\* fallback is behind.
Failed(f, outcome) ==
  CASE outcome \in Transient -> Blip([f EXCEPT !.blips = @ \cup {f.at}])
    [] outcome = "unparsed" /\ f.operator = "water_link" /\ f.at = "pdf" -> Raise(f, "gone")
    [] OTHER -> Answered(f, Gone)

Near == {year - 1, year, year + 1}

\* A card of the year asked for, or one left over from the year before.
Docs(asked) == [year : {asked - 1, asked}, states : BOOLEAN]

Pages == [year : Near, heads : SUBSET Near, dates : SUBSET {year - 1, year}, prose : SUBSET {year + 1}]

Pictures == {Jan1(year - 1) + 1, Jan1(year), Jan1(year) + 1}

\* The rows of the months back; a text may be of any picture, or none's.
PictureRows == [1 .. MonthsBack -> {None} \cup [url : Pictures, text : Pictures \cup {None}]]

\* What an operator may answer at a request, failures aside.
Shown(f) ==
  CASE f.at = "page" /\ f.operator = "water_link" -> {"link", OffSite}
    [] f.at = "page" /\ f.operator = "aquaduin" -> {"link", OffSite}
    [] f.at = "pdf" -> Docs(f.asked)
    [] f.at = "card" -> Docs(f.asked) \cup {Unshowable}
    [] f.at = "post" -> [year : Near, states : BOOLEAN]
    [] f.at = "list" -> {"listed", "unlisted"}
    [] f.at = "page" /\ f.operator = "vivaqua" -> SUBSET Near
    [] f.at = "intervention" -> {"amounts"}
    [] f.at = "page" /\ f.operator = "agso_knokke" ->
         {s \in SUBSET [year : Near, dated : BOOLEAN] :
            s # {} /\ \A t, u \in s : t.year = u.year => t = u}
    [] f.at = "page" /\ f.operator = "pidpa" -> SUBSET (Near \cup {year - 2})
    [] f.at = "page" /\ f.operator = "inbw" -> Pages \cup {Tls}
    [] f.at = "page" /\ f.operator = "aiec" ->
         [published : Pictures \cup {None}, url : BOOLEAN]
    [] f.at = "picture" -> IF f.archiver THEN Pictures \cup {None} ELSE PictureRows
    [] f.at = "compare" -> {"read"}
    [] OTHER -> Pages

-----------------------------------------------------------------------------

\* The first request of each extractor.
FirstAt(operator) ==
  CASE operator = "de_watergroep" -> "card"
    [] operator = "farys" -> "post"
    [] OTHER -> "page"

UnderWay == IF fetch = None THEN FALSE ELSE fetch.out = None

\* fetch or fetch_for_commune, in an installation or by the archiver.
Begin ==
  /\ fetch = None
  /\ \E op \in Operators, commune \in {"default", "own"}, archiver \in BOOLEAN :
       fetch' = [operator |-> op, commune |-> commune, archiver |-> archiver, at |-> FirstAt(op),
                 asked |-> year, target |-> year, published |-> None, offered |-> {},
                 out |-> None, blips |-> {}]
  /\ UNCHANGED <<year, turned>>

\* The operator answers with what it shows.
Receive ==
  /\ UnderWay
  /\ \E a \in Shown(fetch) : fetch' = Answered(fetch, a)
  /\ UNCHANGED <<year, turned>>

\* Or the request fails.
Fails ==
  /\ UnderWay
  /\ \E outcome \in Transient \cup Content :
       fetch' = Failed(fetch, outcome)
  /\ UNCHANGED <<year, turned>>

\* The fetch budget, or an unload, ends it.
GiveUp ==
  /\ UnderWay /\ fetch' = Raise(fetch, "ended")
  /\ UNCHANGED <<year, turned>>

NewYear ==
  /\ year < LastYear /\ (fetch = None \/ UnderWay)
  /\ year' = year + 1 /\ turned' = UnderWay
  /\ UNCHANGED fetch

Init == year = FirstYear /\ fetch = None /\ turned = FALSE

Next == Begin \/ Receive \/ Fails \/ GiveUp \/ NewYear

\* The fetch is over.
Done == fetch # None /\ ~UnderWay /\ UNCHANGED vars

Spec == Init /\ [][Next \/ Done]_vars

-----------------------------------------------------------------------------

Served == IF fetch = None THEN FALSE
          ELSE IF fetch.out = None THEN FALSE ELSE fetch.out.failed = None

\* A card is served for what its operator says it is: under its own year where the card,
\* its tab or its heading names one; of this year wherever a page shows this year's
\* beside others; and not past its end already, in the weeks a new card is late. So no
\* old card is taken for the new one, and never found stale (carry_prior_year_card, and
\* each extractor's parser).
ServedAsPublished ==
  Served =>
    /\ fetch.out.says => YearOf(fetch.out.since) = fetch.out.real
    /\ fetch.out.target \in fetch.offered => YearOf(fetch.out.since) = fetch.out.target
    /\ ~turned => fetch.out.until > Jan1(year)

\* No card is served over an outage: last year's, another commune's or the aggregator's
\* stands in only for one the operator answered it does not have (TransientFetchError,
\* and the extractors' fallbacks).
NoCardOverAnOutage == Served => fetch.blips \subseteq {"compare"}
=============================================================================
