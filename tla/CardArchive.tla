----------------------------- MODULE CardArchive ----------------------------
(***************************************************************************)
(* The card archive (scripts/archive_cards.py, scripts/card_texts.py and   *)
(* the jobs of .github/workflows/archive_cards.yml that run them): a walk  *)
(* over the utilities, the replay of the stored months through a parser    *)
(* that moved, the pruning, the upload of the cards and the push.          *)
(*                                                                         *)
(* A row is one utility's default or one of its communes. It reads a page, *)
(* or a PDF whose text the installed reader makes. The editions it publishes *)
(* are numbered; a page's text and a PDF's digest are named by theirs.     *)
(***************************************************************************)
EXTENDS Integers, Sequences, SequencesExt, FiniteSetsExt, Functions

CONSTANTS Rows,         \* the rows of a utility, its default first, a sequence
          Pdfs,         \* the rows that read a PDF, the others a page
          Editions,     \* bound: the editions a row publishes
          Parsers,      \* bound: the versions of the parser sources
          Reader,       \* Reader[v]: the PDF reader that parser v runs with
          Reads,        \* the tables [parser -> row -> edition -> card or Unread]
          Months,       \* bound: the months that pass
          KeepMonths,   \* _KEEP_MONTHS
          GiveUpAfter,  \* _GIVE_UP_AFTER
          MaxRuns, MaxFails, MaxLost,   \* bounds
          Unread, None

RowSet == ToSet(Rows)
MonthSet == 1 .. Months
EditionSet == 1 .. Editions
ParserSet == 1 .. Parsers

\* What the constants are; MCParts assumes it of its values.
ArchiveAssumption ==
  /\ Rows \in Seq(RowSet) /\ Rows # <<>> /\ Pdfs \subseteq RowSet
  /\ {Editions, Parsers, Months, GiveUpAfter, MaxRuns} \subseteq Nat \ {0}
  /\ {KeepMonths, MaxFails, MaxLost} \subseteq Nat
  /\ None \notin Nat
  /\ Reader \in [ParserSet -> Nat]

VARIABLES
  month,      \* the running month
  parser,     \* the parser sources on the main branch
  reads,      \* what the parsers make of the editions
  published,  \* the edition each row serves
  branch,     \* the archive branch: rows, texts, manifest and parser stamp
  releases,   \* the cards in the cards repository, by month of their release
  pc,         \* of the run: "idle", "walk", "replay", "prune", "keep", "push"
  work,       \* its checkout of the branch
  run,        \* its locals
  unreplayable,   \* the rows a replay on the branch reported, and none replayed since
  left        \* what is left of the bounds

world == <<month, parser, reads, published>>
vars == <<world, branch, releases, pc, work, run, unreplayable, left>>

Digests == Pdfs \X EditionSet
NoRun == [todo |-> <<>>, fails |-> 0, saved |-> <<>>, pending |-> {}, missed |-> FALSE,
          rerender |-> FALSE, stored |-> {}, bad |-> {}]

\* The text of an edition: a page's own, or what a reader made of a PDF.
Text(r, e, reader) == [of |-> r, edition |-> e, by |-> IF r \in Pdfs THEN reader ELSE None]

\* A row of the branch: the card, the PDF it names, the reader, the text.
Row(r, e, v, card) ==
  [card |-> card, pdf |-> IF r \in Pdfs THEN <<r, e>> ELSE None,
   readers |-> IF r \in Pdfs THEN Reader[v] ELSE None, text |-> Text(r, e, Reader[v])]

Init ==
  /\ month = 1 /\ parser = 1
  /\ reads \in Reads
  /\ published = [r \in RowSet |-> 1]
  /\ branch = [rows |-> [r \in RowSet |-> [m \in MonthSet |-> None]],
               texts |-> {}, manifest |-> <<>>, stamp |-> None]
  /\ releases = {}
  /\ pc = "idle" /\ work = branch /\ run = NoRun
  /\ unreplayable = {}
  /\ left = [runs |-> MaxRuns, fails |-> MaxFails, lost |-> MaxLost]

-----------------------------------------------------------------------------
(* Between the runs. *)

MonthTurns ==
  /\ pc = "idle" /\ month < Months
  /\ month' = month + 1
  /\ UNCHANGED <<parser, reads, published, branch, releases, pc, work, run, unreplayable, left>>

ParserMoves ==
  /\ pc = "idle" /\ parser < Parsers
  /\ parser' = parser + 1
  /\ UNCHANGED <<month, reads, published, branch, releases, pc, work, run, unreplayable, left>>

\* A row publishes its next edition; an old one does not come back.
Publishes(r) ==
  /\ pc = "idle" /\ published[r] < Editions
  /\ published' = [published EXCEPT ![r] = @ + 1]
  /\ UNCHANGED <<month, parser, reads, branch, releases, pc, work, run, unreplayable, left>>

-----------------------------------------------------------------------------
(* The walk. *)

\* Where a row is stored: row and month.
StoredRows(rows) == {x \in RowSet \X MonthSet : rows[x[1]][x[2]] # None}

\* A run over the default rows only, or over the communes too.
Start ==
  /\ pc = "idle" /\ left.runs > 0
  /\ left' = [left EXCEPT !.runs = @ - 1]
  /\ \E n \in {1, Len(Rows)}, rerender \in BOOLEAN :
       run' = [NoRun EXCEPT !.todo = SubSeq(Rows, 1, n), !.rerender = rerender,
                            !.bad = unreplayable]
  /\ work' = branch
  /\ pc' = "walk"
  /\ UNCHANGED <<world, branch, releases, unreplayable>>

\* The latest month before m that holds the row, 0 without one.
Previous(rows, r, m) == Max({0} \cup {n \in 1 .. m - 1 : rows[r][n] # None})

\* Mutant: a row of another reader counts as the same card.
SameParse(a, b) == a.card = b.card /\ a.pdf = b.pdf

\* The same card: the text it was read from is not compared.
SameCard(a, b) == a.card = b.card /\ a.pdf = b.pdf /\ a.readers = b.readers

\* The row as it is stored: one that repeats the month before points at the
\* text that month holds.
Stored(w, r, m, row) ==
  LET p == Previous(w.rows, r, m)
  IN IF p = 0 THEN row
     ELSE IF SameCard(w.rows[r][p], row) /\ w.rows[r][p].text \in w.texts
          THEN [row EXCEPT !.text = w.rows[r][p].text] ELSE row

\* _write_card: a month that holds the card already is left as it is.
Written(w, r, m, row) ==
  IF (IF w.rows[r][m] = None THEN FALSE ELSE SameCard(w.rows[r][m], row)) THEN w
  ELSE [w EXCEPT !.rows[r][m] = Stored(w, r, m, row),
                 !.texts = @ \cup {Stored(w, r, m, row).text}]

\* A card no manifest names is held until a row names it, and filed under the
\* month of that row.
Unkept(d) == d \notin DOMAIN work.manifest /\ d \notin DOMAIN run.saved

Filed(d, m) == [x \in DOMAIN run.saved \cup {d} |-> IF x = d THEN m ELSE run.saved[x]]

\* _capture of the next row: it is read.
Capture ==
  /\ pc = "walk" /\ run.todo # <<>>
  /\ LET r == Head(run.todo)
         card == reads[parser][r][published[r]]
         d == <<r, published[r]>>
     IN IF card = Unread
        THEN /\ run' = [run EXCEPT !.todo = Tail(@), !.fails = 0,
                          !.pending = IF r \in Pdfs /\ Unkept(d) THEN @ \cup {d} ELSE @]
             /\ UNCHANGED work
        ELSE /\ work' = Written(work, r, month, Row(r, published[r], parser, card))
             /\ run' = [run EXCEPT !.todo = Tail(@), !.fails = 0, !.bad = @ \ {<<r, month>>},
                          !.saved = IF r \in Pdfs /\ Unkept(d) THEN Filed(d, month) ELSE @]
  /\ UNCHANGED <<world, branch, releases, pc, unreplayable, left>>

\* The network failed at every attempt; after a few in a row the rest of the
\* utility is skipped.
CaptureFails ==
  /\ pc = "walk" /\ run.todo # <<>>
  /\ left.fails > 0
  /\ left' = [left EXCEPT !.fails = @ - 1]
  /\ run' = [run EXCEPT !.fails = @ + 1,
                        !.todo = IF run.fails + 1 >= GiveUpAfter THEN <<>> ELSE Tail(@)]
  /\ UNCHANGED <<world, branch, releases, pc, work, unreplayable>>

\* A branch never stamped holds nothing of another parser and is only stamped.
Walked ==
  /\ pc = "walk" /\ run.todo = <<>>
  /\ LET stamped == IF branch.stamp = None THEN parser ELSE branch.stamp
     IN IF run.rerender \/ stamped # parser
        THEN /\ pc' = "replay"
             /\ run' = [run EXCEPT !.stored = StoredRows(work.rows)]
             /\ UNCHANGED work
        ELSE /\ pc' = "prune"
             /\ work' = [work EXCEPT !.stamp = parser]
             /\ UNCHANGED run
  /\ UNCHANGED <<world, branch, releases, unreplayable, left>>

-----------------------------------------------------------------------------
(* The replay. *)

\* A text of another reader, or any PDF's under a rerender, is not seeded.
Seeded(row) == row.pdf = None \/ (row.readers = Reader[parser] /\ ~run.rerender)

\* A kept copy is on this runner's disk, or the manifest says where it is.
OnDisk(d) == d \in DOMAIN run.saved
InRelease(d) == d \in DOMAIN branch.manifest /\ <<branch.manifest[d], d>> \in releases

\* The row replays: it is written as the parser makes it now.
Replays(r, m) ==
  LET row == work.rows[r][m]
      card == reads[parser][r][row.text.edition]
  IN /\ row.text \in work.texts
     /\ Seeded(row) \/ OnDisk(row.pdf) \/ InRelease(row.pdf)
     /\ card # Unread
     /\ work' = Written(work, r, m, Row(r, row.text.edition, parser, card))
     /\ run' = [run EXCEPT !.stored = @ \ {<<r, m>>}, !.bad = @ \ {<<r, m>>}]
     /\ UNCHANGED left

\* It does not, and is left as it is: nothing to read it from, or the parser
\* reads it no more.
CannotReplay(r, m) ==
  LET row == work.rows[r][m]
  IN /\ \/ row.text \notin work.texts
        \/ ~Seeded(row) /\ ~OnDisk(row.pdf) /\ row.pdf \notin DOMAIN branch.manifest
        \/ /\ Seeded(row) \/ OnDisk(row.pdf) \/ InRelease(row.pdf)
           /\ reads[parser][r][row.text.edition] = Unread
     /\ run' = [run EXCEPT !.stored = @ \ {<<r, m>>}, !.bad = @ \cup {<<r, m>>}]
     /\ UNCHANGED <<work, left>>

\* The kept copy the manifest names cannot be downloaded.
DownloadFails(r, m) ==
  LET row == work.rows[r][m]
  IN /\ row.text \in work.texts
     /\ ~Seeded(row) /\ ~OnDisk(row.pdf) /\ row.pdf \in DOMAIN branch.manifest
     /\ InRelease(row.pdf) => left.fails > 0
     /\ left' = [left EXCEPT !.fails = IF InRelease(row.pdf) THEN @ - 1 ELSE @]
     /\ run' = [run EXCEPT !.stored = @ \ {<<r, m>>}, !.missed = TRUE]
     /\ UNCHANGED work

\* By the day of their capture, so one month after the other.
ReplayRow ==
  /\ pc = "replay"
  /\ \E at \in run.stored :
       /\ \A x \in run.stored : at[2] <= x[2]
       /\ \/ Replays(at[1], at[2])
          \/ CannotReplay(at[1], at[2])
          \/ DownloadFails(at[1], at[2])
  /\ UNCHANGED <<world, branch, releases, pc, unreplayable>>

\* Mutant: the branch is stamped whatever the replay missed.
StampAnyway == parser

\* A replay that missed a kept card leaves the old stamp, for the next run.
Stamp == IF run.missed THEN (IF branch.stamp = None THEN parser ELSE branch.stamp) ELSE parser

Replayed ==
  /\ pc = "replay" /\ run.stored = {}
  /\ work' = [work EXCEPT !.stamp = Stamp]
  /\ pc' = "prune"
  /\ UNCHANGED <<world, branch, releases, run, unreplayable, left>>

-----------------------------------------------------------------------------
(* The pruning and what the later jobs do. *)

Cutoff == month - KeepMonths

Stays(rows) == [r \in RowSet |-> [m \in MonthSet |-> IF m < Cutoff THEN None ELSE rows[r][m]]]

\* Mutant: the texts of the running month alone are referred to.
TextsOfTheMonth(rows) == {rows[r][month].text : r \in {q \in RowSet : rows[q][month] # None}}

\* The texts the remaining rows refer to.
Referenced(rows) == {rows[x[1]][x[2]].text : x \in StoredRows(rows)}

\* The digests the remaining rows name.
Named(rows) == {rows[x[1]][x[2]].pdf : x \in StoredRows(rows)} \ {None}

\* What was downloaded and never named is filed under this month; then the old
\* months go, the texts nothing refers to and the manifest's old entries that
\* nothing names.
Prune ==
  /\ pc = "prune"
  /\ LET rows == Stays(work.rows)
         kept == {d \in DOMAIN work.manifest : d \in Named(rows) \/ work.manifest[d] >= Cutoff}
     IN work' = [work EXCEPT !.rows = rows, !.texts = @ \cap Referenced(rows),
                             !.manifest = Restrict(@, kept)]
  /\ run' = [run EXCEPT !.saved = [x \in DOMAIN @ \cup run.pending |->
                                     IF x \in DOMAIN run.saved THEN run.saved[x] ELSE month]]
  /\ pc' = "keep"
  /\ UNCHANGED <<world, branch, releases, unreplayable, left>>

\* Mutant: a release goes with its month.
WithinTheSpan(all, manifest) == {x \in all : x[1] >= Cutoff}

\* The releases before the cutoff go, but for those the manifest points into.
Surviving(all, manifest) ==
  {x \in all : x[1] >= Cutoff \/ \E d \in DOMAIN manifest : manifest[d] = x[1]}

\* The new cards are uploaded, up to the one that fails; a month's are merged
\* into the manifest once they are all there. When all went well, old releases go.
Keep ==
  /\ pc = "keep"
  /\ \E up \in SUBSET DOMAIN run.saved :
       LET whole == {d \in DOMAIN run.saved :
                       \A x \in DOMAIN run.saved : run.saved[x] = run.saved[d] => x \in up}
           manifest == [d \in DOMAIN work.manifest \cup whole |->
                          IF d \in whole THEN run.saved[d] ELSE work.manifest[d]]
           all == releases \cup {<<run.saved[d], d>> : d \in up}
       IN /\ up = DOMAIN run.saved \/ left.fails > 0
          /\ left' = [left EXCEPT !.fails = IF up = DOMAIN run.saved THEN @ ELSE @ - 1]
          /\ work' = [work EXCEPT !.manifest = manifest]
          /\ releases' = IF up = DOMAIN run.saved
                         THEN Surviving(all, manifest) ELSE all
  /\ pc' = "push"
  /\ UNCHANGED <<world, branch, run, unreplayable>>

Rest == pc' = "idle" /\ work' = branch' /\ run' = NoRun

Push ==
  /\ pc = "push"
  /\ branch' = work
  /\ unreplayable' = run.bad
  /\ Rest
  /\ UNCHANGED <<world, releases, left>>

\* The run dies before the uploads: nothing of it is left.
Dies ==
  /\ pc \in {"walk", "replay", "prune", "keep"} /\ left.fails > 0
  /\ left' = [left EXCEPT !.fails = @ - 1]
  /\ UNCHANGED branch
  /\ Rest
  /\ UNCHANGED <<world, releases, unreplayable>>

\* The push is lost, after the uploads and the deletions were made.
PushFails ==
  /\ pc = "push" /\ left.lost > 0
  /\ left' = [left EXCEPT !.lost = @ - 1]
  /\ UNCHANGED branch
  /\ Rest
  /\ UNCHANGED <<world, releases, unreplayable>>

Next ==
  \/ MonthTurns \/ ParserMoves \/ \E r \in RowSet : Publishes(r)
  \/ Start \/ Capture \/ CaptureFails \/ Walked
  \/ ReplayRow \/ Replayed \/ Prune \/ Keep \/ Push \/ PushFails \/ Dies

\* The bounds are spent.
Done == pc = "idle" /\ left.runs = 0 /\ UNCHANGED vars

Spec == Init /\ [][Next \/ Done]_vars

-----------------------------------------------------------------------------
(* Properties. *)

Held == StoredRows(branch.rows)
At(x) == branch.rows[x[1]][x[2]]

\* Every row on the branch has its text there: months share texts, and what one
\* run prunes another month may still point at. A row without its text is never
\* replayed again.
EveryTextIsThere == \A x \in Held : At(x).text \in branch.texts

\* A branch stamped with the running parser holds what it makes of the texts
\* beside the rows: a fix reaches every stored month, through a reader upgrade,
\* a kept card that would not download, and months sharing one text. Not the
\* rows a replay reported, nor those whose text the parser reads no more.
StampedMeansReplayed ==
  branch.stamp = parser =>
    \A x \in Held \ unreplayable :
      LET now == reads[parser][x[1]][At(x).text.edition]
      IN now # Unread =>
           /\ At(x).card = now
           /\ At(x).pdf # None => At(x).readers = Reader[parser]

\* A card that a month on the branch names, and that the manifest says is kept,
\* is still in the release it points at, whatever the uploads did and the old
\* releases that went. Where no push was lost: the releases go before it, and a
\* month that was to name another card then still names the one deleted.
KeptCardsAreThere ==
  pc = "idle" /\ left.lost = MaxLost =>
    \A x \in Held :
      LET d == At(x).pdf
      IN d \in DOMAIN branch.manifest => <<branch.manifest[d], d>> \in releases
=============================================================================
