------------------------------ MODULE Listings ------------------------------
(***************************************************************************)
(* Lists that are read page by page while their rows change.  Metrics,     *)
(* result evaluations, rule results and final evaluations each have such a *)
(* history, with the same code four times; the case library is the fifth.  *)
(*                                                                         *)
(* Rows are ordered by their time and within it by their id, the newest    *)
(* first, and a page begins behind a row that the reader names.  Rows of a *)
(* history keep their time, which may be a little earlier than that of     *)
(* rows that are there already; an example of the library that is marked   *)
(* again gets a new one.  Filters select among rows and are left out, and  *)
(* so are the cases of V1.1, which are not paged: the library asks for     *)
(* them beside each page, and takes either answer without the other.  The  *)
(* page of the library asks for more; the panels show the first page of a  *)
(* history only, and a client of the interface reads on.                   *)
(***************************************************************************)
EXTENDS Integers, Sequences, FiniteSets

Seqs == INSTANCE SequencesExt

CONSTANTS
  Rows,      \* ids, which are compared: integers
  PageSize,  \* limit
  MaxTime,   \* bound on the clock
  MaxPages   \* bound on the pages that are asked for

ASSUME ListingsAssumption == Rows \subseteq Nat \ {0} /\ PageSize \in Nat \ {0}

VARIABLE listing
\* The fields of listing:
\*   kind    "history" or "cases"
\*   clock   the time
\*   time    of each row, 0 before it is created
\*   out     examples that are none any more; they keep a time
\*   asked   the page under way, as a set of at most one: [after, read, page, more,
\*           at, steady, jumped]
\*   shown   rows of the list on the reader's screen
\*   cursor  nextCursor: the row behind which the next page begins, 0 for none
\*   at      the time that row had when it was read
\*   newest  rows shown as the newest one
\*   pages   how many have been asked for
\*   steady  rows that have been in the list since its first page was read, and
\*           kept their time
\*   jumped  a page began behind a row that had got another time
\*   lost    a page of the library was lost while the cases of V1.1 arrived

Become(l) == listing' = l

ListingsInit ==
  \E k \in {"history", "cases"} :
    listing = [kind |-> k, clock |-> 1, time |-> [r \in Rows |-> 0], out |-> {}, asked |-> {},
               shown |-> <<>>, cursor |-> 0, at |-> 0, newest |-> {}, pages |-> 0,
               steady |-> {}, jumped |-> FALSE, lost |-> FALSE]

-----------------------------------------------------------------------------
(* The queries.                                                            *)

InList == {r \in Rows : listing.time[r] > 0} \ listing.out

\* Wrong variant: rows of the same time are left to chance.
BehindByTime(r, c) == listing.time[r] < listing.time[c]

\* The condition of a page: r comes after c in the order of the list.
Behind(r, c) ==
  \/ listing.time[r] < listing.time[c]
  \/ listing.time[r] = listing.time[c] /\ r < c

\* take: one row more than the page has, to see whether there is another page.
PageAfter(c) ==
  LET S == {r \in InList : c # 0 => Behind(r, c)}
      all == CHOOSE s \in Seqs!SetToSeqs(S) :
               \A i, j \in DOMAIN s : i < j => ~Behind(s[i], s[j])
  IN  [page |-> SubSeq(all, 1, IF Len(all) < PageSize THEN Len(all) ELSE PageSize),
       more |-> Len(all) > PageSize]

\* latest: the first row of the list.
NewestRow == {r \in InList : \A s \in InList \ {r} : Behind(s, r)}

-----------------------------------------------------------------------------
(* Rows change.                                                            *)

Tick == listing.clock < MaxTime /\ Become([listing EXCEPT !.clock = @ + 1])

\* A row's time is taken when its transaction writes it, and it is seen when the
\* transaction has ended.
Create(r) ==
  /\ listing.time[r] = 0
  /\ \E t \in {listing.clock - 1, listing.clock} \ {0} : Become([listing EXCEPT !.time[r] = t])

\* mark: an example is marked again, or not one any more; both set caseMarkedAt.
Mark(r, stays) ==
  /\ listing.kind = "cases" /\ listing.time[r] > 0
  /\ Become([listing EXCEPT !.time[r] = listing.clock, !.steady = @ \ {r},
               !.asked = {[q EXCEPT !.steady = @ \ {r}] : q \in @},
               !.out = IF stays THEN @ \ {r} ELSE @ \cup {r}])

-----------------------------------------------------------------------------
(* Reading.  The reader asks for one page at a time; the page of the case  *)
(* library leaves that to him.                                             *)

AskPage(c) ==
  /\ listing.asked = {} /\ listing.pages < MaxPages
  /\ c = 0 \/ c = listing.cursor
  /\ Become([listing EXCEPT !.pages = @ + 1,
               !.asked = {[after |-> c, read |-> FALSE, page |-> <<>>, more |-> FALSE,
                           at |-> 0, steady |-> {}, jumped |-> FALSE]}])

\* The first query; that of the newest row comes later.
ReadPage(q) ==
  /\ ~q.read
  /\ LET a == PageAfter(q.after) IN
     Become([listing EXCEPT !.asked =
       {[q EXCEPT !.page = a.page, !.more = a.more, !.read = TRUE, !.steady = InList,
                  !.at = IF a.more THEN listing.time[Seqs!Last(a.page)] ELSE 0,
                  !.jumped = q.after # 0 /\ listing.time[q.after] # listing.at]}])

\* isLatest
Marks(q) == IF listing.kind = "history" THEN NewestRow \cap Seqs!ToSet(q.page) ELSE {}

\* The answer arrives: a first page replaces the list, another one is appended.
Deliver(q) ==
  /\ q.read
  /\ Become([listing EXCEPT !.asked = {}, !.at = q.at,
               !.shown = IF q.after = 0 THEN q.page ELSE @ \o q.page,
               !.steady = IF q.after = 0 THEN q.steady ELSE @,
               !.jumped = q.after # 0 /\ (@ \/ q.jumped),
               !.lost = q.after # 0 /\ @,
               !.newest = IF q.after = 0 THEN Marks(q) ELSE @ \cup Marks(q),
               !.cursor = IF q.more THEN Seqs!Last(q.page) ELSE 0])

\* What is shown stays, and the page can be asked for again.
Lose(q) == Become([listing EXCEPT !.asked = {}])

\* The page of the library is lost and the cases of V1.1 arrive: that counts as an
\* answer with no rows, behind which there is no other page.
LoseHalf(q) ==
  /\ listing.kind = "cases"
  /\ Become([listing EXCEPT !.asked = {}, !.cursor = 0, !.at = 0, !.lost = TRUE,
               !.shown = IF q.after = 0 THEN <<>> ELSE @,
               !.newest = IF q.after = 0 THEN {} ELSE @])

ListingsNext ==
  \/ Tick
  \/ \E r \in Rows : Create(r) \/ \E b \in BOOLEAN : Mark(r, b)
  \/ \E c \in {0} \cup Rows : AskPage(c)
  \/ \E q \in listing.asked : ReadPage(q) \/ Deliver(q) \/ Lose(q) \/ LoseHalf(q)

ListingsSpec == ListingsInit /\ [][ListingsNext]_listing

-----------------------------------------------------------------------------
(* Properties.                                                             *)

\* The list on the screen looks complete: no page is offered or under way.
Finished == listing.cursor = 0 /\ listing.asked = {}

\* A reader who asks for one page after the other misses no row that stayed where
\* it was while he read, however many rows came before or after it, unless a page of
\* the library was lost beside the cases of V1.1; he sees a row twice only in the
\* library, when the example behind which a page begins had been marked again; and of
\* a history he sees at most one row as the newest, the first.
ListsAreWhole ==
  /\ Finished /\ ~listing.lost => listing.steady \subseteq Seqs!ToSet(listing.shown)
  /\ ~listing.jumped => Seqs!IsInjective(listing.shown)
  /\ listing.newest \subseteq (IF listing.shown = <<>> THEN {} ELSE {Head(listing.shown)})

-----------------------------------------------------------------------------
(* The inductive invariant the proof in BrowserProofs rests on.            *)

Created == {r \in Rows : listing.time[r] > 0}

\* A row comes after the place that row c had when its time was t.
Beyond(r, t, c) == listing.time[r] < t \/ (listing.time[r] = t /\ r < c)

Requested ==
  [after : {0} \cup Rows, read : BOOLEAN, page : Seq(Rows), more : BOOLEAN,
   at : Nat, steady : SUBSET Rows, jumped : BOOLEAN]

ListFields ==
  [kind : {"history", "cases"}, clock : Nat \ {0}, time : [Rows -> Nat], out : SUBSET Rows,
   asked : SUBSET Requested, shown : Seq(Rows), cursor : {0} \cup Rows, at : Nat,
   newest : SUBSET Rows, pages : Nat, steady : SUBSET Rows, jumped : BOOLEAN, lost : BOOLEAN]

ListOK ==
  /\ listing \in ListFields
  /\ IsFiniteSet(Created) /\ \A r \in Rows : listing.time[r] <= listing.clock
  /\ listing.kind = "history" => listing.out = {}

\* The place of a row that a page ends with: the row may have got a later time since.
PlaceOK(c, t) ==
  /\ c \in Created /\ t <= listing.time[c]
  /\ listing.kind = "history" => t = listing.time[c]

\* What is shown: every steady row that is not shown comes after the cursor, unless a
\* page was lost, and none that is, unless the cursor jumped.
ReaderOK ==
  /\ Seqs!ToSet(listing.shown) \subseteq Created /\ listing.steady \subseteq InList
  /\ listing.cursor # 0 => listing.shown # <<>> /\ PlaceOK(listing.cursor, listing.at)
  /\ listing.lost => listing.cursor = 0
  /\ ~listing.lost => \A r \in listing.steady \ Seqs!ToSet(listing.shown) :
       listing.cursor # 0 /\ Beyond(r, listing.at, listing.cursor)
  /\ ~listing.jumped =>
       /\ Seqs!IsInjective(listing.shown)
       /\ listing.cursor # 0 =>
            \A r \in Seqs!ToSet(listing.shown) : ~Beyond(r, listing.at, listing.cursor)
  /\ listing.newest \subseteq (IF listing.shown = <<>> THEN {} ELSE {Head(listing.shown)})

\* Rows that an answer has to reach.
Expected(q) == IF q.after = 0 THEN q.steady ELSE listing.steady \ Seqs!ToSet(listing.shown)

\* The page under way: it reaches every steady row up to its last row, which is the
\* next cursor, and repeats none unless the cursor jumped.
AnswerOK(q) ==
  LET rows == Seqs!ToSet(q.page)  last == Seqs!Last(q.page) IN
  /\ q.after \in {0, listing.cursor} /\ q.steady \subseteq InList
  /\ q.read =>
       /\ rows \subseteq Created /\ Seqs!IsInjective(q.page)
       /\ q.more => /\ q.page # <<>> /\ PlaceOK(last, q.at)
                    /\ \A r \in rows : ~Beyond(r, q.at, last)
       /\ \A r \in Expected(q) \ rows : q.more /\ Beyond(r, q.at, last)
       /\ q.after # 0 /\ ~listing.jumped /\ ~q.jumped =>
            /\ rows \cap Seqs!ToSet(listing.shown) = {}
            /\ q.more => q.at < listing.at \/ (q.at = listing.at /\ last < listing.cursor)
       /\ listing.kind = "history" =>
            \A r \in rows : IF q.after # 0 THEN Behind(r, q.after)
                            ELSE r = Head(q.page) \/ Behind(r, Head(q.page))

ListingsInv == ListOK /\ ReaderOK /\ \A q \in listing.asked : AnswerOK(q)
=============================================================================
