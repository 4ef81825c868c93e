--------------------------- MODULE ResultMetrics ---------------------------
(***************************************************************************)
(* The figures of one video: what createSnapshot of                        *)
(* result-metrics.service.ts makes of the previous snapshot and of what a  *)
(* person sends, and the forms (result-metrics-panel.tsx) that send it.    *)
(*                                                                         *)
(* A form sends only the fields whose text changed, and the number of the  *)
(* snapshot it was filled from; the server merges the rest from its newest *)
(* snapshot and computes cost per click, cost per thousand and return on   *)
(* investment unless they were sent.  When metrics may be sent at all is   *)
(* the matter of VideoPipeline.                                            *)
(*                                                                         *)
(* Decimals are integers in units of 1/10000, as the columns keep them, so *)
(* that an amount of money is a multiple of 100 units; dates are day       *)
(* numbers, texts and links any value.                                     *)
(***************************************************************************)
EXTENDS Integers, Sequences

CONSTANTS
  Nothing,       \* null, and the empty field of a form
  Authors,       \* people with a form of the video open
  Edits,         \* what a person can do to a form: functions from some fields
  Videos,        \* the video: records [type, ads]
  MaxSnapshots   \* bound: snapshots

VARIABLES
  video,      \* what kind of video it is
  snapshots,  \* video_result_metrics: [values, supplied, shown]; what the author
              \* sent and what the form showed are in the operation log
  form        \* number of the snapshot in each author's form, 0 for none

metricsVars == <<video, snapshots, form>>

-----------------------------------------------------------------------------
(* The fields: packages/shared/src/result-metrics.ts.                      *)

CommonFields == {"publishUrl", "publishDate", "dataStartDate", "dataEndDate", "dataScreenshotUrl"}
Dates == {"publishDate", "dataStartDate", "dataEndDate"}
Texts == {"publishUrl", "dataScreenshotUrl", "campaignName", "commentKeywords", "operatorNote",
          "deliveryNote", "planStatus"}
Money == {"spend", "gmv", "liveGmv"}
Percentages == {"ctr", "productCtr", "conversionRate", "cvr", "entryRate", "threeSecondViewRate",
                "completionRate"}
Quotients == {"cpc", "cpm", "roi"}
Decimals == Money \cup Percentages \cup Quotients \cup {"entryCost"}

ProductCardFields == CommonFields \cup
  {"impressions", "views", "clicks", "ctr", "productClicks", "productCtr", "orders", "gmv",
   "conversionRate", "cvr", "threeSecondViewRate", "completionRate", "avgWatchSeconds", "operatorNote"}
PaidFields == (ProductCardFields \ {"operatorNote"}) \cup
  {"campaignName", "spend", "cpc", "cpm", "roi", "deliveryNote", "planStatus"}
LiveRoomFields == CommonFields \cup
  {"campaignName", "impressions", "views", "clicks", "ctr", "spend", "cpc", "cpm", "roi",
   "liveRoomEntries", "entryRate", "entryCost", "avgStaySeconds", "interactions", "liveOrders",
   "liveGmv", "threeSecondViewRate", "completionRate", "avgWatchSeconds", "deliveryNote", "planStatus"}
OrganicFields == (ProductCardFields \ {"cvr"}) \cup
  {"likes", "comments", "shares", "saves", "followersGain"}
BrandFields == CommonFields \cup
  {"impressions", "views", "clicks", "ctr", "threeSecondViewRate", "completionRate",
   "avgWatchSeconds", "likes", "comments", "shares", "saves", "followersGain",
   "brandSearchGrowth", "positiveCommentsCount", "commentKeywords", "operatorNote"}

\* getResultMetricFieldConfig
FieldsOf(v) ==
  CASE v.type = "product_card" -> IF v.ads THEN PaidFields ELSE ProductCardFields
    [] v.type = "qianchuan_ad" -> PaidFields
    [] v.type = "live_room_traffic" -> LiveRoomFields
    [] v.type = "organic" -> OrganicFields
    [] v.type = "brand_seeding" -> BrandFields
    [] v.type = "other" -> IF v.ads THEN PaidFields ELSE OrganicFields

CoreFieldsOf(v) ==
  CASE v.type = "product_card" /\ ~v.ads -> {"views", "productClicks", "orders", "gmv"}
    [] v.type = "qianchuan_ad" \/ (v.type = "product_card" /\ v.ads) ->
         {"impressions", "clicks", "spend", "orders", "gmv"}
    [] v.type = "live_room_traffic" -> {"liveRoomEntries", "spend", "liveOrders", "liveGmv"}
    [] v.type = "organic" ->
         {"views", "productClicks", "orders", "gmv", "likes", "comments", "shares", "saves"}
    [] v.type = "brand_seeding" ->
         {"views", "likes", "comments", "shares", "saves", "followersGain", "brandSearchGrowth"}
    [] v.type = "other" -> FieldsOf(v) \ (CommonFields \cup Texts)

\* Nothing is no number, and what is typed into a figure is one or nothing.
ASSUME MetricsAssumption ==
  /\ MaxSnapshots \in Nat /\ Nothing \notin Int
  /\ \A e \in Edits : \A f \in DOMAIN e \ Texts : e[f] \in Int \cup {Nothing}

-----------------------------------------------------------------------------
(* createSnapshot                                                          *)

Empty == [values |-> [f \in FieldsOf(video) |-> Nothing], supplied |-> {},
          shown |-> [f \in FieldsOf(video) |-> Nothing]]
Snapshot(n) == IF n = 0 THEN Empty ELSE snapshots[n]
Last == Len(snapshots)

\* CreateResultMetricSnapshotDto: a figure is not negative, an amount of money
\* has two decimals; an empty field may always be sent.
Fits(f, x) ==
  x # Nothing /\ f \notin Texts => x >= 0 /\ (f \in Money => x % 100 = 0)

\* normalizeField checks the kind of the field again, and that no rate is above
\* one hundred percent.
Valid(f, x) ==
  Fits(f, x) /\ (x # Nothing /\ f \in Percentages => x <= 1000000)

\* buildResultMetricPayload: the fields of the form whose content is not that of
\* the snapshot.
Payload(n, edit) == {f \in DOMAIN edit : edit[f] # Snapshot(n).values[f]}

\* mergeSnapshot
Merged(edit, supplied) ==
  [f \in FieldsOf(video) |-> IF f \in supplied THEN edit[f] ELSE Snapshot(Last).values[f]]

\* A figure that the type of video does not have counts as missing.
Figure(x, f) == IF f \in DOMAIN x THEN x[f] ELSE Nothing

Bases == [cpc |-> {"spend", "clicks"}, cpm |-> {"spend", "impressions"}, roi |-> {"gmv", "spend"}]
Above == [cpc |-> "spend", cpm |-> "spend", roi |-> "gmv"]
Below == [cpc |-> "clicks", cpm |-> "impressions", roi |-> "spend"]
Factor == [cpc |-> 1, cpm |-> 1000, roi |-> 10000]

Rounded(n, d) == (2 * n + d) \div (2 * d)

\* divide
Quotient(x, f) ==
  IF Figure(x, Above[f]) = Nothing \/ Figure(x, Below[f]) \in {Nothing, 0} THEN Nothing
  ELSE Rounded(Factor[f] * Figure(x, Above[f]), Figure(x, Below[f]))

\* applyDerivedMetrics: sent figures stay; of the others those are computed that
\* are missing or of which a base was sent.
WithQuotients(x, supplied) ==
  [f \in DOMAIN x |->
     IF f \in Quotients \ supplied /\ (x[f] = Nothing \/ Bases[f] \cap supplied # {})
       THEN Quotient(x, f) ELSE x[f]]

\* validateCompleteSnapshot
CompleteFigures(x) ==
  /\ Nothing \notin {x["dataStartDate"], x["dataEndDate"]}
  /\ x["dataStartDate"] <= x["dataEndDate"]
  /\ x["publishDate"] # Nothing => x["publishDate"] <= x["dataEndDate"]
  /\ \E f \in CoreFieldsOf(video) : x[f] # Nothing

\* addWarning: more than five percent, and more than a hundredth, off.
Warned(x, f) ==
  /\ Figure(x, f) # Nothing /\ Figure(x, Above[f]) # Nothing /\ Figure(x, Below[f]) \notin {Nothing, 0}
  /\ LET n == Factor[f] * x[Above[f]]  d == x[Below[f]]
         off == IF x[f] * d >= n THEN x[f] * d - n ELSE n - x[f] * d
     IN  20 * off > n /\ off > 100 * d

\* Wrong variant: the first snapshot alone is protected.
BaseMatchesFirst(n) == Last = 0 => n = 0

\* assertBaseMetric: the form was filled from the newest snapshot.
BaseMatches(n) == n = Last

-----------------------------------------------------------------------------
MetricsInit ==
  /\ video \in Videos /\ snapshots = <<>>
  /\ form = [a \in Authors |-> 0]

\* The form is loaded when the page is, and after what it sent was accepted; that
\* load may be lost.
Load(a) ==
  /\ form' = [form EXCEPT ![a] = Last]
  /\ UNCHANGED <<video, snapshots>>

\* submit, and createSnapshot.  The form has the fields of the type only, and
\* nothing is sent when nothing changed.
Submit(a, edit, reloaded) ==
  LET supplied == Payload(form[a], edit)
      x == WithQuotients(Merged(edit, supplied), supplied)
  IN
  /\ DOMAIN edit \subseteq FieldsOf(video) /\ supplied # {} /\ Last < MaxSnapshots
  /\ BaseMatches(form[a])
  /\ \A f \in supplied : Valid(f, edit[f])
  /\ CompleteFigures(x)
  /\ snapshots' = Append(snapshots, [values |-> x, supplied |-> supplied,
                                     shown |-> Snapshot(form[a]).values])
  /\ form' = IF reloaded THEN [form EXCEPT ![a] = Last + 1] ELSE form
  /\ UNCHANGED video

MetricsNext ==
  \E a \in Authors : Load(a) \/ \E edit \in Edits, reloaded \in BOOLEAN : Submit(a, edit, reloaded)

MetricsSpec == MetricsInit /\ [][MetricsNext]_metricsVars

-----------------------------------------------------------------------------
(* Properties.                                                             *)

\* Since snapshot m nobody has sent f or one of the figures it is computed from.
Untouched(f, m, n) ==
  \A k \in m + 1 .. n : (Bases[f] \cup {f}) \cap snapshots[k].supplied = {}

Founded(n) ==
  LET s == snapshots[n]  x == s.values IN
  /\ \A f \in DOMAIN x \ (s.supplied \cup Quotients) : x[f] = s.shown[f]
  /\ \A f \in DOMAIN x \cap Quotients :
       x[f] # Quotient(x, f) \/ Warned(x, f) =>
         \E m \in 1 .. n : /\ f \in snapshots[m].supplied /\ Untouched(f, m, n)
                           /\ x[f] = snapshots[m].values[f]

\* Every figure of every snapshot was seen or sent by somebody: what an author did
\* not send is what the form showed, also with several people at it, and a figure
\* that does not follow from the ones it is computed from was sent by a person
\* after their last change.  Only such a figure is ever warned about.
FiguresAreFounded == \A n \in 1 .. Last : Founded(n)

-----------------------------------------------------------------------------
(* The inductive invariant the proofs in DeskProofs rest on.               *)

Entered == UNION {{e[f] : f \in DOMAIN e} : e \in Edits}
FigureRows(v) == [FieldsOf(v) -> Entered \cup Nat \cup {Nothing}]
SnapshotRows(v) == [values : FigureRows(v), supplied : SUBSET FieldsOf(v), shown : FigureRows(v)]

\* What the columns keep of a figure is a number that is not negative, or nothing.
FiguresOK ==
  /\ video \in Videos /\ snapshots \in Seq(SnapshotRows(video))
  /\ \A n \in 1 .. Last : \A f \in FieldsOf(video) \ Texts :
       snapshots[n].values[f] \in Nat \cup {Nothing}

MetricsInv == FiguresOK /\ FiguresAreFounded
=============================================================================
