----------------------------- MODULE Assessment -----------------------------
(***************************************************************************)
(* How one video is judged, as data: the engines of ContentEngine and      *)
(* RatingEngines in the order in which the services call them.             *)
(*                                                                         *)
(* V1.1: a group collects runs until it is adopted or held; the adopted    *)
(* content is rated together with the data and the matrix gives the        *)
(* conclusion.  The older way: a content grade and a result evaluation     *)
(* give a boundary, a recommendation and a confirmed grade.  When each     *)
(* step may happen is the matter of V11Content, V11Ratings and             *)
(* VideoPipeline; here only what is computed matters.                      *)
(***************************************************************************)
EXTENDS RatingEngines

CONSTANTS
  Answers,       \* a sequence of answers of the content model
  Contexts,      \* what the decision on a first run reads
  Figures,       \* metric snapshots: functions from metrics to numbers or Null
  Benchmarks,    \* benchmark profiles
  OldAnswers,    \* answers of the content model before V1.1
  Reviews,       \* answers of the model for result evaluations
  Suggestions    \* answers of the model for final evaluations

\* What benchmarkProfileInputSchema lets in, about the metrics M.
ThresholdRows == [direction : {"higher_better", "lower_better"}, values : [1 .. 6 -> Int]]
GuardRows(M) == [metric : M, operator : {"lt", "lte", "gt", "gte", "eq"}, value : Int,
                 cap : {DataRatings[i] : i \in 1 .. 7}]
BenchmarkRows(M) ==
  [primary : M, required : SUBSET M, sampleMetric : M, sample : Int, days : Int,
   thresholds : ThresholdRows \cup {Null}, guards : Seq(GuardRows(M))]

\* Null is no number, rating or grade; a metric is a number or missing, and a benchmark names
\* metrics only; the scores of an answer are listed and the score of a review is a number.
ASSUME AssessmentAssumption ==
  /\ Null \notin Int \cup {"insufficient"}
  /\ Null \notin {DataRatings[i] : i \in 1 .. 7} \cup {FinalGrades[i] : i \in 1 .. 3}
  /\ \A x \in Figures : x \in [DOMAIN x -> Int \cup {Null}]
  /\ \A x \in Figures, b \in Benchmarks : b \in BenchmarkRows(DOMAIN x)
  /\ \A o \in OldAnswers : DOMAIN o.scores = 1 .. Len(o.scores)
  /\ \A o \in Reviews : o.score \in Int \cup {Null}

VARIABLES
  context,  \* one of Contexts
  group,    \* the valid runs of the group, as numbers of answers
  verdict,  \* what the engine said last
  figures,  \* snapshot and benchmark of the data rating
  rating,   \* the data rating
  outcome,  \* the conclusion and who drew it
  old       \* the older way

assessmentVars == <<context, group, verdict, figures, rating, outcome, old>>

Run == [n \in {m \in DOMAIN Answers : ValidOutput(Answers[m]) /\ Complete(Answers[m])} |->
          RunOf(Answers[n])]
Group(numbers) == [i \in DOMAIN numbers |-> Run[numbers[i]]]

AssessmentInit ==
  /\ context \in Contexts
  /\ group = <<>> /\ verdict = Further
  /\ figures = Null /\ rating = Null /\ outcome = Null
  /\ old = [content |-> Null, risky |-> FALSE, boundary |-> Null,
            recommended |-> Null, confirmed |-> Null]

-----------------------------------------------------------------------------
(* V1.1                                                                    *)

Progress(numbers) ==
  IF Len(numbers) = 1
    THEN DecideFirst(Run[numbers[1]], context.manifest, context.pilots, context.appeal,
                     context.history, context.sampled)
    ELSE Decide(Group(numbers))

\* executeJob: an answer that is not valid fails the group; one with an unknown
\* dimension, or of a file that could not be examined, holds it.
Evaluate(n) ==
  /\ old.content = Null /\ verdict = Further
  /\ IF ~ValidOutput(Answers[n]) \/ ~WithinDuration(Answers[n], context.manifest.duration)
     THEN verdict' = [Hold EXCEPT !.action = "fail"] /\ UNCHANGED group
     ELSE IF ~Complete(Answers[n]) \/ ~ManifestComplete(context.manifest)
     THEN verdict' = Hold /\ UNCHANGED group
     ELSE group' = Append(group, n) /\ verdict' = Progress(group')
  /\ UNCHANGED <<context, figures, rating, outcome, old>>

\* rateData.  Thresholds out of order are an error; later steps do not read the runs
\* again.
Rate(x, b) ==
  /\ verdict.action = "adopt" /\ rating = Null
  /\ Sufficient(x, b) => Ordered(b.thresholds)
  /\ figures' = [metrics |-> x, benchmark |-> b]
  /\ rating' = IF Sufficient(x, b) THEN DataRating(x, b) ELSE "insufficient"
  /\ group' = <<>>
  /\ verdict' = [verdict EXCEPT !.anchors = Null, !.score = Null]
  /\ UNCHANGED <<context, outcome, old>>

\* createComprehensiveDecision, and resolveManualComprehensive for R.
Conclude(result) ==
  /\ rating \notin {Null, "insufficient"} /\ outcome = Null
  /\ result \in Outcomes(verdict.rating, rating)
  /\ outcome' = [conclusion |-> Conclusion(result),
                 by |-> IF Comprehensive(verdict.rating, rating) = "R" THEN "administrator" ELSE "system"]
  /\ UNCHANGED <<context, group, verdict, figures, rating, old>>

-----------------------------------------------------------------------------
(* The older way.                                                          *)

\* The old content evaluation, complete.
OldEvaluate(o) ==
  /\ group = <<>> /\ verdict = Further /\ old.content = Null /\ ValidScores(o.scores)
  /\ old' = [old EXCEPT !.content = OldGrade(o.scores, o.risks, o.type), !.risky = "high" \in o.risks]
  /\ UNCHANGED <<context, group, verdict, figures, rating, outcome>>

\* The result evaluation and, after it, the rule engine.
OldReview(o) ==
  /\ old.content # Null /\ old.boundary = Null /\ ValidReview(o)
  /\ old' = [old EXCEPT !.boundary = Boundary(old.content, o.grade)]
  /\ UNCHANGED <<context, group, verdict, figures, rating, outcome>>

OldRecommend(o) ==
  /\ old.boundary # Null /\ old.recommended = Null /\ ValidRecommendation(o, old.boundary)
  /\ old' = [old EXCEPT !.recommended = o.grade]
  /\ UNCHANGED <<context, group, verdict, figures, rating, outcome>>

Choices == [grade : {FinalGrades[i] : i \in 1 .. 3}, reasoned : BOOLEAN,
            commented : BOOLEAN, performance : BOOLEAN]

OldConfirm(c) ==
  /\ old.recommended # Null /\ old.confirmed = Null
  /\ ValidConfirmation(c, old.recommended, old.boundary)
  /\ old' = [old EXCEPT !.confirmed = c.grade]
  /\ UNCHANGED <<context, group, verdict, figures, rating, outcome>>

AssessmentNext ==
  \/ \E n \in DOMAIN Answers : Evaluate(n)
  \/ \E x \in Figures, b \in Benchmarks : Rate(x, b)
  \/ \E i \in 1 .. 7 : Conclude(DataRatings[i])
  \/ \E o \in OldAnswers : OldEvaluate(o)
  \/ \E o \in Reviews : OldReview(o)
  \/ \E o \in Suggestions : OldRecommend(o)
  \/ \E c \in Choices : OldConfirm(c)

AssessmentSpec == AssessmentInit /\ [][AssessmentNext]_assessmentVars

-----------------------------------------------------------------------------
(* Properties of content decisions.                                        *)

\* Nothing is adopted against the runs it is made from: several runs have the
\* rating of the decision, each anchor lies between those of the runs and the run
\* that is quoted for it is at most half a point away, and no run contradicts
\* another on a hard fact or on compliance.
AdoptedFollowsRuns ==
  verdict.action = "adopt" /\ Len(group) > 1 =>
    LET R == Group(group) IN
    /\ AtLeastTwo(Rated(R, verdict.rating))
    /\ Contradicted(R) \subseteq SoftFacts /\ ~ComplianceConflict(R)
    /\ \A d \in Dimensions :
         /\ \E r, q \in DOMAIN R : verdict.anchors[d] \in R[r].anchors[d] .. R[q].anchors[d]
         /\ Distance(R[Representative(R, verdict, d)].anchors[d], verdict.anchors[d]) <= 1

\* A single run is adopted only where a second one that differs by two points
\* could not have another rating: the boundaries near which the review rules ask
\* for a second run are the boundaries of the ratings.
AdoptedAloneIsStable ==
  verdict.action = "adopt" /\ Len(group) = 1 =>
    \A score \in verdict.score - 20 .. verdict.score + 20 : RatingOf(score) = verdict.rating

\* A third run is left out only where it could not matter: a group that two runs
\* put on hold would be held with every third one.
HoldIsFinal ==
  Len(group) = 2 /\ Decide(Group(group)) = Hold =>
    \A n \in DOMAIN Run : Decide(Group(Append(group, n))) = Hold

\* The order in which the runs of a group ended changes nothing.
OrderIsIrrelevant ==
  Len(group) > 1 =>
    \A f \in [DOMAIN group -> DOMAIN group] :
      (\A i, j \in DOMAIN group : f[i] = f[j] => i = j) =>
        Decide(Group([i \in DOMAIN group |-> group[f[i]]])) = Decide(Group(group))

\* decideReviewProgress and the rules around it, for every group of the sample.
AdoptionIsSound == AdoptedFollowsRuns /\ AdoptedAloneIsStable /\ HoldIsFinal /\ OrderIsIrrelevant

-----------------------------------------------------------------------------
(* Properties of ratings and conclusions.                                  *)

\* The snapshots that differ from x in nothing but a better primary metric.
Better(x, b) ==
  {y \in Figures : /\ y[b.primary] # Null /\ Meets(y[b.primary], x[b.primary], b.thresholds.direction)
                   /\ \A m \in DOMAIN x : m # b.primary => y[m] = x[m]}

\* A better primary metric never makes the data rating worse, as long as no guard
\* is about that metric, and the order of the guards does not matter.
RatingFollowsFigures ==
  rating \notin {Null, "insufficient"} =>
    LET x == figures.metrics  b == figures.benchmark  n == Len(b.guards) IN
    /\ (\A i \in 1 .. n : b.guards[i].metric # b.primary) =>
         \A y \in Better(x, b) : Sufficient(y, b) => Rank(DataRating(y, b)) <= Rank(rating)
    /\ DataRating(x, [b EXCEPT !.guards = [i \in 1 .. n |-> b.guards[n + 1 - i]]]) = rating

Standing == [effective |-> 3, low_effective |-> 2, invalid |-> 1]

\* Where the matrix itself concludes, better content or better data never lead to
\* a worse conclusion, and content C or D is never called effective; only an
\* administrator does that.
ConclusionFollowsRatings ==
  outcome # Null /\ outcome.by = "system" =>
    /\ outcome.conclusion = "effective" => verdict.rating \notin {"C", "D"}
    /\ \A c \in 1 .. 6, d \in 1 .. 7 :
         /\ 7 - c <= ContentRank(verdict.rating) /\ d <= Rank(rating)
         /\ Comprehensive(Ratings[c], DataRatings[d]) # "R"
         => Standing[Conclusion(Comprehensive(Ratings[c], DataRatings[d]))] >= Standing[outcome.conclusion]

\* The older way: three tables, of the rule engine, of the answer's validation and
\* of the confirmation, are kept in three files.  Every suggestion they let pass
\* can be confirmed as it is, whatever the person wants to say with it, data that
\* is insufficient never gets that far, and content with a high compliance risk is
\* confirmed as effective only with a comment.
SuggestionCanBeConfirmed ==
  old.recommended # Null =>
    /\ \E c \in Choices : c.grade = old.recommended /\ ~c.reasoned /\ ~c.performance
                           /\ ValidConfirmation(c, old.recommended, old.boundary)
    /\ old.boundary # "pending_data"
    /\ old.confirmed # Null => old.confirmed \in Recommendable(old.boundary)
    /\ old.risky /\ old.confirmed \in {"effective", "low_effective"} =>
         old.boundary = "require_manual_confirmation"

\* The data ratings, the matrix and the tables of the older way, for every
\* snapshot, benchmark and grade of the sample.
RatingsAgree == RatingFollowsFigures /\ ConclusionFollowsRatings /\ SuggestionCanBeConfirmed

-----------------------------------------------------------------------------
(* The inductive invariant the proofs in DeskProofs rest on.               *)

\* The engine gives up with the third run, and what it adopted last is about the
\* runs of the group until the data is rated.
GroupOK ==
  /\ group \in Seq(DOMAIN Run) /\ Len(group) <= 3
  /\ verdict = Further => Len(group) <= 2 /\ rating = Null
  /\ verdict.action = "adopt" /\ rating = Null => group # <<>> /\ verdict = Progress(group)

\* What was rated is the adopted content and the data of one snapshot, and what was
\* concluded without an administrator is the matrix's word on them.
RatedOK ==
  /\ rating # Null =>
       /\ group = <<>> /\ verdict.action = "adopt"
       /\ verdict.rating \in {Ratings[l] : l \in 1 .. 6}
  /\ rating \notin {Null, "insufficient"} =>
       /\ figures.metrics \in Figures /\ figures.benchmark \in Benchmarks
       /\ Sufficient(figures.metrics, figures.benchmark)
       /\ rating = DataRating(figures.metrics, figures.benchmark)
  /\ outcome # Null =>
       /\ rating \notin {Null, "insufficient"}
       /\ outcome.by = "system" =>
            /\ Comprehensive(verdict.rating, rating) # "R"
            /\ outcome.conclusion = Conclusion(Comprehensive(verdict.rating, rating))

OldGrades == {"S", "A", "B", "C", "D"}
OldRows ==
  [content : OldGrades \cup {Null}, risky : BOOLEAN,
   boundary : {Boundary(c, d) : c \in OldGrades, d \in OldGrades \cup {Null}} \cup {Null},
   recommended : {FinalGrades[i] : i \in 1 .. 3} \cup {Null},
   confirmed : {FinalGrades[i] : i \in 1 .. 3} \cup {Null}]

\* Each step of the older way answers to the one before it; a high risk caps the
\* content at the worst grade.
OldOK ==
  /\ old \in OldRows
  /\ old.risky => old.content = "D"
  /\ old.boundary # Null =>
       /\ old.content # Null
       /\ \E d \in OldGrades \cup {Null} : old.boundary = Boundary(old.content, d)
  /\ old.recommended # Null => old.boundary # Null /\ old.recommended \in Recommendable(old.boundary)
  /\ old.confirmed # Null => old.recommended # Null /\ old.confirmed \in AllowedGrades(old.boundary)

AssessmentInv == GroupOK /\ RatedOK /\ OldOK
=============================================================================
