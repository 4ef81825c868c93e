--------------------------- MODULE RatingEngines ---------------------------
(***************************************************************************)
(* The pure part of the result stage: the data rating of V1.1 and its      *)
(* matrix with the content rating, and the older way from a data grade     *)
(* over the rule engine's boundary to a recommendation and its             *)
(* confirmation.                                                           *)
(*                                                                         *)
(* Texts and versions are left out; dates are day numbers.                 *)
(***************************************************************************)
EXTENDS ContentEngine

-----------------------------------------------------------------------------
(* The data rating: a benchmark has thresholds for the six ratings above   *)
(* D, and guards that cap the rating.                                      *)

DataRatings == <<"S", "A+", "A", "B", "B-", "C", "D">>
Rank(r) == CHOOSE i \in 1 .. 7 : DataRatings[i] = r

Meets(value, threshold, direction) ==
  IF direction = "higher_better" THEN value >= threshold ELSE value <= threshold

\* validateThresholdOrder
Ordered(t) == \A i \in 1 .. 5 : Meets(t.values[i], t.values[i + 1], t.direction)

\* Wrong variant: the first rating that is not met.
ThresholdRatingAfter(value, t) ==
  DataRatings[CHOOSE i \in 1 .. 7 :
    /\ i = 7 \/ ~Meets(value, t.values[i], t.direction)
    /\ \A j \in 1 .. i - 1 : Meets(value, t.values[j], t.direction)]

\* ratingFor: the best rating whose threshold is met.
ThresholdRating(value, t) ==
  DataRatings[CHOOSE i \in 1 .. 7 :
    /\ i = 7 \/ Meets(value, t.values[i], t.direction)
    /\ \A j \in 1 .. i - 1 : ~Meets(value, t.values[j], t.direction)]

\* matches
Matches(value, g) ==
  CASE g.operator = "lt" -> value < g.value [] g.operator = "lte" -> value <= g.value
    [] g.operator = "gt" -> value > g.value [] g.operator = "gte" -> value >= g.value
    [] g.operator = "eq" -> value = g.value

Worse(r, s) == IF Rank(r) > Rank(s) THEN r ELSE s

\* The guards one after the other; one whose metric is missing is passed over.
Guarded(rating, metrics, guards) ==
  LET after[i \in 0 .. Len(guards)] ==
        IF i = 0 THEN rating
        ELSE IF metrics[guards[i].metric] # Null /\ Matches(metrics[guards[i].metric], guards[i])
          THEN Worse(after[i - 1], guards[i].cap) ELSE after[i - 1]
  IN  after[Len(guards)]

ObservedDays(metrics) ==
  IF Null \in {metrics["start"], metrics["end"]} THEN 0 ELSE metrics["end"] - metrics["start"] + 1

\* The checks of calculateDataRating before it rates anything.
Sufficient(metrics, b) ==
  /\ b.thresholds # Null
  /\ \A m \in b.required : metrics[m] # Null
  /\ metrics[b.sampleMetric] # Null /\ metrics[b.sampleMetric] >= b.sample
  /\ ObservedDays(metrics) >= b.days
  /\ metrics[b.primary] # Null

DataRating(metrics, b) ==
  IF Sufficient(metrics, b)
    THEN Guarded(ThresholdRating(metrics[b.primary], b.thresholds), metrics, b.guards) ELSE Null

-----------------------------------------------------------------------------
(* The matrix of content and data; R is left to an administrator.          *)

ContentRank(r) == 7 - Level(r)

\*   data:   S     A+    A     B     B-    C     D
Matrix ==
  <<<<"S",  "A+", "A",  "A",  "B",  "B-", "C">>,   \* content A+
    <<"A+", "A+", "A",  "B",  "B-", "C",  "C">>,   \*         A
    <<"A",  "A",  "A",  "B",  "B-", "C",  "D">>,   \*         B
    <<"R",  "R",  "B",  "B-", "C",  "C",  "D">>,   \*         B-
    <<"R",  "R",  "R",  "R",  "C",  "D",  "D">>,   \*         C
    <<"R",  "R",  "R",  "R",  "C",  "D",  "D">>>>  \*         D

Comprehensive(content, data) == Matrix[ContentRank(content)][Rank(data)]

\* What a decision may end as: an administrator gives R any rating but the two
\* best (resolveManualR).
Outcomes(content, data) ==
  IF Comprehensive(content, data) = "R" THEN {"A", "B", "B-", "C", "D"}
  ELSE {Comprehensive(content, data)}

\* businessOutcomeFor
Conclusion(rating) ==
  CASE rating \in {"S", "A+", "A", "B"} -> "effective"
    [] rating \in {"B-", "C"} -> "low_effective"
    [] OTHER -> "invalid"

-----------------------------------------------------------------------------
(* The older way.                                                          *)

\* The content evaluation before V1.1 scores twelve dimensions from 0 to 5, with
\* the same weights for every kind of video.
OldWeight ==
  [hook |-> 15, product_exposure |-> 10, selling_points |-> 15, visual_quality |-> 10,
   composition |-> 5, camera_language |-> 5, pacing |-> 10, subtitle_clarity |-> 5,
   voiceover_clarity |-> 5, bgm_fit |-> 5, platform_fit |-> 7, purpose_fit |-> 8]
OldDimensions == DOMAIN OldWeight
ProductVideos == {"product_card", "qianchuan_ad", "live_room_traffic"}

\* ContentReviewOutputSchema, of a sequence of scores.
ValidScores(scores) ==
  /\ Len(scores) = 12
  /\ {scores[i].dimension : i \in DOMAIN scores} = OldDimensions
  /\ \A i \in DOMAIN scores : scores[i].rating \in 0 .. 5

\* calculateContentScore: the sum, rounded half up, and the cap.
OldBase(scores) ==
  LET sum[i \in 0 .. Len(scores)] ==
        IF i = 0 THEN 0 ELSE sum[i - 1] + scores[i].rating * OldWeight[scores[i].dimension]
  IN  (2 * sum[Len(scores)] + 5) \div 10

OldCap(scores, risks, type) ==
  CASE "high" \in risks -> 59
    [] "high" \notin risks /\ type \in ProductVideos
         /\ (\E i \in DOMAIN scores : scores[i].dimension = "product_exposure" /\ scores[i].rating = 0) -> 69
    [] OTHER -> 100

\* gradeForScore, and gradeFromScore of the content.
GradeForScore(score) ==
  CASE score >= 90 -> "S" [] score \in 80 .. 89 -> "A" [] score \in 70 .. 79 -> "B"
    [] score \in 60 .. 69 -> "C" [] OTHER -> "D"

OldGrade(scores, risks, type) ==
  LET base == OldBase(scores)  cap == OldCap(scores, risks, type)
  IN  GradeForScore(IF base <= cap THEN base ELSE cap)

\* Why the data can be insufficient, and which reasons say that data is missing.
MissingData == {"missing_benchmark", "missing_core_metric", "sample_too_small", "period_too_short"}

\* ResultReviewOutputSchema
ValidReview(o) ==
  \/ /\ o.sufficiency = "insufficient"
     /\ o.score = Null /\ o.grade = Null /\ o.effective = Null
     /\ o.reasons # {} /\ o.next = "collect_more_data"
     /\ "sample_size" \in o.attributions \/ o.reasons \cap MissingData # {}
  \/ /\ o.sufficiency = "sufficient"
     /\ o.score # Null /\ o.effective # Null /\ o.reasons = {}
     /\ o.grade = GradeForScore(o.score)

GradeGroup(grade) == CASE grade \in {"S", "A"} -> "high" [] grade = "B" -> "mid" [] OTHER -> "low"

\* evaluateRuleBoundary; a missing grade is that of insufficient data.
Boundary(content, data) ==
  IF data = Null THEN "pending_data"
  ELSE CASE GradeGroup(content) = "high" /\ GradeGroup(data) # "low" -> "allow_final_effective"
         [] GradeGroup(content) = "mid" /\ GradeGroup(data) # "low" -> "allow_final_effective_or_low_effective"
         [] GradeGroup(content) # "low" /\ GradeGroup(data) = "low" -> "allow_final_low_effective_or_invalid"
         [] GradeGroup(content) = "low" /\ GradeGroup(data) # "low" -> "require_manual_confirmation"
         [] GradeGroup(content) = "low" /\ GradeGroup(data) = "low" -> "require_final_invalid"

FinalGrades == <<"effective", "low_effective", "invalid">>

\* allowedRecommendations, of the answer of the model.
Recommendable(boundary) ==
  CASE boundary = "allow_final_effective" -> {"effective"}
    [] boundary = "allow_final_effective_or_low_effective" -> {"effective", "low_effective"}
    [] boundary = "allow_final_low_effective_or_invalid" -> {"low_effective", "invalid"}
    [] boundary = "require_manual_confirmation" -> {"effective", "low_effective", "invalid"}
    [] boundary = "require_final_invalid" -> {"invalid"}
    [] boundary = "pending_data" -> {}

\* allowedFinalGrades, of the confirmation: a table of its own in the shared
\* package.
AllowedGrades(boundary) ==
  CASE boundary = "allow_final_effective" -> {"effective"}
    [] boundary = "allow_final_effective_or_low_effective" -> {"effective", "low_effective"}
    [] boundary = "allow_final_low_effective_or_invalid" -> {"low_effective", "invalid"}
    [] boundary = "require_manual_confirmation" -> {"effective", "low_effective", "invalid"}
    [] boundary = "require_final_invalid" -> {"invalid"}
    [] boundary = "pending_data" -> {}

\* validateFinalEvaluationOutput
ValidRecommendation(o, boundary) ==
  /\ o.grade \in Recommendable(boundary)
  /\ o.status = "final_" \o o.grade /\ o.effective = (o.grade # "invalid")
  /\ {"content_review", "result_review", "rule_engine"} \subseteq o.sources
  /\ boundary = "require_manual_confirmation" =>
       o.explained /\ o.risks \cap {"content_data_conflict", "boundary_sensitive"} # {}
  /\ ~o.claimsConfirmed

\* The checks of confirm on what is confirmed (finalConfirmationValidation is
\* the same for the form).
ValidConfirmation(c, recommended, boundary) ==
  /\ {c.grade, recommended} \subseteq AllowedGrades(boundary)
  /\ (c.grade # recommended) = c.reasoned
  /\ boundary = "require_manual_confirmation" => c.commented
  /\ c.grade = "invalid" => ~c.performance
=============================================================================
