--------------------------- MODULE ContentEngine ---------------------------
(***************************************************************************)
(* The pure part of V1.1 content evaluation: which answers of the model    *)
(* are valid, how a valid answer is scored and rated, and when one, two or *)
(* three independent runs of a group are adopted, continued or held.       *)
(*                                                                         *)
(* Scores are integers, in tenths of a point.  Anchors are counted in      *)
(* halves, since the average of two anchors may lie between two of them.   *)
(* The code compares scores as floating-point numbers; of all scores that  *)
(* eight anchors can give only 8.8 and 3.8, and 11.3 and 6.3, compare      *)
(* differently there, where their difference is a little more than 5.      *)
(* Texts, references and hashes are left out.                              *)
(***************************************************************************)
EXTENDS Integers, Sequences

CONSTANT Null

Weight == [opening_hook |-> 20, selling_point |-> 20, structure |-> 15, visual_quality |-> 15,
           pacing |-> 10, subtitle_audio |-> 10, platform_fit |-> 5, action_logic |-> 5]
Dimensions == DOMAIN Weight

FactKeys ==
  [opening_hook |-> {"hook_present", "topic_clear_in_opening"},
   selling_point |-> {"core_subject_identifiable", "selling_point_present", "selling_point_supported"},
   structure |-> {"mainline_coherent", "closing_present"},
   visual_quality |-> {"key_subject_visible", "critical_visual_issue_present"},
   pacing |-> {"critical_pacing_issue_present"},
   subtitle_audio |-> {"audio_present", "subtitle_present", "critical_audio_text_issue_present"},
   platform_fit |-> {"declared_platform_fit"},
   action_logic |-> {"action_cue_present", "action_cue_consistent"}]
Facts == UNION {{<<d, k>> : k \in FactKeys[d]} : d \in Dimensions}
Definite == {"present", "absent"}

-----------------------------------------------------------------------------
(* The answer of the model.                                                *)

\* observedDimensionSchema and unknownDimensionSchema.
ValidDimension(d) ==
  /\ d.dimension \in Dimensions
  /\ \/ d.status = "observed" /\ d.anchor \in 0 .. 4 /\ d.claims # <<>> /\ d.evidence # {}
     \/ d.status = "unknown" /\ d.anchor = Null
  /\ \A e \in d.evidence : e.start # Null /\ e.end # Null => e.start <= e.end

\* The keys of a dimension's claims are its own, each at most once.
ValidClaims(d) ==
  /\ \A c \in DOMAIN d.claims : d.claims[c].key \in FactKeys[d.dimension]
  /\ \A b, c \in DOMAIN d.claims : d.claims[b].key = d.claims[c].key => b = c

ValidOutput(o) ==
  /\ Len(o.dimensions) = 8
  /\ \A i \in 1 .. 8 : ValidDimension(o.dimensions[i]) /\ ValidClaims(o.dimensions[i])
  /\ {o.dimensions[i].dimension : i \in 1 .. 8} = Dimensions

WithinDuration(o, duration) ==
  duration # Null =>
    \A i \in DOMAIN o.dimensions : \A e \in o.dimensions[i].evidence :
      (e.start # Null => e.start <= duration) /\ (e.end # Null => e.end <= duration)

\* createMediaManifest: what ffprobe said, or nothing when it could not run;
\* the duration then comes from the upload.
Manifest(probe, uploaded) ==
  [probed |-> probe # Null,
   duration |-> IF probe # Null /\ probe.duration # Null THEN probe.duration ELSE uploaded,
   fps |-> IF probe = Null THEN Null ELSE probe.fps,
   size |-> IF probe = Null THEN Null ELSE probe.size,
   hasAudio |-> IF probe = Null THEN Null ELSE probe.hasAudio]

ManifestComplete(m) == m.probed /\ Null \notin {m.duration, m.fps, m.size, m.hasAudio}

-----------------------------------------------------------------------------
(* Scores and ratings.                                                     *)

\* Tenths of a point of the anchors a, counted in halves, rounded half up.
Total(a) ==
  (10 * (20 * a["opening_hook"] + 20 * a["selling_point"] + 15 * a["structure"]
         + 15 * a["visual_quality"] + 10 * a["pacing"] + 10 * a["subtitle_audio"]
         + 5 * a["platform_fit"] + 5 * a["action_logic"]) + 4) \div 8

Ratings == <<"D", "C", "B-", "B", "A", "A+">>
Level(r) == CHOOSE l \in 1 .. 6 : Ratings[l] = r

RatingOf(score) ==
  CASE score >= 900 -> "A+" [] score \in 820 .. 899 -> "A" [] score \in 740 .. 819 -> "B"
    [] score \in 680 .. 739 -> "B-" [] score \in 600 .. 679 -> "C" [] OTHER -> "D"

Dim(o, d) == o.dimensions[CHOOSE i \in 1 .. 8 : o.dimensions[i].dimension = d]

\* calculateV11ContentScore: only an answer without unknown dimensions has a
\* total.
Complete(o) == \A i \in 1 .. 8 : o.dimensions[i].status = "observed"

\* What a fact is said to be: a claim that is missing counts as uncertain.
Said(d, key) ==
  IF \E c \in DOMAIN d.claims : d.claims[c].key = key
    THEN d.claims[CHOOSE c \in DOMAIN d.claims : d.claims[c].key = key].state
    ELSE "uncertain"

\* The run as the review engine reads it, from a complete answer.
RunOf(o) ==
  LET anchors == [d \in Dimensions |-> 2 * Dim(o, d).anchor] IN
  [anchors |-> anchors, score |-> Total(anchors), rating |-> RatingOf(Total(anchors)),
   states |-> [f \in Facts |-> Said(Dim(o, f[1]), f[2])], compliance |-> o.compliance]

-----------------------------------------------------------------------------
(* What several runs have in common.                                       *)

AtLeastTwo(S) == \E i, j \in S : i # j
Saying(R, f, state) == {r \in DOMAIN R : R[r].states[f] = state}

SoftFacts == {<<"action_logic", "action_cue_present">>}
Contradicted(R) == {f \in Facts : \A s \in Definite : Saying(R, f, s) # {}}

FactsAgree(R) ==
  \A d \in Dimensions : \E k \in FactKeys[d], s \in Definite : AtLeastTwo(Saying(R, <<d, k>>, s))

SoftMajority(R) ==
  \A f \in Contradicted(R) \cap SoftFacts : \E s \in Definite : AtLeastTwo(Saying(R, f, s))

ComplianceConflict(R) ==
  \E i, j \in DOMAIN R : R[i].compliance = "clear" /\ R[j].compliance = "confirmed"

ScoresApart(R) == \E i, j \in DOMAIN R : R[i].score - R[j].score > 100
RatingsApart(R) == \E i, j \in DOMAIN R : Level(R[i].rating) - Level(R[j].rating) >= 2

\* The disagreements that no further run can settle.
Irreconcilable(R) ==
  \/ ScoresApart(R) \/ RatingsApart(R)
  \/ Contradicted(R) \ SoftFacts # {} \/ ComplianceConflict(R)

-----------------------------------------------------------------------------
(* The decisions.                                                          *)

Hold == [action |-> "hold", anchors |-> Null, score |-> Null, rating |-> Null]
Further == [Hold EXCEPT !.action = "further_run"]
Adopt(anchors) ==
  [action |-> "adopt", anchors |-> anchors, score |-> Total(anchors), rating |-> RatingOf(Total(anchors))]

Mean(R) == [d \in Dimensions |-> (R[1].anchors[d] + R[2].anchors[d]) \div 2]

\* Wrong variant: two runs agree although their ratings differ.
AgreeingScores(R) ==
  /\ R[1].score - R[2].score \in -50 .. 50
  /\ \A d \in Dimensions : R[1].anchors[d] - R[2].anchors[d] \in -2 .. 2
  /\ FactsAgree(R)

\* Two runs that need no third one.
Agreeing(R) ==
  /\ R[1].rating = R[2].rating
  /\ R[1].score - R[2].score \in -50 .. 50
  /\ \A d \in Dimensions : R[1].anchors[d] - R[2].anchors[d] \in -2 .. 2
  /\ FactsAgree(R)

Holding(R, d, a) == {r \in DOMAIN R : R[r].anchors[d] = a}
Twice(R, d) == \E r \in DOMAIN R : AtLeastTwo(Holding(R, d, R[r].anchors[d]))

\* The median of three anchors of which two are equal is the one held twice.
Median(R) ==
  [d \in Dimensions |->
     LET r == CHOOSE r \in DOMAIN R : AtLeastTwo(Holding(R, d, R[r].anchors[d]))
     IN  R[r].anchors[d]]

Rated(R, rating) == {r \in DOMAIN R : R[r].rating = rating}

DecideDouble(R) ==
  IF Contradicted(R) \cap SoftFacts # {} \/ ~Agreeing(R) THEN Further ELSE Adopt(Mean(R))

\* The rating of the medians has to be the one that two of the runs have.
DecideTriple(R) ==
  IF /\ SoftMajority(R) /\ FactsAgree(R) /\ \A d \in Dimensions : Twice(R, d)
     /\ AtLeastTwo(Rated(R, Adopt(Median(R)).rating))
    THEN Adopt(Median(R)) ELSE Hold

\* decideReviewProgress, for two or three runs.
Decide(R) ==
  IF Irreconcilable(R) THEN Hold
  ELSE IF Len(R) = 2 THEN DecideDouble(R) ELSE DecideTriple(R)

\* detectFirstRunFactualContradiction: what the run hears is not what ffprobe
\* found.  One run alone cannot contradict itself, its claims having one key
\* each.
AudioContradicted(run, m) ==
  /\ m.hasAudio # Null
  /\ run.states[<<"subtitle_audio", "audio_present">>] = IF m.hasAudio THEN "absent" ELSE "present"

Near(score, boundary) == score - boundary \in -20 .. 20

Boundaries == {600, 680, 740, 820, 900}

\* requiresIndependentReview; history is the score of a comparable earlier
\* decision, sampled is true for one fingerprint in ten.
NeedsReview(run, m, pilots, appeal, history, sampled) ==
  \/ pilots < 50 \/ run.rating = "A+" \/ appeal \/ AudioContradicted(run, m)
  \/ \E boundary \in Boundaries : Near(run.score, boundary)
  \/ history # Null /\ run.score - history \notin -50 .. 50
  \/ sampled

DecideFirst(run, m, pilots, appeal, history, sampled) ==
  IF NeedsReview(run, m, pilots, appeal, history, sampled) THEN Further ELSE Adopt(run.anchors)

-----------------------------------------------------------------------------
(* What is shown of an adopted decision.                                   *)

Distance(a, b) == IF a >= b THEN a - b ELSE b - a

Sources(R, v, d) == {r \in DOMAIN R : \A q \in DOMAIN R :
  Distance(R[r].anchors[d], v.anchors[d]) <= Distance(R[q].anchors[d], v.anchors[d])}

\* buildAdoptedContentDiagnostics quotes, for each dimension, the run that is
\* nearest to the adopted anchor, then to the adopted score, then the first.
Representative(R, v, d) ==
  CHOOSE r \in Sources(R, v, d) : \A q \in Sources(R, v, d) :
    LET near == Distance(R[r].score, v.score)
        other == Distance(R[q].score, v.score)
    IN  near < other \/ (near = other /\ r <= q)
=============================================================================
