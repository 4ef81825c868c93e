---------------------------- MODULE MCAssessment ----------------------------
(* Samples of what the engines read, for TLC.                              *)
EXTENDS Assessment

Order == <<"opening_hook", "selling_point", "structure", "visual_quality",
           "pacing", "subtitle_audio", "platform_fit", "action_logic">>
Keys ==
  [opening_hook |-> <<"hook_present", "topic_clear_in_opening">>,
   selling_point |-> <<"core_subject_identifiable", "selling_point_present">>,
   structure |-> <<"mainline_coherent", "closing_present">>,
   visual_quality |-> <<"key_subject_visible">>, pacing |-> <<"critical_pacing_issue_present">>,
   subtitle_audio |-> <<"audio_present", "subtitle_present">>,
   platform_fit |-> <<"declared_platform_fit">>, action_logic |-> <<"action_cue_present">>]

Second == [start |-> 1, end |-> 2]

\* An answer with the anchors a, whose claims are present but for those in said.
Answer(a, said, compliance) ==
  [dimensions |-> [i \in 1 .. 8 |->
     [dimension |-> Order[i], status |-> "observed", anchor |-> a[Order[i]], evidence |-> {Second},
      claims |-> [k \in DOMAIN Keys[Order[i]] |->
        [key |-> Keys[Order[i]][k],
         state |-> IF Keys[Order[i]][k] \in DOMAIN said THEN said[Keys[Order[i]][k]] ELSE "present"]]]],
   compliance |-> compliance]

All(n) == [d \in {Order[i] : i \in 1 .. 8} |-> n]
Plain == [k \in {} |-> "present"]
NoCue == [action_cue_present |-> "absent"]

\* Anchors around the rating boundaries: all 3 is a B of 75.0.
Profiles ==
  << All(2), All(3), [All(3) EXCEPT !.opening_hook = 4], [All(3) EXCEPT !.selling_point = 4],
     [All(3) EXCEPT !.structure = 2], [All(3) EXCEPT !.selling_point = 1],
     [All(3) EXCEPT !.opening_hook = 4, !.selling_point = 4],
     [All(3) EXCEPT !.opening_hook = 4, !.visual_quality = 4],
     [All(3) EXCEPT !.opening_hook = 4, !.action_logic = 4] >>

Sample ==
  [n \in DOMAIN Profiles |-> Answer(Profiles[n], Plain, "clear")] \o
  << Answer(All(3), NoCue, "clear"), Answer(All(3), NoCue, "suspected"),
     Answer(All(3), [hook_present |-> "absent"], "clear"), Answer(All(3), Plain, "confirmed"),
     Answer(All(3), [declared_platform_fit |-> "uncertain"], "clear"),
     Answer([All(3) EXCEPT !.opening_hook = 4], NoCue, "clear"),
     \* not valid, or without a score
     Answer([All(3) EXCEPT !.pacing = 5], Plain, "clear"),
     [Answer(All(3), Plain, "clear") EXCEPT !.dimensions[2].dimension = "opening_hook"],
     [Answer(All(3), Plain, "clear") EXCEPT !.dimensions[1].status = "unknown",
                                              !.dimensions[1].anchor = Null] >>

Examined == [probed |-> TRUE, duration |-> 30, fps |-> 25, size |-> 1, hasAudio |-> TRUE]

\* A new rubric, a rubric with enough pilots, and a file without a duration.
MCContexts ==
  { [manifest |-> Examined, pilots |-> 0, appeal |-> FALSE, history |-> Null, sampled |-> FALSE],
    [manifest |-> Examined, pilots |-> 50, appeal |-> FALSE, history |-> 780, sampled |-> FALSE],
    [manifest |-> Manifest(Null, Null), pilots |-> 50, appeal |-> FALSE, history |-> Null, sampled |-> FALSE] }

MCFigures ==
  { [roi |-> r, sample |-> n, rate |-> g, start |-> 1, end |-> e] :
      r \in {Null, 5, 20, 30, 45, 60, 70}, n \in {100, 1000}, g \in {Null, 1, 9}, e \in {Null, 3} }

Profile(direction, values, guards) ==
  [ primary |-> "roi", required |-> {"roi"}, sampleMetric |-> "sample", sample |-> 1000, days |-> 3,
    thresholds |-> [direction |-> direction, values |-> values], guards |-> guards ]

MCBenchmarks ==
  { Profile("higher_better", <<60, 50, 40, 30, 20, 10>>,
      <<[metric |-> "rate", operator |-> "lt", value |-> 5, cap |-> "B"],
        [metric |-> "rate", operator |-> "lte", value |-> 1, cap |-> "C"]>>),
    Profile("lower_better", <<10, 20, 30, 40, 50, 60>>,
      <<[metric |-> "rate", operator |-> "gte", value |-> 9, cap |-> "B-"]>>),
    [Profile("higher_better", Null, <<>>) EXCEPT !.thresholds = Null] }

OldScores(n, shown) ==
  LET order == <<"hook", "product_exposure", "selling_points", "visual_quality", "composition",
                 "camera_language", "pacing", "subtitle_clarity", "voiceover_clarity", "bgm_fit",
                 "platform_fit", "purpose_fit">>
  IN  [i \in 1 .. 12 |-> [dimension |-> order[i], rating |-> IF i = 2 THEN shown ELSE n]]

MCOldAnswers ==
  { [scores |-> OldScores(n, shown), risks |-> risks, type |-> type] :
      n \in {2, 4, 5}, shown \in {0, 5, 6}, risks \in {{}, {"high", "low"}}, type \in {"organic", "product_card"} }

Judged(score, grade) ==
  [ sufficiency |-> "sufficient", score |-> score, grade |-> grade, effective |-> score >= 70,
    reasons |-> {}, attributions |-> {"content"}, next |-> "continue" ]

MCReviews ==
  { Judged(95, "S"), Judged(89, "S"), Judged(75, "B"), Judged(60, "C"),
    [ sufficiency |-> "insufficient", score |-> Null, grade |-> Null, effective |-> Null,
      reasons |-> {"sample_too_small"}, attributions |-> {"sample_size"}, next |-> "collect_more_data" ] }

MCSuggestions ==
  { [ grade |-> g, status |-> "final_" \o g, effective |-> e, explained |-> x, claimsConfirmed |-> FALSE,
      sources |-> {"content_review", "result_review", "rule_engine"}, risks |-> {"boundary_sensitive"} ] :
      g \in {"effective", "low_effective", "invalid"}, e \in BOOLEAN, x \in BOOLEAN }
=============================================================================
