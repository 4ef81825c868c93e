------------------------------ MODULE Reports ------------------------------
(***************************************************************************)
(* What is read off the pipeline: the list of videos, the figures of the   *)
(* dashboard and the two case libraries.  Each decides for itself, with a  *)
(* query of its own, which rows of a video count.                          *)
(*                                                                         *)
(* The video is not a trial; what narrows a query further (brand, period,  *)
(* page) selects among videos and is left out.                             *)
(***************************************************************************)
EXTENDS V11Ratings

-----------------------------------------------------------------------------
(* The list of videos.                                                     *)

BusinessStatuses ==
  [ pending      |-> {"submitted", "pending_supervisor_review", "approved_for_publish"},
    processing   |-> {"ai_content_reviewing", "ai_result_reviewing", "pending_rule_engine",
                      "pending_final_evaluation"},
    waiting_data |-> {"pending_result_data", "pending_data"},
    completed    |-> {FinalStatus[g] : g \in Grades},
    exception    |-> {"ai_content_failed", "ai_result_failed", "final_evaluation_failed",
                      "revision_required", "invalid_content"} ]

\* The list asked for one business status has the video.  Nobody sees what is
\* hidden, unless he is an administrator who asks for it.
InList(b) == active /\ status \in BusinessStatuses[b]

\* The decision whose comprehensive rating the list shows: the top one of the
\* current revision, none for an R.
Shown == {d \in DecisionsOf(flow.rev) : Previous(d) /\ decisions[d].grade # "R"}

-----------------------------------------------------------------------------
(* The dashboard.                                                          *)

\* filters, and the condition of every figure of the older way.
Finalized == IF active THEN {f \in DOMAIN finals : finals[f].grade # "none"} ELSE {}

\* breakdown, which adds up to the summary and to the trend: evaluations, so
\* that a video confirmed twice counts twice.
OldCount == [g \in Grades |-> Cardinality({f \in Finalized : finals[f].grade = g})]

\* latest of summary: of the current revision, unless it is held, the final
\* decision with the highest number.
LatestFinal ==
  IF flow.hold # {} THEN {}
  ELSE LET F == {d \in DecisionsOf(flow.rev) : decisions[d].final}
       IN  {d \in F : \A e \in F : decisions[e].no < decisions[d].no
                                   \/ (decisions[e].no = decisions[d].no /\ e <= d)}

\* The figures of the V1.1 way count a video at most once.
NewCount ==
  [g \in Grades |-> Cardinality({d \in LatestFinal : active /\ decisions[d].grade = g})]

-----------------------------------------------------------------------------
(* The case libraries.                                                     *)

\* list of cases.service.ts.
OldCases(kind) ==
  {f \in DOMAIN finals : active /\ finals[f].case /\ finals[f].grade = kind}

\* An administrator sees the V1.1 cases of hidden videos as well.
NewCases(kind, admin) ==
  {d \in DOMAIN decisions : Listed(d) /\ decisions[d].grade = kind /\ (admin \/ active)}

-----------------------------------------------------------------------------
(* Properties.                                                             *)

\* The list, the dashboard and the case libraries tell of the same conclusions: a
\* video in the list of completed ones is counted with the grade that its status
\* names, as long as its revision has passed the content gate and is not held (a
\* revision that an appeal, a pilot or a further trigger has opened leaves the status
\* to stand and counts nothing before it has passed); an example in a case library is
\* counted as one, even as the last one of its kind; and the rating that the list
\* shows is the one that the status names, as long as it rates the content in force.
\* (The rating of a replaced content, once resolved, hides that of the new one: it has
\* the higher decision revision.)
ReportsAgree ==
  /\ InList("completed") /\ flow.hold = {} /\ (flow.rev = 0 \/ flow.gate = "approved") =>
       \E g \in Grades : status = FinalStatus[g] /\ OldCount[g] + NewCount[g] > 0
  /\ \A kind \in {"effective", "invalid"} :
       /\ Cardinality(OldCases(kind)) <= OldCount[kind]
       /\ Cardinality(NewCases(kind, FALSE)) <= NewCount[kind]
  /\ InList("completed") /\ OldCount = [g \in Grades |-> 0] =>
       \A d \in Shown : decisions[d].content = flow.content => status = FinalStatus[decisions[d].grade]
=============================================================================
