---------------------------- MODULE VideoActions ----------------------------
(***************************************************************************)
(* The actions that a video's detail offers: detail of videos.service.ts   *)
(* gathers what it needs from the newest rows, and allowedVideoActions of  *)
(* video-actions.ts decides.  The page shows a button for each of them.    *)
(*                                                                         *)
(* Who asks is an administrator, a content owner or somebody of another    *)
(* role, and created the video or not.  What is offered is computed from   *)
(* other conditions than what the handlers and permissions.service.ts      *)
(* check.  No revision of the video has been uploaded yet.                 *)
(***************************************************************************)
EXTENDS VideoPipeline

-----------------------------------------------------------------------------
(* Who asks.                                                               *)

\* UserRole, as far as a permission tells roles apart, and creatorId.
People == [role : {"admin", "content_owner", "other"}, own : BOOLEAN]

\* canManageResultData
CanManageResultData(p) == p.role = "admin" \/ p.own

\* assertCanAccessVideo, without which there is no detail.
CanAccess(p) == p.role = "admin" \/ (p.own /\ active)

\* assertCanUploadRevision, assertCanSubmitResultMetrics; those of the result
\* evaluation, the rule engine and the final evaluation ask the same.
CanAct(p) == StillActive /\ CanManageResultData(p)

\* assertCanConfirmFinalEvaluation, assertCanMarkCase
CanConclude(p) == StillActive /\ (p.role = "admin" \/ (p.own /\ p.role = "content_owner"))

-----------------------------------------------------------------------------
(* What is offered.                                                        *)

\* The newest row of s has the status given.
Newest(s, st) == Len(s) > 0 /\ Latest(s).status = st

\* A content decision is in force in a revision opened as a formal one, which that
\* of an appeal is not; there is what the rule engine needs.
FormalDecision == flow.content # 0 /\ flow.mode = "formal"
OldSources == supervised

\* What detail tells allowedVideoActions: of every kind of row the newest counts.
Evidence ==
  [hasMetric |-> metrics > 0,
   reviewRunning |-> Newest(reviews, "running"),
   reviewCurrent |-> Newest(reviews, "succeeded") /\ Latest(reviews).metric = metrics,
   reviewSucceeded |-> Newest(reviews, "succeeded"),
   formal |-> FormalDecision,
   oldSources |-> OldSources,
   ruleCurrent |-> Len(rules) > 0 /\ Latest(rules).review = Len(reviews),
   ruleSufficient |-> Len(rules) > 0 /\ Latest(rules).sufficient,
   finalRunning |-> Newest(finals, "running"),
   finalCurrent |-> Newest(finals, "succeeded") /\ Latest(finals).rule = Len(rules),
   finalSucceeded |-> Newest(finals, "succeeded"),
   confirmed |-> Len(finals) > 0 /\ Latest(finals).grade # "none"]

OffersContent == status \in {"submitted", "ai_content_failed"}

OffersUpload == status = "revision_required"

OffersSubmit ==
  status \in {"approved_for_publish", "pending_supervisor_review", "pending_result_data",
             "ai_result_failed", "pending_data"}

OffersReview ==
  /\ status \in {"pending_result_data", "ai_result_failed"}
  /\ Evidence.hasMetric /\ ~Evidence.reviewRunning /\ ~Evidence.reviewCurrent

OffersRules ==
  /\ status = "pending_rule_engine" /\ Evidence.reviewSucceeded /\ ~Evidence.ruleCurrent
  /\ Evidence.formal => Evidence.oldSources

OffersFinal ==
  /\ status \in {"pending_final_evaluation", "final_evaluation_failed"}
  /\ Evidence.ruleSufficient /\ ~Evidence.finalRunning /\ ~Evidence.finalCurrent

OffersConfirm ==
  status = "pending_final_confirmation" /\ Evidence.finalSucceeded /\ ~Evidence.confirmed

OffersMark == status \in {FinalStatus[g] : g \in Grades} /\ Evidence.confirmed

\* allowedVideoActions, as far as they lead on.  The detail is refused to who may
\* not see the video, and nothing is offered on a hidden one.
Offered(p) ==
  LET manager == p.role = "admin" \/ p.own
      owner   == p.role = "admin" \/ (p.own /\ p.role = "content_owner")
  IN
  {a \in {"content", "upload", "submit", "review", "rules", "final", "confirm", "mark"} :
     /\ CanAccess(p) /\ active
     /\ CASE a = "content" -> manager /\ OffersContent
          [] a = "upload" -> manager /\ OffersUpload
          [] a = "submit" -> CanManageResultData(p) /\ OffersSubmit
          [] a = "review" -> CanManageResultData(p) /\ OffersReview
          [] a = "rules" -> manager /\ OffersRules
          [] a = "final" -> manager /\ OffersFinal
          [] a = "confirm" -> owner /\ OffersConfirm
          [] a = "mark" -> owner /\ OffersMark}

-----------------------------------------------------------------------------
(* What is accepted.                                                       *)

\* triggerInternal, where the policy has formal evaluation on and no evaluation of
\* the same fingerprint is found: no job of the stage, and a formal revision without
\* a decision is held by nothing but disagreement.
CanTriggerContent(p) ==
  /\ StillActive /\ CanManageResultData(p)
  /\ flow.job = "none" /\ ~Blocked

\* hasRevisionRequiredDecision: of the current revision; the supervisor's
\* decision of this video is an approval.
RevisionRequired == flow.gate = "revision_required"

CanUpload(p) == CanAct(p) /\ status = "revision_required" /\ RevisionRequired

\* What the handlers accept of p.
Accepted(p) ==
  {a \in {"content", "upload", "submit", "review", "rules", "final", "confirm", "mark"} :
     CASE a = "content" -> CanTriggerContent(p) [] a = "upload" -> CanUpload(p)
       [] a = "submit" -> CanAct(p) /\ CanSubmit [] a = "review" -> CanAct(p) /\ CanReview
       [] a = "rules" -> CanAct(p) /\ CanExecute [] a = "final" -> CanAct(p) /\ CanEvaluate
       [] a = "confirm" -> CanConclude(p) /\ \E f \in DOMAIN finals : CanConfirm(f)
       [] a = "mark" -> CanConclude(p) /\ \E f \in DOMAIN finals : CanMark(f)}

=============================================================================
