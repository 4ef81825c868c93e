--------------------------- MODULE VideoPipeline ---------------------------
(***************************************************************************)
(* One video from its approved content to a final status, the way that     *)
(* needs a supervisor's approval: result metrics, result evaluation, rule  *)
(* engine, final evaluation, final confirmation, cases, and hiding.        *)
(*                                                                         *)
(* Supervisor reviews are no longer written (supervisor-reviews.service.ts *)
(* refuses every one), so only a video that already has one goes all the   *)
(* way; V11Ratings adds the way of the other videos, and both write the    *)
(* same status column.                                                     *)
(*                                                                         *)
(* Every action is one transaction under the lock of the video's row.  The *)
(* content stage is reduced to what V11Content shows of it, a job to its   *)
(* evaluation, which EvaluationJobs shows to end with it.                  *)
(***************************************************************************)
EXTENDS Naturals, Sequences, FiniteSets

CONSTANTS
  MaxMetrics,    \* bound: metric snapshots
  MaxReviews,    \* bound: result evaluations
  MaxFinals,     \* bound: final evaluations
  MaxRevisions,  \* bound: workflow revisions
  MaxContents,   \* bound: adopted content decisions
  MaxHolds       \* bound: holds of one revision at a time

ASSUME PipelineAssumption ==
  {MaxMetrics, MaxReviews, MaxFinals, MaxRevisions, MaxContents, MaxHolds} \subseteq Nat

VARIABLES
  status,      \* videos.status
  active,      \* record_state is active, not hidden or trashed
  supervised,  \* an approving review and an old content review exist
  metrics,     \* number of video_result_metrics, the newest is the last
  reviews,     \* ai_result_reviews: [metric, status, sufficient]
  rules,       \* rule_engine_results: [review, sufficient]
  finals,      \* final_video_evaluations: [rule, status, grade or none, case]
  flow         \* current v11_workflow_revision: its number, mode, adopted decision,
               \* gate, whether the content is clear, active holds; and the stage's job

pipelineVars == <<status, active, supervised, metrics, reviews, rules, finals, flow>>

Grades == {"effective", "low_effective", "invalid"}
FinalStatus == [effective |-> "final_effective", low_effective |-> "final_low_effective",
                invalid |-> "final_invalid"]

\* An old video: no revision, whatever the other fields say.
NoWorkflow == [rev |-> 0, mode |-> "unset", content |-> 0, adopted |-> 0, gate |-> "none",
               clear |-> TRUE, hold |-> {}, job |-> "none"]

PipelineInit ==
  /\ \E i \in {<<"submitted", FALSE>>, <<"pending_supervisor_review", FALSE>>,
               <<"approved_for_publish", TRUE>>} : status = i[1] /\ supervised = i[2]
  /\ active = TRUE /\ metrics = 0
  /\ reviews = <<>> /\ rules = <<>> /\ finals = <<>>
  /\ flow = NoWorkflow

-----------------------------------------------------------------------------
(* What the transactions read.                                             *)

\* assertDataStageOpen: a video without a workflow is an old one.
DataStageOpen ==
  flow.rev = 0 \/ (flow.hold = {} /\ flow.content # 0 /\ flow.gate = "approved" /\ flow.clear)

Latest(s) == s[Len(s)]
Running(s) == Len(s) > 0 /\ Latest(s).status = "running"

\* Wrong variant: new metrics leave the sources in force.
SourcesCurrentStale(r) ==
  /\ supervised /\ r = Len(rules) /\ rules[r].sufficient
  /\ rules[r].review = Len(reviews) /\ Latest(reviews).status = "succeeded"

\* assertSources: the rule result, and what it was made from, is the newest of
\* each.
SourcesCurrent(r) ==
  /\ supervised /\ r = Len(rules) /\ rules[r].sufficient
  /\ rules[r].review = Len(reviews) /\ Latest(reviews).status = "succeeded"
  /\ Latest(reviews).metric = metrics

\* assertVideoActive, repeated under the lock.
StillActive == active

\* Wrong variant: running evaluations do not keep a video from being hidden.
QuietContentOnly == flow.job = "none"

\* manageRecordState: no job of any stage is active.
Quiet == ~Running(reviews) /\ ~Running(finals) /\ flow.job = "none"

-----------------------------------------------------------------------------
(* Metrics and the result evaluation.                                      *)

CanSubmit ==
  /\ StillActive /\ DataStageOpen
  /\ status \in {"approved_for_publish", "pending_supervisor_review", "pending_result_data",
                 "ai_result_failed", "pending_data"}

SubmitMetrics ==
  /\ CanSubmit /\ metrics < MaxMetrics
  /\ metrics' = metrics + 1
  /\ status' = "pending_result_data"
  /\ UNCHANGED <<active, supervised, reviews, rules, finals, flow>>

CanReview ==
  /\ StillActive /\ DataStageOpen /\ ~Running(reviews)
  /\ status \in {"pending_result_data", "ai_result_failed"} /\ metrics > 0
  /\ \A r \in 1 .. Len(reviews) : ~(reviews[r].metric = metrics /\ reviews[r].status = "succeeded")

TriggerReview ==
  /\ CanReview /\ Len(reviews) < MaxReviews
  /\ reviews' = Append(reviews, [metric |-> metrics, status |-> "running", sufficient |-> FALSE])
  /\ status' = "ai_result_reviewing"
  /\ UNCHANGED <<active, supervised, metrics, rules, finals, flow>>

\* complete; the binding is checked again, and its loss is a failure.
CompleteReview(sufficient) ==
  /\ Running(reviews)
  /\ status = "ai_result_reviewing" /\ Latest(reviews).metric = metrics
  /\ reviews' = [reviews EXCEPT ![Len(reviews)].status = "succeeded",
                                ![Len(reviews)].sufficient = sufficient]
  /\ status' = "pending_rule_engine"
  /\ UNCHANGED <<active, supervised, metrics, rules, finals, flow>>

\* markFailed, or the queue gives the job up: the status moves only when it is
\* still the one of this stage.
FailReview ==
  /\ Running(reviews)
  /\ reviews' = [reviews EXCEPT ![Len(reviews)].status = "failed"]
  /\ status' = IF status = "ai_result_reviewing" THEN "ai_result_failed" ELSE status
  /\ UNCHANGED <<active, supervised, metrics, rules, finals, flow>>

-----------------------------------------------------------------------------
(* Rule engine, final evaluation, confirmation.                            *)

CanExecute ==
  /\ status = "pending_rule_engine" /\ supervised
  /\ Len(reviews) > 0 /\ Latest(reviews).status = "succeeded" /\ Latest(reviews).metric = metrics
  /\ \A r \in 1 .. Len(rules) : rules[r].review # Len(reviews)

\* execute reads the record's state before it takes the lock, so that the
\* video may have been hidden since.
ExecuteRules ==
  /\ CanExecute
  /\ rules' = Append(rules, [review |-> Len(reviews), sufficient |-> Latest(reviews).sufficient])
  /\ status' = IF Latest(reviews).sufficient THEN "pending_final_evaluation" ELSE "pending_data"
  /\ UNCHANGED <<active, supervised, metrics, reviews, finals, flow>>

CanEvaluate ==
  /\ StillActive /\ ~Running(finals)
  /\ status \in {"pending_final_evaluation", "final_evaluation_failed"}
  /\ Len(rules) > 0 /\ SourcesCurrent(Len(rules))
  /\ \A f \in 1 .. Len(finals) : ~(finals[f].rule = Len(rules) /\ finals[f].status = "succeeded")

TriggerFinal ==
  /\ CanEvaluate /\ Len(finals) < MaxFinals
  /\ finals' = Append(finals, [rule |-> Len(rules), status |-> "running",
                               grade |-> "none", case |-> FALSE])
  /\ status' = "pending_final_evaluation"
  /\ UNCHANGED <<active, supervised, metrics, reviews, rules, flow>>

CompleteFinal ==
  /\ Running(finals) /\ SourcesCurrent(Latest(finals).rule)
  /\ status = "pending_final_evaluation"
  /\ finals' = [finals EXCEPT ![Len(finals)].status = "succeeded"]
  /\ status' = "pending_final_confirmation"
  /\ UNCHANGED <<active, supervised, metrics, reviews, rules, flow>>

\* Wrong variant: a failed evaluation moves the status whatever it is by now.
FailFinalAlways ==
  /\ Running(finals)
  /\ finals' = [finals EXCEPT ![Len(finals)].status = "failed"]
  /\ status' = "final_evaluation_failed"
  /\ UNCHANGED <<active, supervised, metrics, reviews, rules, flow>>

FailFinal ==
  /\ Running(finals)
  /\ finals' = [finals EXCEPT ![Len(finals)].status = "failed"]
  /\ status' = IF status = "pending_final_evaluation" THEN "final_evaluation_failed" ELSE status
  /\ UNCHANGED <<active, supervised, metrics, reviews, rules, flow>>

\* The newest succeeded evaluation, not confirmed before.
Confirmable(f) ==
  /\ finals[f].status = "succeeded" /\ finals[f].grade = "none"
  /\ \A h \in 1 .. Len(finals) : finals[h].status = "succeeded" => h <= f

CanConfirm(f) ==
  /\ StillActive /\ status = "pending_final_confirmation"
  /\ Confirmable(f) /\ SourcesCurrent(finals[f].rule)

\* The grade lies within the boundary of the rule result, which allows each
\* grade in some case.
Confirm(f, g) ==
  /\ CanConfirm(f)
  /\ finals' = [finals EXCEPT ![f].grade = g]
  /\ status' = FinalStatus[g]
  /\ UNCHANGED <<active, supervised, metrics, reviews, rules, flow>>

\* The newest evaluation, whatever its status; a mark can be taken back.
CanMark(f) ==
  /\ StillActive /\ status \in {FinalStatus[g] : g \in Grades}
  /\ f = Len(finals) /\ finals[f].grade # "none"

MarkCase(f, case) ==
  /\ CanMark(f)
  /\ case => finals[f].grade # "low_effective"
  /\ finals' = [finals EXCEPT ![f].case = case]
  /\ UNCHANGED <<status, active, supervised, metrics, reviews, rules, flow>>

\* Hide, trash and restore; nothing else of the record moves.
SetRecordState(a) ==
  /\ active # a
  /\ ~a => Quiet
  /\ active' = a
  /\ UNCHANGED <<status, supervised, metrics, reviews, rules, finals, flow>>

-----------------------------------------------------------------------------
(* The V1.1 content stage, as V11Content shows it: fingerprints, groups and   *)
(* runs are left out.  A job is a formal evaluation's, an appeal's rerun or a *)
(* pilot's.                                                                *)

\* An adopted decision is a formal one; without it the snapshot of the revision
\* tells the mode, and an appeal's has none.
WorkflowMode == IF flow.content # 0 THEN "formal" ELSE flow.mode

\* A formal revision without a decision: disagreement of its runs alone may be
\* tried again, any other hold has to be resolved first.
Undecided == flow.rev > 0 /\ WorkflowMode = "formal" /\ flow.content = 0
Retryable == Undecided /\ flow.hold = {"evaluation_instability"}
Blocked == Undecided /\ flow.hold # {} /\ ~Retryable

OpensRevision(mode) ==
  \/ flow.rev = 0
  \/ WorkflowMode \notin {"unset", mode}
  \/ mode = "formal" /\ Retryable

\* The revision that supersedes the current one, with the holds placed on it.
NextRevision(mode, held) ==
  [flow EXCEPT !.rev = @ + 1, !.mode = mode, !.content = 0, !.gate = "none",
               !.clear = TRUE, !.hold = held]

RoomForHold(held) == Cardinality(held) < MaxHolds

\* What a trigger of the given mode leaves, before it enqueues.
Triggered(mode) == IF OpensRevision(mode) THEN NextRevision(mode, {}) ELSE flow

\* A formal evaluation is triggered.  The trigger answers with a group of the same
\* fingerprint if it finds one, and enqueues nothing then; the revision it has
\* opened stays.  Like ExecuteRules it checks the record's state before the lock.
TriggerContent(found) ==
  /\ ~Blocked
  /\ OpensRevision("formal") => flow.rev < MaxRevisions
  /\ IF found
     THEN flow' = Triggered("formal") /\ UNCHANGED status
     ELSE /\ flow.job = "none" /\ flow.adopted < MaxContents
          /\ flow' = [Triggered("formal") EXCEPT !.job = "formal"]
          /\ status' = "ai_content_reviewing"
  /\ UNCHANGED <<active, supervised, metrics, reviews, rules, finals>>

\* A pilot supersedes a formal revision, whatever has come of it; the status stays.
TriggerPilot ==
  /\ flow.job = "none"
  /\ OpensRevision("shadow") => flow.rev < MaxRevisions
  /\ flow' = [Triggered("shadow") EXCEPT !.job = "pilot"]
  /\ UNCHANGED <<status, active, supervised, metrics, reviews, rules, finals>>

\* An appeal opens a revision that it holds; the status stays.
Appeal ==
  /\ flow.job = "none" /\ flow.content # 0 /\ StillActive
  /\ flow.rev < MaxRevisions /\ flow.adopted < MaxContents
  /\ flow' = [NextRevision("unset", {"appeal"}) EXCEPT !.job = "rerun"]
  /\ UNCHANGED <<status, active, supervised, metrics, reviews, rules, finals>>

\* resolveAppeal, which resolves or rejects it: the hold goes, the rerun goes on,
\* and the revision is left as it is.
ResolveAppeal ==
  /\ StillActive /\ "appeal" \in flow.hold
  /\ flow' = [flow EXCEPT !.hold = @ \ {"appeal"}]
  /\ UNCHANGED <<status, active, supervised, metrics, reviews, rules, finals>>

\* The run fails, or the queue gives it up and leaves the status.  A pilot ends
\* without a trace here, whatever comes of it.
FailContent ==
  /\ flow.job # "none"
  /\ flow' = [flow EXCEPT !.job = "none"]
  /\ status' \in IF flow.job = "pilot" THEN {status} ELSE {status, "ai_content_failed"}
  /\ UNCHANGED <<active, supervised, metrics, reviews, rules, finals>>

\* The runs disagree or the input is incomplete.  A second active hold of a type
\* is refused, and the run fails.
HoldContent(type) ==
  /\ flow.job \in {"formal", "rerun"} /\ type \notin flow.hold /\ RoomForHold(flow.hold)
  /\ flow' = [flow EXCEPT !.hold = @ \cup {type}, !.job = "none"]
  /\ status' = "ai_content_failed"
  /\ UNCHANGED <<active, supervised, metrics, reviews, rules, finals>>

GateStatus == [approved |-> "approved_for_publish", revision_required |-> "revision_required",
               hold |-> "ai_content_failed"]

\* Wrong variant: a conclusion that was reached stays in the status.
ContentStatusUnlessFinal(gate) ==
  IF gate = "none" \/ status \in {FinalStatus[g] : g \in Grades} THEN status ELSE GateStatus[gate]

ContentStatus(gate) == IF gate = "none" THEN status ELSE GateStatus[gate]

\* A decision is adopted; a rerun's ends the appeal that asked for it.  A hold of
\* any other kind keeps the gate from deciding, unless the content is flagged.  A
\* gate decides once in a revision, and flagged content is held once.
AdoptContent(verdict) ==
  LET held == IF flow.job = "rerun" THEN flow.hold \ {"appeal"} ELSE flow.hold
      gate == CASE verdict = "flagged" -> "hold"
                [] verdict # "flagged" /\ held # {} -> "none"
                [] verdict = "passed" /\ held = {} -> "approved"
                [] verdict = "revise" /\ held = {} -> "revision_required"
  IN
  /\ flow.job \in {"formal", "rerun"}
  /\ gate # "none" => flow.gate = "none"
  /\ gate = "hold" => "compliance" \notin held /\ RoomForHold(held)
  /\ flow' = [flow EXCEPT !.content = flow.adopted + 1, !.adopted = @ + 1, !.job = "none",
                          !.gate = IF gate = "none" THEN @ ELSE gate,
                          !.clear = verdict # "flagged",
                          !.hold = IF gate = "hold" THEN held \cup {"compliance"} ELSE held]
  /\ status' = ContentStatus(gate)
  /\ UNCHANGED <<active, supervised, metrics, reviews, rules, finals>>

\* hold: one of this kind at a time, whatever else holds the revision.
ManualHold ==
  /\ StillActive /\ flow.rev > 0 /\ "manual" \notin flow.hold /\ RoomForHold(flow.hold)
  /\ flow' = [flow EXCEPT !.hold = @ \cup {"manual"}]
  /\ UNCHANGED <<status, active, supervised, metrics, reviews, rules, finals>>

\* resume: any other hold has to be resolved first.
Resume ==
  /\ StillActive /\ flow.rev > 0 /\ flow.hold = {"manual"}
  /\ flow' = [flow EXCEPT !.hold = {}]
  /\ UNCHANGED <<status, active, supervised, metrics, reviews, rules, finals>>

-----------------------------------------------------------------------------
PipelineNext ==
  \/ SubmitMetrics \/ TriggerReview \/ FailReview \/ \E s \in BOOLEAN : CompleteReview(s)
  \/ ExecuteRules \/ TriggerFinal \/ CompleteFinal \/ FailFinal
  \/ \E f \in 1 .. Len(finals) : \/ \E g \in Grades : Confirm(f, g)
                                 \/ \E c \in BOOLEAN : MarkCase(f, c)
  \/ \E b \in BOOLEAN : SetRecordState(b) \/ TriggerContent(b)
  \/ TriggerPilot \/ Appeal \/ ResolveAppeal \/ ManualHold \/ Resume \/ FailContent
  \/ \E t \in {"input_incomplete", "evaluation_instability"} : HoldContent(t)
  \/ \E v \in {"passed", "revise", "flagged"} : AdoptContent(v)

-----------------------------------------------------------------------------
(* Properties.                                                             *)

\* docs/V1.01-用户与管理员说明.md:23: a confirmed record cannot be changed, and
\* a suggestion whose sources moved on cannot be confirmed.  Every confirmation
\* is of the newest evaluation, made from the newest of all its sources, and
\* its grade stays.
ConfirmedOnCurrentSources ==
  [][\A f \in DOMAIN finals : finals'[f].grade # finals[f].grade =>
       /\ finals[f].grade = "none"
       /\ \A h \in DOMAIN finals : finals[h].status = "succeeded" => h <= f
       /\ reviews[rules[finals[f].rule].review].metric = metrics
       /\ finals[f].rule = Len(rules)]_finals

\* A hidden or trashed video has no result or final evaluation in progress:
\* hiding waits for jobs, and jobs are not opened on a hidden video, whichever
\* of the two requests comes first.  (A content trigger checks too early.)
HiddenIsQuiet == ~active => ~Running(reviews) /\ ~Running(finals)

-----------------------------------------------------------------------------
(* The rows, as the proofs in PipelineProofs and BrowserProofs see them.   *)

Runs == {"running", "succeeded", "failed"}

ReviewRows == [metric : Nat, status : Runs, sufficient : BOOLEAN]
RuleRows == [review : Nat, sufficient : BOOLEAN]
FinalRows == [rule : Nat, status : Runs, grade : Grades \cup {"none"}, case : BOOLEAN]
=============================================================================
