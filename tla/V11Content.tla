----------------------------- MODULE V11Content -----------------------------
(***************************************************************************)
(* The V1.1 content evaluation of a video: v11-content.service.ts and      *)
(* v11-workflow.service.ts.                                                *)
(*                                                                         *)
(* A video has a sequence of workflow revisions, the last of which is      *)
(* current.  A trigger opens an evaluation group in the current revision;  *)
(* a group collects up to three blind runs, each executed by a queue job,  *)
(* until it is adopted, held or failed.  Appeals, manual holds and the     *)
(* change between formal and shadow (pilot) evaluation open, block or      *)
(* supersede revisions meanwhile.                                          *)
(*                                                                         *)
(* Every action is one transaction under the lock of the video's row.  The *)
(* queue is reduced to what EvaluationJobs shows of it: a job is claimed   *)
(* at most MaxAttempts times, a worker that lost its lease writes nothing, *)
(* and giving a job up ends its run.  The policy v11_content_shadow is     *)
(* read before the transaction and may change at any time, so a formal and *)
(* a pilot trigger are both always possible.                               *)
(***************************************************************************)
EXTENDS Naturals, Sequences, FiniteSets

CONSTANTS
  Videos,        \* videos of one owner, with the same file and metadata
  MaxEvents,     \* bound: groups opened and changes of the settings, together
  AttemptLimit   \* technical attempts of a group, 6 in the code

ASSUME ContentAssumption ==
  MaxEvents \in Nat /\ AttemptLimit \in Nat

VARIABLES
  revs,        \* revs[v]: v11_workflow_revisions, the last one is current
  groups,      \* v11_evaluation_groups with their decision
  runs,        \* v11_evaluation_runs with their queue job
  holds,       \* active v11_workflow_holds, unique by revision and type
  appeals,     \* active v11_appeals
  vstatus,     \* videos.status, as far as this stage writes it
  fingerprint  \* what the evaluation fingerprint of a new trigger will be

vars == <<revs, groups, runs, holds, appeals, vstatus, fingerprint>>

Modes == {"formal", "shadow", "unset"}
Verdicts == {"none", "passed", "revise", "flagged"}
LiveJob == {"queued", "claimed", "started", "called"}
OpenGroup == {"queued", "running", "review_required"}

GroupIds == 1 .. Len(groups)
RunIds == 1 .. Len(runs)
NewRevision(m) == [mode |-> m, decision |-> 0, gate |-> "none"]

\* The bound: settings change and groups are opened while there is room.
Room == Len(groups) + fingerprint <= MaxEvents

Init ==
  /\ revs = [v \in Videos |-> <<>>]
  /\ groups = <<>> /\ runs = <<>>
  /\ holds = {} /\ appeals = {}
  /\ vstatus = [v \in Videos |-> "submitted"]
  /\ fingerprint = 1

-----------------------------------------------------------------------------
(* What the transactions read.                                             *)

Current(v) == Len(revs[v])
Decision(v) == revs[v][Current(v)].decision
HoldTypes(v, k) == {h.type : h \in {x \in holds : x.video = v /\ x.rev = k}}
Appealed(v, k) == \E a \in appeals : a.video = v /\ a.rev = k
RunsOf(g) == {r \in RunIds : runs[r].group = g}
VideoOfRun(r) == groups[runs[r].group].video

\* The adopted decision says whether the workflow is formal; without one the
\* snapshot taken when the revision was opened does.
WorkflowMode(v) ==
  IF Decision(v) # 0
  THEN IF groups[Decision(v)].pilot THEN "shadow" ELSE "formal"
  ELSE revs[v][Current(v)].mode

\* A formal workflow that waits for a decision can be tried again, by a formal
\* trigger, when the only thing that holds it is disagreement between its runs.
Undecided(v) == Current(v) > 0 /\ WorkflowMode(v) = "formal" /\ Decision(v) = 0
RetryableInstability(v, mode) ==
  /\ mode = "formal" /\ Undecided(v)
  /\ HoldTypes(v, Current(v)) = {"evaluation_instability"}
  /\ ~Appealed(v, Current(v))
BlockedFormalRetry(v, mode) ==
  /\ mode = "formal" /\ Undecided(v)
  /\ HoldTypes(v, Current(v)) # {} \/ Appealed(v, Current(v))
  /\ ~RetryableInstability(v, mode)

\* Wrong variant: the enqueue does not look at the stage's other jobs.
NoActiveUnchecked(v) == TRUE

\* assertNoActive of the enqueue, for the stage v11_content of one video.
NoActive(v) == \A r \in RunIds : VideoOfRun(r) = v => runs[r].job \notin LiveJob

\* Wrong variant: a further run may be claimed once more than a first one.
JobAttemptsThree(g, n) == IF groups[g].pilot THEN 1 ELSE IF n = 1 THEN 2 ELSE 3

\* maxAttempts of the job of run n of group g.
JobAttempts(g, n) == IF groups[g].pilot THEN 1 ELSE 2

\* Wrong variant: the lease alone counts.
CurrentForRunLease(r) == runs[r].job \in LiveJob

\* assertCurrent: the run is open and its revision is the current one.
CurrentForRun(r) ==
  /\ runs[r].status \in {"pending", "running"}
  /\ groups[runs[r].group].rev = Current(VideoOfRun(r))

-----------------------------------------------------------------------------
(* Trigger.                                                                *)

\* Superseding revision k of v takes its open runs and the given groups along.
SupersededRuns(v, k) ==
  [r \in RunIds |->
     IF groups[runs[r].group].video = v /\ groups[runs[r].group].rev = k
        /\ runs[r].status \in {"pending", "running"}
     THEN [runs[r] EXCEPT !.status = "stale"] ELSE runs[r]]
SupersededGroups(v, k, S) ==
  [g \in GroupIds |->
     IF groups[g].video = v /\ groups[g].rev = k /\ groups[g].status \in S
     THEN [groups[g] EXCEPT !.status = "superseded"] ELSE groups[g]]

\* A revision of the other kind is superseded together with its open work,
\* whatever holds it.
Cutover(v, mode) == Current(v) > 0 /\ WorkflowMode(v) \notin {"unset", mode}

OpensRevision(v, mode) == Current(v) = 0 \/ Cutover(v, mode) \/ RetryableInstability(v, mode)

\* A formal evaluation with the same fingerprint that runs or was adopted.
Duplicates(gs, f) ==
  {g \in DOMAIN gs : /\ ~gs[g].pilot /\ gs[g].fp = f
                     /\ gs[g].status \in OpenGroup \cup {"adopted"}}

NewGroup(v, k, pilot, appeal, f) ==
  [video |-> v, rev |-> k, fp |-> f, pilot |-> pilot, appeal |-> appeal,
   verdict |-> "none", status |-> "queued", attempts |-> 0]
NewRun(g, n) ==
  [group |-> g, number |-> n, tries |-> 0, status |-> "pending",
   clear |-> TRUE, job |-> "queued"]

\* Only a pilot is a shadow evaluation: a formal trigger is refused while the
\* policy is in shadow mode.
TriggerMode(pilot) == IF pilot THEN "shadow" ELSE "formal"

\* A trigger may open or replace the revision and still answer with a group it
\* found; only a new group gets a job.
Trigger(v, pilot) ==
  LET mode  == TriggerMode(pilot)
      cut   == Cutover(v, mode)
      gs    == IF cut THEN SupersededGroups(v, Current(v), OpenGroup) ELSE groups
      rs    == IF cut THEN SupersededRuns(v, Current(v)) ELSE runs
      opens == OpensRevision(v, mode)
      k     == IF opens THEN Current(v) + 1 ELSE Current(v)
      dup   == IF pilot THEN {} ELSE Duplicates(gs, fingerprint)
  IN  /\ ~BlockedFormalRetry(v, mode)
      /\ revs' = IF opens THEN [revs EXCEPT ![v] = Append(@, NewRevision(mode))] ELSE revs
      /\ IF dup # {}
         THEN groups' = gs /\ runs' = rs /\ UNCHANGED vstatus
         ELSE /\ Room
              /\ NoActive(v)
              /\ groups' = Append(gs, NewGroup(v, k, pilot, FALSE, fingerprint))
              /\ runs' = Append(rs, NewRun(Len(groups) + 1, 1))
              /\ vstatus' = IF pilot THEN vstatus
                            ELSE [vstatus EXCEPT ![v] = "ai_content_reviewing"]
      /\ UNCHANGED <<holds, appeals, fingerprint>>

\* The settings of the model, or a version the fingerprint covers, change.
ChangeFingerprint ==
  /\ Room
  /\ fingerprint' = fingerprint + 1
  /\ UNCHANGED <<revs, groups, runs, holds, appeals, vstatus>>

-----------------------------------------------------------------------------
(* The worker.                                                             *)

\* One job runs at a time, whatever its video.
Claim(r) ==
  /\ runs[r].job = "queued"
  /\ \A q \in RunIds : runs[q].job \notin {"claimed", "started", "called"}
  /\ runs' = [runs EXCEPT ![r].job = "claimed", ![r].tries = @ + 1]
  /\ UNCHANGED <<revs, groups, holds, appeals, vstatus, fingerprint>>

\* The first transaction of executeJob.  When it refuses, nothing is settled
\* and the lease runs out (Expire).
Start(r) ==
  LET g == runs[r].group IN
  /\ runs[r].job = "claimed"
  /\ CurrentForRun(r)
  /\ groups[g].attempts < AttemptLimit
  /\ runs' = [runs EXCEPT ![r].job = "started", ![r].status = "running"]
  /\ groups' = [groups EXCEPT ![g].status = "running", ![g].attempts = @ + 1]
  /\ UNCHANGED <<revs, holds, appeals, vstatus, fingerprint>>

\* markExternalStarted, and the request leaves.
Call(r) ==
  /\ runs[r].job = "started"
  /\ CurrentForRun(r)
  /\ runs' = [runs EXCEPT ![r].job = "called"]
  /\ UNCHANGED <<revs, groups, holds, appeals, vstatus, fingerprint>>

\* The catch branch: the file changed, the call failed, the answer is invalid
\* or the transaction of the result was rolled back.
Fail(r) ==
  LET g == runs[r].group IN
  /\ runs[r].job \in {"started", "called"}
  /\ runs' = [runs EXCEPT ![r].job = "failed",
       ![r].status = IF @ \in {"pending", "running"} THEN "failed" ELSE @]
  /\ groups' = [groups EXCEPT
       ![g].status = IF @ \in {"queued", "running"} THEN "failed" ELSE @]
  /\ vstatus' = IF groups[g].pilot THEN vstatus
                ELSE [vstatus EXCEPT ![groups[g].video] = "ai_content_failed"]
  /\ UNCHANGED <<revs, holds, appeals, fingerprint>>

\* recoverExpired: the job waits again, or abandon ends it and its run.  The
\* video keeps its status.
Expire(r) ==
  LET g == runs[r].group
      over == runs[r].job = "called" \/ runs[r].tries >= JobAttempts(g, runs[r].number)
  IN
  /\ runs[r].job \in {"claimed", "started", "called"}
  /\ IF over
     THEN /\ runs' = [runs EXCEPT
               ![r].job = IF @ = "called" THEN "uncertain" ELSE "failed",
               ![r].status = IF @ \in {"pending", "running"} THEN "failed" ELSE @]
          /\ groups' = [groups EXCEPT
               ![g].status = IF @ \in {"queued", "running"} THEN "failed" ELSE @]
     ELSE /\ runs' = [runs EXCEPT ![r].job = "queued"]
          /\ UNCHANGED groups
  /\ UNCHANGED <<revs, holds, appeals, vstatus, fingerprint>>

-----------------------------------------------------------------------------
(* The transaction of a valid answer: one action for each way it ends.     *)

Answered(r) == runs[r].job = "called" /\ CurrentForRun(r)

Succeeded(r, clear) ==
  [runs EXCEPT ![r].job = "succeeded", ![r].status = "succeeded", ![r].clear = clear]

ValidRuns(g) == {r \in RunsOf(g) : runs[r].status = "succeeded"}

SettlePilot(r) ==
  /\ Answered(r) /\ groups[runs[r].group].pilot
  /\ runs' = Succeeded(r, TRUE)
  /\ groups' = [groups EXCEPT ![runs[r].group].status = "pilot_done"]
  /\ UNCHANGED <<revs, holds, appeals, vstatus, fingerprint>>

\* The unique index refuses a second active hold of one type in a revision;
\* then the transaction is rolled back and the run fails.
PlaceHold(g, type) ==
  LET h == [video |-> groups[g].video, rev |-> groups[g].rev, type |-> type, group |-> g]
  IN  type \notin HoldTypes(h.video, h.rev) /\ holds' = holds \cup {h}

\* The input is incomplete, or the runs disagree beyond what a further run
\* may settle.
SettleHold(r, type) ==
  LET g == runs[r].group IN
  /\ Answered(r) /\ ~groups[g].pilot
  /\ type = "evaluation_instability" => ValidRuns(g) # {}
  /\ PlaceHold(g, type)
  /\ runs' = Succeeded(r, TRUE)
  /\ groups' = [groups EXCEPT ![g].status = "hold"]
  /\ vstatus' = [vstatus EXCEPT ![groups[g].video] = "ai_content_failed"]
  /\ UNCHANGED <<revs, appeals, fingerprint>>

\* Wrong variant: the group is told before the further run is known to be
\* accepted, and stays so when the account's quota is used up.
SettleReviewUnqueued(r, clear, accepted) ==
  LET g == runs[r].group  n == Cardinality(ValidRuns(g)) + 1 IN
  /\ Answered(r) /\ ~groups[g].pilot /\ n < 3
  /\ runs' = IF accepted THEN Append(Succeeded(r, clear), NewRun(g, n + 1))
             ELSE Succeeded(r, clear)
  /\ groups' = [groups EXCEPT ![g].status = "review_required"]
  /\ UNCHANGED <<revs, holds, appeals, vstatus, fingerprint>>

\* A further blind run: the job is settled and its successor enqueued in one
\* transaction, which the quota or a disabled account rolls back as a whole.
SettleReview(r, clear, accepted) ==
  LET g == runs[r].group  n == Cardinality(ValidRuns(g)) + 1 IN
  /\ Answered(r) /\ ~groups[g].pilot /\ n < 3 /\ accepted
  /\ runs' = Append(Succeeded(r, clear), NewRun(g, n + 1))
  /\ groups' = [groups EXCEPT ![g].status = "review_required"]
  /\ UNCHANGED <<revs, holds, appeals, vstatus, fingerprint>>

\* The gate after an adoption, once the appeal that asked for it is resolved.
Gate(verdict, held) ==
  CASE verdict = "flagged" -> "hold"
    [] held -> "none"
    [] verdict = "passed" -> "approved"
    [] OTHER -> "revision_required"

\* The decision becomes the revision's active one.  A revision has one gate
\* decision for the stage: a second one is refused by the unique index.
SettleAdopt(r, clear, passed) ==
  LET g == runs[r].group
      v == groups[g].video
      k == groups[g].rev
      verdict == IF ~clear \/ \E q \in ValidRuns(g) : ~runs[q].clear THEN "flagged"
                 ELSE IF passed THEN "passed" ELSE "revise"
      resolved == IF groups[g].appeal
                  THEN {h \in holds : h.group = g /\ h.type = "appeal"} ELSE {}
      open  == IF groups[g].appeal THEN {a \in appeals : a.rerun # g} ELSE appeals
      held  == \/ \E h \in holds \ resolved : h.video = v /\ h.rev = k
               \/ \E a \in open : a.video = v /\ a.rev = k
      gate  == Gate(verdict, held)
  IN
  /\ Answered(r) /\ ~groups[g].pilot
  /\ groups[g].appeal => ValidRuns(g) # {}
  /\ gate # "none" => revs[v][k].gate = "none"
  /\ gate = "hold" => "compliance" \notin HoldTypes(v, k)
  /\ runs' = Succeeded(r, clear)
  /\ revs' = [revs EXCEPT ![v][k].decision = g,
                          ![v][k].gate = IF gate = "none" THEN @ ELSE gate]
  /\ groups' = [groups EXCEPT ![g].verdict = verdict,
                              ![g].status = IF gate = "hold" THEN "hold" ELSE "adopted"]
  /\ appeals' = open
  /\ holds' = (holds \ resolved) \cup
       (IF gate = "hold" THEN {[video |-> v, rev |-> k, type |-> "compliance", group |-> g]} ELSE {})
  /\ vstatus' = [vstatus EXCEPT ![v] =
       CASE gate = "approved" -> "approved_for_publish"
         [] gate = "revision_required" -> "revision_required"
         [] gate = "hold" -> "ai_content_failed"
         [] gate = "none" -> @]
  /\ UNCHANGED fingerprint

-----------------------------------------------------------------------------
(* v11-workflow.service.ts.                                                *)

\* An appeal against a decision of the current revision supersedes the
\* revision and queues a blind rerun of the same input.
Appeal(v, g) ==
  LET k == Current(v)
      n == Len(groups) + 1
  IN
  /\ Room
  /\ groups[g].video = v /\ groups[g].rev = k /\ groups[g].verdict # "none"
  /\ \A a \in appeals : a.result # g
  /\ NoActive(v)
  /\ revs' = [revs EXCEPT ![v] = Append(@, NewRevision("unset"))]
  /\ groups' = Append(SupersededGroups(v, k, OpenGroup \cup {"adopted"}),
                      NewGroup(v, k + 1, FALSE, TRUE, groups[g].fp))
  /\ runs' = Append(SupersededRuns(v, k), NewRun(n, 1))
  /\ appeals' = appeals \cup {[video |-> v, rev |-> k + 1, result |-> g, rerun |-> n]}
  /\ holds' = holds \cup {[video |-> v, rev |-> k + 1, type |-> "appeal", group |-> n]}
  /\ UNCHANGED <<vstatus, fingerprint>>

ManualHold(v) ==
  /\ Current(v) > 0 /\ "manual" \notin HoldTypes(v, Current(v))
  /\ holds' = holds \cup {[video |-> v, rev |-> Current(v), type |-> "manual", group |-> 0]}
  /\ UNCHANGED <<revs, groups, runs, appeals, vstatus, fingerprint>>

Resume(v) ==
  /\ Current(v) > 0 /\ HoldTypes(v, Current(v)) = {"manual"}
  /\ holds' = {h \in holds : ~(h.video = v /\ h.rev = Current(v))}
  /\ UNCHANGED <<revs, groups, runs, appeals, vstatus, fingerprint>>

\* An administrator ends an appeal, whatever its rerun does.
ResolveAppeal(a) ==
  /\ appeals' = appeals \ {a}
  /\ holds' = {h \in holds : ~(h.video = a.video /\ h.rev = a.rev /\ h.type = "appeal")}
  /\ UNCHANGED <<revs, groups, runs, vstatus, fingerprint>>

-----------------------------------------------------------------------------
Settle(r) ==
  \/ SettlePilot(r)
  \/ \E t \in {"input_incomplete", "evaluation_instability"} : SettleHold(r, t)
  \/ \E c, a \in BOOLEAN : SettleReview(r, c, a)
  \/ \E c, p \in BOOLEAN : SettleAdopt(r, c, p)

WorkerStep(r) == Claim(r) \/ Start(r) \/ Call(r) \/ Settle(r) \/ Fail(r) \/ Expire(r)

Next ==
  \/ \E v \in Videos : \/ \E pilot \in BOOLEAN : Trigger(v, pilot)
                       \/ \E g \in GroupIds : Appeal(v, g)
                       \/ ManualHold(v) \/ Resume(v)
  \/ \E a \in appeals : ResolveAppeal(a)
  \/ ChangeFingerprint
  \/ \E r \in RunIds : WorkerStep(r)

Spec == Init /\ [][Next]_vars

-----------------------------------------------------------------------------
(* Properties.                                                             *)

\* assertDataStageOpen: the video may go on to metrics and data reviews.
DataStageOpen(v) ==
  \/ Current(v) = 0
  \/ LET k == Current(v) IN
     /\ HoldTypes(v, k) = {} /\ ~Appealed(v, k) /\ Decision(v) # 0
     /\ revs[v][k].gate = "approved" /\ groups[Decision(v)].verdict # "flagged"

\* latest: the group a user is shown, by its decision or by its progress.
Shown(v) ==
  IF Current(v) > 0 /\ Decision(v) # 0 THEN Decision(v)
  ELSE LET S == {g \in GroupIds : /\ groups[g].video = v /\ ~groups[g].pilot
                                  /\ groups[g].rev = Current(v)}
       IN  IF S = {} THEN 0 ELSE CHOOSE g \in S : \A h \in S : h <= g

\* A formal run that still has a job belongs to the current revision of its
\* video: no trigger, cutover or appeal supersedes work that is being paid
\* for, because each of them enqueues a job in the same transaction.
FormalRunIsCurrent ==
  \A r \in RunIds : ~groups[runs[r].group].pilot /\ runs[r].job \in LiveJob =>
    /\ groups[runs[r].group].rev = Current(VideoOfRun(r))
    /\ runs[r].status \in {"pending", "running"}

\* Every run of a group gets all the attempts its job allows: the group's
\* limit of technical attempts, which counts the runs together, is never what
\* refuses one.
AttemptsSuffice ==
  \A r \in RunIds : runs[r].job = "claimed" => groups[runs[r].group].attempts < AttemptLimit

\* A group that waits for a further run has one, and its valid runs are the
\* ones before it: the answer of a run is never kept without its successor.
FurtherRunExists ==
  \A g \in GroupIds : groups[g].status = "review_required" =>
    LET n == Cardinality(ValidRuns(g)) IN
    n \in 1 .. 2 /\ \E r \in RunsOf(g) : runs[r].number = n + 1

\* A revision that was superseded keeps its decision and its gate, and its
\* adopted or superseded groups never come back, however late a worker is.
SupersededIsFinal ==
  [][\A v \in Videos : \A k \in 1 .. Current(v) :
       k < Current(v)' /\ k < Current(v) => revs'[v][k] = revs[v][k]]_vars
  /\ [][\A g \in GroupIds : groups[g].status = "superseded" => groups'[g].status = "superseded"]_vars

\* README: a shadow evaluation never changes the video's status, its
\* eligibility or a formal figure.  Opening one leaves the data stage of every
\* video as it was, and the result its owner is shown.
ShadowLeavesFormal ==
  [][\A g \in DOMAIN groups' : g \notin GroupIds /\ groups'[g].pilot =>
       \A v \in Videos : Current(v) > 0 =>
         DataStageOpen(v)' = DataStageOpen(v) /\ Shown(v)' = Shown(v)]_vars

\* The message of a given-up job: the task was interrupted, trigger it again
\* by hand.  A video whose newest formal group lost its job, and which nothing
\* holds, gets a job from the next trigger.
InterruptedCanRestart ==
  \A v \in Videos : \A g \in GroupIds :
    /\ groups[g].video = v /\ groups[g].rev = Current(v) /\ ~groups[g].pilot
    /\ \E r \in RunsOf(g) : runs[r].status = "failed"
    /\ Undecided(v) /\ NoActive(v) /\ HoldTypes(v, Current(v)) = {}
    => g \notin Duplicates(groups, groups[g].fp)

\* Data of a video is collected only for content that passed: the decision in
\* force is the one the approving gate was about.
OpenOnlyWhenPassed ==
  \A v \in Videos : Current(v) > 0 /\ DataStageOpen(v) => groups[Decision(v)].verdict = "passed"

-----------------------------------------------------------------------------
(* The inductive invariant the proofs in V11ContentProofs rest on.         *)

RevisionRows ==
  [mode : Modes, decision : Nat, gate : {"none", "approved", "revision_required", "hold"}]
GroupRows ==
  [video : Videos, rev : Nat, fp : Nat, pilot : BOOLEAN, appeal : BOOLEAN, verdict : Verdicts,
   status : OpenGroup \cup {"adopted", "hold", "failed", "superseded", "pilot_done"}, attempts : Nat]
RunRows ==
  [group : Nat, number : Nat, tries : Nat, clear : BOOLEAN,
   status : {"pending", "running", "succeeded", "failed", "stale"},
   job : LiveJob \cup {"succeeded", "failed", "uncertain"}]

TypeOK ==
  /\ revs \in [Videos -> Seq(RevisionRows)]
  /\ groups \in Seq(GroupRows) /\ runs \in Seq(RunRows)
  /\ fingerprint \in Nat

\* Rows refer to rows that exist.  Formal evaluations are never of a revision that was
\* opened for a pilot; a decision is a formal group of its revision; whatever was
\* superseded is of an older revision.
RowsOK ==
  /\ \A g \in GroupIds :
       /\ groups[g].rev \in 1 .. Current(groups[g].video)
       /\ ~groups[g].pilot => revs[groups[g].video][groups[g].rev].mode # "shadow"
       /\ groups[g].status = "superseded" => groups[g].rev # Current(groups[g].video)
  /\ \A r \in RunIds : runs[r].group \in GroupIds
  /\ \A v \in Videos : \A k \in 1 .. Current(v) :
       LET d == revs[v][k].decision IN
       d # 0 => d \in GroupIds /\ groups[d].video = v /\ groups[d].rev = k /\ ~groups[d].pilot
  /\ \A h \in holds : h.video \in Videos => h.rev \in 1 .. Current(h.video)

\* A video has one job.  It is of the run after the valid ones, and what the group has
\* used up are the attempts of the runs before and those of this job that started.
JobsOK ==
  /\ \A r, q \in RunIds :
       runs[r].job \in LiveJob /\ runs[q].job \in LiveJob /\ VideoOfRun(r) = VideoOfRun(q) => r = q
  /\ \A r \in RunIds : runs[r].job \in LiveJob =>
       LET g == runs[r].group
           earlier == 2 * (runs[r].number - 1)
       IN
       /\ runs[r].number = Cardinality(ValidRuns(g)) + 1 /\ runs[r].number <= 3
       /\ runs[r].tries <= IF runs[r].job = "queued" THEN 1 ELSE 2
       /\ IF runs[r].job = "claimed" THEN groups[g].attempts < earlier + runs[r].tries
          ELSE groups[g].attempts <= earlier + runs[r].tries

\* Runs that disagree hold a revision only when its evaluation is over.
InstabilityOK ==
  \A v \in Videos : Undecided(v) /\ "evaluation_instability" \in HoldTypes(v, Current(v)) =>
    \A r \in RunIds : VideoOfRun(r) = v /\ runs[r].job \in LiveJob => groups[runs[r].group].pilot

ContentInv ==
  TypeOK /\ RowsOK /\ JobsOK /\ InstabilityOK /\ FormalRunIsCurrent /\ FurtherRunExists
=============================================================================
