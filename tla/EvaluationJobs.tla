--------------------------- MODULE EvaluationJobs ---------------------------
(***************************************************************************)
(* The durable evaluation queue: evaluation-jobs.service.ts, the worker    *)
(* loop of evaluation-worker.ts that drives it, and the part of the stage  *)
(* executors (content, result, final, v11_content) that reads or writes    *)
(* queue rows.                                                             *)
(*                                                                         *)
(* Every action is one database transaction, or one step of a worker       *)
(* process between two transactions.  A job row is modelled together with  *)
(* the review it evaluates, because the target columns are unique: `review`*)
(* is the row of ai_content_reviews, ai_result_reviews,                    *)
(* final_video_evaluations or v11_evaluation_runs the job points at.       *)
(* The v11 stage is the formal (not the pilot) evaluation.                 *)
(***************************************************************************)
EXTENDS Naturals, FiniteSets

CONSTANTS
  Jobs,         \* the job rows that may ever be created (bounds the model)
  NoJob,        \* the null reference to a job
  Videos,       \* the videos
  Users,        \* the accounts that trigger evaluations
  Workers,      \* the worker processes; a restart reuses the identity
  VideoOf,      \* VideoOf[j]: the video of job j
  StageOf,      \* StageOf[j]: the stage of job j
  ActorOf,      \* ActorOf[j]: the account that triggers j and pays for it
  MaxAttempts,  \* MaxAttempts[j]: how often j may be claimed
  LeaseTicks,   \* the length of a lease, in ticks of the database clock
  QuotaLimit    \* QuotaLimit[u]: content evaluations account u may reserve

Stages == {"content", "result", "final", "v11_content"}

ASSUME JobsAssumption ==
  /\ NoJob \notin Jobs
  /\ VideoOf \in [Jobs -> Videos]
  /\ StageOf \in [Jobs -> Stages]
  /\ ActorOf \in [Jobs -> Users]

\* The table's check constraint: max_attempts BETWEEN 1 AND 5.
ASSUME BoundsAssumption ==
  /\ MaxAttempts \in [Jobs -> 1 .. 5]
  /\ LeaseTicks \in Nat \ {0}
  /\ QuotaLimit \in [Users -> Nat]

Waiting  == {"queued", "retry_wait"}
Active   == Waiting \cup {"running"}
Terminal == {"succeeded", "failed", "needs_attention"}

VideoStatus ==
  {"submitted", "ai_content_reviewing", "ai_content_failed",
   "pending_supervisor_review", "approved_for_publish", "revision_required",
   "pending_result_data", "ai_result_reviewing", "ai_result_failed",
   "pending_rule_engine", "pending_final_evaluation",
   "final_evaluation_failed", "pending_final_confirmation"}

VARIABLES
  status,     \* evaluation_jobs.status; "absent" before the row exists
  attempts,   \* evaluation_jobs.attempts
  token,      \* lease_token: the number of the claim that drew it, 0 for null
  leaseLeft,  \* ticks until lease_expires_at; 0 is expired (or null)
  external,   \* external_started_at is set
  due,        \* available_at has passed
  attemptRow, \* status of evaluation_job_attempts, by job and attempt number
  ledger,     \* state of the quota ledger entry `content:<jobId>`
  retryOf,    \* retried_from_id
  newest,     \* the job created last for a video and stage
  review,     \* status of the job's target row
  vstatus,    \* videos.status
  disabled,   \* the accounts that are disabled, archived or expired
  pc,         \* where each worker process is
  myJob,      \* the job of the lease a worker holds in memory
  myToken,    \* the token of that lease
  calls,      \* history: requests sent to the paid model for a job
  answer      \* history: how the model's answer to a job looked

rowVars    == <<status, attempts, token, leaseLeft, external, due, attemptRow>>
memoVars   == <<retryOf, newest>>
domainVars == <<review, vstatus>>
workerVars == <<pc, myJob, myToken>>
historyVars == <<calls, answer>>
vars == <<rowVars, ledger, memoVars, domainVars, disabled, workerVars, historyVars>>

AttemptStatus == {"none", "running", "expired"} \cup Terminal
Steps == {"idle", "claimed", "started", "marked", "calling", "answered",
          "failing_known", "failing_unknown", "release"}

TypeOK ==
  /\ status \in [Jobs -> {"absent"} \cup Active \cup Terminal]
  /\ attempts \in [Jobs -> 0 .. 5]
  /\ \A j \in Jobs : attempts[j] <= MaxAttempts[j]
  /\ token \in [Jobs -> 0 .. 5]
  /\ leaseLeft \in [Jobs -> 0 .. LeaseTicks]
  /\ external \in [Jobs -> BOOLEAN]
  /\ due \in [Jobs -> BOOLEAN]
  /\ attemptRow \in [Jobs -> [1 .. 5 -> AttemptStatus]]
  /\ ledger \in [Jobs -> {"none", "reserved", "committed", "released"}]
  /\ retryOf \in [Jobs -> Jobs \cup {NoJob}]
  /\ newest \in [Videos -> [Stages -> Jobs \cup {NoJob}]]
  /\ review \in [Jobs -> {"none", "pending", "running", "succeeded", "failed"}]
  /\ vstatus \in [Videos -> VideoStatus]
  /\ disabled \in SUBSET Users
  /\ pc \in [Workers -> Steps]
  /\ myJob \in [Workers -> Jobs \cup {NoJob}]
  /\ myToken \in [Workers -> 0 .. 5]
  /\ calls \in [Jobs -> Nat]
  /\ answer \in [Jobs -> {"none", "valid", "invalid", "unknown"}]

-----------------------------------------------------------------------------
(* Predicates the transactions evaluate under their row locks.             *)

\* Only the two content stages are charged to the content_evaluations quota.
Metered(j) == StageOf[j] \in {"content", "v11_content"}

Peers(v, s) == {i \in Jobs : VideoOf[i] = v /\ StageOf[i] = s}

\* Wrong variant: a waiting job does not count.
NoActiveRunning(v, s) == \A i \in Peers(v, s) : status[i] # "running"

\* assertNoActive, and the partial unique index behind it.
NoActive(v, s) == \A i \in Peers(v, s) : status[i] \notin Active

\* The video status a stage's job needs in order to write its result.
expectedStatus ==
  [content |-> "ai_content_reviewing", result |-> "ai_result_reviewing",
   final |-> "pending_final_evaluation"]

failedStatus ==
  [content |-> "ai_content_failed", result |-> "ai_result_failed",
   final |-> "final_evaluation_failed"]

IsV11(j) == StageOf[j] = "v11_content"

\* Wrong variants: any token is good; whoever made the last claim may write.
LeaseOfAnyone(j, k) == status[j] = "running" /\ leaseLeft[j] > 0
LeaseOfLastClaim(j, k) == attempts[j] = k

\* assertLease: job, token and database time all have to match.
LeaseValid(j, k) == status[j] = "running" /\ token[j] = k /\ leaseLeft[j] > 0

\* assertCurrent without the lease: the business rows the job is bound to are
\* still as they were.  A v11 run is not bound to the video's status.
BindingCurrent(j) ==
  IF IsV11(j)
  THEN review[j] \in {"pending", "running"}
  ELSE review[j] = "running" /\ vstatus[VideoOf[j]] = expectedStatus[StageOf[j]]

Current(w) ==
  LeaseValid(myJob[w], myToken[w]) /\ BindingCurrent(myJob[w])

\* Wrong variant: an expired lease frees its slot before it is recovered.
SlotFreeOnExpiry == \A i \in Jobs : status[i] # "running" \/ leaseLeft[i] = 0

\* claim: global concurrency is one, an expired lease counts until recovered.
SlotFree == \A i \in Jobs : status[i] # "running"

\* Wrong variants: retries without a limit; retries although a request was marked.
MustAbandonMarked(j) == external[j]
MustAbandonExhausted(j) == attempts[j] >= MaxAttempts[j]

\* recoverExpired: no retry once a paid request may have left.
MustAbandon(j) == external[j] \/ attempts[j] >= MaxAttempts[j]

\* The evaluations that count against an account's limit.
Held(u) == {i \in Jobs : ActorOf[i] = u /\ ledger[i] \in {"reserved", "committed"}}

\* Wrong variant: one evaluation beyond the limit.
QuotaFreeInclusive(u) == Cardinality(Held(u)) <= QuotaLimit[u]

\* reserve: the account may still reserve one content evaluation.
QuotaFree(u) == Cardinality(Held(u)) < QuotaLimit[u]

-----------------------------------------------------------------------------
(* Parts of transactions that several operations share.                    *)

\* Wrong variant: the lease's snapshot of the job predates the marker.
SettlementBySnapshot(j, st) == IF st = "succeeded" THEN "committed" ELSE "released"

\* What finish does to the reservation: an evaluation is paid for when its
\* external request was marked as started or when it succeeded.
Settlement(j, st) ==
  IF external[j] \/ st = "succeeded" THEN "committed" ELSE "released"

\* settle: no entry is left alone, a second settlement to another state throws.
Settle(j, st) ==
  IF Metered(j) /\ ledger[j] # "none"
  THEN /\ ledger[j] \in {"reserved", Settlement(j, st)}
       /\ ledger' = [ledger EXCEPT ![j] = Settlement(j, st)]
  ELSE UNCHANGED ledger

\* finish: the terminal status of the job and of its last attempt.
Finish(j, st) ==
  /\ Settle(j, st)
  /\ status' = [status EXCEPT ![j] = st]
  /\ token' = [token EXCEPT ![j] = 0]
  /\ leaseLeft' = [leaseLeft EXCEPT ![j] = 0]
  /\ attemptRow' = IF token[j] = 0 THEN attemptRow
                   ELSE [attemptRow EXCEPT ![j][token[j]] = st]
  /\ UNCHANGED <<attempts, external, due>>

\* A row that does not exist yet enters the queue with its reservation.
Enqueue(j, target) ==
  /\ status[j] = "absent" /\ review[j] = "none"
  /\ NoActive(VideoOf[j], StageOf[j])
  /\ Metered(j) => ActorOf[j] \notin disabled /\ QuotaFree(ActorOf[j])
  /\ status' = [status EXCEPT ![j] = "queued"]
  /\ due' = [due EXCEPT ![j] = TRUE]
  /\ ledger' = [ledger EXCEPT ![j] = IF Metered(j) THEN "reserved" ELSE "none"]
  /\ review' = [review EXCEPT ![j] = target]
  /\ newest' = [newest EXCEPT ![VideoOf[j]][StageOf[j]] = j]
  /\ UNCHANGED <<attempts, token, leaseLeft, external, attemptRow>>

\* Wrong variants: only the job is given up; the video is not moved.
AbandonJobOnly(j, st) == Finish(j, st) /\ UNCHANGED domainVars

AbandonWithoutVideo(j, st) ==
  /\ Finish(j, st)
  /\ review' = [review EXCEPT ![j] = IF @ \in {"pending", "running"} THEN "failed" ELSE @]
  /\ UNCHANGED vstatus

\* abandon: the interrupted evaluation is given up.  Only the legacy stages
\* move the video; a v11 run leaves its status alone.
Abandon(j, st) ==
  /\ Finish(j, st)
  /\ review' = [review EXCEPT ![j] = IF @ \in {"pending", "running"} THEN "failed" ELSE @]
  /\ vstatus' =
       IF ~IsV11(j) /\ vstatus[VideoOf[j]] = expectedStatus[StageOf[j]]
       THEN [vstatus EXCEPT ![VideoOf[j]] = failedStatus[StageOf[j]]]
       ELSE vstatus

-----------------------------------------------------------------------------
(* Triggers: the API calls that put work into the queue.                   *)

triggerStatuses ==
  [result |-> {"pending_result_data", "ai_result_failed"},
   final |-> {"pending_final_evaluation", "final_evaluation_failed"}]

\* ResultReviewsService.trigger and FinalEvaluationsService.trigger: a review
\* that is still running, orphaned ones included, blocks a new one.
TriggerGuard(j) ==
  /\ StageOf[j] \in {"result", "final"}
  /\ vstatus[VideoOf[j]] \in triggerStatuses[StageOf[j]]
  /\ \A i \in Peers(VideoOf[j], StageOf[j]) : review[i] # "running"

\* The account was active when its request was authenticated; the transaction
\* does not ask again.
TriggerReview(j) ==
  /\ TriggerGuard(j)
  /\ Enqueue(j, "running")
  /\ vstatus' = [vstatus EXCEPT ![VideoOf[j]] = expectedStatus[StageOf[j]]]
  /\ UNCHANGED <<retryOf, disabled, workerVars, historyVars>>

\* Wrong variant: any failed job, retried and superseded ones included.
RetryableFailed(o) == status[o] \in {"failed", "needs_attention"}

\* The job an administrator may retry: a failed one that nothing replaced.
Retryable(o) ==
  /\ status[o] \in {"failed", "needs_attention"}
  /\ newest[VideoOf[o]][StageOf[o]] = o
  /\ \A i \in Jobs : retryOf[i] # o

\* AdminOperationsService.retry: the stage's own trigger, on the quota and the
\* identity of the account that asked for the original evaluation.
AdminRetry(j, o) ==
  /\ VideoOf[j] = VideoOf[o] /\ StageOf[j] = StageOf[o] /\ ActorOf[j] = ActorOf[o]
  /\ Retryable(o)
  /\ ActorOf[o] \notin disabled
  /\ TriggerGuard(j)
  /\ Enqueue(j, "running")
  /\ vstatus' = [vstatus EXCEPT ![VideoOf[j]] = expectedStatus[StageOf[j]]]
  /\ retryOf' = [retryOf EXCEPT ![j] = o]
  /\ UNCHANGED <<disabled, workerVars, historyVars>>

\* V11ContentService.triggerInternal: the video's status is no precondition.
TriggerV11(j) ==
  /\ IsV11(j)
  /\ Enqueue(j, "pending")
  /\ vstatus' = [vstatus EXCEPT ![VideoOf[j]] = "ai_content_reviewing"]
  /\ UNCHANGED <<retryOf, disabled, workerVars, historyVars>>

-----------------------------------------------------------------------------
(* The worker process.                                                     *)

Goto(w, step) == pc' = [pc EXCEPT ![w] = step]

\* Wrong variant: only fresh jobs are looked for.
ClaimableQueued(j) == status[j] = "queued" /\ due[j] /\ SlotFree

\* A waiting job whose time has come, while no other job runs.
Claimable(j) == status[j] \in Waiting /\ due[j] /\ SlotFree

\* claim.  Candidates are ordered by available_at, but one whose video row is
\* locked by another transaction is skipped: any due job may be taken.
Claim(w, j) ==
  /\ pc[w] = "idle"
  /\ Claimable(j)
  /\ status' = [status EXCEPT ![j] = "running"]
  /\ attempts' = [attempts EXCEPT ![j] = @ + 1]
  /\ token' = [token EXCEPT ![j] = attempts[j] + 1]
  /\ external' = [external EXCEPT ![j] = FALSE]
  /\ leaseLeft' = [leaseLeft EXCEPT ![j] = LeaseTicks]
  /\ attemptRow' = [attemptRow EXCEPT ![j][attempts[j] + 1] = "running"]
  /\ Goto(w, "claimed")
  /\ myJob' = [myJob EXCEPT ![w] = j]
  /\ myToken' = [myToken EXCEPT ![w] = attempts[j] + 1]
  /\ UNCHANGED <<due, ledger, memoVars, domainVars, disabled, historyVars>>

\* heartbeat: a lapsed or foreign lease is not renewed.
Heartbeat(w) ==
  /\ pc[w] # "idle"
  /\ LeaseValid(myJob[w], myToken[w])
  /\ leaseLeft' = [leaseLeft EXCEPT ![myJob[w]] = LeaseTicks]
  /\ UNCHANGED <<status, attempts, token, external, due, attemptRow, ledger,
                 memoVars, domainVars, disabled, workerVars, historyVars>>

\* executeJob up to the marker.  A review that no longer runs ends the stage
\* early; a v11 run is moved to running in a transaction that needs the lease
\* and an attempt left in its group (not modelled, so it may always be refused).
StartRun(w) ==
  LET j == myJob[w] IN
  /\ pc[w] = "claimed"
  /\ \/ /\ IsV11(j) /\ Current(w)
        /\ review' = [review EXCEPT ![j] = "running"]
        /\ Goto(w, "started")
     \/ /\ IsV11(j)
        /\ UNCHANGED review /\ Goto(w, "release")
     \/ /\ ~IsV11(j)
        /\ Goto(w, IF review[j] = "running" THEN "started" ELSE "release")
        /\ UNCHANGED review
  /\ UNCHANGED <<rowVars, ledger, memoVars, vstatus, disabled, myJob, myToken, historyVars>>

\* Where a failure other than a lost lease leads.  The content stage takes an
\* error of an unexpected class for an unknown outcome, even before the request.
FailureSteps(w) ==
  IF StageOf[myJob[w]] = "content"
  THEN {"failing_known", "failing_unknown"} ELSE {"failing_known"}

\* The inputs cannot be loaded.  The result stage lets the error escape; the
\* other stages record the failure.
InputFault(w) ==
  /\ pc[w] = "started"
  /\ \E s \in IF StageOf[myJob[w]] = "result" THEN {"release"} ELSE FailureSteps(w) :
       Goto(w, s)
  /\ UNCHANGED <<rowVars, ledger, memoVars, domainVars, disabled, myJob, myToken, historyVars>>

\* Where a worker goes when assertCurrent throws inside the stage: the legacy
\* stages rethrow the lost lease, the v11 stage treats it like any failure.
OnLeaseLost(w) == IF IsV11(myJob[w]) THEN "failing_known" ELSE "release"

\* markExternalStarted, with the last check of the account.
MarkExternalStarted(w) ==
  LET j == myJob[w] IN
  /\ pc[w] = "started"
  /\ \/ /\ Current(w) /\ ActorOf[j] \notin disabled
        /\ external' = [external EXCEPT ![j] = TRUE]
        /\ Goto(w, "marked")
     \/ /\ Current(w) /\ ActorOf[j] \in disabled
        /\ Goto(w, IF StageOf[j] = "content" THEN "failing_unknown" ELSE "failing_known")
        /\ UNCHANGED external
     \/ /\ ~Current(w)
        /\ Goto(w, OnLeaseLost(w))
        /\ UNCHANGED external
  /\ UNCHANGED <<status, attempts, token, leaseLeft, due, attemptRow, ledger,
                 memoVars, domainVars, disabled, myJob, myToken, historyVars>>

\* The request leaves; nothing is checked between the marker and this step.
SendRequest(w) ==
  /\ pc[w] = "marked"
  /\ calls' = [calls EXCEPT ![myJob[w]] = @ + 1]
  /\ Goto(w, "calling")
  /\ UNCHANGED <<rowVars, ledger, memoVars, domainVars, disabled, myJob, myToken, answer>>

\* A usable answer, one that is refused or unusable, or no answer at all
\* (timeout, broken connection): in the last case the model may have run.
ReceiveAnswer(w) ==
  /\ pc[w] = "calling"
  /\ \E a \in {"valid", "invalid", "unknown"} :
       /\ answer' = [answer EXCEPT ![myJob[w]] = a]
       /\ \E s \in CASE a = "valid" -> {"answered"}
                      [] a = "invalid" -> FailureSteps(w)
                      [] a = "unknown" -> {"failing_unknown"} :
            Goto(w, s)
  /\ UNCHANGED <<rowVars, ledger, memoVars, domainVars, disabled, myJob, myToken, calls>>

\* The video status a succeeded evaluation leads to.  A v11 run that waits for
\* a hold or an appeal leaves the video as it is.
successStatuses(j) ==
  CASE StageOf[j] = "content" -> {"pending_supervisor_review"}
    [] StageOf[j] = "result" -> {"pending_rule_engine"}
    [] StageOf[j] = "final" -> {"pending_final_confirmation"}
    [] IsV11(j) -> {"approved_for_publish", "revision_required",
                    "ai_content_failed", vstatus[VideoOf[j]]}

\* complete: result, video and queue rows change in one transaction.
Complete(w) ==
  LET j == myJob[w] IN
  /\ pc[w] = "answered"
  /\ Current(w)
  /\ Finish(j, "succeeded")
  /\ review' = [review EXCEPT ![j] = "succeeded"]
  /\ \E s \in successStatuses(j) : vstatus' = [vstatus EXCEPT ![VideoOf[j]] = s]
  /\ Goto(w, "release")
  /\ UNCHANGED <<memoVars, disabled, myJob, myToken, historyVars>>

\* A v11 run whose result needs a second or third opinion: the next run and
\* its job are created in the transaction that finishes this one.
CompleteWithFurtherRun(w, n) ==
  LET j == myJob[w] IN
  /\ pc[w] = "answered"
  /\ Current(w)
  /\ IsV11(j) /\ IsV11(n) /\ VideoOf[n] = VideoOf[j] /\ ActorOf[n] = ActorOf[j]
  /\ status[n] = "absent" /\ review[n] = "none"
  /\ ActorOf[n] \notin disabled /\ QuotaFree(ActorOf[n])
  /\ ledger[j] \in {"reserved", "committed"}
  /\ ledger' = [ledger EXCEPT ![j] = "committed", ![n] = "reserved"]
  /\ status' = [status EXCEPT ![j] = "succeeded", ![n] = "queued"]
  /\ token' = [token EXCEPT ![j] = 0]
  /\ leaseLeft' = [leaseLeft EXCEPT ![j] = 0]
  /\ attemptRow' = [attemptRow EXCEPT ![j][token[j]] = "succeeded"]
  /\ due' = [due EXCEPT ![n] = TRUE]
  /\ review' = [review EXCEPT ![j] = "succeeded", ![n] = "pending"]
  /\ newest' = [newest EXCEPT ![VideoOf[n]][StageOf[n]] = n]
  /\ Goto(w, "release")
  /\ UNCHANGED <<attempts, external, retryOf, vstatus, disabled, myJob, myToken, historyVars>>

\* The transaction that should have stored the answer did not commit: the
\* lease or a source is gone, or it threw (no quota left for a further run, a
\* database error).  Everything it wrote is rolled back.
CompleteFails(w) ==
  /\ pc[w] = "answered"
  /\ Goto(w, IF Current(w) THEN "failing_known" ELSE OnLeaseLost(w))
  /\ UNCHANGED <<rowVars, ledger, memoVars, domainVars, disabled, myJob, myToken, historyVars>>

\* Wrong variant: an unknown outcome is an ordinary failure in every stage.
FailureStatusPlain(w) == "failed"

\* The status markFailed gives the job.  The legacy stages keep an unknown
\* outcome apart from a failure; the v11 stage does not.
FailureStatus(w) ==
  IF pc[w] = "failing_unknown" /\ ~IsV11(myJob[w]) THEN "needs_attention" ELSE "failed"

\* Wrong variant: nothing is checked again.
MayAlwaysMarkFailed(w) == TRUE

\* The legacy stages repeat assertCurrent, the v11 stage only the lease.
MayMarkFailed(w) ==
  IF IsV11(myJob[w]) THEN LeaseValid(myJob[w], myToken[w]) ELSE Current(w)

\* markFailed, and the catch block of the v11 executor.
MarkFailed(w) ==
  LET j == myJob[w] IN
  /\ pc[w] \in {"failing_known", "failing_unknown"}
  /\ IF MayMarkFailed(w)
     THEN /\ Finish(j, FailureStatus(w))
          /\ review' = [review EXCEPT ![j] = IF @ \in {"pending", "running"} THEN "failed" ELSE @]
          /\ vstatus' = [vstatus EXCEPT ![VideoOf[j]] =
                           IF IsV11(j) THEN "ai_content_failed" ELSE failedStatus[StageOf[j]]]
     ELSE UNCHANGED <<rowVars, ledger, domainVars>>
  /\ Goto(w, "release")
  /\ UNCHANGED <<memoVars, disabled, myJob, myToken, historyVars>>

\* releaseAfterExecutionError, which the loop calls after every execution: a
\* lease that is still good is expired on the spot, recoverExpired does the rest.
Release(w) ==
  /\ pc[w] = "release"
  /\ leaseLeft' = IF LeaseValid(myJob[w], myToken[w])
                  THEN [leaseLeft EXCEPT ![myJob[w]] = 0] ELSE leaseLeft
  /\ Goto(w, "idle")
  /\ myJob' = [myJob EXCEPT ![w] = NoJob]
  /\ myToken' = [myToken EXCEPT ![w] = 0]
  /\ UNCHANGED <<status, attempts, token, external, due, attemptRow, ledger,
                 memoVars, domainVars, disabled, historyVars>>

\* The process dies and is started again; a request in flight stays in flight.
Crash(w) ==
  /\ pc[w] # "idle"
  /\ Goto(w, "idle")
  /\ myJob' = [myJob EXCEPT ![w] = NoJob]
  /\ myToken' = [myToken EXCEPT ![w] = 0]
  /\ UNCHANGED <<rowVars, ledger, memoVars, domainVars, disabled, historyVars>>

\* Wrong variant: the attempt is left as if it still ran.
RequeueJobOnly(j) ==
  /\ status' = [status EXCEPT ![j] = "retry_wait"]
  /\ token' = [token EXCEPT ![j] = 0]
  /\ due' = [due EXCEPT ![j] = FALSE]
  /\ UNCHANGED <<attempts, attemptRow, leaseLeft, external, ledger, domainVars>>

\* The interrupted job waits for its back-off; its attempt is closed as expired.
Requeue(j) ==
  /\ status' = [status EXCEPT ![j] = "retry_wait"]
  /\ token' = [token EXCEPT ![j] = 0]
  /\ due' = [due EXCEPT ![j] = FALSE]
  /\ attemptRow' = [attemptRow EXCEPT ![j][token[j]] = "expired"]
  /\ UNCHANGED <<attempts, leaseLeft, external, ledger, domainVars>>

\* recoverExpired, for one candidate.
RecoverExpired(w, j) ==
  /\ pc[w] = "idle"
  /\ status[j] = "running" /\ leaseLeft[j] = 0
  /\ IF MustAbandon(j)
     THEN Abandon(j, IF external[j] THEN "needs_attention" ELSE "failed")
     ELSE Requeue(j)
  /\ UNCHANGED <<memoVars, disabled, workerVars, historyVars>>

Orphan(j) == ~IsV11(j) /\ status[j] = "absent" /\ review[j] = "running"

\* recoverOrphans, for one candidate: a review that ran before the queue
\* existed gets a diagnostic job that is uncertain from the start.
RecoverOrphan(w, j) ==
  /\ pc[w] = "idle"
  /\ Orphan(j)
  /\ NoActive(VideoOf[j], StageOf[j])
  /\ status' = [status EXCEPT ![j] = "needs_attention"]
  /\ due' = [due EXCEPT ![j] = TRUE]
  /\ newest' = [newest EXCEPT ![VideoOf[j]][StageOf[j]] = j]
  /\ review' = [review EXCEPT ![j] = "failed"]
  /\ vstatus' = IF vstatus[VideoOf[j]] = expectedStatus[StageOf[j]]
                THEN [vstatus EXCEPT ![VideoOf[j]] = failedStatus[StageOf[j]]] ELSE vstatus
  /\ UNCHANGED <<attempts, token, leaseLeft, external, attemptRow, ledger, retryOf,
                 disabled, workerVars, historyVars>>

-----------------------------------------------------------------------------
(* The environment of the queue.                                           *)

\* The database clock passes: the lease of the running job gets shorter.
Tick ==
  /\ \E j \in Jobs : leaseLeft[j] > 0
  /\ leaseLeft' = [j \in Jobs |-> IF leaseLeft[j] > 0 THEN leaseLeft[j] - 1 ELSE 0]
  /\ UNCHANGED <<status, attempts, token, external, due, attemptRow, ledger,
                 memoVars, domainVars, disabled, workerVars, historyVars>>

\* The back-off of a retried job is over: available_at <= clock_timestamp().
BecomeDue(j) ==
  /\ status[j] = "retry_wait" /\ ~due[j]
  /\ due' = [due EXCEPT ![j] = TRUE]
  /\ UNCHANGED <<status, attempts, token, leaseLeft, external, attemptRow, ledger,
                 memoVars, domainVars, disabled, workerVars, historyVars>>

\* An administrator disables or enables an account, or it expires.
ToggleAccount(u) ==
  /\ disabled' = IF u \in disabled THEN disabled \ {u} ELSE disabled \cup {u}
  /\ UNCHANGED <<rowVars, ledger, memoVars, domainVars, workerVars, historyVars>>

\* The steps between the evaluations: metrics are submitted, the rule engine
\* runs.  Both lock the video and move it on.
AdvanceVideo(v) ==
  /\ \/ /\ vstatus[v] \in {"pending_supervisor_review", "approved_for_publish", "ai_result_failed"}
        /\ vstatus' = [vstatus EXCEPT ![v] = "pending_result_data"]
     \/ /\ vstatus[v] = "pending_rule_engine"
        /\ vstatus' = [vstatus EXCEPT ![v] = "pending_final_evaluation"]
  /\ UNCHANGED <<rowVars, ledger, memoVars, review, disabled, workerVars, historyVars>>

-----------------------------------------------------------------------------
\* The legacy reviews found when the queue was introduced: `o` still run
\* without a job, `q` are content evaluations already waiting in the queue, for
\* which their accounts had quota left.
LegacyStart(o, q) ==
  /\ IsFiniteSet(q)
  /\ \A u \in Users : Cardinality({j \in q : ActorOf[j] = u}) <= QuotaLimit[u]
  /\ \A j \in o : StageOf[j] # "v11_content"
  /\ \A j \in q : StageOf[j] = "content"
  /\ o \cap q = {}
  /\ \A i, j \in o \cup q : VideoOf[i] = VideoOf[j] => i = j

InitWith(o, q) ==
  /\ LegacyStart(o, q)
  /\ status = [j \in Jobs |-> IF j \in q THEN "queued" ELSE "absent"]
  /\ attempts = [j \in Jobs |-> 0]
  /\ token = [j \in Jobs |-> 0]
  /\ leaseLeft = [j \in Jobs |-> 0]
  /\ external = [j \in Jobs |-> FALSE]
  /\ due = [j \in Jobs |-> j \in q]
  /\ attemptRow = [j \in Jobs |-> [k \in 1 .. 5 |-> "none"]]
  /\ ledger = [j \in Jobs |-> IF j \in q THEN "reserved" ELSE "none"]
  /\ retryOf = [j \in Jobs |-> NoJob]
  /\ newest = [v \in Videos |-> [s \in Stages |->
                 IF \E j \in q : VideoOf[j] = v /\ StageOf[j] = s
                 THEN CHOOSE j \in q : VideoOf[j] = v /\ StageOf[j] = s
                 ELSE NoJob]]
  /\ review = [j \in Jobs |-> IF j \in o \cup q THEN "running" ELSE "none"]
  /\ vstatus \in [Videos -> {"submitted", "ai_content_reviewing", "ai_result_reviewing",
                             "pending_result_data", "pending_final_evaluation"}]
  /\ \A j \in o \cup q : vstatus[VideoOf[j]] = expectedStatus[StageOf[j]]
  /\ \A v \in Videos : vstatus[v] \in {"ai_content_reviewing", "ai_result_reviewing"} =>
       \E j \in o \cup q : VideoOf[j] = v
  /\ disabled = {}
  /\ pc = [w \in Workers |-> "idle"]
  /\ myJob = [w \in Workers |-> NoJob]
  /\ myToken = [w \in Workers |-> 0]
  /\ calls = [j \in Jobs |-> 0]
  /\ answer = [j \in Jobs |-> "none"]

Init == \E o \in SUBSET Jobs, q \in SUBSET Jobs : InitWith(o, q)

Trigger ==
  \/ \E j \in Jobs : TriggerReview(j) \/ TriggerV11(j)
  \/ \E j, o \in Jobs : AdminRetry(j, o)

\* The steps of the stage executor a worker runs under its lease.
Execute(w) ==
  \/ StartRun(w)
  \/ InputFault(w)
  \/ MarkExternalStarted(w)
  \/ SendRequest(w)
  \/ ReceiveAnswer(w)
  \/ Complete(w)
  \/ \E n \in Jobs : CompleteWithFurtherRun(w, n)
  \/ CompleteFails(w)
  \/ MarkFailed(w)
  \/ Release(w)

Next ==
  \/ Trigger
  \/ \E w \in Workers : Execute(w) \/ Heartbeat(w) \/ Crash(w)
  \/ \E w \in Workers, j \in Jobs :
       Claim(w, j) \/ RecoverExpired(w, j) \/ RecoverOrphan(w, j)
  \/ \E j \in Jobs : BecomeDue(j)
  \/ Tick
  \/ \E u \in Users : ToggleAccount(u)
  \/ \E v \in Videos : AdvanceVideo(v)

Spec == Init /\ [][Next]_vars

\* The loop of worker.ts polls for ever and every external call has a timeout;
\* time passes.  Nobody is obliged to trigger, to renew or to crash.
Fairness ==
  /\ \A w \in Workers : WF_vars(Execute(w))
  /\ \A w \in Workers : WF_vars(\E j \in Jobs : Claim(w, j))
  /\ \A w \in Workers : WF_vars(\E j \in Jobs : RecoverExpired(w, j))
  /\ \A w \in Workers : WF_vars(\E j \in Jobs : RecoverOrphan(w, j))
  /\ \A j \in Jobs : WF_vars(BecomeDue(j))
  /\ WF_vars(Tick)

FairSpec == Spec /\ Fairness
-----------------------------------------------------------------------------
(* What the queue promises.                                                *)

\* The global concurrency of one: claim never lets two jobs run, an expired
\* lease that nobody has recovered yet included.
AtMostOneRunning ==
  \A i, j \in Jobs : status[i] = "running" /\ status[j] = "running" => i = j

\* A video has at most one active job per stage, whichever of trigger, retry,
\* further run and orphan recovery created it.
OneActivePerStage ==
  \A i, j \in Jobs :
    /\ status[i] \in Active /\ status[j] \in Active
    /\ VideoOf[i] = VideoOf[j] /\ StageOf[i] = StageOf[j]
    => i = j

\* The paid model is asked at most once for a job, however often workers crash,
\* lose the lease or wake up late: the marker stops every automatic retry.
AtMostOneCall == \A j \in Jobs : calls[j] <= 1

\* A reservation is open exactly while its job is active, and a job whose
\* request left is never given back to the account, even when the process that
\* sent it had long lost its lease.
QuotaFollowsJob ==
  \A j \in Jobs : ledger[j] # "none" =>
    /\ ledger[j] = "reserved" <=> status[j] \in Active
    /\ calls[j] > 0 => ledger[j] # "released"

\* No account holds more evaluations than its quota allows, further runs that
\* the worker enqueues on its behalf included.
WithinQuota == \A u \in Users : Cardinality(Held(u)) <= QuotaLimit[u]

\* The attempt history tells the story of the job: every attempt but the last
\* expired before its request, and the last one agrees with the job.
HistoryAgrees ==
  \A j \in Jobs, k \in 1 .. 5 :
    /\ k < attempts[j] => attemptRow[j][k] = "expired"
    /\ k = attempts[j] =>
         attemptRow[j][k] = IF status[j] = "retry_wait" THEN "expired" ELSE status[j]
    /\ k > attempts[j] => attemptRow[j][k] = "none"

\* Queue and business rows tell the same story: an evaluation is open exactly
\* while its job is active (or it is an orphan), and succeeds only with its job.
ReviewAgrees ==
  \A j \in Jobs :
    /\ review[j] \in {"pending", "running"} <=> status[j] \in Active \/ Orphan(j)
    /\ review[j] = "succeeded" <=> status[j] = "succeeded"

\* A video never waits for a result evaluation that nobody will finish: some
\* evaluation is open whenever the video's status says so.
NoStrandedResult ==
  \A v \in Videos : vstatus[v] = "ai_result_reviewing" =>
    \E j \in Peers(v, "result") : review[j] = "running"

\* An administrator's retry replaces a failed job, and each job once.
RetriedOnce ==
  \A i, j \in Jobs : retryOf[i] # NoJob =>
    /\ status[retryOf[i]] \in {"failed", "needs_attention"}
    /\ retryOf[i] = retryOf[j] => i = j

HoldsLease(w) ==
  /\ pc[w] # "idle"
  /\ status[myJob[w]] = "running" /\ token[myJob[w]] = myToken[w]
  /\ leaseLeft[myJob[w]] > 0

\* Fencing: a worker that lost its lease may wake up at any point, but none of
\* its steps changes the job, the evaluation, the video or the quota, and
\* only the holder renews a lease.
StaleWorkerHarmless ==
  [][/\ \A w \in Workers :
          pc[w] # "idle" /\ pc'[w] # pc[w] /\ ~HoldsLease(w) =>
            UNCHANGED <<rowVars, ledger, domainVars>>
     /\ \A j \in Jobs : leaseLeft'[j] > leaseLeft[j] /\ status[j] = "running" =>
          \E w \in Workers : HoldsLease(w) /\ myJob[w] = j]_vars

\* A job that reached a terminal status keeps it, with its evaluation, its
\* attempt history and its settlement: late answers change nothing.
TerminalIsFinal ==
  [][\A j \in Jobs : status[j] \in Terminal =>
       /\ status'[j] = status[j] /\ review'[j] = review[j]
       /\ ledger'[j] = ledger[j] /\ attemptRow'[j] = attemptRow[j]]_vars

\* Every evaluation that was opened ends, orphans of the time before the queue
\* included: crashes, lost leases and unanswered requests cannot leave it open.
EveryReviewEnds ==
  \A j \in Jobs :
    review[j] \in {"pending", "running"} ~> review[j] \in {"succeeded", "failed"}

\* The claim of the queue's documentation: when a request was sent and nobody
\* knows its outcome, the job ends as needs_attention, not as an ordinary failure.
UncertainNeedsAttention ==
  \A j \in Jobs :
    status[j] = "failed" /\ calls[j] > 0 => answer[j] \in {"valid", "invalid"}
\* The queue implements the promise made to the account that asks.
Phase(j) ==
  CASE status[j] \in Active -> "pending"
    [] status[j] = "needs_attention" -> "uncertain"
    [] OTHER -> status[j]

Charge(j) ==
  CASE ledger[j] = "committed" -> "charged"
    [] ledger[j] = "released" -> "given_back"
    [] OTHER -> ledger[j]

Promise == INSTANCE JobPromise WITH
  Payable <- {j \in Jobs : Metered(j)},
  phase <- [j \in Jobs |-> Phase(j)],
  asked <- {j \in Jobs : calls[j] > 0},
  charge <- [j \in Jobs |-> Charge(j)]

\* Refinement: through every crash, late worker and recovery the account sees
\* only the steps JobPromise allows.
ImplementsPromise == Promise!Spec
-----------------------------------------------------------------------------
(* The inductive invariant the proofs in EvaluationJobsProofs rest on.     *)

\* Exactly the running job carries a token, that of its latest claim.
TokensOK ==
  \A j \in Jobs :
    IF status[j] = "running"
    THEN attempts[j] >= 1 /\ token[j] = attempts[j]
    ELSE token[j] = 0 /\ leaseLeft[j] = 0

\* A job that waits can be claimed once more and nothing was sent for it yet.
WaitingOK ==
  \A j \in Jobs :
    /\ status[j] \in {"absent", "queued"} => attempts[j] = 0
    /\ status[j] \in Waiting => attempts[j] < MaxAttempts[j]
    /\ external[j] => status[j] \notin {"absent"} \cup Waiting

\* A worker works on a claim that was really made, and no claim has two workers.
ClaimsOK ==
  /\ \A w \in Workers : pc[w] # "idle" =>
       /\ myJob[w] \in Jobs
       /\ myToken[w] >= 1 /\ myToken[w] <= attempts[myJob[w]]
  /\ \A w, x \in Workers :
       /\ pc[w] # "idle" /\ pc[x] # "idle"
       /\ myJob[w] = myJob[x] /\ myToken[w] = myToken[x]
       => w = x

\* The marker separates the workers that have not asked the model from those
\* that may: before it the claim is unmarked as long as the lease is held, and
\* from it on the claim is marked and the last one the job ever gets.
MarkersOK ==
  \A w \in Workers :
    /\ pc[w] \in {"claimed", "started"} /\ status[myJob[w]] = "running"
         /\ token[myJob[w]] = myToken[w] => ~external[myJob[w]]
    /\ pc[w] \in {"marked", "calling", "answered"} =>
         external[myJob[w]] /\ attempts[myJob[w]] = myToken[w]

\* A request is sent under the marker, and its sender is past sending it.
CallsOK ==
  \A j \in Jobs :
    /\ calls[j] > 0 => external[j]
    /\ calls[j] > 0 => \A w \in Workers : myJob[w] = j => pc[w] # "marked"

\* A reservation belongs to a metered job; a marked job keeps its charge.
LedgerOK ==
  \A j \in Jobs :
    /\ ledger[j] # "none" => Metered(j) /\ status[j] # "absent"
    /\ external[j] => ledger[j] # "released"

QueueSafety ==
  /\ AtMostOneRunning
  /\ TokensOK
  /\ WaitingOK
  /\ ClaimsOK
  /\ MarkersOK
  /\ CallsOK
  /\ AtMostOneCall
  /\ LedgerOK
  /\ QuotaFollowsJob

QueueInv == TypeOK /\ QueueSafety

-----------------------------------------------------------------------------
(* What the refinement and the uncertain outcomes need beyond QueueInv.    *)

\* The lease in a worker's memory names the claim the job's row records.
LastClaim(w) == status[myJob[w]] = "running" /\ token[myJob[w]] = myToken[w]

\* A marked job is not settled behind the back of the worker that may still ask
\* the model, except as uncertain; a worker that has its answer did ask; and a
\* marked job is failed only by a worker that asked.
AskedOK ==
  \A w \in Workers :
    /\ pc[w] \in {"marked", "calling", "answered"} =>
         status[myJob[w]] \in {"running", "needs_attention"}
    /\ pc[w] \in {"calling", "answered"} => calls[myJob[w]] > 0
    /\ pc[w] \in {"failing_known", "failing_unknown"} /\ LastClaim(w) /\ external[myJob[w]] =>
         calls[myJob[w]] > 0

\* Whoever reports a plain failure of a job that was asked knows the answer.
KnownOK ==
  \A w \in Workers :
    /\ pc[w] = "answered" => answer[myJob[w]] = "valid"
    /\ pc[w] = "failing_known" /\ LastClaim(w) /\ calls[myJob[w]] > 0 =>
         answer[myJob[w]] \in {"valid", "invalid"}

\* UncertainNeedsAttention for the stages that keep the two failures apart.
UncertainOutsideV11 ==
  \A j \in Jobs :
    ~IsV11(j) /\ status[j] = "failed" /\ calls[j] > 0 => answer[j] \in {"valid", "invalid"}

OutcomeInv == AskedOK /\ KnownOK /\ UncertainOutsideV11
=============================================================================
