# Verification of the AI video QC system

TLA+ models, TLC runs and TLAPS proofs for the AI video quality-control system:
its API and evaluation worker (`apps/api`) and the parts of its web application
(`apps/web`) that keep state of their own. Paths below are relative to
`apps/api/src/modules` unless they start with `apps`, `docs` or `prisma`.

The system scores short videos with a paid language model in several stages.
People upload videos and submit metrics through the NestJS API; evaluations are
queued as rows of PostgreSQL; worker processes take one job at a time, ask the
model and write the result. Nothing but the database connects the API and the
workers, and nothing but requests connects the browser to either, so the
correctness of the system is that of its transactions, and of what a tab makes of
their answers, under every interleaving, crash and late delivery. That is what
these modules check.

## Inventory

| Component | State it keeps | Operations | What is hard | Correct when | Model |
|---|---|---|---|---|---|
| Evaluation queue and worker (`evaluation-jobs/`) | `evaluation_jobs`, `evaluation_job_attempts`, the lease in a worker's memory | enqueue, claim, heartbeat, markExternalStarted, finish, abandon, recoverExpired, recoverOrphans | workers that die or wake up late, the gap between marker and request, one global slot | one job runs; a stale worker changes nothing; the model is asked once per job; every evaluation ends | `EvaluationJobs`, `JobPromise` |
| Quota ledger (`quotas/`) | `quota_policies`, `quota_ledger`, `quota_adjustments` | reserve, commit, release | concurrent reservations, settlement twice | reserved and committed never exceed the limit; each entry is settled once | `EvaluationJobs`, `Uploads`; windows left out |
| Result and final evaluations (`result-reviews/`, `final-evaluations/`) | the evaluation row, the video's status | trigger, execute, complete, markFailed | a source that changes while the model works | only the current binding is written; a video never waits for nobody | `EvaluationJobs`, `VideoPipeline`, `RatingEngines` |
| Content evaluation before V1.1 (`ai/gemini/`) | `ai_content_reviews`, scores | execute, complete, markFailed (nothing triggers it any more) | rows that ran when the queue was introduced | each ends once and is never asked again | `EvaluationJobs`, `RatingEngines` |
| V1.1 content evaluation (`v11/v11-content.service.ts`, `v11-workflow.service.ts`) | workflow revisions, groups, runs, decisions, holds, appeals, gates | triggerInternal, executeJob, hold, resume, appeal, resolveAppeal | up to three blind runs per group, superseded revisions, pilots | no paid run is superseded; a group that waits has a run; a superseded revision is final | `V11Content` |
| V1.1 engines (`review-engine.ts`, `gate-engine.ts`, `content-scoring.ts`, ...) | none | pure functions | boundaries, order of the runs | an adopted result is one the runs agree on | `ContentEngine`, `Assessment` |
| V1.1 ratings (`v11-ratings.service.ts`) | data ratings, comprehensive decisions, profiles | rateData, createComprehensiveDecision, resolve, confirm, mark, approveProfile | several rows of one revision, one status column | a revision concludes once, on the newest metrics | `V11Ratings`, `RatingEngines`, `Configuration` |
| Result metrics (`result-metrics/`) | snapshots; the form in a tab | createSnapshot | two people at one video, derived figures | every figure was seen or sent by somebody | `ResultMetrics`, `VideoPipeline` |
| Rule engine, supervisor review, final confirmation, cases | a row per step and the video's status | execute, confirm, mark, list | sources that move on before the confirmation | confirmed on current sources, once | `VideoPipeline`, `RatingEngines`, `Reports` |
| Permissions and offers (`permissions/`, `videos/video-actions.ts`) | none | assertCan..., allowedVideoActions | offers and handlers read different rows | what is offered is accepted | `VideoActions`, `V11Ratings` |
| Videos and uploads (`videos/`, `storage/`, `quotas/upload-ticket-maintenance.ts`, `apps/web/src/lib/direct-video-upload.ts`) | tickets, objects, video rows | ticket, PUT, confirm, abort, local upload, sweep, hide | commits of unknown outcome, late PUTs, the sweep | a reservation follows its ticket; the file of a video exists | `Uploads`, `VideoPipeline` |
| Dashboard and case libraries (`dashboard/`, `cases/`) | none | reads | which of several rows counts | all of them tell of the same conclusions | `Reports` |
| Accounts (`auth/`, `admin/admin-users.service.ts`) | users, sessions, identities | login, logout, change, reset, create, update | an account that changes while its request or login is under way | sessions are current; an administrator remains | `Accounts` |
| Runtime settings and console (`admin/admin-operations.service.ts`, `apps/web/src/components/admin`) | settings, revisions, model configuration, drafts | load, edit, save | loads and answers that arrive late | nobody overwrites what he has not seen | `Configuration` |
| Platform benchmarks (`platform-benchmarks/`) | benchmarks, revisions | create, replace, switch, select | unordered reads, two administrators | the choice for a video is determined | `Configuration` |
| Detail page and panels (`apps/web/app/videos/[id]/page.tsx`, `apps/web/src/components`) | what a tab shows | load, trigger, poll, final fetch | answers in any order | the panel follows the evaluation it tracks | `DetailPage` |
| Player and ranges (`apps/web/src/components/video-player.tsx`, `videos/videos.service.ts`) | the player's request, source and blob | stream, load, retry, leave | answers after an abort, both ends of a file | the user sees a video, a message or a button | `Playback` |
| Unsaved forms (`apps/web/src/lib/unsaved-changes.ts`) | guards, the methods they wrap | install, remove, ask | several forms that know nothing of each other | no page with unsaved changes is left without a question | `UnsavedChanges` |
| Histories and case library (`*/history`, `cases/`, `apps/web/src/components/case-library-page.tsx`) | a list and its cursor | read a page, mark | rows that come and move while one reads | no row is missed, none comes twice | `Listings` |
| Logs, displaying pages, scripts | append-only rows, files | input and output | little | | not modelled |

The components meet in three places: the row of a video, which every
transaction on it locks first; the row of a job, which the trigger creates and
workers change; and the row of an account, which reserve, settle and the last
check before a request lock. The status column of the video is written by five of
the components, by some of them without reading it: `EvaluationJobs`, `V11Content` and
`V11Ratings` (which extends `VideoPipeline`) each look at it from the side of the
components that can interfere there. `PROJECT.json` lists the components with what
is left out of each, the hazards found, and the source lines every definition
stands for.

## Plan

Done, in the order of the plan: the queue with its promise and its proofs; the
V1.1 content workflow and its engines; uploads with their quota and the sweep;
the pipeline of a video with the V1.1 ratings, the offers of its detail and the
reports; accounts with their proofs; what is computed, entered and configured; lists,
player and unsaved forms; then the proofs about everything between the API and its
database: the rest of the queue with its refinement, uploads, the pipeline and the
V1.1 content workflow, and the parts of `MCDesk`, the engines of `Assessment` included.

Left:

1. Quota windows of a day or a month, policies that change in use, and manual
   adjustments.
2. The panels of V1.1, of the rule engine and of the confirmation, and the
   edit of a video's descriptions.

Every module keeps one form: parameters with named assumptions, one action per
transaction, bounds that are constants named as such, invariants as conjunctions
of named parts, and no recursive operator.

## The modules

| Module | What it is |
|---|---|
| `EvaluationJobs` | queue, worker loop and the queue's side of the four executors |
| `JobPromise` | the abstract specification: what the account that asks sees of a job |
| `V11Content` | workflow revisions, groups, runs, holds, appeals, pilots of a video |
| `Uploads` | tickets, requests, objects and videos, with the browser and the sweep |
| `VideoPipeline` | one video from approved content to a final status; hiding |
| `VideoActions` | extends it by people and by what the detail offers them |
| `V11Ratings` | extends that by the V1.1 way to a final status |
| `Reports` | extends that by what lists, dashboard and libraries count |
| `Accounts` | accounts, sessions, logins, requests and their administration |
| `ContentEngine`, `RatingEngines` | the pure engines: schema, scores, agreement, gate; data rating, matrix, boundary |
| `Assessment` | the engines in the order the services call them |
| `ResultMetrics` | snapshots of figures and the forms that send them |
| `DetailPage` | a tab that follows the evaluations of a video |
| `Configuration` | settings with their console, benchmarks, profiles |
| `Listings` | histories and the case library, read page by page |
| `Playback` | ranges of a stored file, and the player |
| `UnsavedChanges` | the guards of forms with unsaved changes |
| `MC...` | instances for TLC |
| `EvaluationJobsProofs` | the queue's invariant and what it says of calls, slot and reservations |
| `QueueRowsProofs` | rows of the queue beside one another: stages, attempts, evaluations, retries, quota, stale workers; known outcomes, and the refinement of `JobPromise` |
| `V11ContentProofs` | the V1.1 content workflow |
| `UploadsProofs` | uploads |
| `PipelineProofs` | one video: `VideoPipeline`, `VideoActions`, `V11Ratings` and `Reports` |
| `AccountsProofs` | accounts |
| `DeskProofs` | what people enter and are told of it: figures, configuration, ratings and conclusions |
| `BrowserProofs` | what the browser shows: ranges and player, the tab of a panel, lists, unsaved forms |

### The queue

`EvaluationJobs` is the queue, the worker loop and the part of the four stage
executors that touches queue rows. A step is one database transaction or what a
worker process does between two of them.

| In the model | In the code |
|---|---|
| `status`, `attempts`, `external`, `due`, `leaseLeft` | the columns of `evaluation_jobs`; `available_at` and `lease_expires_at` appear as "has passed" and "ticks left", because only comparisons with the database clock are made |
| `token` | `lease_token`. A fresh UUID per claim is modelled by the number of the claim: two claims of a job never share it, which is all that is used of a UUID |
| `attemptRow[j][k]` | the status of attempt k of job j |
| `ledger` | the entry `content:<jobId>` of the quota ledger |
| `review`, `vstatus` | the status of the evaluation a job is bound to, and of its video |
| `newest`, `retryOf` | what enqueue compares for an administrator's retry |
| `pc`, `myJob`, `myToken` | a worker: the lease object it holds and how far the stage executor has come |
| `calls`, `answer` | history only, no guard reads them |

| Action | Code |
|---|---|
| `TriggerReview`, `AdminRetry`, `TriggerV11` with `Enqueue` | the triggers of the three stages, `AdminOperationsService.retry`, `enqueue` |
| `Claim`, `Heartbeat`, `Release` | `claim`, `heartbeat`, `releaseAfterExecutionError` |
| `StartRun`, `InputFault`, `MarkExternalStarted`, `SendRequest`, `ReceiveAnswer` | the executors up to the answer; the lost lease is handled as each stage does it |
| `Complete`, `CompleteWithFurtherRun`, `CompleteFails`, `MarkFailed` with `Finish` | the result and failure transactions, `finishCurrent`, `finish`, `settle` |
| `RecoverExpired`, `RecoverOrphan` with `Abandon`, `Requeue` | `recoverExpired`, `recoverOrphans`, `abandon` |
| `Crash`, `Tick`, `BecomeDue`, `ToggleAccount`, `AdvanceVideo` | the process dies; time; an account changes; metrics or rules move the video on |

Decisions worth knowing when reading it:

- Releasing the lease and recovering the expired job are separate transactions
  in the code (a crash or another worker fits in between), so they are separate
  actions. The global slot stays taken until one worker recovers.
- A worker that lost its lease is not stopped: it goes on until its next
  transaction, exactly as the process would.
- The content stage takes any unexpected error for an unknown outcome, also one
  raised before the request (`FailureSteps`); the result stage lets a missing
  input escape to the loop (`InputFault`); the V1.1 stage treats a lost lease like
  any failure and checks it again (`OnLeaseLost`, `MayMarkFailed`).
- Guards that need state outside the queue are left open: a V1.1 start may
  always be refused (the group's limit of technical attempts), a V1.1 result may
  or may not ask for a further run, a V1.1 trigger is not stopped by holds or by
  a duplicate group. This allows more behaviours than the code has, so the safety
  properties hold for the code.
- No route triggers the content stage of the time before V1.1; its jobs exist
  in the initial queue and as orphans (`LegacyStart`).
- A quota window is the lifetime of the account; windows that roll over only
  free quota.
- Pilot runs, which do not move the video, are the subject of `V11Content`.

`JobPromise` is what the account that asks sees: asked at most once, one
outcome, charged or given back once, never asked after it was given back.
`EvaluationJobs!Promise` gives the refinement mapping.

### The V1.1 content workflow

`revs[v]` is the sequence of `v11_workflow_revisions` of a video, with mode, active
decision and gate; `groups` and `runs` are the rows of those names, a run with the
state and the tries of its queue job. A trigger (`triggerInternal`) compares its mode
with the current revision, supersedes it if they differ, answers with an open or
identical group or opens one with its first run and job. A formal revision whose runs
disagreed (`evaluation_instability`) may be tried again by a formal trigger only, which
opens a revision for it; a pilot that meets such a revision does the cutover to its own
mode, as it does with any formal revision. A run is claimed, started,
sent and answered; completing it adopts the group, holds it, or inserts and
enqueues the next run in the same transaction; refusing that job fails the run.
Expiry and giving up come from the queue: a job is claimed at most twice and a
worker that lost its lease writes nothing, which `EvaluationJobs` shows. Manual
holds, `resume`, appeals and their resolution, the cutover between formal and pilot
mode and changes of the model settings happen at any moment.

The engine's verdict on a group is left open here (`Verdicts`: passed, to be revised,
flagged) and computed in `ContentEngine`.

### Uploads

| In the model | In the code |
|---|---|
| `tickets[t].status`, `.ledger`, `.age` | `upload_tickets` and its two ledger rows, which move together; only whether the ticket or its grace has passed is kept of the times |
| `objects` | the source that the browser PUTs, the sealed copy, the files of local uploads |
| `reqs[q].pc` | how far a confirmation or a local upload has come |
| `open` | requests whose creating transaction has not ended; a lost connection leaves it to the database, `Commit` or `Rollback` |
| `videos` | videos, their parent, and whether a revision has its first decision |

Transactions lock the user's row, and an open one blocks the others of its user
(`LockFree`) and those of the same parent (`ParentFree`). `Put` and `Abort` are the
browser (`direct-video-upload.ts`). Its request has no timeout and the signature of the
URL bounds only when it starts, so a PUT may land at any time, twice, and after the
sweep has removed the ticket's objects; `late` remembers the tickets to which the last
happened and is read by no guard. `Fail`, `Recover`
and `CleanUp` are the catch branches with the check whether the video exists after
all; `Die` ends a process anywhere; `Sweep` and `SweepFails` are the worker.

### One video

`VideoPipeline` follows `videos.status` from approved content to a final status:
metrics, result evaluation, rule engine, final evaluation, confirmation, case
mark; `active` is the record's state; the content stage appears as `flow`, what
`V11Content` shows of the current revision: its number and mode, the decision and the gate,
the set of holds on it, and whose job goes on (a formal evaluation's, an appeal's rerun or
a pilot's). Revisions are opened by triggers, pilots and appeals; an appeal ends with
its rerun or is resolved or rejected by an administrator (`ResolveAppeal`), which releases
its hold and nothing else; holds of different kinds stand beside one another, and `Resume`
releases a manual one. A job appears as its evaluation, which
`EvaluationJobs` shows to end with it. Supervisor reviews are no longer written, so
only a video that has one in the initial state goes this way to its end.
`V11Ratings` adds data ratings, comprehensive decisions, resolution and
confirmation, which write the same column; whether a final confirmation is asked for is
read by each transaction from a policy that may be switched at any moment, so it is an
input of the action. `VideoActions` defines for each
administrator, owner or other person what the detail offers (`Offered`), from the
rows the detail reads, and `V11Ratings` what the handlers accept (`Accepted`).
`Reports` defines which rows a list, the dashboard and each case library count.

### Accounts

`user` is the account row with a number for its password, `session` the session rows,
`logins` what a login has read before its transaction, `requests` what the guards let
in. A request names the session it came with and commits later, so the account
behind it may have changed. `Refuse` is any refusal; what the handler reads inside
its transaction is the guard of its action.

### Engines, figures, page, configuration

`ContentEngine` and `RatingEngines` translate the pure functions; scores are integers
in tenths, decimals integers in 1/10000 as the columns keep them, dates day numbers.
`Assessment` runs them over a sample as steps of a group, so that an order of runs is
a behaviour. `ResultMetrics` has the server's merge and derivation and any number of
forms, each filled from a snapshot, edited, sent, refused or sent again.
`DetailPage` keeps in one record what the tab has asked for, what is under way and
what it shows; `PageNext` also takes the steps of others on the video. `Configuration`
has a console with its drafts while others save, and splits the transactions on
benchmarks and profiles where read committed lets another one in between.

### Lists, player, unsaved forms

`Listings` has the rows of a history or of a case library, which are created and
marked, and a reader with the page under way, the list on his screen and the cursor.
The case library asks for the cases of V1.1 beside each page and settles for the half
that arrives: a page that is lost beside them counts as an empty last one (`LoseHalf`).
Four services have the same code for their history; each part of it is mapped to one
of them. `Playback` has the server's answer to a range as an operator (`Respond`, run on
every file and range of small sizes) and the player as a machine whose requests are
answered, fail or are given up. `UnsavedChanges` has the guards as a page of forms
installs and removes them. A method is the list of guards that a call of it runs through,
and each guard keeps the list it found; a leave by link, router, step back or reload is one
step, the guards it runs through are `OfPush` and `OfClick`, and which of them ask is
`Consult`.

## What the runs check

| Run | Instance | Properties |
|---|---|---|
| `QueueReviews` | r1 r2 r3 on one video, two workers, one attempt | `UncertainNeedsAttention`: a request of unknown outcome needs attention; `RetriedOnce`: a retry replaces a failed job, and no job is retried twice; `NoStrandedResult`: a video in ai_result_reviewing has an open evaluation |
| `QueueContent` | c1 c2 on one video, l1 on another, one account with a quota of two, one attempt | `OneActivePerStage`; `QuotaFollowsJob`; `WithinQuota`; `ImplementsPromise`, the refinement |
| `QueueEnds` | f1 and c1 on one video, two workers, two attempts, fairness | `HistoryAgrees`: every attempt but the last expired, the last agrees with the job; `QueueInv`, the invariant of the proofs; `AtMostOneRunning`; `AtMostOneCall`; `ReviewAgrees`: queue and evaluation never disagree; `StaleWorkerHarmless`: a worker without a good lease changes no row; `TerminalIsFinal`: nothing changes a finished job, its evaluation, history or charge; `EveryReviewEnds` |
| `ContentWorkflow` | one video, up to three groups | `FormalRunIsCurrent`: nothing supersedes a formal run that still has a job; `AttemptsSuffice`: the limit of six attempts never refuses a run its own; `FurtherRunExists`: a group that waits for a run has one; `SupersededIsFinal` |
| `Uploads` | two users, two tickets, two requests, one parent, a quota of one, fairness | `ReservationFollowsTicket`: within the quota, open with the ticket, spent with a video, else given back once; `FilesFollowVideos`: the file of a video is there, one request seals it, and a swept ticket leaves a source only from a PUT that landed after the sweep; `OneRevisionAtATime`; `EveryReservationEnds` |
| `Pipeline` | one video, two metric snapshots, one result evaluation, two final evaluations, two revisions opened by triggers, pilots or appeals, two holds at a time, two content and two comprehensive decisions | `FinalStatusIsFounded`: a final status is a conclusion about the newest metrics; `OneConclusion`: a revision concludes once; `HiddenIsQuiet`: no evaluation of a hidden video is under way; `ConfirmedOnCurrentSources`; `OfferedIsAccepted`: but for the offers below; `ReportsAgree`: lists, dashboard and libraries tell of the same conclusions of a revision that passed its gate |
| `Accounts` | two administrators, one account to be created, two sessions | `LiveSessionsAreCurrent`; `AdministratorRemains`: only time takes the last one away; `OnlyAdministratorsDecide`: also at the moment of the commit |
| `Desk` | ten parts that share no variable, below | `AdoptionIsSound`, `RatingsAgree`, `FiguresAreFounded`, `PanelTellsTheTruth`, `ConfigurationAgrees`; `ListsAreWhole`: a reader misses no row that stayed where it was, unless half of a library's answer was lost; `PlaybackIsSound`: the bytes asked for, and a player that is never silent; `LeavingIsAsked`: each unsaved form is asked for |
| `QueueUncertain` | c1, one worker | `UncertainNeedsAttention`, violated |
| `ShadowEvaluation`, `InterruptedRun`, `ContentGate` | the same | `ShadowLeavesFormal`, `InterruptedCanRestart`, `OpenOnlyWhenPassed`, violated |

### Bounds

*The queue.* Letters name the jobs: r result, f final, c V1.1, l content before
V1.1. The lease is two ticks: one lets a heartbeat find a lease that is running
out, the second lets it expire. Two workers are enough for one to be stale while
the other holds the slot. One attempt instead of two is given where the question
does not concern retries and a third job matters more; max_attempts is 2 or 3 in
the code and between 1 and 5 in the table, and the proofs cover every value.
Workers are interchangeable in the safety runs (symmetry); the run with a liveness
property uses none. The two stages of `QueueEnds` are the two that interfere
through the status of a video and lose their lease in different ways.

*The content workflow.* Groups opened and changes of the model settings are three
together: enough for a formal group, a pilot or an appeal that supersedes it, and
what follows, or for an evaluation that is repeated under changed settings. A group has up to three runs of two
attempts, as in the code, so its limit is met exactly. `VIEW Relevant` hides what no
guard reads again: attempts and compliance of closed groups, the tries of settled
jobs, holds and appeals of superseded revisions. None of the run's properties
reads them either (`AttemptsSuffice` speaks of runs with a job, `SupersededIsFinal` of
decisions, gates and groups' statuses).

*Uploads.* Two users with one request each that want one parent, or one user's two
uploads that compete for a quota of one, meet every lock there is; two tickets
are one more than the quota.

*The pipeline.* Two of everything that can become stale: the newer one makes the older
one stale. Two revisions are one that concludes and the one that a pilot, an appeal or
a trigger puts in its place; two holds at a time are one and another beside it
(`MaxHolds`, which bounds every hold placed on a revision). A second result evaluation is left out here; chained evaluations are
the subject of `QueueReviews`.

*Accounts.* Two administrators can remove one another; requests and logins under
way are at most two; a password changes once and accounts twice. Sessions are
interchangeable (symmetry). The proofs cover every number.

*The desk.* `MCDesk` explores ten state machines one beside the other: the initial
state chooses which (`focus`), and the others stand still, so the states are the sum
and not the product of theirs. Samples lie at the boundaries of the engines: anchors
around the ratings' thresholds, two runs that differ in one anchor or one fact,
contexts with and without history, figures equal to thresholds, edits that leave
one field of a quotient alone. The page has two snapshots, two evaluations of each
kind and two requests unread at a time; the console two versions and one orphaned
request; four different benchmarks and two administrators (symmetry), and up to
three profiles, of which two are approved at the same time. Lists have three rows, two
times and pages of one row, so that every cursor falls between rows of the same time
and rows of another; files have up to three bytes and ranges reach one beyond them, so
that every comparison meets both sides and equality; the player asks four times, once
at first, once by itself and twice on demand; a page has two forms and a document three
guards, so that one is installed over what two others left behind.

Deadlock is checked in the four runs of the queue. The other instances stop when
their bounds are used up, which is no state of the system; progress is the
subject of `EveryReviewEnds` and `EveryReservationEnds`.

### Fairness

*The queue.* Each worker takes its next step, recovers and claims when it
persistently can, because the loop of `worker.ts` polls for ever and every external
call has a timeout; back-offs end and leases run out because the database clock
passes. No fairness for triggers, heartbeats or crashes: a worker may crash
every time it gets a job, and the attempts still bound it.

*Uploads.* Time passes (`Age`); the database ends a transaction that has lost its
connection (`Commit` or `Rollback`); the worker sweeps every minute for ever, and a
sweep that fails or finds the lock taken is tried again, so a ticket that can be
swept again and again is swept (`SF_vars(Sweep(t))`). Nothing is assumed of browsers
and requests, which may die at any step.

### Disagreements with documents

- `QueueUncertain`: `docs/durable-evaluation-worker.md:21` says that a job whose request
  went out and whose outcome is unknown becomes needs_attention. The result,
  final and old content stages do that. The V1.1 stage settles every error with
  `finishCurrent(tx, 'failed', false, error)` (`v11/v11-content.service.ts:547`). The
  charge is kept in either case; only the status that asks somebody to check the
  provider's bill is lost.
- `ShadowEvaluation`: `README.md:9` promises that shadow mode never changes a video's
  eligibility or formal figures. A pilot supersedes the current revision
  (`v11-content.service.ts:228`), and with it the decision and the gate in force.
- `InterruptedRun`: a job that is given up tells people to trigger again by hand. When
  it was a further run, its group stays in review_required, and every trigger
  answers with that group (`evaluation-jobs.service.ts:284`, `v11-content.service.ts:256`).
- `ContentGate`: content adopted under a manual hold becomes the active decision while
  the gate of an earlier adoption stays (`v11-content.service.ts:523`); after the hold
  the data stage is open for content that the tests of the gate say cannot pass.

### Met while modelling

Behaviour that follows from the code, is in the models, and contradicts no
property or document precisely enough to be a run of its own:

- The final fetch of an older review that arrives late clears the job that the
  panel tracks now (`result-review-panel.tsx:137`), so the tab stops asking. A load of
  the source that was read while the evaluation ran and arrives after its final
  fetch shows it as running again. A panel that tracks its own evaluation shows no
  other person's. `PanelTellsTheTruth` therefore speaks of tabs that track.
- A return on investment typed for a live-room video is computed anew when its
  spend changes.
- Offers that may be refused, excepted in `OfferedIsAccepted` (`Unsure`): content evaluation
  while the revision is held, or while a rerun or a pilot goes on; the upload of a new
  version in a revision after the first that its gate has not decided, since the status
  revision_required is that of the revision before and the handler looks for the gate's
  decision in the current one (`videos.service.ts:687`); a result evaluation or metrics
  when the data stage closed; the rule engine for a video without a supervisor's approval
  or after a V1.1 rating; a confirmation after a V1.1 rating.
- An appeal against a final conclusion, a pilot and a trigger that finds a duplicate open
  a revision and leave the video's status. Until content is adopted in it, which after a
  rejected appeal whose rerun failed may be never, the list counts the video as completed
  and the dashboard counts no conclusion (`dashboard.service.ts:101`). `ReportsAgree` is about
  revisions that passed their gate and are not held. A trigger that supersedes a
  revision and then finds a group of the same fingerprint answers with that group and
  leaves the new revision empty.
- Only manual holds and those of an appeal are ever released. A hold for incomplete input
  or compliance lasts as long as its revision; one for disagreement ends with the
  revision that the next formal trigger opens, but not in a revision that an appeal
  opened, which names no mode.
- A PUT that lands after the sweep leaves a source that nothing removes, whereas the comment
  at `upload-ticket-maintenance.ts:10` expects the grace to absorb PUTs in flight. An upload
  that takes longer than the grace is enough. `FilesFollowVideos` excepts these tickets.
- When the page of the case library fails and the cases of V1.1 arrive, the error
  is cleared and the cursor dropped (`case-library-page.tsx:29`): "load more" disappears and
  the list looks complete with examples missing, a first page even empty. `ListsAreWhole`
  excepts a list to which this happened (`lost`), until its first page is loaded again.
- Decisions that wait for a confirmation when `manualFinalConfirmationEnabled` is
  switched off can be confirmed by nobody (`v11-ratings.service.ts:338`). A decision of
  a revision that already has a resolved one with a higher decision revision can be
  neither resolved nor confirmed (`v11-ratings.service.ts:328`).
- After a re-evaluation the dashboard of the older way counts both evaluations. The
  V1.1 case library shows an administrator hidden videos too. The filter of the
  list by comprehensive rating matches superseded decisions.
- A request that dies after its ticket was swept leaves its sealed file, which
  nothing removes; `FilesFollowVideos` excepts it.
- Two administrators may both have an end in the future, so time can take the last
  one; `AdministratorRemains` is about steps of people.
- Scores are compared as floating-point numbers. Of all scores that eight anchors
  give only 8.8 and 3.8, and 11.3 and 6.3, compare differently from integers. The
  score adopted from three runs, made of middle anchors, may lie outside the
  scores of the runs.
- No unique index keeps two administrators from creating the same benchmark at the
  same time, and a replacement carries no version (`platform-benchmarks.service.ts:105`,
  `:49`). The page offers its form to content owners, whom the API refuses.
- The row of `evaluation_parameters` keeps the stage saved last while the model
  configuration keeps one per stage; seeding again would switch the installed
  model on beside the saved one.
- A player whose 30 seconds end when the whole answer is there and not yet taken
  shows neither video nor error nor button (`video-player.tsx:37`, `:40`); the time between
  is very short. `PlaybackIsSound` excepts it. A range with a number beyond the safe
  integers is refused, where HTTP would send what there is.
- "Load more" of the case library is not disabled while it loads: a second click, or
  one after the filters were changed, appends a page twice or one of another filter
  (`case-library-page.tsx:37`, `:50`). When the example behind which a page begins is
  marked again, the next page starts at the top and brings examples a second time.
- Two forms with unsaved changes ask one after the other. Who says yes to the first
  and no to the second stays on a page whose first form is not asked for any more
  (`unsaved-changes.ts:46`), where `docs/V1.01-用户与管理员说明.md:27` promises the question. When
  the form that was changed first is saved first, its guard stays behind in the methods
  of the other, asks on a page without unsaved changes and, without the Navigation API,
  lets a refused step back leave the wrong address (`:89`, `:115`). `LeavingIsAsked`
  is about forms that were not answered for yet, and asks the latter only where no
  form was saved out of order.
- After a conflict the console offers no reload until it is loaded again; its refresh
  lets a person type before the rows arrive and then replaces the draft; an answer
  to a form that is gone clears the mark of unsaved changes.

## What is proved

Every safety property of the runs `QueueReviews`, `QueueContent`, `QueueEnds`,
`ContentWorkflow`, `Uploads`, `Pipeline`, `Accounts` and `Desk` is a
theorem, for every value of the constants that the assumptions of the modules allow; two of
them have a hypothesis, which is named below. A bound on how often something happens (metrics,
revisions, groups) is any number in the proofs. The inductive invariants that no run
lists (`OutcomeInv`, `ContentInv`, `UploadInv`, `PipelineInv`, `MetricsInv`, `PlaybackInv`, `PageInv`,
`ConfigurationInv`, `ListingsInv`, `FormsInv`, `AssessmentInv`) are state predicates of their modules: naming
one as INVARIANT in the .cfg of its component lets TLC look for a counterexample before a
proof is changed.

### The queue

`EvaluationJobsProofs` proves, for any set of jobs, workers, videos and
accounts, any max_attempts from 1 to 5, any lease and any quota:

- `QueueInvariant`: `Spec => []QueueInv`
- `TypeCorrect`, `OneAtATime`, `NeverAskedTwice`, `QuotaAgreesWithQueue`: type
  correctness, one running job, one request per job, and the agreement of
  reservations with jobs, as consequences.

The assumptions are `JobsAssumption` (every job has a video, a stage and an
account) and `BoundsAssumption` (the table's check constraint on max_attempts, a
lease longer than zero).

That the model is asked once is not inductive by itself. The argument runs
through the invariant: a token is the number of its claim and only the running
job has one (`TokensOK`); a waiting job is unmarked and has an attempt left
(`WaitingOK`), since recovery gives a marked job up; every worker works on a claim
that was made, no two on the same one (`ClaimsOK`); so a worker past the marker
holds the last claim the job ever gets (`MarkersOK`), and only one worker can be
about to send (`CallsOK`). The reservation of a marked job is never released
because settlement reads the marker inside its transaction (`LedgerOK`). There is
one lemma per action; `FinishKeeps`, `EnqueueKeeps`, `MoveKeeps` and `LeaveKeeps` carry
what the actions share.

`QueueRowsProofs` proves the properties that relate rows: `OneActive`, `HistoryIsTrue`,
`ReviewsAreTrue`, `ResultsAreAwaited`, `RetriesAreUnique`, `QuotaIsKept`, and the action
properties `FinishedIsFinal` and `StaleWorkersAreFenced`. Each theorem has the name of what it
promises and states one property of the runs. What a step does to rows is said once:
`RowStep` distinguishes steps that move no row, that enter, claim, defer, settle or
adopt one, and the V1.1 completion that settles one and enters the next. `NextRowStep`
shows that every step is one of them, and each property then has seven cases instead
of twenty. The quota counts a set, so the proof carries along that the set is finite;
that the evaluations of the time before V1.1 were within the quota when the queue was
introduced is an assumption on the initial state (`LegacyStart`), without which no
later step could keep it.

`QueueRowsProofs` also proves the refinement, `QueueKeepsPromise`: `Spec => ImplementsPromise`.
Every step of the queue is a step of `JobPromise` or leaves the account's view alone:
claims and back-offs are invisible, a settlement is a success, a failure or a job given up,
and the V1.1 completion is success and submission in one. `QueueInv` does not say why a
job that succeeded was asked, nor why a marked job that failed was; `OutcomeInv`
(`OutcomesAreKnown`) adds it: a worker with an answer sent the request, and whoever
reports a plain failure of a job that was asked has the answer. The same invariant gives
`UncertainIsVisible`: without V1.1 jobs, `UncertainNeedsAttention` holds. That hypothesis is
the disagreement which the run `QueueUncertain` shows, no more and no less.

### The V1.1 content workflow

`V11ContentProofs` proves `ContentInvariant`, `FormalWorkIsCurrent`, `ReviewsHaveRuns`,
`SixAttemptsSuffice` and `SupersededForGood`, for any number of videos, groups, runs and
changes of settings. The constants are assumed to be numbers; `SixAttemptsSuffice`
assumes that the limit of a group is at least the six of the code.

Whatever opens a group (a trigger, a pilot, an appeal) finds no job of the video first
(`NoActive`), so it supersedes no work under way. The difficult case is the trigger
that finds an identical group: it answers with it and checks no jobs, and yet it may
have replaced the revision before. It does so in two cases: the revision was opened for
pilots, and then has no formal group; or its runs disagreed, and then its evaluation is
over. A pilot checks the jobs before it replaces either. `ContentInv` is what makes this a proof: rows refer to rows that exist, and a
revision opened for pilots has no formal group (`RowsOK`); a video has one job, whose
run comes after the valid runs of its group, and the group has used at most two attempts
for each run before and those of this job (`JobsOK`), hence six in all; a hold for
disagreement is only on a revision without a formal job (`InstabilityOK`). What
a step does is again said once (`Moves`), each action is shown to be one of the moves, and each
part of the invariant to survive each move. `FurtherRunExists` counts the valid runs of
a group, so the proof has lemmas about how that set grows.

### Uploads

`UploadsProofs` proves `UploadInvariant`, `ReservationFollows`, `FilesFollow` and
`RevisionsTakeTurns`, for any users, tickets, requests and parents. `UploadAssumption` says that
there is an input and that what an input names exists.

The difficulty is the transaction whose process is gone: it is still open, and its video
may appear at any moment. `OpenOK` says what nobody can do in the meantime (end its ticket,
touch its file, revise its parent), which holds because each of them needs the lock of
the user's row or of the parent. `OwnersOK` says that a ticket is claimed once and
that owning it is the only way to a sealed file; `ObjectsOK`, that a swept ticket is too
old to be used again, which is why a sweep beside a slow request is safe, and that it has
a source only from a PUT that landed after the sweep.
`ReservationFollows` needs `WithinLimit` in addition, since the quota counts a set.

### One video

`PipelineProofs` proves `PipelineInvariant` and from it `HiddenVideosAreQuiet`,
`FinalStatusesAreFounded`, `RevisionsConcludeOnce`, `ConfirmationsAreCurrent`,
`OffersAreAccepted` and `ReportsAgreeAlways`, about the composition of the four modules and
for any number of metrics, evaluations, revisions and decisions.

Two ways write one status without asking each other. The invariant says why the
status is true nevertheless: of each kind of row only the newest can be running or
current (`OldRowsOK`); a revision has at most one rating of the newest metrics, and a
final decision seals it (`NewRowsOK`); what the status says of the newest rows is so
(`StatusOK`); a revision with a rating waits for its conclusion or has it (`DecidedOK`);
and a final status was concluded from the newest metrics, by the revision in force
or by one that an appeal, a pilot or a duplicate replaced (`ConcludedOK`, `TopOK`). That offers are accepted is no
invariant of its own: every offer is compared with the guard of its handler in a
state of `PipelineInv`.

### Accounts

`AccountsProofs` proves, for any accounts, sessions, logins and requests, any
changes an administrator may ask for and any bounds:

- `TypeCorrect`
- `SessionsAreCurrent`: `Spec => []LiveSessionsAreCurrent`
- `AdministratorsRemain`, `AdministratorsDecide`: the two action properties, of every
  step of every behaviour.

The assumption is `AccountsAssumption` (there is an administrator at first, and a new
account or a change has values of the columns). That sessions are current follows
from two facts about every change of an account: it revokes the account's sessions
in the same step, and a login that read the account before it finds it changed when
it issues the session. The last administrator is safe because the count is made
inside the transaction, of administrators who are active and have not expired.

### What people enter and are told

`DeskProofs` proves `FiguresFounded`, `ConfigurationsAgree`, `AdoptionsAreSound` and
`RatingsAlwaysAgree`; `BrowserProofs` proves
`PlaybackSound`, `PanelsTellTheTruth`, `ListingsAreWhole` and `LeavesAreAsked`. Each is about a
specification of its own (`MetricsSpec`, `ConfigurationSpec`, `AssessmentSpec` for both of
the engines, `PlaybackSpec`, `PageSpec`, `ListingsSpec`, `FormsSpec`): the part of
`MCDesk` with that name, the parts sharing no variable. Assumed of the constants is only what
tells data apart: nothing is no number, and what is typed into a field of numbers is a number
or nothing (`MetricsAssumption`); no missing, huge or unknown number of a range is a number
(`PlaybackAssumption`); a model is one of a result or of a final evaluation
(`ConfigurationAssumption`); rows are positive numbers and a page has a row
(`ListingsAssumption`); the number of forms is a natural number (`FormsAssumption`); a snapshot
maps metrics to numbers or to nothing and a benchmark has the form that its schema lets in, over
the same metrics, where a metric that a snapshot lacks counts as nothing
(`AssessmentAssumption`). The answers of the models are any answers: what the engines rely on is
what their validation checks.

- Figures. A quotient that nobody sent is computed or was inherited together with what it is
  computed from, so the snapshot that sent it is still the one with the last word
  (`MetricsInv`). That a computed quotient is never warned about is arithmetic: rounding
  moves it by half of the divisor, and the tolerance is a hundred times that.
- Ranges and player. The answer to a range is computed and compared with what HTTP defines,
  for files of any size. For the player, every request that still waits is the current one or
  was aborted (`PlaybackOK`), hence none can take the screen from a later one.
- The tab. What it once read of an evaluation stays true, because an evaluation that ended
  does not change (`Tells`), and every place where an answer can wait is a place of a row.
- Configuration. The version on a form is the one it is sent with, also when nobody waits for
  the answer (`Requests`, `Sheets`), so that a save with that version overwrites what was
  seen. A history without a gap needs no induction: a version is added where the last one
  stood. Approvals are numbered one after the other, and the last is in force. A
  benchmark is chosen from an order of all applicable rows; two such orders have the same
  rows, and the proof needs no more of them.
- Content decisions. What was adopted from the runs of a group is still the engine's word on
  them (`GroupOK`), so the rest is arithmetic about runs. Anchors are even, so half of two is
  exact; the total of the mean lies halfway between two totals of the same rating, up to
  rounding, and has it too. Of three runs an anchor held twice is unique, whichever two hold
  it. What two runs cannot settle, and that they are too far apart, stays true with one run
  more, and every count the engine makes is the same in another order of the runs (`AsMany`). A
  lone run is only adopted when its score is more than two points from every boundary at which a
  review is asked for, and no boundary of a rating is missing among these (`FarIsStable`).
- Ratings. A guarded rating is computed by a loop over the guards; `GuardedIsWorst` says what
  it is: the worst of the threshold's rating and the caps of the guards that apply. That it is
  monotone, and the same for the guards in reverse, follows from there being one worst. The
  loop is a function defined by recursion, whose existence and each fact about which is
  proved by the least place at which it fails (`LeastNumber`).
- Conclusions. Each row of the matrix is given by two bounds (`RowsConclude`), and both move only
  one way from row to row. In the older way, `OldOK` ties each step to the one before it, and a
  high risk to the worst grade, so that the three tables meet only where they are compared.
- Lists. `ReaderOK` is the argument: whatever stayed in the list and is not shown yet comes
  after the place at which the last page ended. Rows move only to the front, so that what
  comes after that place keeps coming after it; and a page is full or the last one. A list
  whose cursor was dropped with half an answer is marked as such until it starts anew. The
  cursor carries the time its row had (`PlaceOK`), not the one it has now.
- Unsaved forms. A method of the browser is the list of guards a call of it runs through, and
  what each guard found when it wrapped the method is the rest of the list behind it
  (`Wraps`), in whatever order guards were put in and taken out since. Putting back what was
  found may bring guards of saved forms back to the router's methods, but never takes the guard of
  an unsaved form out of `pushState` (`MethodsOK`), which is what a leave runs through; that each is
  then asked, or the browser asks for all, follows by the first no among the questions. Where
  forms were saved in the reverse order of their changes, a list is the installed guards, the newest
  first, and behind them only guards whose question was answered (`Stacked`). The guards a page
  takes with it when it is left go one by one; that none stays behind needs no induction,
  since there is a first form that fails it, if any does (`Least`).

### What the proofs changed

- `ReportsAgree` was false. With three comprehensive decisions, the decision resolved last
  is not the newest row, because its rank is `decisionRevision` and not the time
  (`videos.service.ts:427`, `v11-ratings.service.ts:258`, `:328`); the run, with two, could not
  see it. The property now says what the code keeps: the rating that the list shows is the one
  that the status names, as long as it rates the content in force.
- The quota could be exceeded from an initial state the database cannot be in
  (`LegacyStart` in the queue's module); `Inputs` of uploads could be empty.
- `FinalStatus` lists the three final statuses instead of putting their names together, which
  no prover can tell apart.
- The benchmark that is chosen (`Chosen`) and the page that is read (`PageAfter`) are defined
  by what they are among all rows, not by a recursion over an order or a sort with a
  comparison as parameter, which no prover unfolds; TLC found the same states after.
- `UnsavedChanges` has no recursion any more but for the forms that go one by one. A wrapped
  method was a pointer to a guard that points to the next, and a question folded over the
  chain; it is now the list of guards itself, and who is asked is said by places in it. TLC
  explored the old and the new module in lock step, with four guards and two forms, and found
  no difference. One conjunct of the invariant was missing at first: with the Navigation API
  nobody wraps `pushState`, and so nobody has another's to put back.
- `Rate` accepted a benchmark whose thresholds are out of order, which the engine refuses when it
  rates (`data-rating-engine.ts:38`); it has the guard now. No property needs it: whatever their
  order, the first threshold that is met is no later for a better value.
- A model of neither stage, which the settings never offer, was allowed by the
  constants and would have gone unnoticed.

### Only model-checked

- Liveness, `EveryReviewEnds` and `EveryReservationEnds`: the prover does not handle fairness
  and ENABLED.
- The four runs that show a disagreement: there is nothing to prove.

## Not modelled

- Quota windows of a day or month, changes of policy and manual adjustments: a
  window is the lifetime of the account here. Windows that roll over only free quota.
- Covers, and the edit of a video's descriptions: reads, or single rows
  that no other decision reads.
- The panels of V1.1, of the rule engine and of the confirmation: they load like the
  two that are modelled, with fewer requests. A panel's three requests are one here.
- The statistics of pilots, periods of the dashboard, listings and cost
  rates of the operations console: reads.
- Operation logs and the usage record of an attempt: append-only rows that no decision
  reads.
- The limit on the rate of logins, formatting, exports, tables and charts.
- The release of the containers and the scripts that drive a browser: no part of the
  running system.

## Running

    tlc -workers 2 -config QueueContent.cfg MCEvaluationJobs
    tlc -workers 2 -config Pipeline.cfg Reports
    tlapm EvaluationJobsProofs.tla
    tlapm QueueRowsProofs.tla
    tlapm V11ContentProofs.tla
    tlapm UploadsProofs.tla
    tlapm PipelineProofs.tla
    tlapm AccountsProofs.tla
    tlapm DeskProofs.tla
    tlapm BrowserProofs.tla

`PROJECT.json` names the module of every run. The largest run, `Pipeline`, has 1.6
million distinct states and takes about two minutes on two cores; `Desk`, with 0.6
million, takes one.

Definitions commented "Wrong variant" are plausible mistakes and no part of the code;
each property fails when the definition that follows is replaced by its variant
(`mutants` in `PROJECT.json`).
