------------------------ MODULE EvaluationJobsProofs ------------------------
(***************************************************************************)
(* Proofs about the evaluation queue, for any number of jobs, videos,      *)
(* accounts and workers.  QueueInv is inductive; the theorems at the end   *)
(* take the promises they state from it.                                   *)
(***************************************************************************)
EXTENDS EvaluationJobs, TLAPS

\* The steps of a worker that need nothing but its own process.
LEMMA WorkerTypes ==
  ASSUME TypeOK, ClaimsOK, NEW w \in Workers, pc[w] # "idle"
  PROVE  myJob[w] \in Jobs /\ myToken[w] \in 1 .. 5
         /\ VideoOf[myJob[w]] \in Videos /\ StageOf[myJob[w]] \in Stages
BY JobsAssumption DEF TypeOK, ClaimsOK

\* A stage that fails leaves its video in one of the video statuses (failedStatus).
LEMMA FailedStatusTypes ==
  /\ \A s \in Stages \ {"v11_content"} :
       expectedStatus[s] \in VideoStatus /\ failedStatus[s] \in VideoStatus
  /\ \A j \in Jobs : ~IsV11(j) =>
       expectedStatus[StageOf[j]] \in VideoStatus /\ failedStatus[StageOf[j]] \in VideoStatus
<1>1. \A s \in Stages \ {"v11_content"} :
       expectedStatus[s] \in VideoStatus /\ failedStatus[s] \in VideoStatus
  BY DEF Stages, expectedStatus, failedStatus, VideoStatus
<1> QED BY <1>1, JobsAssumption DEF IsV11

\* The lease a claim or a heartbeat writes, and the expired one, are lease lengths.
LEMMA LeaseTypes ==
  ASSUME leaseLeft \in [Jobs -> 0 .. LeaseTicks], NEW j \in Jobs
  PROVE  /\ [leaseLeft EXCEPT ![j] = 0] \in [Jobs -> 0 .. LeaseTicks]
         /\ [leaseLeft EXCEPT ![j] = LeaseTicks] \in [Jobs -> 0 .. LeaseTicks]
<1>1. 0 \in 0 .. LeaseTicks /\ LeaseTicks \in 0 .. LeaseTicks BY BoundsAssumption
<1> QED BY <1>1

\* What finish writes is a terminal row with a settled reservation.
LEMMA SettledTypes ==
  ASSUME TypeOK, NEW j \in Jobs, NEW st \in Terminal, Finish(j, st)
  PROVE  /\ status' \in [Jobs -> {"absent"} \cup Active \cup Terminal]
         /\ token' \in [Jobs -> 0 .. 5]
         /\ leaseLeft' \in [Jobs -> 0 .. LeaseTicks]
         /\ attemptRow' \in [Jobs -> [1 .. 5 -> AttemptStatus]]
         /\ ledger' \in [Jobs -> {"none", "reserved", "committed", "released"}]
<1> USE DEF Finish
<1>1. status' \in [Jobs -> {"absent"} \cup Active \cup Terminal] BY DEF TypeOK
<1>2. token' \in [Jobs -> 0 .. 5] BY DEF TypeOK
<1>3. leaseLeft' \in [Jobs -> 0 .. LeaseTicks] BY BoundsAssumption DEF TypeOK
<1>4. attemptRow' \in [Jobs -> [1 .. 5 -> AttemptStatus]]
  BY DEF TypeOK, AttemptStatus
<1>5. ledger' \in [Jobs -> {"none", "reserved", "committed", "released"}]
  BY DEF TypeOK, Settle, Settlement
<1> QED BY <1>1, <1>2, <1>3, <1>4, <1>5

\* Settling a running job keeps everything but TypeOK, whatever the worker
\* that does it does next; only a sent request or a marker obliges to pay.
LEMMA FinishKeeps ==
  ASSUME QueueInv, NEW j \in Jobs, NEW st \in Terminal,
         status[j] = "running", Finish(j, st),
         pc' = pc \/ \E w \in Workers : pc[w] # "idle" /\ pc' = [pc EXCEPT ![w] = "release"],
         UNCHANGED <<myJob, myToken, calls>>
  PROVE  QueueSafety'
<1> USE JobsAssumption DEF QueueInv, QueueSafety, Finish
<1>1. AtMostOneRunning' BY DEF AtMostOneRunning, TypeOK, Terminal
<1>2. TokensOK' BY DEF TokensOK, TypeOK, Terminal
<1>3. WaitingOK' BY DEF WaitingOK, TypeOK, Terminal, Waiting
<1>4. ClaimsOK' BY DEF ClaimsOK, TypeOK
<1>5. MarkersOK' BY DEF MarkersOK, TypeOK, Terminal, ClaimsOK
<1>6. CallsOK' BY DEF CallsOK, TypeOK
<1>7. AtMostOneCall' BY DEF AtMostOneCall
<1>8. ledger' = ledger \/ ledger' = [ledger EXCEPT ![j] = Settlement(j, st)]
  BY DEF Settle
<1>9. Metered(j) /\ ledger[j] # "none" => ledger' = [ledger EXCEPT ![j] = Settlement(j, st)]
  BY DEF Settle
<1>10. LedgerOK' BY <1>8 DEF LedgerOK, TypeOK, Settlement, Settle, Terminal, Metered
<1>11. QuotaFollowsJob'
  BY <1>8, <1>9 DEF QuotaFollowsJob, LedgerOK, CallsOK, TypeOK, Settlement, Terminal, Active, Waiting, Metered
<1> QED BY <1>1, <1>2, <1>3, <1>4, <1>5, <1>6, <1>7, <1>10, <1>11

\* A job enters the queue: whatever was true of the others stays true.
LEMMA EnqueueKeeps ==
  ASSUME QueueInv, NEW j \in Jobs, NEW t \in {"pending", "running"}, Enqueue(j, t),
         UNCHANGED <<workerVars, historyVars>>
  PROVE  /\ QueueSafety'
         /\ status' \in [Jobs -> {"absent"} \cup Active \cup Terminal]
         /\ due' \in [Jobs -> BOOLEAN]
         /\ ledger' \in [Jobs -> {"none", "reserved", "committed", "released"}]
         /\ review' \in [Jobs -> {"none", "pending", "running", "succeeded", "failed"}]
         /\ newest' \in [Videos -> [Stages -> Jobs \cup {NoJob}]]
<1> USE JobsAssumption DEF QueueInv, QueueSafety, Enqueue, workerVars, historyVars
<1>1. AtMostOneRunning' BY DEF AtMostOneRunning, TypeOK
<1>2. TokensOK' BY DEF TokensOK, TypeOK
<1>3. \A i \in Jobs : MaxAttempts[i] \in 1 .. 5 BY BoundsAssumption
<1>4. \A i \in Jobs : /\ status'[i] \in {"absent", "queued"} => attempts'[i] = 0
                      /\ external'[i] => status'[i] \notin {"absent"} \cup Waiting
  BY DEF WaitingOK, TypeOK, Waiting
<1>5. \A i \in Jobs : status'[i] \in Waiting => attempts'[i] < MaxAttempts[i]
  <2>1. attempts'[j] = 0 /\ 0 < MaxAttempts[j] BY <1>3 DEF WaitingOK
  <2>2. ASSUME NEW i \in Jobs, i # j PROVE status'[i] = status[i] /\ attempts'[i] = attempts[i]
    BY <2>2 DEF TypeOK
  <2> QED BY <2>1, <2>2 DEF WaitingOK
<1>6. WaitingOK' BY <1>4, <1>5 DEF WaitingOK
<1>7. ClaimsOK' BY DEF ClaimsOK
<1>8. MarkersOK' BY DEF MarkersOK, WaitingOK, ClaimsOK, TypeOK
<1>9. CallsOK' /\ AtMostOneCall' BY DEF CallsOK, AtMostOneCall
<1>10. LedgerOK' BY DEF LedgerOK, WaitingOK, TypeOK, Metered
<1>11. QuotaFollowsJob'
  BY DEF QuotaFollowsJob, LedgerOK, CallsOK, WaitingOK, TypeOK, Active, Waiting
<1>12. /\ status' \in [Jobs -> {"absent"} \cup Active \cup Terminal]
       /\ due' \in [Jobs -> BOOLEAN]
       /\ ledger' \in [Jobs -> {"none", "reserved", "committed", "released"}]
       /\ review' \in [Jobs -> {"none", "pending", "running", "succeeded", "failed"}]
  BY DEF TypeOK, Active, Waiting
<1>13. newest' \in [Videos -> [Stages -> Jobs \cup {NoJob}]] BY DEF TypeOK
<1> QED BY <1>1, <1>2, <1>6, <1>7, <1>8, <1>9, <1>10, <1>11, <1>12, <1>13

\* A worker moves on without touching the queue.
LEMMA MoveKeeps ==
  ASSUME QueueInv, NEW w \in Workers, pc[w] # "idle",
         NEW s \in Steps \ {"idle", "claimed", "marked"},
         s = "started" => pc[w] = "claimed",
         s \in {"calling", "answered"} => pc[w] \in {"marked", "calling"},
         pc' = [pc EXCEPT ![w] = s],
         UNCHANGED <<status, attempts, token, leaseLeft, external, ledger,
                     myJob, myToken, calls>>
  PROVE  QueueSafety'
<1> USE DEF QueueInv, QueueSafety
<1>1. AtMostOneRunning' /\ TokensOK' /\ WaitingOK'
  BY DEF AtMostOneRunning, TokensOK, WaitingOK
<1>2. ClaimsOK' BY DEF ClaimsOK, TypeOK, Steps
<1>3. MarkersOK' BY DEF MarkersOK, TypeOK, Steps
<1>4. CallsOK' /\ AtMostOneCall' BY DEF CallsOK, AtMostOneCall, TypeOK, Steps
<1>5. LedgerOK' /\ QuotaFollowsJob' BY DEF LedgerOK, QuotaFollowsJob
<1> QED BY <1>1, <1>2, <1>3, <1>4, <1>5

-----------------------------------------------------------------------------
(* One lemma per action.                                                   *)

\* Triggering a result or final evaluation (trigger of both services) keeps the invariant.
LEMMA TriggerReviewKeeps ==
  ASSUME QueueInv, NEW j \in Jobs, TriggerReview(j)
  PROVE  QueueInv'
<1> USE DEF TriggerReview
<1>1. ~IsV11(j) BY DEF TriggerGuard, IsV11
<1>2. vstatus' \in [Videos -> VideoStatus]
  BY <1>1, FailedStatusTypes, JobsAssumption DEF QueueInv, TypeOK
<1>3. TypeOK'
  BY <1>2, EnqueueKeeps DEF QueueInv, TypeOK, Enqueue, workerVars, historyVars
<1> QED BY <1>3, EnqueueKeeps DEF QueueInv

\* So does an administrator's retry, which is a trigger on the old account's quota.
LEMMA AdminRetryKeeps ==
  ASSUME QueueInv, NEW j \in Jobs, NEW o \in Jobs, AdminRetry(j, o)
  PROVE  QueueInv'
<1> USE DEF AdminRetry
<1>1. ~IsV11(j) BY DEF TriggerGuard, IsV11
<1>2. vstatus' \in [Videos -> VideoStatus]
  BY <1>1, FailedStatusTypes, JobsAssumption DEF QueueInv, TypeOK
<1>3. retryOf' \in [Jobs -> Jobs \cup {NoJob}] BY DEF QueueInv, TypeOK
<1>4. TypeOK'
  BY <1>2, <1>3, EnqueueKeeps DEF QueueInv, TypeOK, Enqueue, workerVars, historyVars
<1> QED BY <1>4, EnqueueKeeps DEF QueueInv

\* So does triggering a V1.1 content run (triggerInternal).
LEMMA TriggerV11Keeps ==
  ASSUME QueueInv, NEW j \in Jobs, TriggerV11(j)
  PROVE  QueueInv'
<1> USE DEF TriggerV11
<1>1. vstatus' \in [Videos -> VideoStatus] BY JobsAssumption DEF QueueInv, TypeOK, VideoStatus
<1>2. TypeOK'
  BY <1>1, EnqueueKeeps DEF QueueInv, TypeOK, Enqueue, workerVars, historyVars
<1> QED BY <1>2, EnqueueKeeps DEF QueueInv

\* claim keeps it: it clears the marker of the attempt before, which is safe only
\* because a job that waits was never asked for, and every older worker of the job
\* holds a smaller attempt number.
LEMMA ClaimKeeps ==
  ASSUME QueueInv, NEW w \in Workers, NEW j \in Jobs, Claim(w, j)
  PROVE  QueueInv'
<1> USE JobsAssumption DEF QueueInv, QueueSafety, Claim, Claimable
<1>0. MaxAttempts[j] \in 1 .. 5 /\ attempts[j] \in 0 .. 5
  BY BoundsAssumption DEF TypeOK
<1>1. attempts[j] \in 0 .. 4 /\ attempts[j] < MaxAttempts[j] /\ MaxAttempts[j] \in 1 .. 5
  BY <1>0 DEF WaitingOK
<1>2. TypeOK'
  <2>1. /\ status' \in [Jobs -> {"absent"} \cup Active \cup Terminal]
        /\ external' \in [Jobs -> BOOLEAN]
        /\ leaseLeft' \in [Jobs -> 0 .. LeaseTicks]
    BY BoundsAssumption DEF TypeOK, Active
  <2>2. /\ attempts' \in [Jobs -> 0 .. 5] /\ token' \in [Jobs -> 0 .. 5]
        /\ \A i \in Jobs : attempts'[i] <= MaxAttempts[i]
    BY <1>1 DEF TypeOK
  <2>3. attemptRow' \in [Jobs -> [1 .. 5 -> AttemptStatus]]
    BY <1>1 DEF TypeOK, AttemptStatus
  <2>4. /\ pc' \in [Workers -> Steps] /\ myJob' \in [Workers -> Jobs \cup {NoJob}]
        /\ myToken' \in [Workers -> 0 .. 5]
    BY <1>1 DEF TypeOK, Goto, Steps
  <2> QED BY <2>1, <2>2, <2>3, <2>4 DEF TypeOK, memoVars, domainVars, historyVars
<1>3. AtMostOneRunning' BY DEF AtMostOneRunning, TypeOK, SlotFree
<1>4. TokensOK' BY <1>1 DEF TypeOK, TokensOK
<1>5. WaitingOK' BY DEF TypeOK, WaitingOK, Waiting
<1>6. ClaimsOK'
  <2>1. /\ pc'[w] # "idle" /\ myJob'[w] = j /\ myToken'[w] = attempts[j] + 1
        /\ attempts'[j] = attempts[j] + 1
    BY DEF TypeOK, Goto
  <2>2. ASSUME NEW x \in Workers, x # w, pc'[x] # "idle"
        PROVE  /\ pc[x] # "idle" /\ myJob'[x] = myJob[x] /\ myToken'[x] = myToken[x]
               /\ myJob[x] \in Jobs /\ myToken[x] >= 1 /\ myToken[x] <= attempts[myJob[x]]
    BY <2>2 DEF TypeOK, ClaimsOK, Goto
  <2>3. \A i \in Jobs : attempts[i] \in 0 .. 5 /\ attempts'[i] >= attempts[i]
    BY DEF TypeOK
  <2>4. \A x \in Workers : pc'[x] # "idle" =>
          myJob'[x] \in Jobs /\ myToken'[x] >= 1 /\ myToken'[x] <= attempts'[myJob'[x]]
    <3>1. ASSUME NEW x \in Workers, x # w, pc'[x] # "idle"
          PROVE  myJob'[x] \in Jobs /\ myToken'[x] >= 1 /\ myToken'[x] <= attempts'[myJob'[x]]
      <4>1. myToken[x] \in 0 .. 5 BY DEF TypeOK
      <4> QED BY <2>2, <2>3, <3>1, <4>1
    <3> QED BY <1>1, <2>1, <3>1
  <2>5. \A x \in Workers : x # w /\ pc'[x] # "idle" /\ myJob'[x] = j => myToken'[x] # myToken'[w]
    BY <1>1, <2>1, <2>2
  <2>6. \A x, y \in Workers :
          /\ pc'[x] # "idle" /\ pc'[y] # "idle"
          /\ myJob'[x] = myJob'[y] /\ myToken'[x] = myToken'[y]
          => x = y
    BY <2>1, <2>2, <2>5 DEF ClaimsOK
  <2> QED BY <2>4, <2>6 DEF ClaimsOK
<1>7. MarkersOK' BY DEF TypeOK, MarkersOK, ClaimsOK, WaitingOK, Goto, Waiting
<1>8. CallsOK' /\ AtMostOneCall'
  BY DEF TypeOK, CallsOK, AtMostOneCall, WaitingOK, Goto, historyVars
<1>9. LedgerOK' /\ QuotaFollowsJob'
  BY DEF TypeOK, LedgerOK, QuotaFollowsJob, WaitingOK, Active, Waiting, historyVars
<1> QED BY <1>2, <1>3, <1>4, <1>5, <1>6, <1>7, <1>8, <1>9

\* Renewing a lease that is still good keeps it.
LEMMA HeartbeatKeeps ==
  ASSUME QueueInv, NEW w \in Workers, Heartbeat(w)
  PROVE  QueueInv'
<1> USE DEF QueueInv, QueueSafety, Heartbeat, LeaseValid, workerVars, historyVars
<1>0. leaseLeft' \in [Jobs -> 0 .. LeaseTicks] BY WorkerTypes, LeaseTypes DEF TypeOK
<1>1. TypeOK' BY <1>0 DEF TypeOK, memoVars, domainVars
<1>2. AtMostOneRunning' /\ WaitingOK' /\ ClaimsOK' /\ MarkersOK'
  BY DEF AtMostOneRunning, WaitingOK, ClaimsOK, MarkersOK
<1>3. TokensOK' BY DEF TokensOK, TypeOK
<1>4. CallsOK' /\ AtMostOneCall' /\ LedgerOK' /\ QuotaFollowsJob'
  BY DEF CallsOK, AtMostOneCall, LedgerOK, QuotaFollowsJob
<1> QED BY <1>1, <1>2, <1>3, <1>4

\* Starting the stage executor keeps it: the queue's rows are not written.
LEMMA StartRunKeeps ==
  ASSUME QueueInv, NEW w \in Workers, StartRun(w)
  PROVE  QueueInv'
<1> USE DEF QueueInv, StartRun, Goto, rowVars, memoVars, historyVars
<1>2. \E s \in {"started", "release"} : pc' = [pc EXCEPT ![w] = s] OBVIOUS
<1>0. pc' \in [Workers -> Steps] BY <1>2 DEF TypeOK, Steps
<1>4. review' \in [Jobs -> {"none", "pending", "running", "succeeded", "failed"}]
  BY DEF TypeOK
<1>1. TypeOK' BY <1>0, <1>4 DEF TypeOK
<1>3. QueueSafety' BY <1>2, MoveKeeps DEF Steps
<1> QED BY <1>1, <1>3

\* Inputs that cannot be loaded are only remembered by the worker.
LEMMA InputFaultKeeps ==
  ASSUME QueueInv, NEW w \in Workers, InputFault(w)
  PROVE  QueueInv'
<1> USE DEF QueueInv, InputFault, Goto, rowVars, memoVars, domainVars, historyVars
<1>1. \E s \in {"failing_known", "failing_unknown", "release"} : pc' = [pc EXCEPT ![w] = s]
  BY DEF FailureSteps
<1>2. TypeOK' BY <1>1 DEF TypeOK, Steps
<1>3. QueueSafety' BY <1>1, MoveKeeps DEF Steps
<1> QED BY <1>2, <1>3

\* An answer, or its absence, is only remembered by the worker.
LEMMA ReceiveAnswerKeeps ==
  ASSUME QueueInv, NEW w \in Workers, ReceiveAnswer(w)
  PROVE  QueueInv'
<1> USE DEF QueueInv, ReceiveAnswer, Goto, rowVars, memoVars, domainVars
<1>1. \E s \in {"answered", "failing_known", "failing_unknown"} : pc' = [pc EXCEPT ![w] = s]
  BY DEF FailureSteps
<1>2. answer' \in [Jobs -> {"none", "valid", "invalid", "unknown"}] BY DEF TypeOK
<1>3. TypeOK' BY <1>1, <1>2 DEF TypeOK, Steps
<1>4. QueueSafety' BY <1>1, MoveKeeps DEF Steps
<1> QED BY <1>3, <1>4

\* A result transaction that rolls back leaves the queue as it was.
LEMMA CompleteFailsKeeps ==
  ASSUME QueueInv, NEW w \in Workers, CompleteFails(w)
  PROVE  QueueInv'
<1> USE DEF QueueInv, CompleteFails, Goto, OnLeaseLost, rowVars, memoVars, domainVars, historyVars
<1>1. \E s \in {"failing_known", "release"} : pc' = [pc EXCEPT ![w] = s] OBVIOUS
<1>2. TypeOK' BY <1>1 DEF TypeOK, Steps
<1>3. QueueSafety' BY <1>1, MoveKeeps DEF Steps
<1> QED BY <1>2, <1>3

\* The marker is set by the holder of the lease only, so no second worker can
\* stand behind the marker of the same job.
LEMMA MarkExternalStartedKeeps ==
  ASSUME QueueInv, NEW w \in Workers, MarkExternalStarted(w)
  PROVE  QueueInv'
<1> DEFINE j == myJob[w]
<1> USE DEF QueueInv, QueueSafety, MarkExternalStarted, Goto, memoVars, domainVars, historyVars
<1>1. TypeOK' BY DEF TypeOK, Steps, OnLeaseLost
<1>2. CASE external' = external
  <2>1. \E s \in {"failing_known", "failing_unknown", "release"} : pc' = [pc EXCEPT ![w] = s]
    <3>1. ASSUME LeaseValid(j, myToken[w]) PROVE ~external[j]
      BY <3>1 DEF MarkersOK, LeaseValid, TypeOK
    <3>2. j \in Jobs BY WorkerTypes
    <3> QED BY <1>2, <3>1, <3>2 DEF TypeOK, Current, OnLeaseLost
  <2> QED BY <1>1, <1>2, <2>1, MoveKeeps DEF Steps
<1>3. CASE external' = [external EXCEPT ![j] = TRUE] /\ pc' = [pc EXCEPT ![w] = "marked"] /\ Current(w)
  <2>1. j \in Jobs /\ status[j] = "running" /\ token[j] = myToken[w] /\ ~external[j]
    BY <1>3, WorkerTypes DEF Current, LeaseValid, MarkersOK
  <2>2. attempts[j] = myToken[w] BY <2>1 DEF TokensOK
  <2>3. AtMostOneRunning' /\ TokensOK' BY DEF AtMostOneRunning, TokensOK
  <2>4. WaitingOK' BY <1>3, <2>1 DEF WaitingOK, TypeOK, Waiting
  <2>5. ClaimsOK' BY <1>3 DEF ClaimsOK, TypeOK
  <2>6. \A x \in Workers : x # w /\ pc[x] # "idle" /\ myJob[x] = j => myToken[x] # token[j]
    BY <2>1 DEF ClaimsOK
  <2>7. MarkersOK' BY <1>3, <2>1, <2>2, <2>6 DEF MarkersOK, ClaimsOK, TypeOK
  <2>8. calls[j] = 0 BY <2>1 DEF CallsOK, TypeOK
  <2>9. CallsOK' /\ AtMostOneCall' BY <1>3, <2>1, <2>8 DEF CallsOK, AtMostOneCall, TypeOK
  <2>10. LedgerOK' /\ QuotaFollowsJob'
    BY <1>3, <2>1 DEF LedgerOK, QuotaFollowsJob, TypeOK, Active
  <2> QED BY <1>1, <2>3, <2>4, <2>5, <2>7, <2>9, <2>10
<1> QED BY <1>2, <1>3

\* Two workers are never both about to send the request of one job: both would
\* hold its last claim.
LEMMA SendRequestKeeps ==
  ASSUME QueueInv, NEW w \in Workers, SendRequest(w)
  PROVE  QueueInv'
<1> DEFINE j == myJob[w]
<1> USE DEF QueueInv, QueueSafety, SendRequest, Goto, rowVars, memoVars, domainVars
<1>1. j \in Jobs /\ external[j] /\ calls[j] = 0
  <2>1. pc[w] = "marked" /\ pc[w] # "idle" OBVIOUS
  <2>2. j \in Jobs BY <2>1, WorkerTypes
  <2>3. external[j] BY <2>1 DEF MarkersOK
  <2>4. calls[j] \in Nat BY <2>2 DEF TypeOK
  <2>5. ~(calls[j] > 0) BY <2>1, <2>2 DEF CallsOK
  <2> QED BY <2>2, <2>3, <2>4, <2>5
<1>2. TypeOK' BY <1>1 DEF TypeOK, Steps
<1>3. AtMostOneRunning' /\ TokensOK' /\ WaitingOK'
  BY DEF AtMostOneRunning, TokensOK, WaitingOK
<1>4. ClaimsOK' BY DEF ClaimsOK, TypeOK
<1>5. MarkersOK' BY DEF MarkersOK, TypeOK
<1>6. \A x \in Workers : x # w /\ myJob[x] = j => pc[x] # "marked"
  BY DEF MarkersOK, ClaimsOK
<1>7. CallsOK' BY <1>1, <1>6 DEF CallsOK, TypeOK
<1>8. calls' = [calls EXCEPT ![j] = 1] BY <1>1
<1>9. AtMostOneCall' BY <1>1, <1>8 DEF AtMostOneCall, TypeOK
<1>10. LedgerOK' /\ QuotaFollowsJob' BY <1>1 DEF LedgerOK, QuotaFollowsJob, TypeOK
<1> QED BY <1>2, <1>3, <1>4, <1>5, <1>7, <1>9, <1>10

\* The result transaction settles the job under the lease, so it keeps the invariant.
LEMMA CompleteKeeps ==
  ASSUME QueueInv, NEW w \in Workers, Complete(w)
  PROVE  QueueInv'
<1> DEFINE j == myJob[w]
<1> USE DEF QueueInv, Complete, Goto
<1>1. j \in Jobs /\ status[j] = "running" /\ pc[w] # "idle"
      /\ VideoOf[j] \in Videos /\ StageOf[j] \in Stages
  BY WorkerTypes DEF QueueSafety, Current, LeaseValid
<1>2. "succeeded" \in Terminal BY DEF Terminal
<1>3. QueueSafety' BY <1>1, <1>2, FinishKeeps DEF historyVars
<1>4. /\ status' \in [Jobs -> {"absent"} \cup Active \cup Terminal]
      /\ token' \in [Jobs -> 0 .. 5]
      /\ leaseLeft' \in [Jobs -> 0 .. LeaseTicks]
      /\ attemptRow' \in [Jobs -> [1 .. 5 -> AttemptStatus]]
      /\ ledger' \in [Jobs -> {"none", "reserved", "committed", "released"}]
  BY <1>1, <1>2, SettledTypes
<1>5. successStatuses(j) \subseteq VideoStatus
  BY <1>1 DEF successStatuses, VideoStatus, Stages, IsV11, TypeOK
<1>6. vstatus' \in [Videos -> VideoStatus] BY <1>5 DEF TypeOK
<1>7. review' \in [Jobs -> {"none", "pending", "running", "succeeded", "failed"}]
      /\ pc' \in [Workers -> Steps]
  BY DEF TypeOK, Steps
<1>8. TypeOK' BY <1>4, <1>6, <1>7 DEF TypeOK, Finish, memoVars, historyVars
<1> QED BY <1>3, <1>8

\* markFailed settles the job under the lease, or writes nothing.
LEMMA MarkFailedKeeps ==
  ASSUME QueueInv, NEW w \in Workers, MarkFailed(w)
  PROVE  QueueInv'
<1> DEFINE j == myJob[w]
<1> USE DEF QueueInv, MarkFailed, Goto
<1>1. j \in Jobs /\ pc[w] # "idle" /\ VideoOf[j] \in Videos /\ StageOf[j] \in Stages
  BY WorkerTypes DEF QueueSafety
<1>2. pc' \in [Workers -> Steps] BY DEF TypeOK, Steps
<1>3. CASE ~MayMarkFailed(w)
  <2>1. QueueSafety' BY <1>1, <1>3, MoveKeeps DEF Steps, rowVars, historyVars
  <2>2. TypeOK' BY <1>2, <1>3 DEF TypeOK, rowVars, domainVars, memoVars, historyVars
  <2> QED BY <2>1, <2>2
<1>4. CASE MayMarkFailed(w)
  <2>1. status[j] = "running" BY <1>4 DEF MayMarkFailed, Current, LeaseValid
  <2>2. FailureStatus(w) \in Terminal BY DEF FailureStatus, Terminal
  <2>3. Finish(j, FailureStatus(w)) BY <1>4
  <2>4. QueueSafety' BY <1>1, <2>1, <2>2, <2>3, FinishKeeps DEF historyVars
  <2>5. /\ status' \in [Jobs -> {"absent"} \cup Active \cup Terminal]
        /\ token' \in [Jobs -> 0 .. 5]
        /\ leaseLeft' \in [Jobs -> 0 .. LeaseTicks]
        /\ attemptRow' \in [Jobs -> [1 .. 5 -> AttemptStatus]]
        /\ ledger' \in [Jobs -> {"none", "reserved", "committed", "released"}]
    BY <1>1, <2>2, <2>3, SettledTypes
  <2>6. vstatus' \in [Videos -> VideoStatus]
    BY <1>1, <1>4, FailedStatusTypes DEF TypeOK, VideoStatus
  <2>7. review' = review
          \/ review' = [review EXCEPT ![j] = IF @ \in {"pending", "running"} THEN "failed" ELSE @]
    BY <1>4
  <2>9. review' \in [Jobs -> {"none", "pending", "running", "succeeded", "failed"}]
    <3>1. review[j] \in {"none", "pending", "running", "succeeded", "failed"}
      BY <1>1 DEF TypeOK
    <3> QED BY <2>7, <3>1 DEF TypeOK
  <2>8. TypeOK' BY <1>2, <2>3, <2>5, <2>6, <2>9 DEF TypeOK, Finish, memoVars, historyVars
  <2> QED BY <2>4, <2>8
<1> QED BY <1>3, <1>4

\* Settling one V1.1 run and enqueuing the next in one transaction keeps it.
LEMMA CompleteWithFurtherRunKeeps ==
  ASSUME QueueInv, NEW w \in Workers, NEW n \in Jobs, CompleteWithFurtherRun(w, n)
  PROVE  QueueInv'
<1> DEFINE j == myJob[w]
<1> USE JobsAssumption
    DEF QueueInv, QueueSafety, CompleteWithFurtherRun, Goto, historyVars
<1>1. /\ j \in Jobs /\ status[j] = "running" /\ j # n
      /\ token[j] \in 1 .. 5 /\ Metered(j) /\ Metered(n)
      /\ VideoOf[n] \in Videos /\ StageOf[n] \in Stages
  BY WorkerTypes DEF Current, LeaseValid, TokensOK, TypeOK, Metered, IsV11
<1>2. attempts[n] = 0 /\ ~external[n] /\ calls[n] = 0 /\ token[n] = 0 /\ leaseLeft[n] = 0
  BY DEF WaitingOK, CallsOK, TokensOK, TypeOK
<1>3. TypeOK'
  <2>1. /\ status' \in [Jobs -> {"absent"} \cup Active \cup Terminal]
        /\ ledger' \in [Jobs -> {"none", "reserved", "committed", "released"}]
        /\ review' \in [Jobs -> {"none", "pending", "running", "succeeded", "failed"}]
    BY DEF TypeOK, Active, Waiting, Terminal
  <2>2. /\ token' \in [Jobs -> 0 .. 5] /\ leaseLeft' \in [Jobs -> 0 .. LeaseTicks]
    BY <1>1, LeaseTypes DEF TypeOK
  <2>3. due' \in [Jobs -> BOOLEAN] /\ pc' \in [Workers -> Steps]
    BY DEF TypeOK, Steps
  <2>4. attemptRow' \in [Jobs -> [1 .. 5 -> AttemptStatus]]
    BY DEF TypeOK, AttemptStatus, Terminal
  <2>5. newest' \in [Videos -> [Stages -> Jobs \cup {NoJob}]] BY <1>1 DEF TypeOK
  <2> QED BY <2>1, <2>2, <2>3, <2>4, <2>5 DEF TypeOK
<1>4. AtMostOneRunning' BY DEF AtMostOneRunning, TypeOK
<1>5. TokensOK' BY <1>1, <1>2 DEF TokensOK, TypeOK
<1>6. 0 < MaxAttempts[n] BY BoundsAssumption
<1>7. WaitingOK' BY <1>1, <1>2, <1>6 DEF WaitingOK, TypeOK, Waiting
<1>8. ClaimsOK' BY DEF ClaimsOK, TypeOK
<1>9. MarkersOK' BY <1>1, <1>2 DEF MarkersOK, ClaimsOK, TypeOK
<1>10. CallsOK' /\ AtMostOneCall' BY DEF CallsOK, AtMostOneCall, TypeOK
<1>11. LedgerOK' BY <1>1, <1>2 DEF LedgerOK, TypeOK, Metered
<1>12. QuotaFollowsJob' BY <1>1, <1>2 DEF QuotaFollowsJob, TypeOK, Active, Waiting
<1> QED BY <1>3, <1>4, <1>5, <1>7, <1>8, <1>9, <1>10, <1>11, <1>12

\* A worker that leaves its claim behind, by its own step or by dying.
LEMMA LeaveKeeps ==
  ASSUME QueueInv, NEW w \in Workers, pc[w] # "idle",
         pc' = [pc EXCEPT ![w] = "idle"],
         myJob' = [myJob EXCEPT ![w] = NoJob],
         myToken' = [myToken EXCEPT ![w] = 0],
         leaseLeft' \in [Jobs -> 0 .. LeaseTicks],
         \A j \in Jobs : status[j] # "running" => leaseLeft'[j] = leaseLeft[j],
         UNCHANGED <<status, attempts, token, external, ledger, calls>>
  PROVE  /\ QueueSafety'
         /\ pc' \in [Workers -> Steps]
         /\ myJob' \in [Workers -> Jobs \cup {NoJob}]
         /\ myToken' \in [Workers -> 0 .. 5]
<1> USE DEF QueueInv, QueueSafety
<1>1. AtMostOneRunning' /\ WaitingOK' BY DEF AtMostOneRunning, WaitingOK
<1>2. TokensOK' BY DEF TokensOK, TypeOK
<1>3. ClaimsOK' BY DEF ClaimsOK, TypeOK
<1>4. MarkersOK' BY DEF MarkersOK, TypeOK
<1>5. CallsOK' BY JobsAssumption DEF CallsOK, TypeOK
<1>6. AtMostOneCall' /\ LedgerOK' /\ QuotaFollowsJob'
  BY DEF AtMostOneCall, LedgerOK, QuotaFollowsJob
<1>7. /\ pc' \in [Workers -> Steps] /\ myJob' \in [Workers -> Jobs \cup {NoJob}]
      /\ myToken' \in [Workers -> 0 .. 5]
  BY DEF TypeOK, Steps
<1> QED BY <1>1, <1>2, <1>3, <1>4, <1>5, <1>6, <1>7

\* Expiring the lease of a stage that ended with an error keeps it.
LEMMA ReleaseKeeps ==
  ASSUME QueueInv, NEW w \in Workers, Release(w)
  PROVE  QueueInv'
<1> USE DEF QueueInv, Release, Goto, memoVars, domainVars, historyVars
<1>1. leaseLeft' \in [Jobs -> 0 .. LeaseTicks]
  BY WorkerTypes, LeaseTypes DEF TypeOK, QueueSafety
<1>2. \A j \in Jobs : status[j] # "running" => leaseLeft'[j] = leaseLeft[j]
  BY DEF LeaseValid, TypeOK
<1>3. QueueSafety' BY <1>1, <1>2, LeaveKeeps
<1>4. TypeOK' BY <1>1, <1>2, LeaveKeeps DEF TypeOK
<1> QED BY <1>3, <1>4

\* A worker process that dies keeps it: nothing but its memory is lost.
LEMMA CrashKeeps ==
  ASSUME QueueInv, NEW w \in Workers, Crash(w)
  PROVE  QueueInv'
<1> USE DEF QueueInv, Crash, Goto, rowVars, memoVars, domainVars, historyVars
<1>1. leaseLeft' \in [Jobs -> 0 .. LeaseTicks] BY DEF TypeOK
<1>2. \A j \in Jobs : status[j] # "running" => leaseLeft'[j] = leaseLeft[j] OBVIOUS
<1>3. QueueSafety' BY <1>1, <1>2, LeaveKeeps
<1>4. TypeOK' BY <1>1, <1>2, LeaveKeeps DEF TypeOK
<1> QED BY <1>3, <1>4

\* recoverExpired keeps it, whether it gives the job up or lets it wait.
LEMMA RecoverExpiredKeeps ==
  ASSUME QueueInv, NEW w \in Workers, NEW j \in Jobs, RecoverExpired(w, j)
  PROVE  QueueInv'
<1> USE JobsAssumption
    DEF QueueInv, RecoverExpired, Requeue, memoVars, workerVars, historyVars
<1>1. CASE MustAbandon(j)
  <2> DEFINE st == IF external[j] THEN "needs_attention" ELSE "failed"
  <2>1. st \in Terminal BY DEF Terminal
  <2>2. Abandon(j, st) BY <1>1
  <2>3. QueueSafety' BY <2>1, <2>2, FinishKeeps DEF Abandon
  <2>4. /\ status' \in [Jobs -> {"absent"} \cup Active \cup Terminal]
        /\ token' \in [Jobs -> 0 .. 5]
        /\ leaseLeft' \in [Jobs -> 0 .. LeaseTicks]
        /\ attemptRow' \in [Jobs -> [1 .. 5 -> AttemptStatus]]
        /\ ledger' \in [Jobs -> {"none", "reserved", "committed", "released"}]
    BY <2>1, <2>2, SettledTypes DEF Abandon
  <2>5. vstatus' \in [Videos -> VideoStatus]
    BY <2>2, FailedStatusTypes DEF Abandon, TypeOK
  <2>6. review' \in [Jobs -> {"none", "pending", "running", "succeeded", "failed"}]
    BY <2>2 DEF Abandon, TypeOK
  <2>7. TypeOK' BY <2>2, <2>4, <2>5, <2>6 DEF TypeOK, Abandon, Finish
  <2> QED BY <2>3, <2>7
<1>2. CASE ~MustAbandon(j)
  <2> USE <1>2 DEF QueueSafety, domainVars
  <2>1. ~external[j] /\ attempts[j] < MaxAttempts[j]
    <3>1. attempts[j] \in 0 .. 5 /\ MaxAttempts[j] \in 1 .. 5 BY BoundsAssumption DEF TypeOK
    <3> QED BY <3>1 DEF MustAbandon
  <2>2. TypeOK'
    <3>1. /\ status' \in [Jobs -> {"absent"} \cup Active \cup Terminal]
          /\ due' \in [Jobs -> BOOLEAN]
      BY DEF TypeOK, Active, Waiting
    <3>4. token' = [token EXCEPT ![j] = 0] /\ token \in [Jobs -> 0 .. 5] BY DEF TypeOK
    <3>5. token' \in [Jobs -> 0 .. 5] BY <3>4
    <3>2. attemptRow' = [attemptRow EXCEPT ![j][token[j]] = "expired"] OBVIOUS
    <3>3. attemptRow' \in [Jobs -> [1 .. 5 -> AttemptStatus]]
      BY <3>2 DEF TypeOK, AttemptStatus
    <3> QED BY <3>1, <3>3, <3>5 DEF TypeOK
  <2>3. AtMostOneRunning' BY DEF AtMostOneRunning, TypeOK
  <2>4. TokensOK' BY DEF TokensOK, TypeOK
  <2>5. WaitingOK' BY <2>1 DEF WaitingOK, TypeOK, Waiting
  <2>6. ClaimsOK' BY DEF ClaimsOK
  <2>7. MarkersOK' BY DEF MarkersOK, TypeOK, ClaimsOK
  <2>8. CallsOK' /\ AtMostOneCall' BY DEF CallsOK, AtMostOneCall
  <2>9. LedgerOK' BY DEF LedgerOK, TypeOK
  <2>10. QuotaFollowsJob'
    <3>1. ledger' = ledger /\ calls' = calls BY DEF Requeue
    <3>2. \A i \in Jobs : status'[i] \in Active <=> status[i] \in Active
      <4>1. status' = [status EXCEPT ![j] = "retry_wait"] /\ status[j] = "running"
        BY DEF Requeue
      <4>2. status \in [Jobs -> {"absent"} \cup Active \cup Terminal] BY DEF TypeOK
      <4> QED BY ONLY <4>1, <4>2 DEF Active, Waiting
    <3>3. QuotaFollowsJob OBVIOUS
    <3> QED BY ONLY <3>1, <3>2, <3>3 DEF QuotaFollowsJob
  <2>11. QueueSafety' BY ONLY <2>3, <2>4, <2>5, <2>6, <2>7, <2>8, <2>9, <2>10 DEF QueueSafety
  <2> QED BY ONLY <2>2, <2>11 DEF QueueInv
<1> QED BY <1>1, <1>2

\* Adopting a review without a job keeps it: the new job is terminal at once.
LEMMA RecoverOrphanKeeps ==
  ASSUME QueueInv, NEW w \in Workers, NEW j \in Jobs, RecoverOrphan(w, j)
  PROVE  QueueInv'
<1> USE JobsAssumption DEF QueueInv, QueueSafety, RecoverOrphan, Orphan, workerVars, historyVars
<1>1. TypeOK'
  <2>1. /\ status' \in [Jobs -> {"absent"} \cup Active \cup Terminal]
        /\ due' \in [Jobs -> BOOLEAN]
        /\ review' \in [Jobs -> {"none", "pending", "running", "succeeded", "failed"}]
    BY DEF TypeOK, Terminal
  <2>2. newest' \in [Videos -> [Stages -> Jobs \cup {NoJob}]] BY DEF TypeOK
  <2>3. vstatus' \in [Videos -> VideoStatus]
    <3>1. failedStatus[StageOf[j]] \in VideoStatus \/ vstatus' = vstatus
      BY FailedStatusTypes DEF IsV11
    <3> QED BY <3>1 DEF TypeOK
  <2> QED BY <2>1, <2>2, <2>3 DEF TypeOK
<1>2. AtMostOneRunning' BY DEF AtMostOneRunning, TypeOK
<1>3. TokensOK' BY DEF TokensOK, TypeOK
<1>4. WaitingOK' BY DEF WaitingOK, TypeOK, Waiting
<1>5. ClaimsOK' BY DEF ClaimsOK
<1>6. MarkersOK' BY DEF MarkersOK, TypeOK, ClaimsOK
<1>7. CallsOK' /\ AtMostOneCall' BY DEF CallsOK, AtMostOneCall
<1>8. LedgerOK' BY DEF LedgerOK, TypeOK
<1>9. QuotaFollowsJob' BY DEF QuotaFollowsJob, LedgerOK, TypeOK, Active, Waiting
<1> QED BY <1>1, <1>2, <1>3, <1>4, <1>5, <1>6, <1>7, <1>8, <1>9

\* The passing of time, by which leases expire, keeps it.
LEMMA TickKeeps ==
  ASSUME QueueInv, Tick
  PROVE  QueueInv'
<1> USE DEF QueueInv, QueueSafety, Tick, memoVars, domainVars, workerVars, historyVars
<1>1. leaseLeft' \in [Jobs -> 0 .. LeaseTicks] BY BoundsAssumption DEF TypeOK
<1>2. TypeOK' BY <1>1 DEF TypeOK
<1>3. TokensOK' BY DEF TokensOK
<1>4. AtMostOneRunning' /\ WaitingOK' /\ ClaimsOK' /\ MarkersOK'
  BY DEF AtMostOneRunning, WaitingOK, ClaimsOK, MarkersOK
<1>5. CallsOK' /\ AtMostOneCall' /\ LedgerOK' /\ QuotaFollowsJob'
  BY DEF CallsOK, AtMostOneCall, LedgerOK, QuotaFollowsJob
<1> QED BY <1>2, <1>3, <1>4, <1>5

\* QueueSafety reads nothing that these steps change.
LEMMA QueueUntouched ==
  ASSUME QueueSafety,
         UNCHANGED <<status, attempts, token, leaseLeft, external, ledger,
                     pc, myJob, myToken, calls>>
  PROVE  QueueSafety'
BY DEF QueueSafety, AtMostOneRunning, TokensOK, WaitingOK, ClaimsOK, MarkersOK, CallsOK,
       AtMostOneCall, LedgerOK, QuotaFollowsJob

\* Back-offs that end, accounts that change and videos that move on keep it.
LEMMA EnvironmentKeeps ==
  ASSUME QueueInv,
         \/ \E j \in Jobs : BecomeDue(j)
         \/ \E u \in Users : ToggleAccount(u)
         \/ \E v \in Videos : AdvanceVideo(v)
         \/ UNCHANGED vars
  PROVE  QueueInv'
<1> USE DEF QueueInv, rowVars, memoVars, domainVars, workerVars, historyVars
<1>1. ASSUME NEW j \in Jobs, BecomeDue(j) PROVE QueueInv'
  BY <1>1, QueueUntouched DEF BecomeDue, TypeOK
<1>2. ASSUME NEW u \in Users, ToggleAccount(u) PROVE QueueInv'
  BY <1>2, QueueUntouched DEF ToggleAccount, TypeOK
<1>3. ASSUME NEW v \in Videos, AdvanceVideo(v) PROVE QueueInv'
  BY <1>3, QueueUntouched DEF AdvanceVideo, TypeOK, VideoStatus
<1>4. CASE UNCHANGED vars BY <1>4, QueueUntouched DEF vars, TypeOK
<1> QED BY <1>1, <1>2, <1>3, <1>4

-----------------------------------------------------------------------------
(* The invariant.                                                          *)

\* The queue starts in the invariant, with the legacy evaluations found at migration.
LEMMA QueueInvInitially == Init => QueueInv
<1> SUFFICES ASSUME NEW o \in SUBSET Jobs, NEW q \in SUBSET Jobs, InitWith(o, q)
             PROVE  QueueInv
  BY DEF Init
<1> USE JobsAssumption, BoundsAssumption
<1>1. /\ LegacyStart(o, q)
      /\ status = [j \in Jobs |-> IF j \in q THEN "queued" ELSE "absent"]
      /\ ledger = [j \in Jobs |-> IF j \in q THEN "reserved" ELSE "none"]
      /\ newest = [v \in Videos |-> [s \in Stages |->
                     IF \E j \in q : VideoOf[j] = v /\ StageOf[j] = s
                     THEN CHOOSE j \in q : VideoOf[j] = v /\ StageOf[j] = s
                     ELSE NoJob]]
      /\ review = [j \in Jobs |-> IF j \in o \cup q THEN "running" ELSE "none"]
      /\ due = [j \in Jobs |-> j \in q]
  BY DEF InitWith
<1>2. /\ attempts = [j \in Jobs |-> 0] /\ token = [j \in Jobs |-> 0]
      /\ leaseLeft = [j \in Jobs |-> 0] /\ external = [j \in Jobs |-> FALSE]
      /\ attemptRow = [j \in Jobs |-> [k \in 1 .. 5 |-> "none"]]
      /\ retryOf = [j \in Jobs |-> NoJob] /\ disabled = {}
      /\ pc = [w \in Workers |-> "idle"] /\ myJob = [w \in Workers |-> NoJob]
      /\ myToken = [w \in Workers |-> 0] /\ calls = [j \in Jobs |-> 0]
      /\ answer = [j \in Jobs |-> "none"]
      /\ vstatus \in [Videos -> {"submitted", "ai_content_reviewing", "ai_result_reviewing",
                                 "pending_result_data", "pending_final_evaluation"}]
  BY DEF InitWith
<1>8. vstatus \in [Videos -> VideoStatus] BY <1>2 DEF VideoStatus
<1>3. TypeOK
  <2>1. newest \in [Videos -> [Stages -> Jobs \cup {NoJob}]]
    <3>1. ASSUME NEW v \in Videos, NEW s \in Stages PROVE newest[v][s] \in Jobs \cup {NoJob}
      BY <1>1
    <3> QED BY <1>1, <3>1
  <2>2. /\ status \in [Jobs -> {"absent"} \cup Active \cup Terminal]
        /\ ledger \in [Jobs -> {"none", "reserved", "committed", "released"}]
        /\ review \in [Jobs -> {"none", "pending", "running", "succeeded", "failed"}]
        /\ due \in [Jobs -> BOOLEAN]
    BY <1>1 DEF Active, Waiting
  <2>3. /\ attempts \in [Jobs -> 0 .. 5] /\ \A j \in Jobs : attempts[j] <= MaxAttempts[j]
        /\ token \in [Jobs -> 0 .. 5] /\ leaseLeft \in [Jobs -> 0 .. LeaseTicks]
    BY <1>2
  <2>4. /\ external \in [Jobs -> BOOLEAN]
        /\ attemptRow \in [Jobs -> [1 .. 5 -> AttemptStatus]]
        /\ retryOf \in [Jobs -> Jobs \cup {NoJob}] /\ disabled \in SUBSET Users
        /\ pc \in [Workers -> Steps] /\ myJob \in [Workers -> Jobs \cup {NoJob}]
        /\ myToken \in [Workers -> 0 .. 5] /\ calls \in [Jobs -> Nat]
        /\ answer \in [Jobs -> {"none", "valid", "invalid", "unknown"}]
    BY <1>2 DEF AttemptStatus, Steps
  <2> QED BY <1>2, <1>8, <2>1, <2>2, <2>3, <2>4 DEF TypeOK
<1>4. AtMostOneRunning /\ TokensOK BY <1>1, <1>2 DEF AtMostOneRunning, TokensOK
<1>7. WaitingOK
  <2>1. \A j \in Jobs : 0 < MaxAttempts[j] OBVIOUS
  <2> QED BY <1>1, <1>2, <2>1 DEF WaitingOK, Waiting
<1>5. ClaimsOK /\ MarkersOK /\ CallsOK /\ AtMostOneCall
  BY <1>2 DEF ClaimsOK, MarkersOK, CallsOK, AtMostOneCall
<1>6. LedgerOK /\ QuotaFollowsJob
  BY <1>1, <1>2 DEF LedgerOK, QuotaFollowsJob, LegacyStart, Metered, Active, Waiting
<1> QED BY <1>3, <1>4, <1>5, <1>6, <1>7 DEF QueueInv, QueueSafety

\* Every step of the queue, its workers and its environment keeps the invariant.
LEMMA QueueInvStep == QueueInv /\ [Next]_vars => QueueInv'
<1> SUFFICES ASSUME QueueInv, [Next]_vars PROVE QueueInv'
  OBVIOUS
<1>1. ASSUME Trigger PROVE QueueInv'
  BY <1>1, TriggerReviewKeeps, AdminRetryKeeps, TriggerV11Keeps DEF Trigger
<1>2. ASSUME NEW w \in Workers, Execute(w) PROVE QueueInv'
  BY <1>2, StartRunKeeps, InputFaultKeeps, MarkExternalStartedKeeps, SendRequestKeeps,
     ReceiveAnswerKeeps, CompleteKeeps, CompleteWithFurtherRunKeeps, CompleteFailsKeeps,
     MarkFailedKeeps, ReleaseKeeps DEF Execute
<1>3. ASSUME NEW w \in Workers, Heartbeat(w) \/ Crash(w) PROVE QueueInv'
  BY <1>3, HeartbeatKeeps, CrashKeeps
<1>4. ASSUME NEW w \in Workers, NEW j \in Jobs,
             Claim(w, j) \/ RecoverExpired(w, j) \/ RecoverOrphan(w, j)
      PROVE QueueInv'
  BY <1>4, ClaimKeeps, RecoverExpiredKeeps, RecoverOrphanKeeps
<1>5. CASE Tick BY <1>5, TickKeeps
<1>6. CASE \/ \E j \in Jobs : BecomeDue(j)
           \/ \E u \in Users : ToggleAccount(u)
           \/ \E v \in Videos : AdvanceVideo(v)
           \/ UNCHANGED vars
  BY <1>6, EnvironmentKeeps
<1> QED BY <1>1, <1>2, <1>3, <1>4, <1>5, <1>6 DEF Next

\* The strengthened invariant of the queue.
THEOREM QueueInvariant == Spec => []QueueInv
BY QueueInvInitially, QueueInvStep, PTL DEF Spec

\* Type correctness: in particular no job is claimed more often than its
\* max_attempts allow, whatever sequence of crashes and recoveries it sees.
THEOREM TypeCorrect == Spec => []TypeOK
<1>1. QueueInv => TypeOK BY DEF QueueInv
<1> QED BY <1>1, QueueInvariant, PTL

\* The claim transaction alone keeps the global concurrency at one.
THEOREM OneAtATime == Spec => []AtMostOneRunning
<1>1. QueueInv => AtMostOneRunning BY DEF QueueInv, QueueSafety
<1> QED BY <1>1, QueueInvariant, PTL

\* No interleaving of crashes, expired leases and late workers puts a job to
\* the paid model twice.
THEOREM NeverAskedTwice == Spec => []AtMostOneCall
<1>1. QueueInv => AtMostOneCall BY DEF QueueInv, QueueSafety
<1> QED BY <1>1, QueueInvariant, PTL

\* The reservation is open exactly while the job is active, and a job whose
\* request was sent is never given back.
THEOREM QuotaAgreesWithQueue == Spec => []QuotaFollowsJob
<1>1. QueueInv => QuotaFollowsJob BY DEF QueueInv, QueueSafety
<1> QED BY <1>1, QueueInvariant, PTL
=============================================================================
