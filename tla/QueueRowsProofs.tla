-------------------------- MODULE QueueRowsProofs --------------------------
(***************************************************************************)
(* Proofs about what the rows of the queue say of one another: jobs,       *)
(* attempts, evaluations, reservations, retries and videos.  A lemma first *)
(* shows that every step of the queue changes these rows in one of seven   *)
(* ways; the theorems then need no worker any more.  The second half       *)
(* proves that the queue implements JobPromise: the initial states map to  *)
(* initial states, and every step to a step of the promise or to none.     *)
(* The queue's own invariant says nothing of outcomes; OutcomeInv adds     *)
(* what a worker that reports a success or a failure knows.                *)
(***************************************************************************)
EXTENDS EvaluationJobsProofs, FiniteSetTheorems

-----------------------------------------------------------------------------
(* The ways in which rows change.                                          *)

\* No row changes but for a V1.1 run that starts under its lease.
Unmoved ==
  /\ UNCHANGED <<status, attempts, token, attemptRow, ledger>>
  /\ \/ UNCHANGED review
     \/ \E j \in Jobs :
          /\ status[j] = "running" /\ review[j] \in {"pending", "running"}
          /\ review' = [review EXCEPT ![j] = "running"]

Entered(j) ==
  /\ \E t \in {"pending", "running"} : (t = "running" <=> ~IsV11(j)) /\ Enqueue(j, t)

Taken(j) ==
  /\ Claimable(j)
  /\ status' = [status EXCEPT ![j] = "running"]
  /\ attempts' = [attempts EXCEPT ![j] = @ + 1]
  /\ attemptRow' = [attemptRow EXCEPT ![j][attempts[j] + 1] = "running"]
  /\ UNCHANGED <<ledger, review>>

\* finish and abandon, with the evaluation that ends in the same transaction.
Ended(j, st) ==
  /\ status[j] = "running" /\ Finish(j, st)
  /\ review' = [review EXCEPT ![j] =
       IF st = "succeeded" THEN "succeeded"
       ELSE IF @ \in {"pending", "running"} THEN "failed" ELSE @]

Deferred(j) == status[j] = "running" /\ Requeue(j)

Adopted(j) ==
  /\ Orphan(j)
  /\ status' = [status EXCEPT ![j] = "needs_attention"]
  /\ review' = [review EXCEPT ![j] = "failed"]
  /\ UNCHANGED <<attempts, token, attemptRow, ledger>>

\* A V1.1 run succeeds and the next one of its group enters.
Continued(j, n) ==
  /\ status[j] = "running" /\ status[n] = "absent" /\ review[n] = "none"
  /\ IsV11(j) /\ IsV11(n) /\ VideoOf[n] = VideoOf[j] /\ ActorOf[n] = ActorOf[j]
  /\ QuotaFree(ActorOf[n]) /\ ledger[j] \in {"reserved", "committed"}
  /\ ledger' = [ledger EXCEPT ![j] = "committed", ![n] = "reserved"]
  /\ status' = [status EXCEPT ![j] = "succeeded", ![n] = "queued"]
  /\ attemptRow' = [attemptRow EXCEPT ![j][token[j]] = "succeeded"]
  /\ review' = [review EXCEPT ![j] = "succeeded", ![n] = "pending"]
  /\ UNCHANGED attempts

RowStep ==
  \/ Unmoved
  \/ \E j \in Jobs :
       \/ Entered(j) \/ Taken(j) \/ Deferred(j) \/ Adopted(j)
       \/ \E st \in Terminal : Ended(j, st)
  \/ \E j, n \in Jobs : Continued(j, n)

\* What a worker does between two transactions, a lease that is renewed or given
\* up and a process that dies leave the rows alone.
LEMMA WorkerRowStep ==
  ASSUME QueueInv, NEW w \in Workers,
         \/ StartRun(w) \/ InputFault(w) \/ MarkExternalStarted(w) \/ SendRequest(w)
         \/ ReceiveAnswer(w) \/ CompleteFails(w) \/ Release(w) \/ Heartbeat(w) \/ Crash(w)
  PROVE  Unmoved
<1>1. CASE StartRun(w)
  <2>1. UNCHANGED <<status, attempts, token, attemptRow, ledger>>
    BY <1>1 DEF StartRun, rowVars
  <2>2. CASE UNCHANGED review BY <2>1, <2>2 DEF Unmoved
  <2>3. CASE IsV11(myJob[w]) /\ Current(w) /\ review' = [review EXCEPT ![myJob[w]] = "running"]
    <3>1. pc[w] # "idle" BY <1>1 DEF StartRun
    <3>2. myJob[w] \in Jobs BY <3>1, WorkerTypes DEF QueueInv, QueueSafety
    <3>3. status[myJob[w]] = "running" /\ review[myJob[w]] \in {"pending", "running"}
      BY <2>3 DEF Current, LeaseValid, BindingCurrent
    <3> QED BY <2>1, <2>3, <3>2, <3>3 DEF Unmoved
  <2> QED BY <1>1, <2>2, <2>3 DEF StartRun
<1>2. CASE \/ InputFault(w) \/ MarkExternalStarted(w) \/ SendRequest(w)
           \/ ReceiveAnswer(w) \/ CompleteFails(w)
  BY <1>2 DEF Unmoved, InputFault, MarkExternalStarted, SendRequest, ReceiveAnswer,
              CompleteFails, rowVars, domainVars
<1>3. CASE Release(w) \/ Heartbeat(w) \/ Crash(w)
  BY <1>3 DEF Unmoved, Release, Heartbeat, Crash, rowVars, domainVars
<1> QED BY <1>1, <1>2, <1>3

\* A worker settles its job, or nothing, while it holds the lease.
LEMMA SettlingRowStep ==
  ASSUME QueueInv, NEW w \in Workers,
         Complete(w) \/ MarkFailed(w) \/ \E n \in Jobs : CompleteWithFurtherRun(w, n)
  PROVE  RowStep
<1>0. pc[w] # "idle" BY DEF Complete, MarkFailed, CompleteWithFurtherRun
<1>1. myJob[w] \in Jobs BY <1>0, WorkerTypes DEF QueueInv, QueueSafety
<1>2. CASE Complete(w)
  <2>1. status[myJob[w]] = "running" BY <1>2 DEF Complete, Current, LeaseValid
  <2>2. Ended(myJob[w], "succeeded") BY <1>2, <2>1 DEF Complete, Ended
  <2>3. "succeeded" \in Terminal BY DEF Terminal
  <2> QED BY <1>1, <2>2, <2>3 DEF RowStep
<1>3. CASE MarkFailed(w) /\ MayMarkFailed(w)
  <2>1. status[myJob[w]] = "running"
    BY <1>3 DEF MayMarkFailed, Current, LeaseValid
  <2>2. FailureStatus(w) \in Terminal /\ FailureStatus(w) # "succeeded"
    BY DEF FailureStatus, Terminal
  <2>3. Ended(myJob[w], FailureStatus(w)) BY <1>3, <2>1, <2>2 DEF MarkFailed, Ended
  <2> QED BY <1>1, <2>2, <2>3 DEF RowStep
<1>4. CASE MarkFailed(w) /\ ~MayMarkFailed(w)
  BY <1>4 DEF MarkFailed, RowStep, Unmoved, rowVars, domainVars
<1>5. ASSUME NEW n \in Jobs, CompleteWithFurtherRun(w, n) PROVE RowStep
  <2>1. status[myJob[w]] = "running"
    BY <1>5 DEF CompleteWithFurtherRun, Current, LeaseValid
  <2>2. Continued(myJob[w], n) BY <1>5, <2>1 DEF CompleteWithFurtherRun, Continued
  <2> QED BY <1>1, <2>2 DEF RowStep
<1> QED BY <1>2, <1>3, <1>4, <1>5

\* Every step of the queue is one of the ways above.
LEMMA NextRowStep ==
  ASSUME QueueInv, [Next]_vars
  PROVE  RowStep
<1>1. CASE Trigger
  <2>1. ASSUME NEW j \in Jobs, TriggerReview(j) PROVE Entered(j)
    BY <2>1 DEF TriggerReview, TriggerGuard, Entered, IsV11
  <2>2. ASSUME NEW j \in Jobs, TriggerV11(j) PROVE Entered(j)
    BY <2>2 DEF TriggerV11, Entered
  <2>3. ASSUME NEW j \in Jobs, NEW o \in Jobs, AdminRetry(j, o) PROVE Entered(j)
    BY <2>3 DEF AdminRetry, TriggerGuard, Entered, IsV11
  <2> QED BY <1>1, <2>1, <2>2, <2>3 DEF Trigger, RowStep
<1>2. ASSUME NEW w \in Workers, Execute(w) \/ Heartbeat(w) \/ Crash(w) PROVE RowStep
  BY <1>2, WorkerRowStep, SettlingRowStep DEF Execute, RowStep
<1>3. ASSUME NEW w \in Workers, NEW j \in Jobs, Claim(w, j) PROVE RowStep
  BY <1>3 DEF Claim, Taken, RowStep, domainVars
<1>4. ASSUME NEW w \in Workers, NEW j \in Jobs, RecoverExpired(w, j) PROVE RowStep
  <2>1. CASE MustAbandon(j)
    <3> DEFINE st == IF external[j] THEN "needs_attention" ELSE "failed"
    <3>1. st \in Terminal /\ st # "succeeded" BY DEF Terminal
    <3>2. Ended(j, st) BY <1>4, <2>1, <3>1 DEF RecoverExpired, Abandon, Ended
    <3> QED BY <3>1, <3>2 DEF RowStep
  <2>2. CASE ~MustAbandon(j)
    <3>1. Deferred(j) BY <1>4, <2>2 DEF RecoverExpired, Deferred
    <3> QED BY <3>1 DEF RowStep
  <2> QED BY <2>1, <2>2
<1>5. ASSUME NEW w \in Workers, NEW j \in Jobs, RecoverOrphan(w, j) PROVE RowStep
  BY <1>5 DEF RecoverOrphan, Adopted, RowStep
<1>6. CASE \/ Tick \/ \E j \in Jobs : BecomeDue(j)
           \/ \E u \in Users : ToggleAccount(u)
           \/ \E v \in Videos : AdvanceVideo(v)
           \/ UNCHANGED vars
  BY <1>6 DEF Tick, BecomeDue, ToggleAccount, AdvanceVideo, vars, rowVars, domainVars,
              Unmoved, RowStep
<1> QED BY <1>1, <1>2, <1>3, <1>4, <1>5, <1>6 DEF Next

\* What QueueInv says of the row of the job that a step changes.
LEMMA RunningRow ==
  ASSUME QueueInv, NEW j \in Jobs, status[j] = "running"
  PROVE  token[j] = attempts[j] /\ attempts[j] \in 1 .. 5
BY DEF QueueInv, QueueSafety, TypeOK, TokensOK

\* A job that waits in its back-off was claimed before; one that enters was not.
LEMMA WaitingRow ==
  ASSUME QueueInv, NEW j \in Jobs
  PROVE  /\ status[j] \in {"absent", "queued"} => attempts[j] = 0
         /\ status[j] \in Waiting => attempts[j] \in 0 .. 4
<1>1. attempts[j] \in 0 .. 5 /\ MaxAttempts[j] \in 1 .. 5
  BY BoundsAssumption DEF QueueInv, TypeOK
<1> QED BY <1>1 DEF QueueInv, QueueSafety, WaitingOK

-----------------------------------------------------------------------------
(* One active job per video and stage.                                     *)

\* The legacy jobs found in the queue belong to different videos (LegacyStart).
LEMMA OneActiveInitially == Init => OneActivePerStage
<1> SUFFICES ASSUME NEW o \in SUBSET Jobs, NEW q \in SUBSET Jobs, InitWith(o, q)
             PROVE  OneActivePerStage
  BY DEF Init
<1>1. status = [j \in Jobs |-> IF j \in q THEN "queued" ELSE "absent"] BY DEF InitWith
<1>2. \A i, j \in q : VideoOf[i] = VideoOf[j] => i = j BY DEF InitWith, LegacyStart
<1> QED BY <1>1, <1>2 DEF OneActivePerStage, Active, Waiting

\* Only entering creates an active job, and every way to enter finds none.
LEMMA OneActiveKeeps ==
  ASSUME QueueInv, OneActivePerStage, RowStep
  PROVE  OneActivePerStage'
<1> USE DEF OneActivePerStage
<1>0. status \in [Jobs -> {"absent"} \cup Active \cup Terminal] BY DEF QueueInv, TypeOK
<1>1. CASE Unmoved BY <1>1 DEF Unmoved
<1>2. ASSUME NEW j \in Jobs, Entered(j) PROVE OneActivePerStage'
  <2>1. /\ status' = [status EXCEPT ![j] = "queued"]
        /\ \A i \in Jobs : VideoOf[i] = VideoOf[j] /\ StageOf[i] = StageOf[j] =>
             status[i] \notin Active
    BY <1>2 DEF Entered, Enqueue, NoActive, Peers
  <2> QED BY <1>0, <2>1
<1>3. ASSUME NEW j \in Jobs, status[j] \in Active, NEW st, status' = [status EXCEPT ![j] = st]
      PROVE  OneActivePerStage'
  BY <1>0, <1>3
<1>4. ASSUME NEW j \in Jobs, Taken(j) \/ Deferred(j) \/ \E st \in Terminal : Ended(j, st)
      PROVE  OneActivePerStage'
  BY <1>3, <1>4 DEF Taken, Deferred, Ended, Claimable, Finish, Requeue, Active, Waiting
<1>5. ASSUME NEW j \in Jobs, Adopted(j) PROVE OneActivePerStage'
  BY <1>0, <1>5 DEF Adopted, Active, Waiting
<1>6. ASSUME NEW j \in Jobs, NEW n \in Jobs, Continued(j, n) PROVE OneActivePerStage'
  <2>1. /\ status' = [status EXCEPT ![j] = "succeeded", ![n] = "queued"]
        /\ status[j] \in Active /\ j # n
        /\ VideoOf[n] = VideoOf[j] /\ StageOf[n] = StageOf[j]
    BY <1>6 DEF Continued, IsV11, Active
  <2>2. "succeeded" \notin Active BY DEF Active, Waiting
  <2> QED BY <1>0, <2>1, <2>2
<1> QED BY <1>1, <1>2, <1>4, <1>5, <1>6 DEF RowStep

\* A video has at most one active job per stage: trigger, retry, further runs
\* and the adoption of orphans all find the slot empty, in any order.
THEOREM OneActive == Spec => []OneActivePerStage
<1>1. QueueInv /\ OneActivePerStage /\ [Next]_vars => OneActivePerStage'
  BY NextRowStep, OneActiveKeeps
<1> QED BY <1>1, OneActiveInitially, QueueInvariant, PTL DEF Spec

-----------------------------------------------------------------------------
(* The history of the attempts.                                            *)

\* Nothing was attempted when the queue is introduced.
LEMMA HistoryInitially == Init => HistoryAgrees
<1> SUFFICES ASSUME NEW o \in SUBSET Jobs, NEW q \in SUBSET Jobs, InitWith(o, q)
             PROVE  HistoryAgrees
  BY DEF Init
<1>1. /\ attempts = [j \in Jobs |-> 0]
      /\ attemptRow = [j \in Jobs |-> [k \in 1 .. 5 |-> "none"]]
  BY DEF InitWith
<1> QED BY <1>1 DEF HistoryAgrees

\* A claim adds an attempt behind expired ones, recovery and finish close the last.
LEMMA HistoryKeeps ==
  ASSUME QueueInv, HistoryAgrees, RowStep
  PROVE  HistoryAgrees'
<1>0. /\ status \in [Jobs -> {"absent"} \cup Active \cup Terminal]
      /\ attempts \in [Jobs -> 0 .. 5]
      /\ attemptRow \in [Jobs -> [1 .. 5 -> AttemptStatus]]
  BY DEF QueueInv, TypeOK
<1>1. CASE Unmoved BY <1>1 DEF Unmoved, HistoryAgrees
<1>2. ASSUME NEW j \in Jobs, attempts[j] = 0, NEW st,
             status' = [status EXCEPT ![j] = st], UNCHANGED <<attempts, attemptRow>>
      PROVE  HistoryAgrees'
  BY <1>0, <1>2 DEF HistoryAgrees
<1>3. ASSUME NEW j \in Jobs, Entered(j) PROVE HistoryAgrees'
  <2>1. attempts[j] = 0 BY <1>3, WaitingRow DEF Entered, Enqueue
  <2> QED BY <1>2, <1>3, <2>1 DEF Entered, Enqueue
<1>4. ASSUME NEW j \in Jobs, Adopted(j) PROVE HistoryAgrees'
  <2>1. attempts[j] = 0 BY <1>4, WaitingRow DEF Adopted, Orphan
  <2> QED BY <1>2, <1>4, <2>1 DEF Adopted
<1>5. ASSUME NEW j \in Jobs, status[j] = "running", NEW st, NEW row,
             row = IF st = "retry_wait" THEN "expired" ELSE st,
             status' = [status EXCEPT ![j] = st],
             attemptRow' = [attemptRow EXCEPT ![j][attempts[j]] = row],
             UNCHANGED attempts
      PROVE  HistoryAgrees'
  <2>1. attempts[j] \in 1 .. 5 BY <1>5, RunningRow
  <2>2. ASSUME NEW i \in Jobs, i # j
        PROVE  status'[i] = status[i] /\ attemptRow'[i] = attemptRow[i]
    BY <1>0, <1>5, <2>2
  <2>3. /\ status'[j] = st /\ attemptRow'[j][attempts[j]] = row
        /\ \A k \in 1 .. 5 : k # attempts[j] => attemptRow'[j][k] = attemptRow[j][k]
    BY <1>0, <1>5, <2>1
  <2> QED BY <1>5, <2>1, <2>2, <2>3 DEF HistoryAgrees
<1>6. ASSUME NEW j \in Jobs, NEW st \in Terminal, Ended(j, st) PROVE HistoryAgrees'
  <2>1. status[j] = "running" /\ token[j] = attempts[j] /\ token[j] # 0
    BY <1>6, RunningRow DEF Ended
  <2>2. st # "retry_wait" BY DEF Terminal
  <2> QED BY <1>5, <1>6, <2>1, <2>2 DEF Ended, Finish
<1>7. ASSUME NEW j \in Jobs, Deferred(j) PROVE HistoryAgrees'
  <2>1. token[j] = attempts[j] BY <1>7, RunningRow DEF Deferred
  <2> QED BY <1>5, <1>7, <2>1 DEF Deferred, Requeue
<1>8. ASSUME NEW j \in Jobs, NEW n \in Jobs, Continued(j, n) PROVE HistoryAgrees'
  <2>1. /\ j # n /\ token[j] = attempts[j] /\ attempts[j] \in 1 .. 5 /\ attempts[n] = 0
    BY <1>8, RunningRow, WaitingRow DEF Continued
  <2>2. /\ status' = [status EXCEPT ![j] = "succeeded", ![n] = "queued"]
        /\ attemptRow' = [attemptRow EXCEPT ![j][attempts[j]] = "succeeded"]
        /\ attempts' = attempts
    BY <1>8, <2>1 DEF Continued
  <2>3. ASSUME NEW i \in Jobs, i # j PROVE attemptRow'[i] = attemptRow[i]
    BY <1>0, <2>2, <2>3
  <2>4. /\ status'[j] = "succeeded" /\ attemptRow'[j][attempts[j]] = "succeeded"
        /\ \A k \in 1 .. 5 : k # attempts[j] => attemptRow'[j][k] = attemptRow[j][k]
        /\ \A i \in Jobs : i # j /\ i # n => status'[i] = status[i]
    BY <1>0, <2>1, <2>2
  <2>5. \A k \in 1 .. 5 : /\ k < attempts'[j] => attemptRow'[j][k] = "expired"
                          /\ k = attempts'[j] => attemptRow'[j][k] = status'[j]
                          /\ k > attempts'[j] => attemptRow'[j][k] = "none"
    BY <2>1, <2>2, <2>4 DEF HistoryAgrees
  <2>6. attempts'[n] = 0 /\ \A k \in 1 .. 5 : attemptRow'[n][k] = "none"
    BY <2>1, <2>2, <2>3 DEF HistoryAgrees
  <2>7. ASSUME NEW i \in Jobs, NEW k \in 1 .. 5
        PROVE  /\ k < attempts'[i] => attemptRow'[i][k] = "expired"
               /\ k = attempts'[i] => attemptRow'[i][k] =
                    IF status'[i] = "retry_wait" THEN "expired" ELSE status'[i]
               /\ k > attempts'[i] => attemptRow'[i][k] = "none"
    <3>1. CASE i = j BY <2>4, <2>5, <3>1
    <3>2. CASE i = n BY ONLY <2>6, <3>2
    <3>3. CASE i # j /\ i # n
      <4>1. status'[i] = status[i] /\ attemptRow'[i] = attemptRow[i] /\ attempts'[i] = attempts[i]
        BY <2>2, <2>3, <2>4, <3>3
      <4>2. /\ k < attempts[i] => attemptRow[i][k] = "expired"
            /\ k = attempts[i] => attemptRow[i][k] =
                 IF status[i] = "retry_wait" THEN "expired" ELSE status[i]
            /\ k > attempts[i] => attemptRow[i][k] = "none"
        BY DEF HistoryAgrees
      <4> QED BY ONLY <4>1, <4>2
    <3> QED BY <3>1, <3>2, <3>3
  <2> QED BY <2>7 DEF HistoryAgrees
<1>9. ASSUME NEW j \in Jobs, Taken(j) PROVE HistoryAgrees'
  <2>1. status[j] \in Waiting /\ attempts[j] \in 0 .. 4 /\ attempts'[j] = attempts[j] + 1
    BY <1>0, <1>9, WaitingRow DEF Taken, Claimable
  <2>2. attempts[j] >= 1 => attemptRow[j][attempts[j]] = "expired"
    BY <2>1, WaitingRow DEF HistoryAgrees, Waiting
  <2>3. ASSUME NEW i \in Jobs, i # j
        PROVE  status'[i] = status[i] /\ attempts'[i] = attempts[i] /\ attemptRow'[i] = attemptRow[i]
    BY <1>0, <1>9, <2>3 DEF Taken
  <2>4. /\ status'[j] = "running" /\ attemptRow'[j][attempts[j] + 1] = "running"
        /\ \A k \in 1 .. 5 : k # attempts[j] + 1 => attemptRow'[j][k] = attemptRow[j][k]
    BY <1>0, <1>9, <2>1 DEF Taken
  <2>5. \A k \in 1 .. 5 : k < attempts[j] + 1 => attemptRow[j][k] = "expired"
    BY <2>1, <2>2 DEF HistoryAgrees
  <2>6. \A k \in 1 .. 5 : k > attempts[j] + 1 => attemptRow[j][k] = "none"
    BY <2>1 DEF HistoryAgrees
  <2>7. \A k \in 1 .. 5 :
          /\ k < attempts'[j] => attemptRow'[j][k] = "expired"
          /\ k = attempts'[j] => attemptRow'[j][k] = "running"
          /\ k > attempts'[j] => attemptRow'[j][k] = "none"
    BY <2>1, <2>4, <2>5, <2>6
  <2> QED BY <2>3, <2>4, <2>7 DEF HistoryAgrees
<1> QED BY <1>1, <1>3, <1>4, <1>6, <1>7, <1>8, <1>9 DEF RowStep

\* The attempt rows tell how the job got where it is: every attempt but the last
\* expired, and the last one agrees with the job.
THEOREM HistoryIsTrue == Spec => []HistoryAgrees
<1>1. QueueInv /\ HistoryAgrees /\ [Next]_vars => HistoryAgrees'
  BY NextRowStep, HistoryKeeps
<1> QED BY <1>1, HistoryInitially, QueueInvariant, PTL DEF Spec

-----------------------------------------------------------------------------
(* What has ended stays as it is.                                          *)

\* A row that a step changes is absent, waiting or running before it, never
\* terminal (TerminalIsFinal speaks of status, evaluation, charge and attempts).
LEMMA TerminalRowStays ==
  ASSUME QueueInv, RowStep, NEW i \in Jobs, status[i] \in Terminal
  PROVE  /\ status'[i] = status[i] /\ review'[i] = review[i]
         /\ ledger'[i] = ledger[i] /\ attemptRow'[i] = attemptRow[i]
<1>0. /\ status \in [Jobs -> {"absent"} \cup Active \cup Terminal]
      /\ review \in [Jobs -> {"none", "pending", "running", "succeeded", "failed"}]
      /\ ledger \in [Jobs -> {"none", "reserved", "committed", "released"}]
      /\ attemptRow \in [Jobs -> [1 .. 5 -> AttemptStatus]]
  BY DEF QueueInv, TypeOK
<1>1. status[i] \notin {"absent", "queued", "retry_wait", "running"} BY DEF Terminal
<1>2. CASE Unmoved BY <1>0, <1>1, <1>2 DEF Unmoved
<1>3. ASSUME NEW j \in Jobs, Entered(j) \/ Adopted(j) \/ Taken(j)
             \/ Deferred(j) \/ \E st \in Terminal : Ended(j, st)
      PROVE  i # j
  BY <1>1, <1>3 DEF Entered, Enqueue, Adopted, Orphan, Taken, Claimable, Waiting, Deferred, Ended
<1>4. ASSUME NEW j \in Jobs, Entered(j) \/ Adopted(j) \/ Taken(j)
      PROVE  /\ status'[i] = status[i] /\ review'[i] = review[i]
             /\ ledger'[i] = ledger[i] /\ attemptRow'[i] = attemptRow[i]
  <2>1. i # j BY <1>3, <1>4
  <2> QED BY <1>0, <1>4, <2>1 DEF Entered, Enqueue, Adopted, Taken
<1>5. ASSUME NEW j \in Jobs, Deferred(j)
      PROVE  /\ status'[i] = status[i] /\ review'[i] = review[i]
             /\ ledger'[i] = ledger[i] /\ attemptRow'[i] = attemptRow[i]
  <2>1. i # j BY <1>3, <1>5
  <2> QED BY <1>0, <1>5, <2>1 DEF Deferred, Requeue, domainVars
<1>6. ASSUME NEW j \in Jobs, NEW st \in Terminal, Ended(j, st)
      PROVE  /\ status'[i] = status[i] /\ review'[i] = review[i]
             /\ ledger'[i] = ledger[i] /\ attemptRow'[i] = attemptRow[i]
  <2>1. i # j BY <1>3, <1>6
  <2>2. status'[i] = status[i] /\ review'[i] = review[i]
    BY <1>0, <1>6, <2>1 DEF Ended, Finish
  <2>3. ledger'[i] = ledger[i] BY <1>0, <1>6, <2>1 DEF Ended, Finish, Settle
  <2>4. attemptRow'[i] = attemptRow[i] BY <1>0, <1>6, <2>1 DEF Ended, Finish
  <2> QED BY <2>2, <2>3, <2>4
<1>7. ASSUME NEW j \in Jobs, NEW n \in Jobs, Continued(j, n)
      PROVE  /\ status'[i] = status[i] /\ review'[i] = review[i]
             /\ ledger'[i] = ledger[i] /\ attemptRow'[i] = attemptRow[i]
  <2>1. i # j /\ i # n BY <1>1, <1>7 DEF Continued
  <2> QED BY <1>0, <1>7, <2>1 DEF Continued
<1> QED BY <1>2, <1>4, <1>5, <1>6, <1>7 DEF RowStep

\* No late answer, recovery or retry changes a finished job, its evaluation, its
\* attempts or its charge.
THEOREM FinishedIsFinal == Spec => TerminalIsFinal
<1>1. QueueInv /\ [Next]_vars =>
        [\A j \in Jobs : status[j] \in Terminal =>
           /\ status'[j] = status[j] /\ review'[j] = review[j]
           /\ ledger'[j] = ledger[j] /\ attemptRow'[j] = attemptRow[j]]_vars
  BY NextRowStep, TerminalRowStays
<1> QED BY <1>1, QueueInvariant, PTL DEF Spec, TerminalIsFinal

-----------------------------------------------------------------------------
(* Evaluations and their jobs.                                             *)

\* The evaluations found at the start are queued or orphans.
LEMMA ReviewInitially == Init => ReviewAgrees
<1> SUFFICES ASSUME NEW o \in SUBSET Jobs, NEW q \in SUBSET Jobs, InitWith(o, q)
             PROVE  ReviewAgrees
  BY DEF Init
<1>1. /\ status = [j \in Jobs |-> IF j \in q THEN "queued" ELSE "absent"]
      /\ review = [j \in Jobs |-> IF j \in o \cup q THEN "running" ELSE "none"]
      /\ \A j \in o : StageOf[j] # "v11_content"
  BY DEF InitWith, LegacyStart
<1> QED BY <1>1 DEF ReviewAgrees, Orphan, IsV11, Active, Waiting

\* Each transaction that changes a job's status changes its evaluation with it.
LEMMA ReviewKeeps ==
  ASSUME QueueInv, ReviewAgrees, RowStep
  PROVE  ReviewAgrees'
<1> USE DEF Active, Waiting
<1>0. /\ status \in [Jobs -> {"absent"} \cup Active \cup Terminal]
      /\ review \in [Jobs -> {"none", "pending", "running", "succeeded", "failed"}]
  BY DEF QueueInv, TypeOK
<1>1. CASE Unmoved BY <1>0, <1>1 DEF Unmoved, ReviewAgrees, Orphan
<1>2. ASSUME NEW j \in Jobs, NEW st, NEW r,
             status' = [status EXCEPT ![j] = st], review' = [review EXCEPT ![j] = r],
             r \in {"pending", "running"} <=>
               st \in Active \/ (~IsV11(j) /\ st = "absent" /\ r = "running"),
             r = "succeeded" <=> st = "succeeded"
      PROVE  ReviewAgrees'
  <2>1. status'[j] = st /\ review'[j] = r BY <1>0, <1>2
  <2>2. \A i \in Jobs : i # j => status'[i] = status[i] /\ review'[i] = review[i]
    BY <1>0, <1>2
  <2> QED BY <1>2, <2>1, <2>2 DEF ReviewAgrees, Orphan
<1>3. ASSUME NEW j \in Jobs, Entered(j) PROVE ReviewAgrees'
  BY <1>2, <1>3 DEF Entered, Enqueue
<1>4. ASSUME NEW j \in Jobs, status[j] \in Active, NEW st \in Active,
             status' = [status EXCEPT ![j] = st], review' = review
      PROVE  ReviewAgrees'
  BY <1>0, <1>4 DEF ReviewAgrees, Orphan
<1>5. ASSUME NEW j \in Jobs, Taken(j) \/ Deferred(j) PROVE ReviewAgrees'
  BY <1>4, <1>5 DEF Taken, Claimable, Deferred, Requeue, domainVars
<1>6. ASSUME NEW j \in Jobs, Adopted(j) PROVE ReviewAgrees'
  BY <1>2, <1>6 DEF Adopted
<1>7. ASSUME NEW j \in Jobs, NEW st \in Terminal, Ended(j, st) PROVE ReviewAgrees'
  <2> DEFINE r == IF st = "succeeded" THEN "succeeded" ELSE "failed"
  <2>1. review[j] \in {"pending", "running"} BY <1>7 DEF Ended, ReviewAgrees
  <2>2. status' = [status EXCEPT ![j] = st] /\ review' = [review EXCEPT ![j] = r]
    BY <1>7, <2>1 DEF Ended, Finish
  <2>3. /\ st \notin Active /\ st # "absent"
        /\ r \notin {"pending", "running"} /\ (r = "succeeded" <=> st = "succeeded")
    BY DEF Terminal
  <2> HIDE DEF r
  <2> QED BY <1>2, <2>2, <2>3
<1>8. ASSUME NEW j \in Jobs, NEW n \in Jobs, Continued(j, n) PROVE ReviewAgrees'
  <2>1. j # n BY <1>8 DEF Continued
  <2>2. /\ status'[j] = "succeeded" /\ review'[j] = "succeeded"
        /\ status'[n] = "queued" /\ review'[n] = "pending"
        /\ \A i \in Jobs : i # j /\ i # n => status'[i] = status[i] /\ review'[i] = review[i]
    BY <1>0, <1>8, <2>1 DEF Continued
  <2> QED BY <2>1, <2>2 DEF ReviewAgrees, Orphan
<1> QED BY <1>1, <1>3, <1>5, <1>6, <1>7, <1>8 DEF RowStep

\* An evaluation is open exactly while its job is active or it is an orphan, and
\* it succeeds exactly with its job.
THEOREM ReviewsAreTrue == Spec => []ReviewAgrees
<1>1. QueueInv /\ ReviewAgrees /\ [Next]_vars => ReviewAgrees'
  BY NextRowStep, ReviewKeeps
<1> QED BY <1>1, ReviewInitially, QueueInvariant, PTL DEF Spec

-----------------------------------------------------------------------------
(* The quota of an account.                                                *)

\* Cardinality only bounds a set that is finite; a table never holds more.
HeldFinite == \A u \in Users : IsFiniteSet(Held(u))

\* The evaluations an account holds shrink, or grow by one within its quota.
HeldStep(u) ==
  \/ Held(u)' \subseteq Held(u)
  \/ QuotaFree(u) /\ \E j \in Jobs : Held(u)' \subseteq Held(u) \cup {j}

\* What LegacyStart finds in the queue was reserved within the quotas.
LEMMA QuotaInitially == Init => WithinQuota /\ HeldFinite
<1> SUFFICES ASSUME NEW o \in SUBSET Jobs, NEW q \in SUBSET Jobs, InitWith(o, q),
                    NEW u \in Users
             PROVE  Cardinality(Held(u)) <= QuotaLimit[u] /\ IsFiniteSet(Held(u))
  BY DEF Init, WithinQuota, HeldFinite
<1>1. ledger = [j \in Jobs |-> IF j \in q THEN "reserved" ELSE "none"] BY DEF InitWith
<1>2. Held(u) = {j \in q : ActorOf[j] = u} BY <1>1 DEF Held
<1>3. IsFiniteSet(q) /\ Cardinality({j \in q : ActorOf[j] = u}) <= QuotaLimit[u]
  BY DEF InitWith, LegacyStart
<1>4. IsFiniteSet({j \in q : ActorOf[j] = u}) BY <1>3, FS_Subset
<1> QED BY <1>2, <1>3, <1>4

\* Only entering and continuing open a reservation, after reserve has counted.
LEMMA HeldSteps ==
  ASSUME QueueInv, RowStep, NEW u \in Users
  PROVE  HeldStep(u)
<1> USE DEF Held, HeldStep
<1>0. ledger \in [Jobs -> {"none", "reserved", "committed", "released"}]
  BY DEF QueueInv, TypeOK
<1>1. CASE ledger' = ledger BY <1>1
<1>2. ASSUME NEW j \in Jobs, Entered(j) PROVE HeldStep(u)
  <2>1. CASE Metered(j) /\ ActorOf[j] = u
    <3>1. QuotaFree(u) BY <1>2, <2>1 DEF Entered, Enqueue
    <3>2. Held(u)' \subseteq Held(u) \cup {j} BY <1>0, <1>2 DEF Entered, Enqueue
    <3> QED BY <3>1, <3>2
  <2>2. CASE ~(Metered(j) /\ ActorOf[j] = u)
    BY <1>0, <1>2, <2>2 DEF Entered, Enqueue
  <2> QED BY <2>1, <2>2
<1>3. ASSUME NEW j \in Jobs, NEW st \in Terminal, Ended(j, st) PROVE HeldStep(u)
  <2>1. \/ ledger' = ledger
        \/ /\ ledger' = [ledger EXCEPT ![j] = Settlement(j, st)]
           /\ ledger[j] \in {"reserved", Settlement(j, st)}
    BY <1>3 DEF Ended, Finish, Settle
  <2> DEFINE c == Settlement(j, st)
  <2>2. c \in {"committed", "released"} BY DEF Settlement
  <2> HIDE DEF c
  <2>3. CASE ledger' = [ledger EXCEPT ![j] = c] /\ ledger[j] \in {"reserved", c}
    <3>1. ledger'[j] = c /\ \A i \in Jobs : i # j => ledger'[i] = ledger[i]
      BY <1>0, <2>3
    <3>2. ledger'[j] \in {"reserved", "committed"} => ledger[j] \in {"reserved", "committed"}
      BY <2>2, <2>3, <3>1
    <3> QED BY <3>1, <3>2
  <2> QED BY <1>1, <2>1, <2>3 DEF c
<1>4. ASSUME NEW j \in Jobs, NEW n \in Jobs, Continued(j, n) PROVE HeldStep(u)
  <2>1. CASE ActorOf[n] = u
    <3>1. QuotaFree(u) BY <1>4, <2>1 DEF Continued
    <3>2. Held(u)' \subseteq Held(u) \cup {n} BY <1>0, <1>4 DEF Continued
    <3> QED BY <3>1, <3>2
  <2>2. CASE ActorOf[n] # u BY <1>0, <1>4, <2>2 DEF Continued
  <2> QED BY <2>1, <2>2
<1> QED
  BY <1>1, <1>2, <1>3, <1>4 DEF RowStep, Unmoved, Taken, Deferred, Requeue, Adopted

\* The count made under the lock of the account's row bounds the next state's.
LEMMA QuotaKeeps ==
  ASSUME WithinQuota, HeldFinite, \A u \in Users : HeldStep(u)
  PROVE  (WithinQuota /\ HeldFinite)'
<1> SUFFICES ASSUME NEW u \in Users
             PROVE  Cardinality(Held(u)') <= QuotaLimit[u] /\ IsFiniteSet(Held(u)')
  BY DEF WithinQuota, HeldFinite
<1>1. /\ IsFiniteSet(Held(u)) /\ Cardinality(Held(u)) \in Nat
      /\ Cardinality(Held(u)) <= QuotaLimit[u] /\ QuotaLimit[u] \in Nat
  BY BoundsAssumption, FS_CardinalityType DEF WithinQuota, HeldFinite
<1>2. CASE Held(u)' \subseteq Held(u)
  <2>1. IsFiniteSet(Held(u)') /\ Cardinality(Held(u)') <= Cardinality(Held(u))
    BY <1>1, <1>2, FS_Subset
  <2>2. Cardinality(Held(u)') \in Nat BY <2>1, FS_CardinalityType
  <2> QED BY <1>1, <2>1, <2>2
<1>3. ASSUME QuotaFree(u), NEW j \in Jobs, Held(u)' \subseteq Held(u) \cup {j}
      PROVE  Cardinality(Held(u)') <= QuotaLimit[u] /\ IsFiniteSet(Held(u)')
  <2>1. /\ IsFiniteSet(Held(u) \cup {j})
        /\ Cardinality(Held(u) \cup {j}) \in {Cardinality(Held(u)), Cardinality(Held(u)) + 1}
    BY <1>1, FS_AddElement
  <2>2. IsFiniteSet(Held(u)') /\ Cardinality(Held(u)') <= Cardinality(Held(u) \cup {j})
    BY <1>3, <2>1, FS_Subset
  <2>3. Cardinality(Held(u)') \in Nat BY <2>2, FS_CardinalityType
  <2>4. Cardinality(Held(u)) < QuotaLimit[u] BY <1>3 DEF QuotaFree
  <2> QED BY <1>1, <2>1, <2>2, <2>3, <2>4
<1> QED BY <1>2, <1>3 DEF HeldStep

\* No account holds more evaluations than its quota allows, in any interleaving of
\* triggers, further runs, settlements and recoveries.
THEOREM QuotaIsKept == Spec => []WithinQuota
<1>1. QueueInv /\ WithinQuota /\ HeldFinite /\ [Next]_vars => (WithinQuota /\ HeldFinite)'
  BY NextRowStep, HeldSteps, QuotaKeeps
<1>2. Spec => [](WithinQuota /\ HeldFinite)
  BY <1>1, QuotaInitially, QueueInvariant, PTL DEF Spec
<1> QED BY <1>2, PTL

-----------------------------------------------------------------------------
(* Retries.                                                                *)

\* retried_from_id is written by an administrator's retry only.
RetryStep ==
  \/ retryOf' = retryOf
  \/ \E j, o \in Jobs : Retryable(o) /\ retryOf' = [retryOf EXCEPT ![j] = o]

\* No other step of the queue touches the column.
LEMMA NextRetryStep ==
  ASSUME [Next]_vars
  PROVE  RetryStep
<1> USE DEF RetryStep
<1>1. CASE Trigger
  BY <1>1 DEF Trigger, TriggerReview, TriggerV11, AdminRetry
<1>2. ASSUME NEW w \in Workers, Execute(w) PROVE RetryStep
  BY <1>2 DEF Execute, StartRun, InputFault, MarkExternalStarted, SendRequest,
              ReceiveAnswer, Complete, CompleteWithFurtherRun, CompleteFails, MarkFailed,
              Release, memoVars
<1>3. ASSUME NEW w \in Workers, Heartbeat(w) \/ Crash(w) PROVE RetryStep
  BY <1>3 DEF Heartbeat, Crash, memoVars
<1>4. ASSUME NEW w \in Workers, NEW j \in Jobs,
             Claim(w, j) \/ RecoverExpired(w, j) \/ RecoverOrphan(w, j)
      PROVE  RetryStep
  BY <1>4 DEF Claim, RecoverExpired, RecoverOrphan, memoVars
<1>5. CASE \/ Tick \/ \E j \in Jobs : BecomeDue(j)
           \/ \E u \in Users : ToggleAccount(u)
           \/ \E v \in Videos : AdvanceVideo(v)
           \/ UNCHANGED vars
  BY <1>5 DEF Tick, BecomeDue, ToggleAccount, AdvanceVideo, vars, memoVars
<1> QED BY <1>1, <1>2, <1>3, <1>4, <1>5 DEF Next

\* A retried job stays failed, and Retryable finds every earlier retry of it.
LEMMA RetriedKeeps ==
  ASSUME QueueInv, RetriedOnce, RowStep, RetryStep
  PROVE  RetriedOnce'
<1>0. retryOf \in [Jobs -> Jobs \cup {NoJob}] /\ NoJob \notin Jobs
  BY JobsAssumption DEF QueueInv, TypeOK
<1>1. ASSUME NEW i \in Jobs, status[i] \in {"failed", "needs_attention"}
      PROVE  status'[i] = status[i]
  BY <1>1, TerminalRowStays DEF Terminal
<1>2. CASE retryOf' = retryOf
  BY <1>0, <1>1, <1>2 DEF RetriedOnce
<1>3. ASSUME NEW j \in Jobs, NEW o \in Jobs, Retryable(o),
             retryOf' = [retryOf EXCEPT ![j] = o]
      PROVE  RetriedOnce'
  <2>1. retryOf'[j] = o /\ \A i \in Jobs : i # j => retryOf'[i] = retryOf[i]
    BY <1>0, <1>3
  <2>2. /\ status[o] \in {"failed", "needs_attention"}
        /\ \A i \in Jobs : retryOf[i] # o
    BY <1>3 DEF Retryable
  <2>3. ASSUME NEW i \in Jobs, retryOf'[i] # NoJob
        PROVE  status'[retryOf'[i]] \in {"failed", "needs_attention"}
    BY <1>0, <1>1, <2>1, <2>2, <2>3 DEF RetriedOnce
  <2>4. ASSUME NEW i \in Jobs, NEW k \in Jobs, retryOf'[i] # NoJob, retryOf'[i] = retryOf'[k]
        PROVE  i = k
    BY <2>1, <2>2, <2>4 DEF RetriedOnce
  <2> QED BY <2>3, <2>4 DEF RetriedOnce
<1> QED BY <1>2, <1>3 DEF RetryStep

\* An administrator's retry replaces a job that failed and stays failed, and no
\* job is replaced twice.
THEOREM RetriesAreUnique == Spec => []RetriedOnce
<1>1. Init => RetriedOnce BY DEF Init, InitWith, RetriedOnce
<1>2. QueueInv /\ RetriedOnce /\ [Next]_vars => RetriedOnce'
  BY NextRowStep, NextRetryStep, RetriedKeeps
<1> QED BY <1>1, <1>2, QueueInvariant, PTL DEF Spec

-----------------------------------------------------------------------------
(* Videos that wait for a result evaluation.                               *)

\* A step leaves this alone for a video, or moves the video, or makes it wait for
\* an evaluation it opens.
VideoStep(v) ==
  \/ vstatus'[v] = vstatus[v]
     /\ \A j \in Peers(v, "result") : review[j] = "running" => review'[j] = "running"
  \/ vstatus'[v] # "ai_result_reviewing"
  \/ \E j \in Peers(v, "result") : review'[j] = "running"

\* A stage writes the status of its own video, and only the result stage the one
\* that waits for a result.
LEMMA StageStatuses ==
  ASSUME NEW j \in Jobs, ~IsV11(j)
  PROVE  /\ failedStatus[StageOf[j]] # "ai_result_reviewing"
         /\ StageOf[j] # "result" => expectedStatus[StageOf[j]] # "ai_result_reviewing"
BY JobsAssumption DEF IsV11, Stages, failedStatus, expectedStatus

\* Every trigger that makes a video wait opens the evaluation it waits for.
LEMMA TriggerVideoStep ==
  ASSUME QueueInv, Trigger, NEW v \in Videos
  PROVE  VideoStep(v)
<1>0. /\ vstatus \in [Videos -> VideoStatus] /\ VideoOf \in [Jobs -> Videos]
      /\ review \in [Jobs -> {"none", "pending", "running", "succeeded", "failed"}]
  BY JobsAssumption DEF QueueInv, TypeOK
<1>1. ASSUME NEW j \in Jobs, ~IsV11(j), Enqueue(j, "running"),
             vstatus' = [vstatus EXCEPT ![VideoOf[j]] = expectedStatus[StageOf[j]]]
      PROVE  VideoStep(v)
  <2>1. /\ review'[j] = "running"
        /\ \A i \in Jobs : review[i] = "running" => review'[i] = "running"
    BY <1>0, <1>1 DEF Enqueue
  <2>2. CASE VideoOf[j] # v BY <1>0, <1>1, <2>1, <2>2 DEF VideoStep, Peers
  <2>3. CASE VideoOf[j] = v /\ StageOf[j] = "result"
    BY <2>1, <2>3 DEF VideoStep, Peers
  <2>4. CASE VideoOf[j] = v /\ StageOf[j] # "result"
    BY <1>0, <1>1, <2>4, StageStatuses DEF VideoStep
  <2> QED BY <2>2, <2>3, <2>4
<1>2. ASSUME NEW j \in Jobs, TriggerV11(j) PROVE VideoStep(v)
  <2>1. \A i \in Jobs : review[i] = "running" => review'[i] = "running"
    BY <1>0, <1>2 DEF TriggerV11, Enqueue
  <2>2. CASE VideoOf[j] # v BY <1>0, <1>2, <2>1, <2>2 DEF VideoStep, Peers, TriggerV11
  <2>3. CASE VideoOf[j] = v BY <1>0, <1>2, <2>3 DEF VideoStep, TriggerV11
  <2> QED BY <2>2, <2>3
<1>3. ASSUME NEW j \in Jobs, TriggerGuard(j) PROVE ~IsV11(j)
  BY <1>3 DEF TriggerGuard, IsV11
<1> QED BY <1>1, <1>2, <1>3 DEF Trigger, TriggerReview, AdminRetry

\* An evaluation that ends moves its video on in the same transaction, or the
\* video waits for another one.
LEMMA EndVideoStep ==
  ASSUME QueueInv, NEW j \in Jobs, NEW v \in Videos,
         \A i \in Jobs : i # j /\ review[i] = "running" => review'[i] = "running",
         \A x \in Videos : x # VideoOf[j] => vstatus'[x] = vstatus[x],
         \/ vstatus'[VideoOf[j]] # "ai_result_reviewing"
         \/ vstatus'[VideoOf[j]] = vstatus[VideoOf[j]] /\ StageOf[j] # "result"
  PROVE  VideoStep(v)
<1>1. CASE v = VideoOf[j] BY <1>1 DEF VideoStep, Peers
<1>2. CASE v # VideoOf[j] BY <1>2 DEF VideoStep, Peers
<1> QED BY <1>1, <1>2

\* The result and failure transactions of a worker, under its lease.
LEMMA SettlingVideoStep ==
  ASSUME QueueInv, NEW w \in Workers, NEW v \in Videos,
         Complete(w) \/ MarkFailed(w) \/ \E n \in Jobs : CompleteWithFurtherRun(w, n)
  PROVE  VideoStep(v)
<1> DEFINE j == myJob[w]
<1>0. /\ vstatus \in [Videos -> VideoStatus] /\ VideoOf \in [Jobs -> Videos]
      /\ review \in [Jobs -> {"none", "pending", "running", "succeeded", "failed"}]
  BY JobsAssumption DEF QueueInv, TypeOK
<1>1. pc[w] # "idle" BY DEF Complete, MarkFailed, CompleteWithFurtherRun
<1>2. j \in Jobs /\ StageOf[j] \in Stages /\ VideoOf[j] \in Videos
  BY <1>1, WorkerTypes DEF QueueInv, QueueSafety
<1>3. CASE Complete(w)
  <2>1. \A i \in Jobs : i # j /\ review[i] = "running" => review'[i] = "running"
    BY <1>0, <1>3 DEF Complete
  <2>2. PICK s \in successStatuses(j) : vstatus' = [vstatus EXCEPT ![VideoOf[j]] = s]
    BY <1>3 DEF Complete
  <2>3. s # "ai_result_reviewing" \/ (s = vstatus[VideoOf[j]] /\ StageOf[j] # "result")
    BY <1>2, <2>2 DEF successStatuses, Stages, IsV11
  <2>4. vstatus'[VideoOf[j]] = s /\ \A x \in Videos : x # VideoOf[j] => vstatus'[x] = vstatus[x]
    BY <1>0, <1>2, <2>2
  <2> QED BY <1>2, <2>1, <2>3, <2>4, EndVideoStep
<1>4. CASE MarkFailed(w) /\ MayMarkFailed(w)
  <2>1. \A i \in Jobs : i # j /\ review[i] = "running" => review'[i] = "running"
    BY <1>0, <1>4 DEF MarkFailed
  <2>2. vstatus' = [vstatus EXCEPT ![VideoOf[j]] =
                      IF IsV11(j) THEN "ai_content_failed" ELSE failedStatus[StageOf[j]]]
    BY <1>4 DEF MarkFailed
  <2>3. /\ vstatus'[VideoOf[j]] # "ai_result_reviewing"
        /\ \A x \in Videos : x # VideoOf[j] => vstatus'[x] = vstatus[x]
    BY <1>0, <1>2, <2>2, StageStatuses
  <2> QED BY <1>2, <2>1, <2>3, EndVideoStep
<1>5. CASE MarkFailed(w) /\ ~MayMarkFailed(w)
  BY <1>5 DEF MarkFailed, domainVars, VideoStep
<1>6. ASSUME NEW n \in Jobs, CompleteWithFurtherRun(w, n) PROVE VideoStep(v)
  <2>1. \A i \in Jobs : i # j /\ review[i] = "running" => review'[i] = "running"
    BY <1>0, <1>6 DEF CompleteWithFurtherRun
  <2>2. vstatus' = vstatus /\ StageOf[j] # "result"
    BY <1>6 DEF CompleteWithFurtherRun, IsV11
  <2> QED BY <1>2, <2>1, <2>2, EndVideoStep
<1> QED BY <1>3, <1>4, <1>5, <1>6

\* Recovery gives an evaluation up together with the status of its video.
LEMMA RecoveryVideoStep ==
  ASSUME QueueInv, NEW w \in Workers, NEW j \in Jobs, NEW v \in Videos,
         RecoverExpired(w, j) \/ RecoverOrphan(w, j)
  PROVE  VideoStep(v)
<1>0. /\ vstatus \in [Videos -> VideoStatus]
      /\ VideoOf[j] \in Videos /\ StageOf[j] \in Stages
      /\ review \in [Jobs -> {"none", "pending", "running", "succeeded", "failed"}]
  BY JobsAssumption DEF QueueInv, TypeOK
<1>1. CASE RecoverExpired(w, j) /\ ~MustAbandon(j)
  BY <1>1 DEF RecoverExpired, Requeue, domainVars, VideoStep
<1>2. CASE \/ RecoverExpired(w, j) /\ MustAbandon(j)
           \/ RecoverOrphan(w, j)
  <2>1. \A i \in Jobs : i # j /\ review[i] = "running" => review'[i] = "running"
    BY <1>0, <1>2 DEF RecoverExpired, Abandon, RecoverOrphan
  <2>2. \/ ~IsV11(j) /\ vstatus' = [vstatus EXCEPT ![VideoOf[j]] = failedStatus[StageOf[j]]]
        \/ vstatus' = vstatus /\ (IsV11(j) \/ vstatus[VideoOf[j]] # expectedStatus[StageOf[j]])
    BY <1>2 DEF RecoverExpired, Abandon, RecoverOrphan, Orphan
  <2>3. StageOf[j] = "result" =>
          ~IsV11(j) /\ expectedStatus[StageOf[j]] = "ai_result_reviewing"
    BY DEF IsV11, expectedStatus
  <2>4. \A x \in Videos : x # VideoOf[j] => vstatus'[x] = vstatus[x] BY <1>0, <2>2
  <2>5. \/ vstatus'[VideoOf[j]] # "ai_result_reviewing"
        \/ vstatus'[VideoOf[j]] = vstatus[VideoOf[j]] /\ StageOf[j] # "result"
    BY <1>0, <2>2, <2>3, StageStatuses
  <2> QED BY <2>1, <2>4, <2>5, EndVideoStep
<1> QED BY <1>1, <1>2

\* Every step of the queue is harmless for a video that waits for a result.
LEMMA NextVideoStep ==
  ASSUME QueueInv, [Next]_vars, NEW v \in Videos
  PROVE  VideoStep(v)
<1>0. /\ vstatus \in [Videos -> VideoStatus]
      /\ review \in [Jobs -> {"none", "pending", "running", "succeeded", "failed"}]
  BY DEF QueueInv, TypeOK
<1>1. CASE UNCHANGED vstatus
           /\ (UNCHANGED review
               \/ \E j \in Jobs : review' = [review EXCEPT ![j] = "running"])
  BY <1>0, <1>1 DEF VideoStep, Peers
<1>2. ASSUME NEW w \in Workers,
             \/ StartRun(w) \/ InputFault(w) \/ MarkExternalStarted(w) \/ SendRequest(w)
             \/ ReceiveAnswer(w) \/ CompleteFails(w) \/ Release(w) \/ Heartbeat(w) \/ Crash(w)
      PROVE  VideoStep(v)
  <2>1. UNCHANGED vstatus
    BY <1>2 DEF StartRun, InputFault, MarkExternalStarted, SendRequest, ReceiveAnswer,
                CompleteFails, Release, Heartbeat, Crash, domainVars
  <2> QED BY <1>1, <1>2, <2>1, WorkerRowStep DEF Unmoved
<1>3. ASSUME NEW w \in Workers, Execute(w) \/ Heartbeat(w) \/ Crash(w) PROVE VideoStep(v)
  BY <1>2, <1>3, SettlingVideoStep DEF Execute
<1>4. ASSUME NEW w \in Workers, NEW j \in Jobs, Claim(w, j) PROVE VideoStep(v)
  BY <1>1, <1>4 DEF Claim, domainVars
<1>5. CASE \/ Tick \/ \E j \in Jobs : BecomeDue(j)
           \/ \E u \in Users : ToggleAccount(u)
           \/ UNCHANGED vars
  BY <1>1, <1>5 DEF Tick, BecomeDue, ToggleAccount, vars, domainVars
<1>6. ASSUME NEW x \in Videos, AdvanceVideo(x) PROVE VideoStep(v)
  BY <1>0, <1>6 DEF AdvanceVideo, VideoStep
<1> QED BY <1>3, <1>4, <1>5, <1>6, TriggerVideoStep, RecoveryVideoStep DEF Next

\* A video never waits for a result evaluation that nobody will finish.
THEOREM ResultsAreAwaited == Spec => []NoStrandedResult
<1>1. Init => NoStrandedResult
  <2> SUFFICES ASSUME NEW o \in SUBSET Jobs, NEW q \in SUBSET Jobs, InitWith(o, q),
                      NEW v \in Videos, vstatus[v] = "ai_result_reviewing"
               PROVE  \E j \in Peers(v, "result") : review[j] = "running"
    BY DEF Init, NoStrandedResult
  <2>1. PICK j \in o \cup q : VideoOf[j] = v BY DEF InitWith
  <2>2. /\ vstatus[VideoOf[j]] = expectedStatus[StageOf[j]]
        /\ review = [i \in Jobs |-> IF i \in o \cup q THEN "running" ELSE "none"]
        /\ StageOf[j] # "v11_content"
    BY DEF InitWith, LegacyStart
  <2>3. StageOf[j] = "result" BY <2>1, <2>2, JobsAssumption, StageStatuses DEF IsV11
  <2> QED BY <2>1, <2>2, <2>3 DEF Peers
<1>2. QueueInv /\ NoStrandedResult /\ [Next]_vars => NoStrandedResult'
  BY NextVideoStep DEF NoStrandedResult, VideoStep, Peers
<1> QED BY <1>1, <1>2, QueueInvariant, PTL DEF Spec

-----------------------------------------------------------------------------
(* Fencing.                                                                *)

\* A worker's own step writes rows only under its lease, and moves nobody else.
LEMMA WorkerFenced ==
  ASSUME QueueInv, NEW x \in Workers, Execute(x) \/ Crash(x), NEW w \in Workers,
         pc[w] # "idle", pc'[w] # pc[w], ~HoldsLease(w)
  PROVE  UNCHANGED <<rowVars, ledger, domainVars>>
<1>0. pc \in [Workers -> Steps] BY DEF QueueInv, TypeOK
<1>1. x = w
  BY <1>0 DEF Execute, StartRun, InputFault, MarkExternalStarted, SendRequest, ReceiveAnswer,
              Complete, CompleteWithFurtherRun, CompleteFails, MarkFailed, Release, Crash, Goto
<1>2. ~LeaseValid(myJob[x], myToken[x]) /\ ~Current(x)
  BY <1>1 DEF HoldsLease, LeaseValid, Current
<1>3. CASE StartRun(x) BY <1>2, <1>3 DEF StartRun, domainVars
<1>4. CASE MarkExternalStarted(x)
  BY <1>2, <1>4 DEF MarkExternalStarted, rowVars, domainVars
<1>5. CASE InputFault(x) \/ SendRequest(x) \/ ReceiveAnswer(x) \/ CompleteFails(x) \/ Crash(x)
  BY <1>5 DEF InputFault, SendRequest, ReceiveAnswer, CompleteFails, Crash
<1>6. CASE Release(x) BY <1>2, <1>6 DEF Release, rowVars, domainVars
<1>7. CASE MarkFailed(x)
  BY <1>2, <1>7 DEF MarkFailed, MayMarkFailed
<1>8. ~Complete(x) /\ \A n \in Jobs : ~CompleteWithFurtherRun(x, n)
  BY <1>2 DEF Complete, CompleteWithFurtherRun
<1> QED BY <1>3, <1>4, <1>5, <1>6, <1>7, <1>8 DEF Execute

\* Steps that belong to no worker's execution of a job leave those workers alone.
LEMMA OthersMoveNobody ==
  ASSUME QueueInv, NEW w \in Workers, pc[w] # "idle",
         \/ Trigger \/ Tick
         \/ \E x \in Workers : Heartbeat(x)
         \/ \E x \in Workers, j \in Jobs :
              Claim(x, j) \/ RecoverExpired(x, j) \/ RecoverOrphan(x, j)
         \/ \E j \in Jobs : BecomeDue(j)
         \/ \E u \in Users : ToggleAccount(u)
         \/ \E v \in Videos : AdvanceVideo(v)
  PROVE  pc'[w] = pc[w]
<1>0. pc \in [Workers -> Steps] BY DEF QueueInv, TypeOK
<1>1. ASSUME NEW x \in Workers, NEW j \in Jobs, Claim(x, j) PROVE pc'[w] = pc[w]
  BY <1>0, <1>1 DEF Claim, Goto
<1>2. CASE Trigger BY <1>2 DEF Trigger, TriggerReview, TriggerV11, AdminRetry, workerVars
<1>3. CASE \/ Tick \/ \E x \in Workers : Heartbeat(x)
           \/ \E x \in Workers, j \in Jobs : RecoverExpired(x, j) \/ RecoverOrphan(x, j)
           \/ \E j \in Jobs : BecomeDue(j)
           \/ \E u \in Users : ToggleAccount(u)
           \/ \E v \in Videos : AdvanceVideo(v)
  BY <1>3 DEF Tick, Heartbeat, RecoverExpired, RecoverOrphan, BecomeDue, ToggleAccount,
              AdvanceVideo, workerVars
<1> QED BY <1>1, <1>2, <1>3

\* The lease of a running job grows by its holder's heartbeat only.
LEMMA LeaseRenewed ==
  ASSUME QueueInv, Next, NEW j \in Jobs, status[j] = "running", leaseLeft'[j] > leaseLeft[j]
  PROVE  \E w \in Workers : HoldsLease(w) /\ myJob[w] = j
<1>0. /\ leaseLeft \in [Jobs -> 0 .. LeaseTicks] /\ LeaseTicks \in Nat
      /\ leaseLeft[j] \in Nat
  BY BoundsAssumption DEF QueueInv, TypeOK
<1>1. leaseLeft'[j] # leaseLeft[j] /\ leaseLeft'[j] # 0 BY <1>0
<1>2. ASSUME NEW i \in Jobs, leaseLeft' = [leaseLeft EXCEPT ![i] = 0] PROVE FALSE
  BY <1>0, <1>1, <1>2
<1>3. CASE Trigger
  BY <1>1, <1>3 DEF Trigger, TriggerReview, TriggerV11, AdminRetry, Enqueue
<1>4. ASSUME NEW w \in Workers, Execute(w) PROVE FALSE
  <2>1. CASE \/ StartRun(w) \/ InputFault(w) \/ MarkExternalStarted(w) \/ SendRequest(w)
             \/ ReceiveAnswer(w) \/ CompleteFails(w)
    BY <1>1, <2>1 DEF StartRun, InputFault, MarkExternalStarted, SendRequest, ReceiveAnswer,
                      CompleteFails, rowVars
  <2>2. CASE Complete(w) \/ MarkFailed(w) \/ Release(w) \/ \E n \in Jobs : CompleteWithFurtherRun(w, n)
    <3>1. pc[w] # "idle"
      BY <2>2 DEF Complete, MarkFailed, Release, CompleteWithFurtherRun
    <3>2. myJob[w] \in Jobs BY <3>1, WorkerTypes DEF QueueInv, QueueSafety
    <3>3. leaseLeft' = leaseLeft \/ leaseLeft' = [leaseLeft EXCEPT ![myJob[w]] = 0]
      BY <2>2 DEF Complete, MarkFailed, Release, CompleteWithFurtherRun, Finish, rowVars
    <3> QED BY <1>1, <1>2, <3>2, <3>3
  <2> QED BY <1>4, <2>1, <2>2 DEF Execute
<1>5. ASSUME NEW w \in Workers, Heartbeat(w)
      PROVE  \E x \in Workers : HoldsLease(x) /\ myJob[x] = j
  <2>1. HoldsLease(w) BY <1>5 DEF Heartbeat, LeaseValid, HoldsLease
  <2>2. myJob[w] = j BY <1>0, <1>1, <1>5 DEF Heartbeat
  <2> QED BY <2>1, <2>2
<1>6. ASSUME NEW w \in Workers, Crash(w) PROVE FALSE BY <1>1, <1>6 DEF Crash, rowVars
<1>7. ASSUME NEW w \in Workers, NEW i \in Jobs, Claim(w, i) PROVE FALSE
  <2>1. i # j BY <1>7 DEF Claim, Claimable, Waiting
  <2> QED BY <1>0, <1>1, <1>7, <2>1 DEF Claim
<1>8. ASSUME NEW w \in Workers, NEW i \in Jobs, RecoverExpired(w, i) \/ RecoverOrphan(w, i)
      PROVE  FALSE
  BY <1>1, <1>2, <1>8 DEF RecoverExpired, Abandon, Finish, Requeue, RecoverOrphan
<1>9. CASE Tick BY <1>0, <1>9 DEF Tick
<1>10. CASE \/ \E i \in Jobs : BecomeDue(i)
            \/ \E u \in Users : ToggleAccount(u)
            \/ \E v \in Videos : AdvanceVideo(v)
  BY <1>1, <1>10 DEF BecomeDue, ToggleAccount, AdvanceVideo, rowVars
<1> QED BY <1>3, <1>4, <1>5, <1>6, <1>7, <1>8, <1>9, <1>10 DEF Next

\* A worker that lost its lease may wake up at any point: none of its steps changes
\* a job, an evaluation, a video or a charge, and only the holder renews a lease.
THEOREM StaleWorkersAreFenced == Spec => StaleWorkerHarmless
<1>1. ASSUME QueueInv, Next
      PROVE  /\ \A w \in Workers :
                  pc[w] # "idle" /\ pc'[w] # pc[w] /\ ~HoldsLease(w) =>
                    UNCHANGED <<rowVars, ledger, domainVars>>
             /\ \A j \in Jobs : leaseLeft'[j] > leaseLeft[j] /\ status[j] = "running" =>
                  \E w \in Workers : HoldsLease(w) /\ myJob[w] = j
  <2>1. ASSUME NEW w \in Workers, pc[w] # "idle", pc'[w] # pc[w], ~HoldsLease(w)
        PROVE  UNCHANGED <<rowVars, ledger, domainVars>>
    <3>1. \E x \in Workers : Execute(x) \/ Crash(x)
      BY <1>1, <2>1, OthersMoveNobody DEF Next
    <3> QED BY <1>1, <2>1, <3>1, WorkerFenced
  <2> QED BY <1>1, <2>1, LeaseRenewed
<1>2. QueueInv /\ [Next]_vars =>
        [/\ \A w \in Workers :
              pc[w] # "idle" /\ pc'[w] # pc[w] /\ ~HoldsLease(w) =>
                UNCHANGED <<rowVars, ledger, domainVars>>
         /\ \A j \in Jobs : leaseLeft'[j] > leaseLeft[j] /\ status[j] = "running" =>
              \E w \in Workers : HoldsLease(w) /\ myJob[w] = j]_vars
  BY <1>1
<1> QED BY <1>2, QueueInvariant, PTL DEF Spec, StaleWorkerHarmless

-----------------------------------------------------------------------------
(* OutcomeInv is an invariant.                                             *)

Asking == {"marked", "calling", "answered"}

\* The last claim of a job has one worker, whether he is known by the token in the
\* job's row or by standing behind the marker.
LEMMA OneClaimant ==
  ASSUME QueueInv, NEW w \in Workers, NEW x \in Workers,
         pc[w] # "idle", pc[x] # "idle", myJob[w] = myJob[x],
         LastClaim(w) \/ pc[w] \in Asking, LastClaim(x) \/ pc[x] \in Asking
  PROVE  w = x
<1>1. ASSUME NEW y \in Workers, pc[y] # "idle", LastClaim(y) \/ pc[y] \in Asking
      PROVE  myToken[y] = attempts[myJob[y]]
  <2>1. myJob[y] \in Jobs BY <1>1 DEF QueueInv, QueueSafety, ClaimsOK
  <2> QED BY <1>1, <2>1 DEF QueueInv, QueueSafety, TokensOK, MarkersOK, LastClaim, Asking
<1>2. myToken[w] = myToken[x] BY <1>1
<1> QED BY <1>2 DEF QueueInv, QueueSafety, ClaimsOK

\* Steps that touch neither workers nor what OutcomeInv reads of the rows.
LEMMA OutcomeUntouched ==
  ASSUME OutcomeInv,
         UNCHANGED <<status, token, external, pc, myJob, myToken, calls, answer>>
  PROVE  OutcomeInv'
BY DEF OutcomeInv, AskedOK, KnownOK, UncertainOutsideV11, LastClaim

\* A worker that moves without asking keeps it if a failure it goes to report is
\* one it may report.
LEMMA OutcomeMove ==
  ASSUME QueueInv, OutcomeInv, NEW w \in Workers,
         NEW s \in Steps \ Asking, pc' = [pc EXCEPT ![w] = s],
         s \in {"failing_known", "failing_unknown"} /\ LastClaim(w) /\ external[myJob[w]] =>
           calls[myJob[w]] > 0,
         s = "failing_known" /\ LastClaim(w) /\ calls[myJob[w]] > 0 =>
           answer[myJob[w]] \in {"valid", "invalid"},
         UNCHANGED <<status, token, external, myJob, myToken, calls, answer>>
  PROVE  OutcomeInv'
<1>1. /\ pc'[w] = s /\ s \notin Asking
      /\ \A x \in Workers : x # w => pc'[x] = pc[x]
      /\ \A x \in Workers : LastClaim(x)' <=> LastClaim(x)
  BY DEF QueueInv, TypeOK, LastClaim
<1>2. AskedOK' BY <1>1 DEF OutcomeInv, AskedOK, Asking
<1>3. KnownOK' BY <1>1 DEF OutcomeInv, KnownOK, Asking
<1>4. UncertainOutsideV11' BY DEF OutcomeInv, UncertainOutsideV11
<1> QED BY <1>2, <1>3, <1>4 DEF OutcomeInv

\* A worker that gives its claim up by itself or by dying knows nothing any more.
LEMMA OutcomeLeave ==
  ASSUME QueueInv, OutcomeInv, NEW w \in Workers, Release(w) \/ Crash(w)
  PROVE  OutcomeInv'
<1>1. /\ pc'[w] = "idle"
      /\ \A x \in Workers : x # w =>
           pc'[x] = pc[x] /\ myJob'[x] = myJob[x] /\ (LastClaim(x)' <=> LastClaim(x))
      /\ UNCHANGED <<status, external, calls, answer>>
  BY DEF QueueInv, TypeOK, Release, Crash, Goto, LastClaim, rowVars, historyVars
<1>2. AskedOK' BY <1>1 DEF OutcomeInv, AskedOK
<1>3. KnownOK' BY <1>1 DEF OutcomeInv, KnownOK
<1>4. UncertainOutsideV11' BY <1>1 DEF OutcomeInv, UncertainOutsideV11
<1> QED BY <1>2, <1>3, <1>4 DEF OutcomeInv

\* Starting, failing inputs, a result transaction that rolls back, a failure that is
\* not recorded: the claim is unmarked, or its answer is known.
LEMMA OutcomeMoves ==
  ASSUME QueueInv, OutcomeInv, NEW w \in Workers,
         \/ StartRun(w) \/ InputFault(w) \/ CompleteFails(w)
         \/ MarkExternalStarted(w) /\ external' = external
         \/ MarkFailed(w) /\ ~MayMarkFailed(w)
  PROVE  OutcomeInv'
<1>0. pc[w] # "idle"
  BY DEF StartRun, InputFault, CompleteFails, MarkExternalStarted, MarkFailed
<1>1. myJob[w] \in Jobs BY <1>0, WorkerTypes DEF QueueInv, QueueSafety
<1>2. UNCHANGED <<status, token, external, myJob, myToken, calls, answer>>
  BY DEF StartRun, InputFault, CompleteFails, MarkExternalStarted, MarkFailed, rowVars, historyVars
<1>3. CASE StartRun(w)
  <2>1. \E s \in {"started", "release"} : pc' = [pc EXCEPT ![w] = s]
    BY <1>3 DEF StartRun, Goto
  <2> QED BY <1>2, <2>1, OutcomeMove DEF Steps, Asking
<1>4. CASE MarkFailed(w) /\ ~MayMarkFailed(w)
  BY <1>2, <1>4, OutcomeMove DEF MarkFailed, Goto, Steps, Asking
<1>5. CASE InputFault(w) \/ (MarkExternalStarted(w) /\ external' = external)
  <2>1. pc[w] = "started" BY <1>5 DEF InputFault, MarkExternalStarted
  <2>2. LastClaim(w) => ~external[myJob[w]] /\ ~(calls[myJob[w]] > 0)
    BY <1>1, <2>1 DEF QueueInv, QueueSafety, MarkersOK, CallsOK, LastClaim
  <2>3. \E s \in {"failing_known", "failing_unknown", "release"} : pc' = [pc EXCEPT ![w] = s]
    <3>1. ASSUME Current(w), external' = [external EXCEPT ![myJob[w]] = TRUE] PROVE external' # external
      <4>1. LastClaim(w) BY <3>1 DEF Current, LeaseValid, LastClaim
      <4>2. external[myJob[w]] = FALSE BY <1>1, <2>2, <4>1 DEF QueueInv, TypeOK
      <4> QED BY <1>1, <3>1, <4>2 DEF QueueInv, TypeOK
    <3> QED BY <1>5, <3>1 DEF InputFault, FailureSteps, MarkExternalStarted, OnLeaseLost, Goto
  <2> QED BY <1>2, <2>2, <2>3, OutcomeMove DEF Steps, Asking
<1>6. CASE CompleteFails(w)
  <2>1. pc[w] = "answered" BY <1>6 DEF CompleteFails
  <2>2. calls[myJob[w]] > 0 /\ answer[myJob[w]] = "valid"
    BY <2>1 DEF OutcomeInv, AskedOK, KnownOK
  <2>3. \E s \in {"failing_known", "release"} : pc' = [pc EXCEPT ![w] = s]
    BY <1>6 DEF CompleteFails, OnLeaseLost, Goto
  <2> QED BY <1>2, <2>2, <2>3, OutcomeMove DEF Steps, Asking
<1> QED BY <1>3, <1>4, <1>5, <1>6

\* The marker is set on the last claim, so nobody else reports for that claim.
LEMMA OutcomeMark ==
  ASSUME QueueInv, OutcomeInv, NEW w \in Workers,
         MarkExternalStarted(w), external' # external
  PROVE  OutcomeInv'
<1> DEFINE j == myJob[w]
<1>0. pc[w] = "started" BY DEF MarkExternalStarted
<1>1. j \in Jobs BY <1>0, WorkerTypes DEF QueueInv, QueueSafety
<1>2. /\ Current(w) /\ external' = [external EXCEPT ![j] = TRUE]
      /\ pc' = [pc EXCEPT ![w] = "marked"]
      /\ UNCHANGED <<status, token, myJob, myToken, calls, answer>>
  BY DEF MarkExternalStarted, Goto, historyVars
<1>3. LastClaim(w) /\ status[j] = "running" BY <1>2 DEF Current, LeaseValid, LastClaim
<1>4. \A x \in Workers : x # w /\ pc[x] # "idle" /\ LastClaim(x) => myJob[x] # j
  BY <1>0, <1>3, OneClaimant
<1>5. pc'[w] = "marked" /\ \A x \in Workers : x # w => pc'[x] = pc[x]
  BY <1>2 DEF QueueInv, TypeOK
<1>6. \A x \in Workers : LastClaim(x)' <=> LastClaim(x) BY <1>2 DEF LastClaim
<1>7. \A i \in Jobs : i # j => external'[i] = external[i] BY <1>2 DEF QueueInv, TypeOK
<1>8. AskedOK'
  <2>1. ASSUME NEW x \in Workers, x # w, pc[x] # "idle", LastClaim(x), external'[myJob[x]]
        PROVE  external[myJob[x]]
    BY <1>4, <1>7, <2>1, WorkerTypes DEF QueueInv, QueueSafety
  <2> QED BY <1>2, <1>3, <1>5, <1>6, <2>1 DEF OutcomeInv, AskedOK
<1>9. KnownOK' BY <1>2, <1>5, <1>6 DEF OutcomeInv, KnownOK
<1>10. UncertainOutsideV11' BY <1>2 DEF OutcomeInv, UncertainOutsideV11
<1> QED BY <1>8, <1>9, <1>10 DEF OutcomeInv

\* The job of a worker behind the marker is not failed when the request or its
\* answer arrives, and no other worker reports for it.
LEMMA OutcomeAsk ==
  ASSUME QueueInv, OutcomeInv, NEW w \in Workers, SendRequest(w) \/ ReceiveAnswer(w)
  PROVE  OutcomeInv'
<1> DEFINE j == myJob[w]
<1>0. pc[w] \in Asking \ {"answered"} BY DEF SendRequest, ReceiveAnswer, Asking
<1>1. j \in Jobs BY <1>0, WorkerTypes DEF QueueInv, QueueSafety, Asking
<1>2. UNCHANGED <<status, token, external, myJob, myToken>>
  BY DEF SendRequest, ReceiveAnswer, rowVars
<1>3. status[j] \in {"running", "needs_attention"}
  BY <1>0 DEF OutcomeInv, AskedOK, Asking
<1>4. \A x \in Workers : x # w /\ pc[x] # "idle" /\ (LastClaim(x) \/ pc[x] \in Asking) =>
        myJob[x] # j
  BY <1>0, OneClaimant DEF Asking
<1>5. \A x \in Workers : LastClaim(x)' <=> LastClaim(x) BY <1>2 DEF LastClaim
<1>6. \A x \in Workers : x # w => pc'[x] = pc[x]
  BY DEF QueueInv, TypeOK, SendRequest, ReceiveAnswer, Goto
<1>7. \A i \in Jobs : i # j => calls'[i] = calls[i] /\ answer'[i] = answer[i]
  BY DEF QueueInv, TypeOK, SendRequest, ReceiveAnswer
<1>8. /\ \A i \in Jobs : calls[i] > 0 => calls'[i] > 0
      /\ pc'[w] # "marked" /\ calls'[j] > 0
      /\ pc'[w] = "answered" => answer'[j] = "valid"
      /\ pc'[w] = "failing_known" => answer'[j] \in {"valid", "invalid"}
  <2>1. CASE SendRequest(w)
    BY <1>1, <2>1 DEF QueueInv, TypeOK, SendRequest, Goto
  <2>2. CASE ReceiveAnswer(w)
    <3>1. calls[j] > 0 /\ calls' = calls
      BY <2>2 DEF ReceiveAnswer, OutcomeInv, AskedOK
    <3>2. PICK a \in {"valid", "invalid", "unknown"} :
            /\ answer' = [answer EXCEPT ![j] = a]
            /\ \E s \in CASE a = "valid" -> {"answered"}
                           [] a = "invalid" -> FailureSteps(w)
                           [] a = "unknown" -> {"failing_unknown"} : Goto(w, s)
      BY <2>2 DEF ReceiveAnswer
    <3>3. answer'[j] = a BY <1>1, <3>2 DEF QueueInv, TypeOK
    <3>4. CASE a = "valid"
      <4>1. pc' = [pc EXCEPT ![w] = "answered"] BY <3>2, <3>4 DEF Goto
      <4> QED BY <3>1, <3>3, <3>4, <4>1 DEF QueueInv, TypeOK
    <3>5. CASE a = "invalid"
      <4>1. \E s \in {"failing_known", "failing_unknown"} : pc' = [pc EXCEPT ![w] = s]
        BY <3>2, <3>5 DEF Goto, FailureSteps
      <4> QED BY <3>1, <3>3, <3>5, <4>1 DEF QueueInv, TypeOK
    <3>6. CASE a = "unknown"
      <4>1. pc' = [pc EXCEPT ![w] = "failing_unknown"] BY <3>2, <3>6 DEF Goto
      <4> QED BY <3>1, <3>3, <3>6, <4>1 DEF QueueInv, TypeOK
    <3> QED BY <3>4, <3>5, <3>6
  <2> QED BY <2>1, <2>2
<1>9. \A x \in Workers : pc[x] # "idle" => myJob[x] \in Jobs
  BY WorkerTypes DEF QueueInv, QueueSafety
<1>10. AskedOK'
  BY <1>2, <1>3, <1>5, <1>6, <1>8, <1>9 DEF OutcomeInv, AskedOK
<1>11. KnownOK'
  <2>1. ASSUME NEW x \in Workers, x # w, pc[x] = "answered" \/ (pc[x] = "failing_known" /\ LastClaim(x))
        PROVE  calls'[myJob[x]] = calls[myJob[x]] /\ answer'[myJob[x]] = answer[myJob[x]]
    BY <1>4, <1>7, <1>9, <2>1 DEF Asking
  <2> QED BY <1>2, <1>5, <1>6, <1>8, <2>1 DEF OutcomeInv, KnownOK
<1>12. UncertainOutsideV11'
  BY <1>2, <1>3, <1>7 DEF OutcomeInv, UncertainOutsideV11
<1> QED BY <1>10, <1>11, <1>12 DEF OutcomeInv

\* A job settled under its lease has no second worker that may ask or report.
LEMMA OutcomeSettled ==
  ASSUME QueueInv, OutcomeInv, NEW w \in Workers, pc[w] # "idle", LastClaim(w),
         pc' = [pc EXCEPT ![w] = "release"],
         status'[myJob[w]] \in Terminal,
         \A i \in Jobs : i # myJob[w] =>
           /\ token'[i] = token[i]
           /\ status'[i] = status[i] \/ (status[i] = "absent" /\ status'[i] = "queued"),
         status'[myJob[w]] = "failed" /\ ~IsV11(myJob[w]) /\ calls[myJob[w]] > 0 =>
           answer[myJob[w]] \in {"valid", "invalid"},
         UNCHANGED <<external, myJob, myToken, calls, answer>>
  PROVE  OutcomeInv'
<1> DEFINE j == myJob[w]
<1>1. \A x \in Workers : pc[x] # "idle" => myJob[x] \in Jobs
  BY WorkerTypes DEF QueueInv, QueueSafety
<1>2. pc'[w] = "release" /\ \A x \in Workers : x # w => pc'[x] = pc[x]
  BY DEF QueueInv, TypeOK
<1>3. \A x \in Workers : x # w /\ pc[x] # "idle" /\ (LastClaim(x) \/ pc[x] \in Asking) =>
        myJob[x] # j
  BY OneClaimant
<1>4. ASSUME NEW x \in Workers, pc[x] # "idle", LastClaim(x)' PROVE LastClaim(x)
  <2>1. status'[myJob[x]] = "running" /\ token'[myJob[x]] = myToken[x]
    BY <1>4 DEF LastClaim
  <2>2. myJob[x] # j BY <2>1 DEF Terminal
  <2> QED BY <1>1, <1>4, <2>1, <2>2 DEF LastClaim
<1>5. ASSUME NEW x \in Workers, x # w, pc[x] \in Asking
      PROVE  status'[myJob[x]] \in {"running", "needs_attention"}
  <2>1. status[myJob[x]] \in {"running", "needs_attention"}
    BY <1>5 DEF OutcomeInv, AskedOK, Asking
  <2>2. myJob[x] # j /\ myJob[x] \in Jobs BY <1>1, <1>3, <1>5 DEF Asking
  <2> QED BY <2>1, <2>2
<1>6. AskedOK' BY <1>2, <1>4, <1>5 DEF OutcomeInv, AskedOK, Asking
<1>7. KnownOK' BY <1>2, <1>4 DEF OutcomeInv, KnownOK
<1>8. UncertainOutsideV11' BY DEF OutcomeInv, UncertainOutsideV11
<1> QED BY <1>6, <1>7, <1>8 DEF OutcomeInv

\* The worker's own transactions: a plain failure is reported with a known answer,
\* an unknown outcome by the legacy stages as needs_attention.
LEMMA OutcomeSettling ==
  ASSUME QueueInv, OutcomeInv, NEW w \in Workers,
         \/ Complete(w)
         \/ MarkFailed(w) /\ MayMarkFailed(w)
         \/ \E n \in Jobs : CompleteWithFurtherRun(w, n)
  PROVE  OutcomeInv'
<1> DEFINE j == myJob[w]
<1>0. pc[w] # "idle" BY DEF Complete, MarkFailed, CompleteWithFurtherRun
<1>1. j \in Jobs BY <1>0, WorkerTypes DEF QueueInv, QueueSafety
<1>2. LastClaim(w)
  BY DEF Complete, MarkFailed, MayMarkFailed, CompleteWithFurtherRun, Current, LeaseValid, LastClaim
<1>3. /\ pc' = [pc EXCEPT ![w] = "release"]
      /\ UNCHANGED <<external, myJob, myToken, calls, answer>>
  BY DEF Complete, MarkFailed, CompleteWithFurtherRun, Finish, Goto, historyVars
<1>4. ASSUME NEW st \in Terminal, Finish(j, st),
             st = "failed" /\ ~IsV11(j) /\ calls[j] > 0 => answer[j] \in {"valid", "invalid"}
      PROVE  OutcomeInv'
  <2>1. /\ status'[j] = st
        /\ \A i \in Jobs : i # j => status'[i] = status[i] /\ token'[i] = token[i]
    BY <1>1, <1>4 DEF Finish, QueueInv, TypeOK
  <2> QED BY <1>0, <1>2, <1>3, <1>4, <2>1, OutcomeSettled
<1>5. CASE Complete(w)
  BY <1>4, <1>5 DEF Complete, Terminal
<1>6. CASE MarkFailed(w) /\ MayMarkFailed(w)
  <2>1. pc[w] = "failing_known" /\ calls[j] > 0 => answer[j] \in {"valid", "invalid"}
    BY <1>2 DEF OutcomeInv, KnownOK
  <2>2. FailureStatus(w) \in Terminal BY DEF FailureStatus, Terminal
  <2>3. FailureStatus(w) = "failed" /\ ~IsV11(j) /\ calls[j] > 0 => answer[j] \in {"valid", "invalid"}
    BY <1>6, <2>1 DEF FailureStatus, MarkFailed
  <2>4. Finish(j, FailureStatus(w)) BY <1>6 DEF MarkFailed
  <2> QED BY <1>4, <2>2, <2>3, <2>4
<1>7. ASSUME NEW n \in Jobs, CompleteWithFurtherRun(w, n) PROVE OutcomeInv'
  <2>1. /\ status' = [status EXCEPT ![j] = "succeeded", ![n] = "queued"]
        /\ token' = [token EXCEPT ![j] = 0] /\ status[n] = "absent" /\ j # n
    BY <1>2, <1>7 DEF CompleteWithFurtherRun, LastClaim
  <2>2. /\ status'[j] = "succeeded" /\ status'[n] = "queued"
        /\ \A i \in Jobs : i # j => token'[i] = token[i]
        /\ \A i \in Jobs : i # j /\ i # n => status'[i] = status[i]
    BY <1>1, <2>1 DEF QueueInv, TypeOK
  <2>3. status'[j] \in Terminal BY <2>2 DEF Terminal
  <2>4. \A i \in Jobs : i # j =>
          status'[i] = status[i] \/ (status[i] = "absent" /\ status'[i] = "queued")
    BY <2>1, <2>2
  <2> QED BY <1>0, <1>2, <1>3, <2>2, <2>3, <2>4, OutcomeSettled
<1> QED BY <1>5, <1>6, <1>7

\* A job that waits has nobody behind its marker, and every worker that still
\* remembers it holds an older token than the claim.
LEMMA OutcomeClaim ==
  ASSUME QueueInv, OutcomeInv, NEW w \in Workers, NEW j \in Jobs, Claim(w, j)
  PROVE  OutcomeInv'
<1>1. /\ status[j] \in Waiting /\ UNCHANGED <<calls, answer>>
      /\ status' = [status EXCEPT ![j] = "running"]
      /\ token' = [token EXCEPT ![j] = attempts[j] + 1]
      /\ pc'[w] = "claimed"
      /\ \A x \in Workers : x # w =>
           pc'[x] = pc[x] /\ myJob'[x] = myJob[x] /\ myToken'[x] = myToken[x]
      /\ \A i \in Jobs : i # j => external'[i] = external[i]
  BY DEF Claim, Claimable, Goto, historyVars, QueueInv, TypeOK
<1>2. /\ status'[j] = "running" /\ token'[j] = attempts[j] + 1
      /\ \A i \in Jobs : i # j => status'[i] = status[i] /\ token'[i] = token[i]
  BY <1>1 DEF QueueInv, TypeOK
<1>3. \A x \in Workers : pc[x] # "idle" => myJob[x] \in Jobs
  BY WorkerTypes DEF QueueInv, QueueSafety
<1>4. \A x \in Workers : pc[x] \in Asking => myJob[x] # j
  BY <1>1 DEF OutcomeInv, AskedOK, Asking, Waiting
<1>5. ASSUME NEW x \in Workers, x # w, pc[x] # "idle", LastClaim(x)'
      PROVE  LastClaim(x) /\ myJob[x] # j
  <2>1. status'[myJob[x]] = "running" /\ token'[myJob[x]] = myToken[x]
    BY <1>1, <1>5 DEF LastClaim
  <2>2. ASSUME myJob[x] = j PROVE FALSE
    <3>1. myToken[x] \in 0 .. 5 /\ attempts[j] \in 0 .. 5 /\ myToken[x] <= attempts[j]
      BY <1>5, <2>2 DEF QueueInv, QueueSafety, TypeOK, ClaimsOK
    <3> QED BY <1>2, <2>1, <2>2, <3>1
  <2> QED BY <1>2, <1>3, <1>5, <2>1, <2>2 DEF LastClaim
<1>6. AskedOK'
  <2>1. ASSUME NEW x \in Workers, x # w, pc[x] \in Asking
        PROVE  status'[myJob[x]] = status[myJob[x]]
    BY <1>2, <1>3, <1>4, <2>1 DEF Asking
  <2>2. ASSUME NEW x \in Workers, x # w, pc[x] # "idle", LastClaim(x)'
        PROVE  external'[myJob[x]] = external[myJob[x]]
    BY <1>1, <1>3, <1>5, <2>2
  <2> QED BY <1>1, <1>5, <2>1, <2>2 DEF OutcomeInv, AskedOK, Asking
<1>7. KnownOK' BY <1>1, <1>5 DEF OutcomeInv, KnownOK
<1>8. UncertainOutsideV11' BY <1>1, <1>2 DEF OutcomeInv, UncertainOutsideV11
<1> QED BY <1>6, <1>7, <1>8 DEF OutcomeInv

\* Recovery never fails a marked job, and an unmarked one was not asked.
LEMMA OutcomeRecover ==
  ASSUME QueueInv, OutcomeInv, NEW w \in Workers, NEW j \in Jobs, RecoverExpired(w, j)
  PROVE  OutcomeInv'
<1>1. /\ status[j] = "running"
      /\ UNCHANGED <<external, pc, myJob, myToken, calls, answer>>
      /\ \A i \in Jobs : i # j => status'[i] = status[i] /\ token'[i] = token[i]
  BY DEF RecoverExpired, Abandon, Requeue, Finish, QueueInv, TypeOK, workerVars, historyVars
<1>2. /\ external[j] => status'[j] = "needs_attention"
      /\ ~external[j] => status'[j] \in {"failed", "retry_wait"}
  BY DEF RecoverExpired, MustAbandon, Abandon, Requeue, Finish, QueueInv, TypeOK
<1>3. status'[j] # "running" BY <1>2
<1>4. ~external[j] => ~(calls[j] > 0) BY DEF QueueInv, QueueSafety, CallsOK
<1>5. \A x \in Workers : pc[x] # "idle" => myJob[x] \in Jobs
  BY WorkerTypes DEF QueueInv, QueueSafety
<1>6. ASSUME NEW x \in Workers, pc[x] # "idle", LastClaim(x)' PROVE LastClaim(x)
  <2>1. status'[myJob[x]] = "running" /\ token'[myJob[x]] = myToken[x]
    BY <1>1, <1>6 DEF LastClaim
  <2> QED BY <1>1, <1>3, <1>5, <1>6, <2>1 DEF LastClaim
<1>7. ASSUME NEW x \in Workers, pc[x] \in Asking
      PROVE  status'[myJob[x]] \in {"running", "needs_attention"}
  <2>1. external[myJob[x]] /\ status[myJob[x]] \in {"running", "needs_attention"}
    BY <1>7 DEF QueueInv, QueueSafety, MarkersOK, OutcomeInv, AskedOK, Asking
  <2> QED BY <1>1, <1>2, <1>5, <1>7, <2>1 DEF Asking
<1>8. AskedOK' BY <1>1, <1>6, <1>7 DEF OutcomeInv, AskedOK, Asking
<1>9. KnownOK' BY <1>1, <1>6 DEF OutcomeInv, KnownOK
<1>10. UncertainOutsideV11' BY <1>1, <1>2, <1>4 DEF OutcomeInv, UncertainOutsideV11
<1> QED BY <1>8, <1>9, <1>10 DEF OutcomeInv

\* A row that enters, or is adopted, belongs to no worker yet.
LEMMA OutcomeEntry ==
  ASSUME QueueInv, OutcomeInv, NEW j \in Jobs, status[j] = "absent",
         NEW st \in {"queued", "needs_attention"}, status' = [status EXCEPT ![j] = st],
         UNCHANGED <<token, external, pc, myJob, myToken, calls, answer>>
  PROVE  OutcomeInv'
<1>1. status'[j] = st /\ \A i \in Jobs : i # j => status'[i] = status[i]
  BY DEF QueueInv, TypeOK
<1>2. \A x \in Workers : pc[x] # "idle" => myJob[x] \in Jobs
  BY WorkerTypes DEF QueueInv, QueueSafety
<1>3. ASSUME NEW x \in Workers, pc[x] # "idle", LastClaim(x)' PROVE LastClaim(x)
  BY <1>1, <1>2, <1>3 DEF LastClaim
<1>4. ASSUME NEW x \in Workers, pc[x] \in Asking
      PROVE  status'[myJob[x]] = status[myJob[x]]
  <2>1. status[myJob[x]] \in {"running", "needs_attention"}
    BY <1>4 DEF OutcomeInv, AskedOK, Asking
  <2> QED BY <1>1, <1>2, <1>4, <2>1 DEF Asking
<1>5. AskedOK' BY <1>3, <1>4 DEF OutcomeInv, AskedOK, Asking
<1>6. KnownOK' BY <1>3 DEF OutcomeInv, KnownOK
<1>7. UncertainOutsideV11' BY <1>1 DEF OutcomeInv, UncertainOutsideV11
<1> QED BY <1>5, <1>6, <1>7 DEF OutcomeInv

\* Nobody has asked anything when the queue is introduced.
LEMMA OutcomeInitially == Init => OutcomeInv
<1> SUFFICES ASSUME NEW o \in SUBSET Jobs, NEW q \in SUBSET Jobs, InitWith(o, q)
             PROVE  OutcomeInv
  BY DEF Init
<1>1. /\ pc = [w \in Workers |-> "idle"] /\ calls = [j \in Jobs |-> 0]
      /\ status = [j \in Jobs |-> IF j \in q THEN "queued" ELSE "absent"]
  BY DEF InitWith
<1> QED BY <1>1 DEF OutcomeInv, AskedOK, KnownOK, UncertainOutsideV11

\* No step breaks OutcomeInv.
LEMMA OutcomeStep ==
  ASSUME QueueInv, OutcomeInv, [Next]_vars
  PROVE  OutcomeInv'
<1>1. CASE Trigger
  <2>1. ASSUME NEW j \in Jobs, NEW t, Enqueue(j, t), UNCHANGED <<workerVars, historyVars>>
        PROVE  OutcomeInv'
    BY <2>1, OutcomeEntry DEF Enqueue, workerVars, historyVars
  <2> QED BY <1>1, <2>1 DEF Trigger, TriggerReview, TriggerV11, AdminRetry
<1>2. ASSUME NEW w \in Workers, Execute(w) PROVE OutcomeInv'
  BY <1>2, OutcomeMoves, OutcomeMark, OutcomeAsk, OutcomeSettling, OutcomeLeave DEF Execute
<1>3. ASSUME NEW w \in Workers, Heartbeat(w) PROVE OutcomeInv'
  BY <1>3, OutcomeUntouched DEF Heartbeat, workerVars, historyVars
<1>4. ASSUME NEW w \in Workers, Crash(w) PROVE OutcomeInv'
  BY <1>4, OutcomeLeave
<1>5. ASSUME NEW w \in Workers, NEW j \in Jobs, Claim(w, j) \/ RecoverExpired(w, j)
      PROVE  OutcomeInv'
  BY <1>5, OutcomeClaim, OutcomeRecover
<1>6. ASSUME NEW w \in Workers, NEW j \in Jobs, RecoverOrphan(w, j) PROVE OutcomeInv'
  BY <1>6, OutcomeEntry DEF RecoverOrphan, Orphan, workerVars, historyVars
<1>7. CASE \/ Tick \/ \E j \in Jobs : BecomeDue(j)
           \/ \E u \in Users : ToggleAccount(u)
           \/ \E v \in Videos : AdvanceVideo(v)
           \/ UNCHANGED vars
  BY <1>7, OutcomeUntouched
     DEF Tick, BecomeDue, ToggleAccount, AdvanceVideo, vars, rowVars, workerVars, historyVars
<1> QED BY <1>1, <1>2, <1>3, <1>4, <1>5, <1>6, <1>7 DEF Next

\* What workers know of outcomes is true in every reachable state.
THEOREM OutcomesAreKnown == Spec => []OutcomeInv
<1>1. QueueInv /\ OutcomeInv /\ [Next]_vars => OutcomeInv' BY OutcomeStep
<1> QED BY <1>1, OutcomeInitially, QueueInvariant, PTL DEF Spec

\* While no V1.1 job exists, a job that failed after its request was sent has an
\* answer: an outcome nobody knows ends as needs_attention, through every crash,
\* late worker and recovery.  The V1.1 executor breaks it by its catch block.
THEOREM UncertainIsVisible ==
  ASSUME \A j \in Jobs : ~IsV11(j)
  PROVE  Spec => []UncertainNeedsAttention
<1>1. OutcomeInv => UncertainNeedsAttention
  BY DEF OutcomeInv, UncertainOutsideV11, UncertainNeedsAttention
<1> QED BY <1>1, OutcomesAreKnown, PTL

-----------------------------------------------------------------------------
(* The refinement of JobPromise.                                           *)

\* The account's view of a row.
LEMMA ViewOf ==
  ASSUME TypeOK, NEW j \in Jobs
  PROVE  /\ status[j] \in Active => Phase(j) = "pending"
         /\ status[j] = "needs_attention" => Phase(j) = "uncertain"
         /\ status[j] \in {"absent", "succeeded", "failed"} => Phase(j) = status[j]
         /\ ledger[j] = "committed" => Charge(j) = "charged"
         /\ ledger[j] = "released" => Charge(j) = "given_back"
         /\ ledger[j] \in {"none", "reserved"} => Charge(j) = ledger[j]
BY DEF Phase, Charge, Active, Waiting

\* The same of the row after a step.
LEMMA ViewAfter ==
  ASSUME TypeOK', NEW j \in Jobs
  PROVE  /\ status'[j] \in Active => Phase(j)' = "pending"
         /\ status'[j] = "needs_attention" => Phase(j)' = "uncertain"
         /\ status'[j] \in {"absent", "succeeded", "failed"} => Phase(j)' = status'[j]
         /\ ledger'[j] = "committed" => Charge(j)' = "charged"
         /\ ledger'[j] = "released" => Charge(j)' = "given_back"
         /\ ledger'[j] \in {"none", "reserved"} => Charge(j)' = ledger'[j]
BY DEF Phase, Charge, Active, Waiting

\* Rows that a step leaves alone look the same.
LEMMA ViewKept ==
  ASSUME NEW j \in Jobs
  PROVE  /\ status'[j] = status[j] => Phase(j)' = Phase(j)
         /\ ledger'[j] = ledger[j] => Charge(j)' = Charge(j)
BY DEF Phase, Charge

\* Only the request that a worker sends counts as a call.
LEMMA CallsStep ==
  ASSUME [Next]_vars
  PROVE  calls' = calls \/ \E w \in Workers : SendRequest(w)
<1>1. CASE Trigger
  BY <1>1 DEF Trigger, TriggerReview, TriggerV11, AdminRetry, historyVars
<1>2. ASSUME NEW w \in Workers, Execute(w), ~SendRequest(w) PROVE calls' = calls
  BY <1>2 DEF Execute, StartRun, InputFault, MarkExternalStarted, ReceiveAnswer, Complete,
              CompleteWithFurtherRun, CompleteFails, MarkFailed, Release, historyVars
<1>3. ASSUME NEW w \in Workers, NEW j \in Jobs,
             Claim(w, j) \/ RecoverExpired(w, j) \/ RecoverOrphan(w, j)
      PROVE  calls' = calls
  BY <1>3 DEF Claim, RecoverExpired, RecoverOrphan, historyVars
<1>4. ASSUME NEW w \in Workers, Heartbeat(w) \/ Crash(w) PROVE calls' = calls
  BY <1>4 DEF Heartbeat, Crash, historyVars
<1>5. CASE \/ Tick \/ \E j \in Jobs : BecomeDue(j)
           \/ \E u \in Users : ToggleAccount(u)
           \/ \E v \in Videos : AdvanceVideo(v)
           \/ UNCHANGED vars
  BY <1>5 DEF Tick, BecomeDue, ToggleAccount, AdvanceVideo, vars, historyVars
<1> QED BY <1>1, <1>2, <1>3, <1>4, <1>5 DEF Next

\* A job succeeds only when the model was asked, and a marked job that fails was
\* asked: a worker reports what it did, recovery never fails a marked job.
LEMMA EndsAreFounded ==
  ASSUME QueueInv, OutcomeInv, [Next]_vars, NEW j \in Jobs, status[j] = "running",
         status'[j] = "succeeded" \/ (status'[j] = "failed" /\ external[j])
  PROVE  calls[j] > 0
<1>0. status \in [Jobs -> {"absent"} \cup Active \cup Terminal] BY DEF QueueInv, TypeOK
<1>1. status'[j] # status[j] OBVIOUS
<1>2. CASE Trigger
  <2>1. ASSUME NEW i \in Jobs, NEW t, Enqueue(i, t) PROVE FALSE
    BY <1>0, <2>1 DEF Enqueue
  <2> QED BY <1>2, <2>1 DEF Trigger, TriggerReview, TriggerV11, AdminRetry
<1>3. ASSUME NEW w \in Workers, Execute(w) \/ Heartbeat(w) \/ Crash(w) PROVE calls[j] > 0
  <2>1. \/ Complete(w) \/ MarkFailed(w) \/ \E n \in Jobs : CompleteWithFurtherRun(w, n)
    BY <1>1, <1>3, WorkerRowStep DEF Execute, Unmoved
  <2>2. pc[w] # "idle" BY <2>1 DEF Complete, MarkFailed, CompleteWithFurtherRun
  <2>3. myJob[w] \in Jobs BY <2>2, WorkerTypes DEF QueueInv, QueueSafety
  <2>4. CASE Complete(w)
    BY <1>0, <1>1, <2>3, <2>4 DEF Complete, Finish, OutcomeInv, AskedOK
  <2>5. CASE MarkFailed(w)
    <3>1. MayMarkFailed(w) BY <1>1, <2>5 DEF MarkFailed, rowVars
    <3>2. myJob[w] = j BY <1>0, <1>1, <2>3, <2>5, <3>1 DEF MarkFailed, Finish
    <3>3. status'[j] = "failed"
      BY <1>0, <2>5, <3>1, <3>2 DEF MarkFailed, Finish, FailureStatus
    <3>4. LastClaim(w) BY <3>1 DEF MayMarkFailed, Current, LeaseValid, LastClaim
    <3> QED BY <2>5, <3>2, <3>3, <3>4 DEF MarkFailed, OutcomeInv, AskedOK
  <2>6. ASSUME NEW n \in Jobs, CompleteWithFurtherRun(w, n) PROVE calls[j] > 0
    <3>1. status' = [status EXCEPT ![myJob[w]] = "succeeded", ![n] = "queued"]
      BY <2>6 DEF CompleteWithFurtherRun
    <3>2. myJob[w] = j BY <1>0, <1>1, <2>3, <3>1
    <3> QED BY <2>6, <3>2 DEF CompleteWithFurtherRun, OutcomeInv, AskedOK
  <2> QED BY <2>1, <2>4, <2>5, <2>6
<1>4. ASSUME NEW w \in Workers, NEW i \in Jobs, Claim(w, i) \/ RecoverOrphan(w, i) PROVE FALSE
  BY <1>0, <1>4 DEF Claim, RecoverOrphan
<1>5. ASSUME NEW w \in Workers, NEW i \in Jobs, RecoverExpired(w, i) PROVE FALSE
  BY <1>0, <1>5 DEF RecoverExpired, MustAbandon, Abandon, Requeue, Finish
<1>6. CASE \/ Tick \/ \E i \in Jobs : BecomeDue(i)
           \/ \E u \in Users : ToggleAccount(u)
           \/ \E v \in Videos : AdvanceVideo(v)
           \/ UNCHANGED vars
  BY <1>1, <1>6 DEF Tick, BecomeDue, ToggleAccount, AdvanceVideo, vars, rowVars
<1> QED BY <1>2, <1>3, <1>4, <1>5, <1>6 DEF Next

\* The variables of JobPromise, as the queue shows them (Promise).
phases == [j \in Jobs |-> Phase(j)]
charges == [j \in Jobs |-> Charge(j)]
askedJobs == {j \in Jobs : calls[j] > 0}

\* A step that changes one row changes the account's view in one place.
LEMMA ViewMoves ==
  ASSUME NEW j \in Jobs
  PROVE  /\ (\A i \in Jobs : i # j => status'[i] = status[i]) =>
              phases' = [phases EXCEPT ![j] = Phase(j)']
         /\ (\A i \in Jobs : i # j => ledger'[i] = ledger[i]) =>
              charges' = [charges EXCEPT ![j] = Charge(j)']
         /\ phases[j] = Phase(j) /\ charges[j] = Charge(j)
<1>1. ASSUME \A i \in Jobs : i # j => status'[i] = status[i]
      PROVE  phases' = [phases EXCEPT ![j] = Phase(j)']
  <2>1. \A i \in Jobs : i # j => Phase(i)' = Phase(i) BY <1>1, ViewKept
  <2> QED BY <2>1 DEF phases
<1>2. ASSUME \A i \in Jobs : i # j => ledger'[i] = ledger[i]
      PROVE  charges' = [charges EXCEPT ![j] = Charge(j)']
  <2>1. \A i \in Jobs : i # j => Charge(i)' = Charge(i) BY <1>2, ViewKept
  <2> QED BY <2>1 DEF charges
<1> QED BY <1>1, <1>2 DEF phases, charges

\* The request reaches the model while its job runs or is already uncertain, and
\* never after its reservation was given back.
LEMMA AskRefines ==
  ASSUME QueueInv, OutcomeInv, NEW w \in Workers, SendRequest(w)
  PROVE  \E j \in Jobs : Promise!Ask(j)
<1> DEFINE j == myJob[w]
<1>0. pc[w] = "marked" BY DEF SendRequest
<1>1. j \in Jobs BY <1>0, WorkerTypes DEF QueueInv, QueueSafety
<1>2. /\ status' = status /\ ledger' = ledger /\ calls' = [calls EXCEPT ![j] = @ + 1]
      /\ status[j] \in {"running", "needs_attention"} /\ external[j]
      /\ calls[j] = 0 /\ ledger[j] # "released"
  BY <1>0, <1>1 DEF SendRequest, rowVars, QueueInv, QueueSafety, TypeOK, MarkersOK, CallsOK,
                    LedgerOK, OutcomeInv, AskedOK
<1>3. phases[j] \in {"pending", "uncertain"} /\ charges[j] # "given_back" /\ j \notin askedJobs
  BY <1>1, <1>2, ViewOf, ViewMoves DEF QueueInv, TypeOK, askedJobs, Active
<1>4. phases' = phases /\ charges' = charges BY <1>2 DEF phases, charges, Phase, Charge
<1>5. askedJobs' = askedJobs \cup {j}
  BY <1>1, <1>2 DEF askedJobs, QueueInv, TypeOK
<1> QED BY <1>1, <1>3, <1>4, <1>5 DEF Promise!Ask, Promise!Open, phases, charges, askedJobs

\* A step that only moves a job between waiting and running is none to the account.
LEMMA WaitRefines ==
  ASSUME QueueInv, QueueInv', NEW j \in Jobs, Taken(j) \/ Deferred(j), calls' = calls
  PROVE  UNCHANGED Promise!promise
<1>1. status[j] \in Active /\ ledger' = ledger
  BY DEF Taken, Deferred, Requeue, Claimable, Active, Waiting
<1>2. status'[j] \in Active /\ \A i \in Jobs : i # j => status'[i] = status[i]
  BY DEF Taken, Deferred, Requeue, QueueInv, TypeOK, Active, Waiting
<1>3. Phase(j) = "pending" /\ Phase(j)' = "pending"
  BY <1>1, <1>2, ViewOf, ViewAfter DEF QueueInv
<1>4. phases' = phases
  <2>1. \A i \in Jobs : Phase(i)' = Phase(i) BY <1>2, <1>3, ViewKept
  <2> QED BY <2>1 DEF phases
<1>5. charges' = charges
  <2>1. \A i \in Jobs : Charge(i)' = Charge(i) BY <1>1, ViewKept
  <2> QED BY <2>1 DEF charges
<1>6. askedJobs' = askedJobs BY DEF askedJobs
<1> QED BY <1>4, <1>5, <1>6 DEF Promise!promise, phases, charges, askedJobs

\* A row that enters is a request submitted, with a reservation if it is metered.
LEMMA EntryRefines ==
  ASSUME QueueInv, QueueInv', NEW j \in Jobs, Entered(j), calls' = calls
  PROVE  Promise!Submit(j)
<1>1. /\ status[j] = "absent" /\ status' = [status EXCEPT ![j] = "queued"]
      /\ ledger' = [ledger EXCEPT ![j] = IF Metered(j) THEN "reserved" ELSE "none"]
  BY DEF Entered, Enqueue
<1>2. /\ status'[j] \in Active /\ ledger'[j] = IF Metered(j) THEN "reserved" ELSE "none"
      /\ \A i \in Jobs : i # j => status'[i] = status[i] /\ ledger'[i] = ledger[i]
  BY <1>1 DEF QueueInv, TypeOK, Active, Waiting
<1>3. /\ Phase(j) = "absent" /\ Phase(j)' = "pending"
      /\ Charge(j)' = IF Metered(j) THEN "reserved" ELSE "none"
  BY <1>1, <1>2, ViewOf, ViewAfter DEF QueueInv
<1>4. /\ phases[j] = "absent" /\ phases' = [phases EXCEPT ![j] = "pending"]
      /\ charges' = [charges EXCEPT ![j] = IF Metered(j) THEN "reserved" ELSE "none"]
  BY <1>2, <1>3, ViewMoves
<1>5. j \in {i \in Jobs : Metered(i)} <=> Metered(j) OBVIOUS
<1>6. askedJobs' = askedJobs BY DEF askedJobs
<1> QED BY <1>4, <1>5, <1>6 DEF Promise!Submit, Promise!Open, phases, charges, askedJobs

\* An orphan is adopted as uncertain, and is never charged.
LEMMA AdoptionRefines ==
  ASSUME QueueInv, QueueInv', NEW j \in Jobs, Adopted(j), calls' = calls
  PROVE  Promise!Adopt(j)
<1>1. /\ status[j] = "absent" /\ status'[j] = "needs_attention" /\ ledger' = ledger
      /\ \A i \in Jobs : i # j => status'[i] = status[i]
  BY DEF Adopted, Orphan, QueueInv, TypeOK
<1>2. Phase(j) = "absent" /\ Phase(j)' = "uncertain"
  BY <1>1, ViewOf, ViewAfter DEF QueueInv
<1>3. phases[j] = "absent" /\ phases' = [phases EXCEPT ![j] = "uncertain"]
  BY <1>1, <1>2, ViewMoves
<1>4. charges' = charges
  <2>1. \A i \in Jobs : Charge(i)' = Charge(i) BY <1>1, ViewKept
  <2> QED BY <2>1 DEF charges
<1>5. askedJobs' = askedJobs BY DEF askedJobs
<1> QED BY <1>3, <1>4, <1>5 DEF Promise!Adopt, phases, charges, askedJobs

\* What settling a job does to its charge: nothing without a reservation, else the
\* account pays exactly when the request was marked or the job succeeded.
LEMMA SettledCharge ==
  ASSUME QueueInv, QueueInv', NEW j \in Jobs, NEW st \in Terminal, Finish(j, st)
  PROVE  Promise!Settled(j, IF external[j] \/ st = "succeeded" THEN "charged" ELSE "given_back")
<1> DEFINE c == IF external[j] \/ st = "succeeded" THEN "charged" ELSE "given_back"
<1>1. \A i \in Jobs : i # j => ledger'[i] = ledger[i]
  BY DEF Finish, Settle, QueueInv, TypeOK
<1>2. CASE ledger[j] = "none"
  <2>1. ledger'[j] = "none" BY <1>2 DEF Finish, Settle
  <2>2. Charge(j) = "none" /\ Charge(j)' = "none"
    BY <1>2, <2>1, ViewOf, ViewAfter DEF QueueInv
  <2>3. charges[j] = "none" /\ charges' = [charges EXCEPT ![j] = "none"]
    BY <1>1, <2>2, ViewMoves
  <2> QED BY <2>3 DEF Promise!Settled, charges
<1>3. CASE ledger[j] # "none"
  <2>1. ledger'[j] = Settlement(j, st)
    BY <1>3 DEF Finish, Settle, QueueInv, QueueSafety, LedgerOK, TypeOK
  <2>2. Charge(j) # "none"
    BY <1>3, ViewOf DEF QueueInv, TypeOK
  <2>3. Charge(j)' = c BY <2>1, ViewAfter DEF QueueInv, Settlement
  <2>4. charges[j] # "none" /\ charges' = [charges EXCEPT ![j] = c]
    BY <1>1, <2>2, <2>3, ViewMoves
  <2> QED BY <2>4 DEF Promise!Settled, charges
<1> QED BY <1>2, <1>3

\* A settled job is a request that succeeds, fails or is given up.
LEMMA EndRefines ==
  ASSUME QueueInv, OutcomeInv, QueueInv', [Next]_vars, NEW j \in Jobs, NEW st \in Terminal,
         Ended(j, st), calls' = calls
  PROVE  Promise!Succeed(j) \/ Promise!Fail(j) \/ Promise!GiveUp(j)
<1>1. /\ status[j] = "running" /\ Finish(j, st) /\ status'[j] = st
      /\ \A i \in Jobs : i # j => status'[i] = status[i]
  BY DEF Ended, Finish, QueueInv, TypeOK
<1>2. phases[j] = "pending" /\ phases' = [phases EXCEPT ![j] = Phase(j)']
  BY <1>1, ViewOf, ViewMoves DEF QueueInv, Active
<1>3. askedJobs' = askedJobs /\ (j \in askedJobs <=> calls[j] > 0) BY DEF askedJobs
<1>4. calls[j] > 0 => external[j] BY DEF QueueInv, QueueSafety, CallsOK
<1>5. Promise!Settled(j, IF external[j] \/ st = "succeeded" THEN "charged" ELSE "given_back")
  BY <1>1, SettledCharge
<1>6. CASE st = "succeeded"
  <2>1. calls[j] > 0 /\ Phase(j)' = "succeeded"
    BY <1>1, <1>6, EndsAreFounded, ViewAfter DEF QueueInv
  <2>2. Promise!Settled(j, "charged") BY <1>5, <1>6
  <2> QED BY <1>2, <1>3, <2>1, <2>2
      DEF Promise!Succeed, Promise!Open, phases, askedJobs
<1>7. CASE st = "failed"
  <2>1. (external[j] <=> calls[j] > 0) /\ Phase(j)' = "failed"
    BY <1>1, <1>4, <1>7, EndsAreFounded, ViewAfter DEF QueueInv
  <2>2. Promise!Settled(j, IF j \in askedJobs THEN "charged" ELSE "given_back")
    BY <1>3, <1>5, <1>7, <2>1
  <2> QED BY <1>2, <1>3, <2>1, <2>2
      DEF Promise!Fail, Promise!Open, phases, askedJobs
<1>8. CASE st = "needs_attention"
  <2>1. Phase(j)' = "uncertain" BY <1>1, <1>8, ViewAfter DEF QueueInv
  <2>2. Promise!Settled(j, "charged") \/ (j \notin askedJobs /\ Promise!Settled(j, "given_back"))
    BY <1>3, <1>4, <1>5, <1>8
  <2> QED BY <1>2, <1>3, <2>1, <2>2
      DEF Promise!GiveUp, Promise!Open, phases, askedJobs
<1> QED BY <1>6, <1>7, <1>8 DEF Terminal

\* A V1.1 run that needs another opinion was asked, is paid for, and submits the
\* next run in the same step.
LEMMA ContinuationRefines ==
  ASSUME QueueInv, OutcomeInv, QueueInv', [Next]_vars, NEW j \in Jobs, NEW n \in Jobs,
         Continued(j, n), calls' = calls
  PROVE  Promise!SucceedAndSubmit(j, n)
<1>1. /\ status[j] = "running" /\ status[n] = "absent" /\ j # n
      /\ ledger[j] \in {"reserved", "committed"} /\ Metered(n)
      /\ status'[j] = "succeeded" /\ status'[n] = "queued"
      /\ ledger'[j] = "committed" /\ ledger'[n] = "reserved"
      /\ \A i \in Jobs : i # j /\ i # n => status'[i] = status[i] /\ ledger'[i] = ledger[i]
  BY DEF Continued, QueueInv, TypeOK, Metered, IsV11
<1>2. calls[j] > 0 BY <1>1, EndsAreFounded
<1>3. /\ Phase(j) = "pending" /\ Phase(j)' = "succeeded"
      /\ Phase(n) = "absent" /\ Phase(n)' = "pending"
      /\ Charge(j) # "none" /\ Charge(j)' = "charged" /\ Charge(n)' = "reserved"
  BY <1>1, ViewOf, ViewAfter DEF QueueInv, Active, Waiting
<1>4. \A i \in Jobs : i # j /\ i # n => Phase(i)' = Phase(i) /\ Charge(i)' = Charge(i)
  BY <1>1, ViewKept
<1>5. /\ phases[j] = "pending" /\ phases[n] = "absent"
      /\ phases' = [phases EXCEPT ![j] = "succeeded", ![n] = "pending"]
  BY <1>1, <1>3, <1>4 DEF phases
<1>6. charges' = [charges EXCEPT ![j] = IF @ = "none" THEN @ ELSE "charged", ![n] = "reserved"]
  <2>1. charges' = [charges EXCEPT ![j] = "charged", ![n] = "reserved"]
    BY <1>1, <1>3, <1>4 DEF charges
  <2>2. charges[j] # "none" BY <1>3 DEF charges
  <2> QED BY <2>1, <2>2
<1>7. n \in {i \in Jobs : Metered(i)} BY <1>1
<1>8. j \in askedJobs /\ askedJobs' = askedJobs BY <1>2 DEF askedJobs
<1> QED BY <1>5, <1>6, <1>7, <1>8
    DEF Promise!SucceedAndSubmit, Promise!Open, phases, charges, askedJobs

\* Every step of the queue is a step of the promise, or none.
LEMMA StepRefines ==
  ASSUME QueueInv, OutcomeInv, [Next]_vars
  PROVE  [Promise!Next]_(Promise!promise)
<1>1. QueueInv' BY QueueInvStep
<1>2. ASSUME NEW w \in Workers, SendRequest(w) PROVE Promise!Next
  BY <1>2, AskRefines DEF Promise!Next
<1>3. CASE calls' = calls
  <2>1. CASE Unmoved
    <3>1. status' = status /\ ledger' = ledger BY <2>1 DEF Unmoved
    <3> QED BY <1>3, <3>1 DEF Promise!promise, Phase, Charge
  <2>2. ASSUME NEW j \in Jobs, Taken(j) \/ Deferred(j) PROVE UNCHANGED Promise!promise
    BY <1>1, <1>3, <2>2, WaitRefines
  <2>3. ASSUME NEW j \in Jobs, Entered(j) \/ Adopted(j) PROVE Promise!Next
    BY <1>1, <1>3, <2>3, EntryRefines, AdoptionRefines DEF Promise!Next
  <2>4. ASSUME NEW j \in Jobs, NEW st \in Terminal, Ended(j, st) PROVE Promise!Next
    BY <1>1, <1>3, <2>4, EndRefines DEF Promise!Next
  <2>5. ASSUME NEW j \in Jobs, NEW n \in Jobs, Continued(j, n) PROVE Promise!Next
    BY <1>1, <1>3, <2>5, ContinuationRefines DEF Promise!Next
  <2> QED BY <2>1, <2>2, <2>3, <2>4, <2>5, NextRowStep DEF RowStep
<1> QED BY <1>2, <1>3, CallsStep

\* The queue starts with the legacy evaluations as requests already submitted.
LEMMA InitRefines == Init => Promise!Init
<1> SUFFICES ASSUME NEW o \in SUBSET Jobs, NEW q \in SUBSET Jobs, InitWith(o, q)
             PROVE  Promise!Init
  BY DEF Init
<1>1. /\ status = [j \in Jobs |-> IF j \in q THEN "queued" ELSE "absent"]
      /\ ledger = [j \in Jobs |-> IF j \in q THEN "reserved" ELSE "none"]
      /\ calls = [j \in Jobs |-> 0] /\ \A j \in q : Metered(j)
  BY DEF InitWith, LegacyStart, Metered
<1>2. QueueInv BY QueueInvInitially DEF Init
<1>3. \A j \in Jobs : /\ Phase(j) = IF j \in q THEN "pending" ELSE "absent"
                      /\ Charge(j) = IF j \in q THEN "reserved" ELSE "none"
  BY <1>1, <1>2, ViewOf DEF QueueInv, Active, Waiting
<1>4. phases = [j \in Jobs |-> IF j \in q THEN "pending" ELSE "absent"]
  BY <1>3 DEF phases
<1>5. charges = [j \in Jobs |-> IF j \in q \cap {i \in Jobs : Metered(i)} THEN "reserved" ELSE "none"]
  BY <1>1, <1>3 DEF charges
<1>6. askedJobs = {} BY <1>1 DEF askedJobs
<1> QED BY <1>4, <1>5, <1>6 DEF Promise!Init, Promise!Open, phases, charges, askedJobs

\* Refinement: whatever workers crash, wake up late or lose their lease, the
\* account that asked sees only what JobPromise allows: one request to the model,
\* one outcome, one settlement, nothing asked after it was given back.
THEOREM QueueKeepsPromise == Spec => ImplementsPromise
<1>1. QueueInv /\ OutcomeInv /\ [Next]_vars => [Promise!Next]_(Promise!promise)
  BY StepRefines
<1> QED
  BY <1>1, InitRefines, QueueInvariant, OutcomesAreKnown, PTL
  DEF Spec, ImplementsPromise, Promise!Spec
=============================================================================
