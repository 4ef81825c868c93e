--------------------------- MODULE V11ContentProofs ---------------------------
(***************************************************************************)
(* Proofs about the V1.1 content evaluation, for any number of videos,     *)
(* revisions, groups and runs.  ContentInv is inductive: whatever replaces *)
(* a revision either finds no job of the video, or finds a pilot's, so a   *)
(* formal job that is under way is never of an old revision.               *)
(***************************************************************************)
EXTENDS V11Content, SequenceTheorems, FiniteSetTheorems, TLAPS

-----------------------------------------------------------------------------
(* Sequences that grow at the end or change in one place.                  *)

Grown(s, t, row) ==
  /\ Len(t) = Len(s) + 1 /\ t[Len(s) + 1] = row
  /\ \A i \in 1 .. Len(s) : t[i] = s[i]

Touched(s, t, k, row) ==
  /\ k \in 1 .. Len(s) /\ Len(t) = Len(s) /\ t[k] = row
  /\ \A i \in 1 .. Len(s) : i # k => t[i] = s[i]

\* A row is added at the end.
LEMMA RowAdded ==
  ASSUME NEW R, NEW s \in Seq(R), NEW row \in R
  PROVE  Append(s, row) \in Seq(R) /\ Grown(s, Append(s, row), row)
BY AppendProperties DEF Grown

\* A row is replaced.
LEMMA RowReplaced ==
  ASSUME NEW R, NEW s \in Seq(R), NEW k \in 1 .. Len(s), NEW row \in R
  PROVE  [s EXCEPT ![k] = row] \in Seq(R) /\ Touched(s, [s EXCEPT ![k] = row], k, row)
BY ExceptSeq DEF Touched

-----------------------------------------------------------------------------
(* What the worker's steps do to the rows.                                 *)

SameGroup(a, b) == a.video = b.video /\ a.rev = b.rev /\ a.pilot = b.pilot
SameRun(a, b) == a.group = b.group /\ a.number = b.number

RunRewritten(r, row) ==
  row \in RunRows /\ Touched(runs, runs', r, row) /\ SameRun(row, runs[r])
GroupRewritten(g, row) ==
  row \in GroupRows /\ Touched(groups, groups', g, row) /\ SameGroup(row, groups[g])

Open(s) == s \in {"pending", "running"}

\* The job of a run goes on: its run stays open or closed.
Continued(r) ==
  /\ groups' = groups
  /\ \E row \in RunRows :
       /\ RunRewritten(r, row) /\ row.status = runs[r].status
       /\ \/ runs[r].job = "queued" /\ row.job = "claimed" /\ row.tries = runs[r].tries + 1
          \/ runs[r].job = "started" /\ row.job = "called" /\ row.tries = runs[r].tries
          \/ /\ runs[r].job \in {"claimed", "started"} /\ row.job = "queued"
             /\ row.tries = runs[r].tries /\ row.tries <= 1

Started(r) ==
  /\ runs[r].job = "claimed" /\ CurrentForRun(r)
  /\ \E row \in RunRows : /\ RunRewritten(r, row) /\ row.status = "running"
                          /\ row.job = "started" /\ row.tries = runs[r].tries
  /\ \E row \in GroupRows : /\ GroupRewritten(runs[r].group, row) /\ row.status = "running"
                            /\ row.attempts = groups[runs[r].group].attempts + 1

\* The job is over without an answer.
Ended(r) ==
  /\ runs[r].job \in LiveJob
  /\ \E row \in RunRows :
       /\ RunRewritten(r, row) /\ row.job \notin LiveJob
       /\ row.status = IF Open(runs[r].status) THEN "failed" ELSE runs[r].status
  /\ \E row \in GroupRows :
       /\ GroupRewritten(runs[r].group, row)
       /\ row.status \in {groups[runs[r].group].status, "failed"}
       /\ groups[runs[r].group].status = "superseded" => row.status = "superseded"

\* The job brought a valid answer.
Answers(r) ==
  /\ Answered(r)
  /\ \E row \in RunRows : RunRewritten(r, row) /\ row.job = "succeeded" /\ row.status = "succeeded"

Finished(r) ==
  /\ Answers(r)
  /\ \E row \in GroupRows : /\ GroupRewritten(runs[r].group, row)
                            /\ row.status \in {"pilot_done", "hold", "adopted"}

\* A run is rewritten.
LEMMA RewriteRun ==
  ASSUME TypeOK, NEW r \in RunIds, NEW row \in RunRows, SameRun(row, runs[r]),
         runs' = [runs EXCEPT ![r] = row]
  PROVE  runs' \in Seq(RunRows) /\ RunRewritten(r, row)
<1>1. runs \in Seq(RunRows) /\ r \in 1 .. Len(runs) BY DEF TypeOK, RunIds
<1> QED BY <1>1, RowReplaced DEF RunRewritten

\* A group is rewritten.
LEMMA RewriteGroup ==
  ASSUME TypeOK, NEW g \in GroupIds, NEW row \in GroupRows, SameGroup(row, groups[g]),
         groups' = [groups EXCEPT ![g] = row]
  PROVE  groups' \in Seq(GroupRows) /\ GroupRewritten(g, row)
<1>1. groups \in Seq(GroupRows) /\ g \in 1 .. Len(groups) BY DEF TypeOK, GroupIds
<1> QED BY <1>1, RowReplaced DEF GroupRewritten

\* A run's row and its group's.
LEMMA RowsOfRun ==
  ASSUME TypeOK, RowsOK, NEW r \in RunIds
  PROVE  /\ runs[r] \in RunRows /\ runs[r].group \in GroupIds
         /\ groups[runs[r].group] \in GroupRows
         /\ groups[runs[r].group].video \in Videos
<1>1. runs[r] \in RunRows BY DEF TypeOK, RunIds
<1>2. runs[r].group \in GroupIds BY DEF RowsOK
<1>3. \A g \in GroupIds : groups[g] \in GroupRows BY DEF TypeOK, GroupIds
<1>4. groups[runs[r].group] \in GroupRows BY <1>2, <1>3
<1>5. groups[runs[r].group].video \in Videos BY <1>4 DEF GroupRows
<1> QED BY <1>1, <1>2, <1>4, <1>5

\* A job that goes on.
LEMMA ContinuedSteps ==
  ASSUME TypeOK, RowsOK, NEW r \in RunIds,
         \/ Claim(r) \/ Call(r)
         \/ Expire(r) /\ runs'[r].job = "queued"
  PROVE  TypeOK' /\ Continued(r) /\ UNCHANGED <<revs, holds, appeals>>
<1>1. runs[r] \in RunRows BY RowsOfRun
<1>2. /\ runs \in Seq(RunRows) /\ r \in 1 .. Len(runs) BY DEF TypeOK, RunIds
<1>3. groups' = groups /\ UNCHANGED <<revs, holds, appeals, fingerprint>>
      /\ \E row \in RunRows :
           /\ SameRun(row, runs[r]) /\ runs' = [runs EXCEPT ![r] = row]
           /\ row.status = runs[r].status
           /\ \/ runs[r].job = "queued" /\ row.job = "claimed" /\ row.tries = runs[r].tries + 1
              \/ runs[r].job = "started" /\ row.job = "called" /\ row.tries = runs[r].tries
              \/ /\ runs[r].job \in {"claimed", "started"} /\ row.job = "queued"
                 /\ row.tries = runs[r].tries /\ row.tries <= 1
  <2>1. CASE Claim(r)
    <3> DEFINE row == [runs[r] EXCEPT !.job = "claimed", !.tries = @ + 1]
    <3>0. runs[r].tries + 1 \in Nat BY <1>1 DEF RunRows
    <3>1. /\ row \in RunRows /\ row.group = runs[r].group /\ row.number = runs[r].number
          /\ row.status = runs[r].status /\ row.job = "claimed" /\ row.tries = runs[r].tries + 1
      BY <1>1, <3>0 DEF RunRows, LiveJob
    <3>2. runs' = [runs EXCEPT ![r] = row] BY <1>2, <2>1 DEF Claim
    <3>3. /\ groups' = groups /\ UNCHANGED <<revs, holds, appeals, fingerprint>>
          /\ runs[r].job = "queued"
      BY <2>1 DEF Claim
    <3> HIDE DEF row
    <3> QED BY <3>1, <3>2, <3>3 DEF SameRun
  <2>2. CASE Call(r)
    <3> DEFINE row == [runs[r] EXCEPT !.job = "called"]
    <3>1. /\ row \in RunRows /\ row.group = runs[r].group /\ row.number = runs[r].number
          /\ row.status = runs[r].status /\ row.job = "called" /\ row.tries = runs[r].tries
      BY <1>1 DEF RunRows, LiveJob
    <3>2. runs' = [runs EXCEPT ![r] = row] BY <1>2, <2>2 DEF Call
    <3>3. /\ groups' = groups /\ UNCHANGED <<revs, holds, appeals, fingerprint>>
          /\ runs[r].job = "started"
      BY <2>2 DEF Call
    <3> HIDE DEF row
    <3> QED BY <3>1, <3>2, <3>3 DEF SameRun
  <2>3. CASE Expire(r) /\ runs'[r].job = "queued"
    <3> DEFINE row == [runs[r] EXCEPT !.job = "queued"]
               n == JobAttempts(runs[r].group, runs[r].number)
    <3>0. runs[r].tries \in Nat BY <1>1 DEF RunRows
    <3>1. /\ row \in RunRows /\ row.group = runs[r].group /\ row.number = runs[r].number
          /\ row.status = runs[r].status /\ row.job = "queued" /\ row.tries = runs[r].tries
      BY <1>1 DEF RunRows, LiveJob
    <3>2. n \in {1, 2} BY DEF JobAttempts
    <3>3. ~(runs[r].job = "called" \/ runs[r].tries >= n)
      <4>1. SUFFICES ASSUME runs[r].job = "called" \/ runs[r].tries >= n PROVE FALSE
        OBVIOUS
      <4>2. runs' = [runs EXCEPT
               ![r].job = IF @ = "called" THEN "uncertain" ELSE "failed",
               ![r].status = IF @ \in {"pending", "running"} THEN "failed" ELSE @]
        BY <2>3, <4>1 DEF Expire
      <4>3. runs'[r].job \in {"uncertain", "failed"} BY <1>1, <1>2, <4>2 DEF RunRows
      <4> QED BY <2>3, <4>3
    <3>4. /\ runs' = [runs EXCEPT ![r].job = "queued"] /\ groups' = groups
          /\ UNCHANGED <<revs, holds, appeals, fingerprint>>
          /\ runs[r].job \in {"claimed", "started", "called"}
      BY <2>3, <3>3 DEF Expire
    <3>5. runs' = [runs EXCEPT ![r] = row] BY <1>2, <3>4
    <3>6. runs[r].tries <= 1 BY <3>0, <3>2, <3>3
    <3> HIDE DEF row, n
    <3> QED BY <3>1, <3>3, <3>4, <3>5, <3>6 DEF SameRun
  <2> QED BY <2>1, <2>2, <2>3
<1>4. PICK row \in RunRows :
           /\ SameRun(row, runs[r]) /\ runs' = [runs EXCEPT ![r] = row]
           /\ row.status = runs[r].status
           /\ \/ runs[r].job = "queued" /\ row.job = "claimed" /\ row.tries = runs[r].tries + 1
              \/ runs[r].job = "started" /\ row.job = "called" /\ row.tries = runs[r].tries
              \/ /\ runs[r].job \in {"claimed", "started"} /\ row.job = "queued"
                 /\ row.tries = runs[r].tries /\ row.tries <= 1
  BY <1>3
<1>5. runs' \in Seq(RunRows) /\ RunRewritten(r, row) BY <1>4, RewriteRun
<1>6. TypeOK' BY <1>3, <1>5 DEF TypeOK
<1> QED BY <1>3, <1>4, <1>5, <1>6 DEF Continued

\* A job that starts.
LEMMA StartStep ==
  ASSUME TypeOK, RowsOK, NEW r \in RunIds, Start(r)
  PROVE  TypeOK' /\ Started(r) /\ UNCHANGED <<revs, holds, appeals>>
<1> DEFINE g == runs[r].group
           row == [runs[r] EXCEPT !.job = "started", !.status = "running"]
           grow == [groups[g] EXCEPT !.status = "running", !.attempts = @ + 1]
<1>1. /\ runs[r] \in RunRows /\ g \in GroupIds /\ groups[g] \in GroupRows
      /\ runs \in Seq(RunRows) /\ groups \in Seq(GroupRows)
      /\ r \in 1 .. Len(runs) /\ g \in 1 .. Len(groups)
  BY RowsOfRun DEF TypeOK, RunIds, GroupIds
<1>2. /\ runs[r].job = "claimed" /\ CurrentForRun(r)
      /\ runs' = [runs EXCEPT ![r].job = "started", ![r].status = "running"]
      /\ groups' = [groups EXCEPT ![g].status = "running", ![g].attempts = @ + 1]
      /\ UNCHANGED <<revs, holds, appeals, vstatus, fingerprint>>
  BY DEF Start
<1>3. runs' = [runs EXCEPT ![r] = row] BY <1>1, <1>2
<1>4. /\ row \in RunRows /\ SameRun(row, runs[r]) /\ row.status = "running"
      /\ row.job = "started" /\ row.tries = runs[r].tries
  BY <1>1 DEF RunRows, LiveJob, SameRun
<1> HIDE DEF g
<1>5. groups' = [groups EXCEPT ![g] = grow] BY <1>1, <1>2
<1>6. groups[g].attempts + 1 \in Nat BY SMTT(30), <1>1 DEF GroupRows
<1>7. /\ grow \in GroupRows /\ SameGroup(grow, groups[g]) /\ grow.status = "running"
      /\ grow.attempts = groups[g].attempts + 1
  BY <1>1, <1>6 DEF GroupRows, OpenGroup, SameGroup
<1> HIDE DEF row, grow
<1>8. runs' \in Seq(RunRows) /\ RunRewritten(r, row) BY <1>3, <1>4, RewriteRun
<1>9. groups' \in Seq(GroupRows) /\ GroupRewritten(g, grow) BY <1>1, <1>5, <1>7, RewriteGroup
<1>10. TypeOK' BY <1>2, <1>8, <1>9 DEF TypeOK
<1> QED BY <1>2, <1>4, <1>7, <1>8, <1>9, <1>10 DEF Started, g

\* A job that ends without an answer.
LEMMA EndedSteps ==
  ASSUME TypeOK, RowsOK, NEW r \in RunIds,
         Fail(r) \/ (Expire(r) /\ runs'[r].job # "queued")
  PROVE  TypeOK' /\ Ended(r) /\ UNCHANGED <<revs, holds, appeals>>
<1> DEFINE g == runs[r].group
           row(j) == [runs[r] EXCEPT !.job = j,
                        !.status = IF @ \in {"pending", "running"} THEN "failed" ELSE @]
           grow == [groups[g] EXCEPT !.status = IF @ \in {"queued", "running"} THEN "failed" ELSE @]
<1>1. /\ runs[r] \in RunRows /\ g \in GroupIds /\ groups[g] \in GroupRows
      /\ runs \in Seq(RunRows) /\ groups \in Seq(GroupRows)
      /\ r \in 1 .. Len(runs) /\ g \in 1 .. Len(groups)
  BY RowsOfRun DEF TypeOK, RunIds, GroupIds
<1>2. /\ runs[r].job \in {"claimed", "started", "called"}
      /\ UNCHANGED <<revs, holds, appeals, fingerprint>>
      /\ groups' = [groups EXCEPT
           ![g].status = IF @ \in {"queued", "running"} THEN "failed" ELSE @]
      /\ \E j \in {"failed", "uncertain"} : runs' = [runs EXCEPT ![r].job = j,
           ![r].status = IF @ \in {"pending", "running"} THEN "failed" ELSE @]
  <2>1. CASE Fail(r) BY <2>1 DEF Fail
  <2>2. CASE Expire(r) /\ runs'[r].job # "queued"
    <3> DEFINE over == runs[r].job = "called" \/ runs[r].tries >= JobAttempts(g, runs[r].number)
    <3>1. over
      <4>1. SUFFICES ASSUME ~over PROVE FALSE OBVIOUS
      <4>2. runs' = [runs EXCEPT ![r].job = "queued"] BY <2>2, <4>1 DEF Expire
      <4>3. runs'[r].job = "queued" BY <1>1, <4>2 DEF RunRows
      <4> QED BY <2>2, <4>3
    <3> DEFINE j == IF runs[r].job = "called" THEN "uncertain" ELSE "failed"
    <3>2. /\ runs[r].job \in {"claimed", "started", "called"}
          /\ UNCHANGED <<revs, holds, appeals, fingerprint>>
          /\ groups' = [groups EXCEPT
               ![g].status = IF @ \in {"queued", "running"} THEN "failed" ELSE @]
          /\ runs' = [runs EXCEPT ![r].job = IF @ = "called" THEN "uncertain" ELSE "failed",
               ![r].status = IF @ \in {"pending", "running"} THEN "failed" ELSE @]
      BY <2>2, <3>1 DEF Expire
    <3>3. runs' = [runs EXCEPT ![r].job = j,
               ![r].status = IF @ \in {"pending", "running"} THEN "failed" ELSE @]
      BY <1>1, <3>2
    <3>4. j \in {"failed", "uncertain"} OBVIOUS
    <3> HIDE DEF j
    <3> QED BY <3>2, <3>3, <3>4
  <2> QED BY <2>1, <2>2
<1>3. PICK j \in {"failed", "uncertain"} : runs' = [runs EXCEPT ![r].job = j,
           ![r].status = IF @ \in {"pending", "running"} THEN "failed" ELSE @]
  BY <1>2
<1>4. runs' = [runs EXCEPT ![r] = row(j)] BY <1>1, <1>3
<1>5. /\ row(j) \in RunRows /\ SameRun(row(j), runs[r]) /\ row(j).job \notin LiveJob
      /\ row(j).status = IF Open(runs[r].status) THEN "failed" ELSE runs[r].status
  BY <1>1 DEF RunRows, LiveJob, SameRun, Open
<1> HIDE DEF g
<1>6. groups' = [groups EXCEPT ![g] = grow] BY <1>1, <1>2
<1>7. /\ grow \in GroupRows /\ SameGroup(grow, groups[g])
      /\ grow.status \in {groups[g].status, "failed"}
      /\ groups[g].status = "superseded" => grow.status = "superseded"
  BY <1>1 DEF GroupRows, OpenGroup, SameGroup
<1> HIDE DEF row, grow
<1>8. runs' \in Seq(RunRows) /\ RunRewritten(r, row(j)) BY <1>4, <1>5, RewriteRun
<1>9. groups' \in Seq(GroupRows) /\ GroupRewritten(g, grow) BY <1>1, <1>6, <1>7, RewriteGroup
<1>10. TypeOK' BY <1>2, <1>8, <1>9 DEF TypeOK
<1>11. runs[r].job \in LiveJob BY <1>2 DEF LiveJob
<1> QED BY <1>2, <1>5, <1>7, <1>8, <1>9, <1>10, <1>11 DEF Ended, g

-----------------------------------------------------------------------------
(* What a valid answer does to the rows.                                   *)

\* Holds that were not there are of revision k of v and of this type.
HoldsOnly(v, k, type) ==
  \A h \in holds' : h \in holds \/ (h.video = v /\ h.rev = k /\ h.type = type)

RevisionRewritten(v, k, row) ==
  /\ row \in RevisionRows /\ row.mode = revs[v][k].mode
  /\ Touched(revs[v], revs'[v], k, row)
  /\ \A u \in Videos : u # v => revs'[u] = revs[u]

PilotFinished(r) ==
  Finished(r) /\ groups[runs[r].group].pilot /\ UNCHANGED <<revs, holds>>

HoldPlaced(r) ==
  LET g == runs[r].group IN
  /\ Finished(r) /\ ~groups[g].pilot /\ UNCHANGED revs
  /\ \E t \in {"input_incomplete", "evaluation_instability"} :
       HoldsOnly(groups[g].video, groups[g].rev, t)

Decided(r) ==
  LET g == runs[r].group IN
  /\ Finished(r) /\ ~groups[g].pilot
  /\ HoldsOnly(groups[g].video, groups[g].rev, "compliance")
  /\ \E row \in RevisionRows :
       RevisionRewritten(groups[g].video, groups[g].rev, row) /\ row.decision = g

Reviewed(r) ==
  LET g == runs[r].group IN
  /\ Answered(r) /\ ~groups[g].pilot /\ UNCHANGED <<revs, holds>>
  /\ \E row \in GroupRows : /\ GroupRewritten(g, row) /\ row.status = "review_required"
                            /\ row.attempts = groups[g].attempts
  /\ \E n \in 1 .. 2 : \E row, new \in RunRows :
       /\ n = Cardinality(ValidRuns(g)) + 1
       /\ Len(runs') = Len(runs) + 1
       /\ runs'[r] = row /\ SameRun(row, runs[r])
       /\ row.job = "succeeded" /\ row.status = "succeeded"
       /\ runs'[Len(runs) + 1] = new /\ new.group = g /\ new.number = n + 1 /\ new.tries = 0
       /\ new.job = "queued" /\ new.status = "pending"
       /\ \A q \in RunIds : q # r => runs'[q] = runs[q]

\* The run of a valid answer.
LEMMA AnswerRow ==
  ASSUME TypeOK, RowsOK, NEW r \in RunIds, NEW c \in BOOLEAN
  PROVE  \E row \in RunRows :
           /\ SameRun(row, runs[r]) /\ row.job = "succeeded" /\ row.status = "succeeded"
           /\ Succeeded(r, c) = [runs EXCEPT ![r] = row]
<1> DEFINE row == [runs[r] EXCEPT !.job = "succeeded", !.status = "succeeded", !.clear = c]
<1>1. /\ runs[r] \in RunRows /\ runs \in Seq(RunRows) /\ r \in 1 .. Len(runs)
  BY RowsOfRun DEF TypeOK, RunIds
<1>2. row \in RunRows BY <1>1 DEF RunRows, LiveJob
<1>3. SameRun(row, runs[r]) /\ row.job = "succeeded" /\ row.status = "succeeded"
  BY <1>1 DEF RunRows, SameRun
<1>4. Succeeded(r, c) = [runs EXCEPT ![r] = row] BY <1>1 DEF Succeeded
<1> HIDE DEF row
<1> QED BY <1>2, <1>3, <1>4

\* The run and the group of a valid answer that ends the group's work.
LEMMA FinishRows ==
  ASSUME TypeOK, RowsOK, NEW r \in RunIds, Answered(r), NEW c \in BOOLEAN,
         runs' = Succeeded(r, c), NEW s \in {"pilot_done", "hold", "adopted"}, NEW d \in Verdicts,
         groups' = [groups EXCEPT ![runs[r].group].verdict = d, ![runs[r].group].status = s]
  PROVE  runs' \in Seq(RunRows) /\ groups' \in Seq(GroupRows) /\ Finished(r)
<1> DEFINE g == runs[r].group
           grow == [groups[g] EXCEPT !.verdict = d, !.status = s]
<1>1. /\ g \in GroupIds /\ groups[g] \in GroupRows /\ groups \in Seq(GroupRows)
      /\ g \in 1 .. Len(groups)
  BY RowsOfRun DEF TypeOK, GroupIds
<1>2. PICK row \in RunRows :
           /\ SameRun(row, runs[r]) /\ row.job = "succeeded" /\ row.status = "succeeded"
           /\ Succeeded(r, c) = [runs EXCEPT ![r] = row]
  BY AnswerRow
<1>3. runs' \in Seq(RunRows) /\ RunRewritten(r, row) BY <1>2, RewriteRun
<1>4. Answers(r) BY <1>2, <1>3 DEF Answers
<1> HIDE DEF g
<1>5. groups' = [groups EXCEPT ![g] = grow] BY <1>1 DEF g
<1>6. grow \in GroupRows /\ SameGroup(grow, groups[g]) /\ grow.status = s
  BY <1>1 DEF GroupRows, SameGroup, OpenGroup
<1> HIDE DEF grow
<1>7. groups' \in Seq(GroupRows) /\ GroupRewritten(g, grow) BY <1>1, <1>5, <1>6, RewriteGroup
<1> QED BY <1>3, <1>4, <1>6, <1>7 DEF Finished, g

\* An answer that ends a pilot, or holds the revision.
LEMMA FinishedSteps ==
  ASSUME TypeOK, RowsOK, NEW r \in RunIds
  PROVE  /\ SettlePilot(r) => TypeOK' /\ PilotFinished(r)
         /\ \A t \in {"input_incomplete", "evaluation_instability"} :
              SettleHold(r, t) => TypeOK' /\ HoldPlaced(r)
<1>1. /\ groups[runs[r].group] \in GroupRows /\ groups \in Seq(GroupRows)
      /\ runs[r].group \in 1 .. Len(groups)
      /\ groups[runs[r].group].verdict \in Verdicts
  BY RowsOfRun DEF TypeOK, GroupIds, GroupRows
<1>2. ASSUME NEW s \in {"pilot_done", "hold", "adopted"},
             groups' = [groups EXCEPT ![runs[r].group].status = s],
             Answered(r), runs' = Succeeded(r, TRUE)
      PROVE  runs' \in Seq(RunRows) /\ groups' \in Seq(GroupRows) /\ Finished(r)
  <2> DEFINE g == runs[r].group
             d == groups[g].verdict
  <2>1. [groups[g] EXCEPT !.status = s] = [groups[g] EXCEPT !.verdict = d, !.status = s]
    BY <1>1 DEF GroupRows
  <2>2. groups' = [groups EXCEPT ![g] = [groups[g] EXCEPT !.status = s]] BY <1>1, <1>2
  <2>3. groups' = [groups EXCEPT ![g].verdict = d, ![g].status = s]
    BY <1>1, <2>1, <2>2
  <2> QED BY <1>1, <1>2, <2>3, FinishRows
<1>3. ASSUME SettlePilot(r) PROVE TypeOK' /\ PilotFinished(r)
  <2>1. /\ Answered(r) /\ groups[runs[r].group].pilot
        /\ runs' = Succeeded(r, TRUE)
        /\ groups' = [groups EXCEPT ![runs[r].group].status = "pilot_done"]
        /\ UNCHANGED <<revs, holds, appeals, vstatus, fingerprint>>
    BY <1>3 DEF SettlePilot
  <2>2. runs' \in Seq(RunRows) /\ groups' \in Seq(GroupRows) /\ Finished(r) BY <1>2, <2>1
  <2>3. TypeOK' BY <2>1, <2>2 DEF TypeOK
  <2> QED BY <2>1, <2>2, <2>3 DEF PilotFinished
<1>4. ASSUME NEW t \in {"input_incomplete", "evaluation_instability"}, SettleHold(r, t)
      PROVE  TypeOK' /\ HoldPlaced(r)
  <2>1. /\ Answered(r) /\ ~groups[runs[r].group].pilot
        /\ runs' = Succeeded(r, TRUE)
        /\ groups' = [groups EXCEPT ![runs[r].group].status = "hold"]
        /\ UNCHANGED <<revs, appeals, fingerprint>>
        /\ PlaceHold(runs[r].group, t)
    BY <1>4 DEF SettleHold
  <2>2. runs' \in Seq(RunRows) /\ groups' \in Seq(GroupRows) /\ Finished(r) BY <1>2, <2>1
  <2>3. TypeOK' BY <2>1, <2>2 DEF TypeOK
  <2>4. HoldsOnly(groups[runs[r].group].video, groups[runs[r].group].rev, t)
    BY <2>1 DEF PlaceHold, HoldsOnly
  <2> QED BY <2>1, <2>2, <2>3, <2>4 DEF HoldPlaced
<1> QED BY <1>3, <1>4

\* A decision of the revision.
LEMMA AdoptStep ==
  ASSUME TypeOK, RowsOK, NEW r \in RunIds, NEW c \in BOOLEAN, NEW p \in BOOLEAN,
         SettleAdopt(r, c, p)
  PROVE  TypeOK' /\ Decided(r)
<1> DEFINE g == runs[r].group
           v == groups[g].video
           k == groups[g].rev
           s == revs[v]
<1>1. /\ g \in GroupIds /\ groups[g] \in GroupRows /\ groups \in Seq(GroupRows)
      /\ g \in 1 .. Len(groups) /\ v \in Videos
      /\ revs \in [Videos -> Seq(RevisionRows)] /\ s \in Seq(RevisionRows)
  BY RowsOfRun DEF TypeOK, GroupIds
<1>2. k \in 1 .. Len(s) BY <1>1 DEF RowsOK, Current
<1>3. s[k] \in RevisionRows BY <1>1, <1>2
<1>4. PICK gate \in {"none", "approved", "revision_required", "hold"}, d \in Verdicts,
           resolved \in SUBSET holds :
        /\ Answered(r) /\ ~groups[g].pilot /\ runs' = Succeeded(r, c)
        /\ revs' = [revs EXCEPT ![v][k].decision = g,
                                ![v][k].gate = IF gate = "none" THEN @ ELSE gate]
        /\ groups' = [groups EXCEPT ![g].verdict = d,
                                    ![g].status = IF gate = "hold" THEN "hold" ELSE "adopted"]
        /\ holds' = (holds \ resolved) \cup
             (IF gate = "hold" THEN {[video |-> v, rev |-> k, type |-> "compliance", group |-> g]}
              ELSE {})
        /\ UNCHANGED fingerprint
  <2> DEFINE verdict == IF ~c \/ \E q \in ValidRuns(g) : ~runs[q].clear THEN "flagged"
                        ELSE IF p THEN "passed" ELSE "revise"
             resolved == IF groups[g].appeal
                         THEN {h \in holds : h.group = g /\ h.type = "appeal"} ELSE {}
             open  == IF groups[g].appeal THEN {a \in appeals : a.rerun # g} ELSE appeals
             held  == \/ \E h \in holds \ resolved : h.video = v /\ h.rev = k
                      \/ \E a \in open : a.video = v /\ a.rev = k
             gate  == Gate(verdict, held)
  <2>1. verdict \in Verdicts /\ verdict # "none" BY DEF Verdicts
  <2>2. resolved \in SUBSET holds OBVIOUS
  <2> HIDE DEF verdict
  <2>3. \A b : Gate(verdict, b) \in {"none", "approved", "revision_required", "hold"}
    BY <2>1 DEF Gate, Verdicts
  <2>4. gate \in {"none", "approved", "revision_required", "hold"} BY <2>3
  <2>5. /\ Answered(r) /\ ~groups[g].pilot /\ runs' = Succeeded(r, c)
        /\ revs' = [revs EXCEPT ![v][k].decision = g,
                                ![v][k].gate = IF gate = "none" THEN @ ELSE gate]
        /\ groups' = [groups EXCEPT ![g].verdict = verdict,
                                    ![g].status = IF gate = "hold" THEN "hold" ELSE "adopted"]
        /\ holds' = (holds \ resolved) \cup
             (IF gate = "hold" THEN {[video |-> v, rev |-> k, type |-> "compliance", group |-> g]}
              ELSE {})
        /\ UNCHANGED fingerprint
    BY DEF SettleAdopt, verdict
  <2> HIDE DEF gate, resolved
  <2> QED BY <2>1, <2>2, <2>4, <2>5
<1>5. runs' \in Seq(RunRows) /\ groups' \in Seq(GroupRows) /\ Finished(r)
  <2> DEFINE st == IF gate = "hold" THEN "hold" ELSE "adopted"
  <2>1. st \in {"pilot_done", "hold", "adopted"} OBVIOUS
  <2>2. groups' = [groups EXCEPT ![g].verdict = d, ![g].status = st] BY <1>4
  <2> HIDE DEF st
  <2> QED BY <1>4, <2>1, <2>2, FinishRows
<1> DEFINE row == [s[k] EXCEPT !.decision = g, !.gate = IF gate = "none" THEN @ ELSE gate]
           t == [s EXCEPT ![k] = row]
<1>6. revs' = [revs EXCEPT ![v] = t]
  <2> HIDE DEF v, k, g
  <2>1. revs' = [revs EXCEPT ![v][k].decision = g,
                             ![v][k].gate = IF gate = "none" THEN @ ELSE gate]
    BY <1>4
  <2> QED BY <1>1, <1>2, <1>3, <2>1
<1>7. row \in RevisionRows /\ row.mode = s[k].mode /\ row.decision = g
  <2>1. g \in Nat BY <1>1, LenProperties
  <2> HIDE DEF g, s, k
  <2> QED BY <1>3, <2>1 DEF RevisionRows
<1> HIDE DEF row
<1>8. t \in Seq(RevisionRows) /\ Touched(s, t, k, row)
  <2> HIDE DEF s, k
  <2> QED BY <1>1, <1>2, <1>7, RowReplaced
<1> HIDE DEF t
<1>9. /\ revs' \in [Videos -> Seq(RevisionRows)] /\ revs'[v] = t
      /\ \A u \in Videos : u # v => revs'[u] = revs[u]
  <2> HIDE DEF v, s
  <2> QED BY <1>1, <1>6, <1>8
<1>10. RevisionRewritten(v, k, row) BY <1>7, <1>8, <1>9 DEF RevisionRewritten
<1>11. HoldsOnly(v, k, "compliance")
  <2> DEFINE x == [video |-> v, rev |-> k, type |-> "compliance", group |-> g]
  <2>1. x.video = v /\ x.rev = k /\ x.type = "compliance" OBVIOUS
  <2>2. holds' \subseteq holds \cup {x} BY <1>4
  <2> HIDE DEF x, v, k
  <2> QED BY <2>1, <2>2 DEF HoldsOnly
<1>12. TypeOK' BY <1>4, <1>5, <1>9 DEF TypeOK
<1> QED BY <1>4, <1>5, <1>7, <1>10, <1>11, <1>12 DEF Decided

\* A further run.
LEMMA ReviewStep ==
  ASSUME TypeOK, RowsOK, NEW r \in RunIds, NEW c \in BOOLEAN, NEW a \in BOOLEAN,
         SettleReview(r, c, a)
  PROVE  TypeOK' /\ Reviewed(r)
<1> DEFINE g == runs[r].group
           m == Cardinality(ValidRuns(g)) + 1
           grow == [groups[g] EXCEPT !.status = "review_required"]
<1>1. /\ g \in GroupIds /\ groups[g] \in GroupRows /\ groups \in Seq(GroupRows)
      /\ g \in 1 .. Len(groups) /\ r \in 1 .. Len(runs) /\ runs \in Seq(RunRows)
      /\ Len(runs) \in Nat /\ g \in Nat
  BY RowsOfRun DEF TypeOK, GroupIds, RunIds
<1>2. /\ Answered(r) /\ ~groups[g].pilot /\ m < 3
      /\ runs' = Append(Succeeded(r, c), NewRun(g, m + 1))
      /\ groups' = [groups EXCEPT ![g].status = "review_required"]
      /\ UNCHANGED <<revs, holds, appeals, vstatus, fingerprint>>
  BY DEF SettleReview
<1>3. ValidRuns(g) \subseteq 1 .. Len(runs) BY DEF ValidRuns, RunsOf, RunIds
<1>4. IsFiniteSet(ValidRuns(g))
  <2>1. IsFiniteSet(1 .. Len(runs)) BY <1>1, FS_Interval
  <2> QED BY <1>3, <2>1, FS_Subset
<1>5. Cardinality(ValidRuns(g)) \in Nat BY <1>4, FS_CardinalityType
<1>6. m \in 1 .. 2 BY <1>2, <1>5
<1>7. PICK n \in 1 .. 2 : n = m BY <1>6
<1> HIDE DEF m
<1>8. PICK row \in RunRows :
           /\ SameRun(row, runs[r]) /\ row.job = "succeeded" /\ row.status = "succeeded"
           /\ Succeeded(r, c) = [runs EXCEPT ![r] = row]
  BY AnswerRow
<1> DEFINE rs == [runs EXCEPT ![r] = row]
           new == NewRun(g, n + 1)
<1>9. rs \in Seq(RunRows) /\ Touched(runs, rs, r, row) BY <1>1, RowReplaced
<1>10. /\ new \in RunRows /\ new.group = g /\ new.number = n + 1 /\ new.tries = 0
       /\ new.job = "queued" /\ new.status = "pending"
  <2>1. n + 1 \in Nat OBVIOUS
  <2> HIDE DEF g
  <2> QED BY <1>1, <2>1 DEF NewRun, RunRows, LiveJob
<1>11. runs' = Append(rs, new) BY <1>2, <1>7, <1>8
<1> HIDE DEF rs, new
<1>12. runs' \in Seq(RunRows) /\ Grown(rs, runs', new) BY <1>9, <1>10, <1>11, RowAdded
<1>13. /\ Len(runs') = Len(runs) + 1 /\ runs'[r] = row /\ runs'[Len(runs) + 1] = new
       /\ \A q \in RunIds : q # r => runs'[q] = runs[q]
  BY <1>1, <1>9, <1>12 DEF Grown, Touched, RunIds
<1> HIDE DEF g
<1>14. grow \in GroupRows /\ SameGroup(grow, groups[g]) /\ grow.status = "review_required"
       /\ grow.attempts = groups[g].attempts
  BY <1>1 DEF GroupRows, SameGroup, OpenGroup
<1>15. groups' = [groups EXCEPT ![g] = grow] BY <1>1, <1>2
<1> HIDE DEF grow
<1>16. groups' \in Seq(GroupRows) /\ GroupRewritten(g, grow) BY <1>1, <1>14, <1>15, RewriteGroup
<1>17. TypeOK' BY <1>2, <1>12, <1>16 DEF TypeOK
<1>18. Reviewed(r)
  <2>1. n = Cardinality(ValidRuns(g)) + 1 BY <1>7 DEF m
  <2> QED BY <1>2, <1>8, <1>10, <1>13, <1>14, <1>16, <2>1 DEF Reviewed, g
<1> QED BY <1>17, <1>18

-----------------------------------------------------------------------------
(* What a trigger and an appeal do to the rows.                            *)

\* A group or a run that superseding revision k of v leaves, but for its status.
GroupMarked(a, g, v, k) ==
  /\ SameGroup(a, groups[g]) /\ a.attempts = groups[g].attempts
  /\ \/ a.status = groups[g].status
     \/ a.status = "superseded" /\ groups[g].video = v /\ groups[g].rev = k
RunMarked(a, r, v, k) ==
  /\ SameRun(a, runs[r]) /\ a.job = runs[r].job /\ a.tries = runs[r].tries
  /\ \/ a.status = runs[r].status
     \/ /\ a.status = "stale" /\ Open(runs[r].status)
        /\ groups[runs[r].group].video = v /\ groups[runs[r].group].rev = k

RowsMarked(v, k) ==
  /\ \A g \in GroupIds : GroupMarked(groups'[g], g, v, k)
  /\ \A r \in RunIds : RunMarked(runs'[r], r, v, k)
RowsAsBefore ==
  /\ \A g \in GroupIds : groups'[g] = groups[g]
  /\ \A r \in RunIds : runs'[r] = runs[r]

RevisionAdded(v, m) ==
  /\ m \in Modes /\ Grown(revs[v], revs'[v], NewRevision(m))
  /\ \A u \in Videos : u # v => revs'[u] = revs[u]

NoFormalJob(v) ==
  \A r \in RunIds : VideoOfRun(r) = v /\ runs[r].job \in LiveJob => groups[runs[r].group].pilot

Unstable(v) == Undecided(v) /\ "evaluation_instability" \in HoldTypes(v, Current(v))

\* A trigger that finds a group of the same fingerprint.
Found(v) ==
  /\ Len(groups') = Len(groups) /\ Len(runs') = Len(runs) /\ UNCHANGED holds
  /\ \/ UNCHANGED <<revs, groups, runs>>
     \/ RevisionAdded(v, "formal") /\ RowsMarked(v, Current(v)) /\ NoFormalJob(v)

\* A new group with its first run.
GroupOpened(v, k, pilot) ==
  /\ Len(groups') = Len(groups) + 1 /\ Len(runs') = Len(runs) + 1
  /\ \E row \in GroupRows :
       /\ groups'[Len(groups) + 1] = row /\ row.video = v /\ row.rev = k /\ row.pilot = pilot
       /\ row.status = "queued" /\ row.attempts = 0
  /\ \E row \in RunRows :
       /\ runs'[Len(runs) + 1] = row /\ row.group = Len(groups) + 1 /\ row.number = 1
       /\ row.tries = 0 /\ row.job = "queued" /\ row.status = "pending"

Opened(v, pilot) ==
  /\ NoActive(v)
  /\ \/ /\ GroupOpened(v, Current(v), pilot) /\ RowsAsBefore /\ UNCHANGED <<revs, holds>>
        /\ Current(v) > 0
        /\ ~pilot => revs[v][Current(v)].mode # "shadow" /\ ~Unstable(v)
     \/ /\ GroupOpened(v, Current(v) + 1, pilot) /\ RowsMarked(v, Current(v))
        /\ \E m \in Modes : RevisionAdded(v, m) /\ (~pilot => m # "shadow")
        /\ HoldsOnly(v, Current(v) + 1, "appeal")

\* Superseding marks rows and nothing else.
LEMMA Superseding ==
  ASSUME TypeOK, NEW v, NEW k, NEW S
  PROVE  /\ SupersededGroups(v, k, S) \in Seq(GroupRows)
         /\ Len(SupersededGroups(v, k, S)) = Len(groups)
         /\ \A g \in GroupIds : GroupMarked(SupersededGroups(v, k, S)[g], g, v, k)
         /\ SupersededRuns(v, k) \in Seq(RunRows)
         /\ Len(SupersededRuns(v, k)) = Len(runs)
         /\ \A r \in RunIds : RunMarked(SupersededRuns(v, k)[r], r, v, k)
<1> DEFINE gs == SupersededGroups(v, k, S)
           rs == SupersededRuns(v, k)
<1>1. /\ Len(groups) \in Nat /\ Len(runs) \in Nat
      /\ groups \in Seq(GroupRows) /\ runs \in Seq(RunRows)
      /\ \A g \in GroupIds : groups[g] \in GroupRows
      /\ \A r \in RunIds : runs[r] \in RunRows
  BY DEF TypeOK, GroupIds, RunIds
<1>2. ASSUME NEW g \in GroupIds PROVE gs[g] \in GroupRows /\ GroupMarked(gs[g], g, v, k)
  <2>1. groups[g] \in GroupRows BY <1>1
  <2> DEFINE row == [groups[g] EXCEPT !.status = "superseded"]
  <2>2. row \in GroupRows /\ SameGroup(row, groups[g]) /\ row.attempts = groups[g].attempts
        /\ row.status = "superseded"
    BY <2>1 DEF GroupRows, SameGroup
  <2>3. gs[g] = IF groups[g].video = v /\ groups[g].rev = k /\ groups[g].status \in S
                THEN row ELSE groups[g]
    BY DEF SupersededGroups
  <2> HIDE DEF row, gs
  <2> QED BY <2>1, <2>2, <2>3 DEF GroupMarked, SameGroup
<1>3. ASSUME NEW r \in RunIds PROVE rs[r] \in RunRows /\ RunMarked(rs[r], r, v, k)
  <2>1. runs[r] \in RunRows BY <1>1
  <2> DEFINE row == [runs[r] EXCEPT !.status = "stale"]
  <2>2. row \in RunRows /\ SameRun(row, runs[r]) /\ row.job = runs[r].job
        /\ row.tries = runs[r].tries /\ row.status = "stale"
    BY <2>1 DEF RunRows, SameRun
  <2>3. rs[r] = IF groups[runs[r].group].video = v /\ groups[runs[r].group].rev = k
                   /\ runs[r].status \in {"pending", "running"}
                THEN row ELSE runs[r]
    BY DEF SupersededRuns
  <2> HIDE DEF row, rs
  <2> QED BY <2>1, <2>2, <2>3 DEF RunMarked, SameRun, Open
<1>4. gs \in [1 .. Len(groups) -> GroupRows] BY <1>2 DEF SupersededGroups, GroupIds
<1>5. rs \in [1 .. Len(runs) -> RunRows] BY <1>3 DEF SupersededRuns, RunIds
<1> HIDE DEF gs, rs
<1>6. gs \in Seq(GroupRows) /\ Len(gs) = Len(groups) BY <1>1, <1>4
<1>7. rs \in Seq(RunRows) /\ Len(rs) = Len(runs) BY <1>1, <1>5
<1> QED BY <1>2, <1>3, <1>6, <1>7 DEF gs, rs

\* A workflow is a shadow evaluation as long as its revision was opened for one and
\* nothing is decided.
LEMMA WorkflowModes ==
  ASSUME TypeOK, RowsOK, NEW v \in Videos, Current(v) > 0
  PROVE  /\ WorkflowMode(v) = "shadow" => revs[v][Current(v)].mode = "shadow"
         /\ WorkflowMode(v) # "shadow" => revs[v][Current(v)].mode # "shadow"
         /\ Undecided(v) <=> revs[v][Current(v)].mode = "formal" /\ Decision(v) = 0
<1>1. Len(revs[v]) \in Nat BY DEF TypeOK
<1>2. Current(v) \in 1 .. Current(v) BY <1>1 DEF Current
<1>3. ASSUME Decision(v) # 0
      PROVE  ~groups[Decision(v)].pilot /\ revs[v][Current(v)].mode # "shadow"
  <2> DEFINE d == revs[v][Current(v)].decision
  <2>1. d \in GroupIds /\ groups[d].video = v /\ groups[d].rev = Current(v) /\ ~groups[d].pilot
    BY <1>2, <1>3 DEF RowsOK, Decision
  <2> QED BY <2>1 DEF RowsOK, Decision
<1> QED BY <1>3 DEF WorkflowMode, Undecided

\* A trigger that opens a revision for a formal evaluation finds no formal job.
LEMMA NothingToLose ==
  ASSUME TypeOK, RowsOK, InstabilityOK, FormalRunIsCurrent, NEW v \in Videos,
         OpensRevision(v, "formal")
  PROVE  NoFormalJob(v)
<1> SUFFICES ASSUME NEW r \in RunIds, VideoOfRun(r) = v, runs[r].job \in LiveJob,
                    ~groups[runs[r].group].pilot
             PROVE  FALSE
  BY DEF NoFormalJob
<1>1. runs[r].group \in GroupIds /\ groups[runs[r].group].video = v BY RowsOfRun DEF VideoOfRun
<1>2. groups[runs[r].group].rev = Current(v) BY DEF FormalRunIsCurrent
<1>3. groups[runs[r].group].rev \in 1 .. Current(v) BY <1>1 DEF RowsOK
<1>4. Len(revs[v]) \in Nat BY DEF TypeOK
<1>5. Current(v) > 0 BY <1>3, <1>4 DEF Current
<1>6. revs[v][Current(v)].mode # "shadow" BY <1>1, <1>2 DEF RowsOK
<1>7. ~RetryableInstability(v, "formal")
  <2>1. RetryableInstability(v, "formal") => Unstable(v) BY DEF RetryableInstability, Unstable
  <2> QED BY <2>1 DEF InstabilityOK, Unstable
<1>8. Cutover(v, "formal") BY <1>5, <1>7 DEF OpensRevision
<1>9. WorkflowMode(v) \notin {"unset", "formal"} BY <1>8 DEF Cutover
<1>10. WorkflowMode(v) \in Modes
  <2>1. revs[v][Current(v)] \in RevisionRows BY <1>4, <1>5 DEF TypeOK, Current
  <2> QED BY <2>1 DEF WorkflowMode, RevisionRows, Modes
<1>11. WorkflowMode(v) = "shadow" BY <1>9, <1>10 DEF Modes
<1> QED BY <1>5, <1>6, <1>11, WorkflowModes

\* A revision is added.
LEMMA AddRevision ==
  ASSUME TypeOK, NEW v \in Videos, NEW m \in Modes,
         revs' = [revs EXCEPT ![v] = Append(@, NewRevision(m))]
  PROVE  revs' \in [Videos -> Seq(RevisionRows)] /\ RevisionAdded(v, m)
<1> DEFINE row == NewRevision(m)
           s == revs[v]
<1>1. revs \in [Videos -> Seq(RevisionRows)] /\ s \in Seq(RevisionRows) BY DEF TypeOK
<1>2. row \in RevisionRows BY DEF NewRevision, RevisionRows
<1> HIDE DEF row
<1>3. Append(s, row) \in Seq(RevisionRows) /\ Grown(s, Append(s, row), row)
  BY <1>1, <1>2, RowAdded
<1>4. /\ revs' \in [Videos -> Seq(RevisionRows)] /\ revs'[v] = Append(s, row)
      /\ \A u \in Videos : u # v => revs'[u] = revs[u]
  BY <1>1, <1>3 DEF row
<1> QED BY <1>3, <1>4 DEF RevisionAdded, row

\* A group and its first run are added to what superseding has left.
LEMMA OpenGroupRows ==
  ASSUME TypeOK, NEW row \in GroupRows, row.status = "queued", row.attempts = 0,
         NEW gs \in Seq(GroupRows), Len(gs) = Len(groups),
         NEW rs \in Seq(RunRows), Len(rs) = Len(runs),
         groups' = Append(gs, row), runs' = Append(rs, NewRun(Len(groups) + 1, 1))
  PROVE  /\ groups' \in Seq(GroupRows) /\ runs' \in Seq(RunRows)
         /\ GroupOpened(row.video, row.rev, row.pilot)
         /\ \A g \in GroupIds : groups'[g] = gs[g]
         /\ \A r \in RunIds : runs'[r] = rs[r]
<1> DEFINE new == NewRun(Len(groups) + 1, 1)
<1>1. Len(groups) + 1 \in Nat BY DEF TypeOK
<1>2. /\ new \in RunRows /\ new.group = Len(groups) + 1 /\ new.number = 1
      /\ new.tries = 0 /\ new.job = "queued" /\ new.status = "pending"
  BY <1>1 DEF NewRun, RunRows, LiveJob
<1> HIDE DEF new
<1>3. groups' \in Seq(GroupRows) /\ Grown(gs, groups', row) BY RowAdded
<1>4. runs' \in Seq(RunRows) /\ Grown(rs, runs', new) BY <1>2, RowAdded DEF new
<1> QED BY <1>2, <1>3, <1>4 DEF GroupOpened, Grown, GroupIds, RunIds

\* A trigger finds a group or opens one.
LEMMA TriggerStep ==
  ASSUME TypeOK, RowsOK, InstabilityOK, FormalRunIsCurrent, NEW v \in Videos,
         NEW pilot \in BOOLEAN, Trigger(v, pilot)
  PROVE  TypeOK' /\ (Found(v) \/ Opened(v, pilot))
<1> DEFINE mode  == TriggerMode(pilot)
           cut   == Cutover(v, mode)
           gs    == IF cut THEN SupersededGroups(v, Current(v), OpenGroup) ELSE groups
           rs    == IF cut THEN SupersededRuns(v, Current(v)) ELSE runs
           opens == OpensRevision(v, mode)
           k     == IF opens THEN Current(v) + 1 ELSE Current(v)
           found == ~pilot /\ Duplicates(gs, fingerprint) # {}
<1>1. /\ ~BlockedFormalRetry(v, mode)
      /\ revs' = IF opens THEN [revs EXCEPT ![v] = Append(@, NewRevision(mode))] ELSE revs
      /\ UNCHANGED <<holds, appeals, fingerprint>>
      /\ found => groups' = gs /\ runs' = rs
      /\ ~found => /\ NoActive(v)
                   /\ groups' = Append(gs, NewGroup(v, k, pilot, FALSE, fingerprint))
                   /\ runs' = Append(rs, NewRun(Len(groups) + 1, 1))
  BY DEF Trigger
<1>2. /\ mode \in Modes /\ (pilot => mode = "shadow") /\ (~pilot => mode = "formal")
      /\ Current(v) \in Nat /\ fingerprint \in Nat
      /\ groups \in Seq(GroupRows) /\ runs \in Seq(RunRows)
  BY DEF TriggerMode, Modes, TypeOK, Current
<1>3. /\ gs \in Seq(GroupRows) /\ Len(gs) = Len(groups)
      /\ \A g \in GroupIds : GroupMarked(gs[g], g, v, Current(v))
      /\ rs \in Seq(RunRows) /\ Len(rs) = Len(runs)
      /\ \A r \in RunIds : RunMarked(rs[r], r, v, Current(v))
  <2>1. CASE cut BY <2>1, Superseding
  <2>2. CASE ~cut BY <1>2, <2>2 DEF GroupMarked, RunMarked, SameGroup, SameRun
  <2> QED BY <2>1, <2>2
<1>4. ~opens => gs = groups /\ rs = runs BY DEF OpensRevision
<1>5. opens => revs' \in [Videos -> Seq(RevisionRows)] /\ RevisionAdded(v, mode)
  <2> HIDE DEF mode
  <2> QED BY <1>1, <1>2, AddRevision
<1>6. revs' \in [Videos -> Seq(RevisionRows)] BY <1>1, <1>5 DEF TypeOK
<1>7. k \in Nat BY <1>2
<1> HIDE DEF gs, rs
<1>8. CASE found
  <2>1. TypeOK' BY <1>1, <1>3, <1>6, <1>8 DEF TypeOK
  <2>2. Len(groups') = Len(groups) /\ Len(runs') = Len(runs) /\ UNCHANGED holds
    BY <1>1, <1>3, <1>8
  <2>3. CASE ~opens BY <1>1, <1>4, <1>8, <2>2, <2>3, <2>1 DEF Found
  <2>4. CASE opens
    <3>1. RevisionAdded(v, "formal") BY <1>2, <1>5, <1>8, <2>4
    <3>2. NoFormalJob(v) BY <1>2, <1>8, <2>4, NothingToLose
    <3>3. RowsMarked(v, Current(v)) BY <1>1, <1>3, <1>8 DEF RowsMarked
    <3> QED BY <2>1, <2>2, <3>1, <3>2, <3>3 DEF Found
  <2> QED BY <2>3, <2>4
<1>9. CASE ~found
  <2>1. /\ groups' \in Seq(GroupRows) /\ runs' \in Seq(RunRows) /\ GroupOpened(v, k, pilot)
        /\ \A g \in GroupIds : groups'[g] = gs[g]
        /\ \A r \in RunIds : runs'[r] = rs[r]
    <3> DEFINE row == NewGroup(v, k, pilot, FALSE, fingerprint)
    <3>1. groups' = Append(gs, row) /\ runs' = Append(rs, NewRun(Len(groups) + 1, 1))
      BY <1>1, <1>9
    <3> HIDE DEF k
    <3>2. /\ row \in GroupRows /\ row.video = v /\ row.rev = k /\ row.pilot = pilot
          /\ row.status = "queued" /\ row.attempts = 0
      BY <1>2, <1>7 DEF NewGroup, GroupRows, Verdicts, OpenGroup
    <3> HIDE DEF row
    <3>3. /\ groups' \in Seq(GroupRows) /\ runs' \in Seq(RunRows)
          /\ GroupOpened(row.video, row.rev, row.pilot)
          /\ \A g \in GroupIds : groups'[g] = gs[g]
          /\ \A r \in RunIds : runs'[r] = rs[r]
      BY <1>3, <3>1, <3>2, OpenGroupRows
    <3> QED BY <3>2, <3>3
  <2>2. TypeOK' BY <1>1, <1>6, <2>1 DEF TypeOK
  <2>3. NoActive(v) BY <1>1, <1>9
  <2>4. CASE opens
    <3>1. GroupOpened(v, Current(v) + 1, pilot) BY <2>1, <2>4
    <3>2. RowsMarked(v, Current(v)) BY <1>3, <2>1 DEF RowsMarked
    <3>3. mode \in Modes /\ RevisionAdded(v, mode) /\ (~pilot => mode # "shadow")
      BY <1>2, <1>5, <2>4
    <3>4. HoldsOnly(v, Current(v) + 1, "appeal") BY <1>1 DEF HoldsOnly
    <3> HIDE DEF mode
    <3> QED BY <2>2, <2>3, <3>1, <3>2, <3>3, <3>4 DEF Opened
  <2>5. CASE ~opens
    <3>1. GroupOpened(v, Current(v), pilot) /\ UNCHANGED <<revs, holds>>
      BY <1>1, <2>1, <2>5
    <3>2. RowsAsBefore BY <1>4, <2>1, <2>5 DEF RowsAsBefore
    <3>3. Current(v) > 0 BY <1>2, <2>5 DEF OpensRevision
    <3>4. ASSUME ~pilot PROVE revs[v][Current(v)].mode # "shadow" /\ ~Unstable(v)
      <4>1. /\ ~Cutover(v, "formal") /\ ~RetryableInstability(v, "formal")
            /\ ~BlockedFormalRetry(v, "formal")
        BY <1>1, <1>2, <2>5, <3>4 DEF OpensRevision
      <4>2. WorkflowMode(v) # "shadow" BY <3>3, <4>1 DEF Cutover
      <4>3. revs[v][Current(v)].mode # "shadow" BY <3>3, <4>2, WorkflowModes
      <4>4. ~Unstable(v) BY <4>1 DEF Unstable, BlockedFormalRetry
      <4> QED BY <4>3, <4>4
    <3> QED BY <2>2, <2>3, <3>1, <3>2, <3>3, <3>4 DEF Opened
  <2> QED BY <2>4, <2>5
<1> QED BY <1>8, <1>9

\* An appeal opens a group in a revision of its own.
LEMMA AppealStep ==
  ASSUME TypeOK, NEW v \in Videos, NEW g \in GroupIds, Appeal(v, g)
  PROVE  TypeOK' /\ Opened(v, FALSE)
<1> DEFINE k  == Current(v)
           n  == Len(groups) + 1
           S  == OpenGroup \cup {"adopted"}
           gs == SupersededGroups(v, k, S)
           rs == SupersededRuns(v, k)
           f  == groups[g].fp
<1>1. /\ NoActive(v)
      /\ revs' = [revs EXCEPT ![v] = Append(@, NewRevision("unset"))]
      /\ groups' = Append(gs, NewGroup(v, k + 1, FALSE, TRUE, f))
      /\ runs' = Append(rs, NewRun(n, 1))
      /\ holds' = holds \cup {[video |-> v, rev |-> k + 1, type |-> "appeal", group |-> n]}
      /\ UNCHANGED fingerprint
  BY DEF Appeal
<1>2. /\ "unset" \in Modes /\ "unset" # "shadow" /\ k \in Nat /\ k + 1 \in Nat BY DEF Modes, TypeOK, Current
<1>3. f \in Nat
  <2>1. groups[g] \in GroupRows BY DEF TypeOK, GroupIds
  <2> QED BY <2>1 DEF GroupRows
<1>4. /\ gs \in Seq(GroupRows) /\ Len(gs) = Len(groups)
      /\ \A h \in GroupIds : GroupMarked(gs[h], h, v, k)
      /\ rs \in Seq(RunRows) /\ Len(rs) = Len(runs)
      /\ \A r \in RunIds : RunMarked(rs[r], r, v, k)
  <2> HIDE DEF k, S
  <2> QED BY Superseding
<1>5. revs' \in [Videos -> Seq(RevisionRows)] /\ RevisionAdded(v, "unset")
  BY <1>1, <1>2, AddRevision
<1> HIDE DEF gs, rs, f
<1>6. /\ groups' \in Seq(GroupRows) /\ runs' \in Seq(RunRows) /\ GroupOpened(v, k + 1, FALSE)
      /\ \A h \in GroupIds : groups'[h] = gs[h]
      /\ \A r \in RunIds : runs'[r] = rs[r]
  <2> DEFINE row == NewGroup(v, k + 1, FALSE, TRUE, f)
  <2>1. groups' = Append(gs, row) /\ runs' = Append(rs, NewRun(Len(groups) + 1, 1))
    BY <1>1
  <2> HIDE DEF k
  <2>2. /\ row \in GroupRows /\ row.video = v /\ row.rev = k + 1 /\ row.pilot = FALSE
        /\ row.status = "queued" /\ row.attempts = 0
    BY <1>2, <1>3 DEF NewGroup, GroupRows, Verdicts, OpenGroup
  <2> HIDE DEF row
  <2>3. /\ groups' \in Seq(GroupRows) /\ runs' \in Seq(RunRows)
        /\ GroupOpened(row.video, row.rev, row.pilot)
        /\ \A h \in GroupIds : groups'[h] = gs[h]
        /\ \A r \in RunIds : runs'[r] = rs[r]
    BY <1>4, <2>1, <2>2, OpenGroupRows
  <2> QED BY <2>2, <2>3
<1>7. TypeOK' BY <1>1, <1>5, <1>6 DEF TypeOK
<1>8. RowsMarked(v, k) BY <1>4, <1>6 DEF RowsMarked
<1>9. HoldsOnly(v, k + 1, "appeal")
  <2> DEFINE x == [video |-> v, rev |-> k + 1, type |-> "appeal", group |-> n]
  <2>1. x.video = v /\ x.rev = k + 1 /\ x.type = "appeal" OBVIOUS
  <2>2. holds' \subseteq holds \cup {x} BY <1>1
  <2> HIDE DEF x, k
  <2> QED BY <2>1, <2>2 DEF HoldsOnly
<1> QED BY <1>1, <1>2, <1>5, <1>6, <1>7, <1>8, <1>9 DEF Opened

\* Manual holds come and go, and so do the holds of appeals.
Holding ==
  /\ UNCHANGED <<revs, groups, runs>>
  /\ \/ holds' \subseteq holds
     \/ \E v \in Videos : Current(v) > 0 /\ HoldsOnly(v, Current(v), "manual")

LEMMA HoldingSteps ==
  ASSUME TypeOK,
         \/ \E v \in Videos : ManualHold(v) \/ Resume(v)
         \/ \E a \in appeals : ResolveAppeal(a)
         \/ ChangeFingerprint \/ UNCHANGED vars
  PROVE  TypeOK' /\ Holding
<1>1. ASSUME NEW v \in Videos, ManualHold(v) PROVE TypeOK' /\ Holding
  <2> DEFINE k == Current(v)
             x == [video |-> v, rev |-> k, type |-> "manual", group |-> 0]
  <2>1. /\ k > 0 /\ holds' = holds \cup {x}
        /\ UNCHANGED <<revs, groups, runs, appeals, vstatus, fingerprint>>
    BY <1>1 DEF ManualHold
  <2>2. x.video = v /\ x.rev = k /\ x.type = "manual" OBVIOUS
  <2> HIDE DEF x
  <2>3. HoldsOnly(v, k, "manual") BY <2>1, <2>2 DEF HoldsOnly
  <2>4. TypeOK' BY <2>1 DEF TypeOK
  <2> QED BY <2>1, <2>3, <2>4 DEF Holding
<1>2. ASSUME NEW v \in Videos, Resume(v) PROVE TypeOK' /\ Holding
  BY <1>2 DEF Resume, TypeOK, Holding
<1>3. ASSUME NEW a \in appeals, ResolveAppeal(a) PROVE TypeOK' /\ Holding
  BY <1>3 DEF ResolveAppeal, TypeOK, Holding
<1>4. CASE ChangeFingerprint BY <1>4 DEF ChangeFingerprint, TypeOK, Holding
<1>5. CASE UNCHANGED vars BY <1>5 DEF vars, TypeOK, Holding
<1> QED BY <1>1, <1>2, <1>3, <1>4, <1>5

-----------------------------------------------------------------------------
(* Every step is one of these moves, and none touches what rows refer to.  *)

WorkerMove(r) ==
  \/ (Continued(r) \/ Started(r) \/ Ended(r)) /\ UNCHANGED <<revs, holds>>
  \/ PilotFinished(r) \/ HoldPlaced(r) \/ Decided(r) \/ Reviewed(r)

Moves ==
  \/ \E r \in RunIds : WorkerMove(r)
  \/ \E v \in Videos : Found(v) \/ \E pilot \in BOOLEAN : Opened(v, pilot)
  \/ Holding

Stable ==
  /\ Len(groups) <= Len(groups') /\ \A g \in GroupIds : SameGroup(groups'[g], groups[g])
  /\ Len(runs) <= Len(runs') /\ \A r \in RunIds : SameRun(runs'[r], runs[r])
  /\ \A v \in Videos : /\ Len(revs[v]) <= Len(revs'[v])
                       /\ \A k \in 1 .. Len(revs[v]) : revs'[v][k].mode = revs[v][k].mode

\* A step of the worker is a move.
LEMMA WorkerMoves ==
  ASSUME TypeOK, RowsOK, NEW r \in RunIds, WorkerStep(r)
  PROVE  TypeOK' /\ WorkerMove(r)
<1>1. CASE Claim(r) \/ Call(r) BY <1>1, ContinuedSteps DEF WorkerMove
<1>2. CASE Start(r) BY <1>2, StartStep DEF WorkerMove
<1>3. CASE Fail(r) BY <1>3, EndedSteps DEF WorkerMove
<1>4. CASE Expire(r)
  <2>1. CASE runs'[r].job = "queued" BY <1>4, <2>1, ContinuedSteps DEF WorkerMove
  <2>2. CASE runs'[r].job # "queued" BY <1>4, <2>2, EndedSteps DEF WorkerMove
  <2> QED BY <2>1, <2>2
<1>5. CASE Settle(r)
  <2>1. CASE SettlePilot(r) BY <2>1, FinishedSteps DEF WorkerMove
  <2>2. CASE \E t \in {"input_incomplete", "evaluation_instability"} : SettleHold(r, t)
    BY <2>2, FinishedSteps DEF WorkerMove
  <2>3. CASE \E c, a \in BOOLEAN : SettleReview(r, c, a)
    BY <2>3, ReviewStep DEF WorkerMove
  <2>4. CASE \E c, p \in BOOLEAN : SettleAdopt(r, c, p)
    BY <2>4, AdoptStep DEF WorkerMove
  <2> QED BY <1>5, <2>1, <2>2, <2>3, <2>4 DEF Settle
<1> QED BY <1>1, <1>2, <1>3, <1>4, <1>5 DEF WorkerStep

\* So is every other step.
LEMMA EveryStepMoves ==
  ASSUME TypeOK, RowsOK, InstabilityOK, FormalRunIsCurrent, [Next]_vars
  PROVE  TypeOK' /\ Moves
<1>1. ASSUME NEW v \in Videos, NEW pilot \in BOOLEAN, Trigger(v, pilot) PROVE TypeOK' /\ Moves
  BY <1>1, TriggerStep DEF Moves
<1>2. ASSUME NEW v \in Videos, NEW g \in GroupIds, Appeal(v, g) PROVE TypeOK' /\ Moves
  <2>1. TypeOK' /\ Opened(v, FALSE) BY <1>2, AppealStep
  <2>2. \E pilot \in BOOLEAN : Opened(v, pilot) BY <2>1
  <2> QED BY <2>1, <2>2 DEF Moves
<1>3. ASSUME NEW r \in RunIds, WorkerStep(r) PROVE TypeOK' /\ Moves
  BY <1>3, WorkerMoves DEF Moves
<1>4. CASE \/ \E v \in Videos : ManualHold(v) \/ Resume(v)
           \/ \E a \in appeals : ResolveAppeal(a)
           \/ ChangeFingerprint \/ UNCHANGED vars
  BY <1>4, HoldingSteps DEF Moves
<1> QED BY <1>1, <1>2, <1>3, <1>4 DEF Next

\* Rows keep what others know them by.
LEMMA RowsAreStable ==
  ASSUME TypeOK, RowsOK, TypeOK', Moves
  PROVE  Stable
<1>1. /\ Len(groups) \in Nat /\ Len(runs) \in Nat /\ \A v \in Videos : Len(revs[v]) \in Nat
  BY DEF TypeOK
<1>2. ASSUME NEW r \in RunIds, WorkerMove(r) PROVE Stable
  <2>1. runs[r].group \in GroupIds /\ groups[runs[r].group].video \in Videos BY RowsOfRun
  <2>2. Len(groups) = Len(groups') /\ \A g \in GroupIds : SameGroup(groups'[g], groups[g])
    <3>1. CASE groups' = groups BY <3>1 DEF SameGroup
    <3>2. CASE \E g \in GroupIds : \E row \in GroupRows : GroupRewritten(g, row)
      BY <3>2 DEF GroupRewritten, Touched, SameGroup, GroupIds
    <3> QED BY <1>2, <2>1, <3>1, <3>2
          DEF WorkerMove, Continued, Started, Ended, PilotFinished, HoldPlaced, Decided, Reviewed,
              Finished
  <2>3. Len(runs) <= Len(runs') /\ \A q \in RunIds : SameRun(runs'[q], runs[q])
    <3>1. CASE \E row \in RunRows : RunRewritten(r, row)
      BY <1>1, <3>1 DEF RunRewritten, Touched, SameRun, RunIds
    <3>2. CASE Reviewed(r) BY <1>1, <3>2 DEF Reviewed, SameRun
    <3> QED BY <1>2, <3>1, <3>2
          DEF WorkerMove, Continued, Started, Ended, PilotFinished, HoldPlaced, Decided,
              Finished, Answers
  <2>4. ASSUME NEW v \in Videos
        PROVE  /\ Len(revs[v]) <= Len(revs'[v])
               /\ \A k \in 1 .. Len(revs[v]) : revs'[v][k].mode = revs[v][k].mode
    <3>1. CASE revs' = revs BY <1>1, <3>1
    <3>2. CASE \E k : \E row \in RevisionRows :
                 RevisionRewritten(groups[runs[r].group].video, k, row)
      <4> DEFINE u == groups[runs[r].group].video
      <4>0. PICK k : \E row \in RevisionRows : RevisionRewritten(u, k, row) BY <3>2
      <4>1. PICK row \in RevisionRows : RevisionRewritten(u, k, row) BY <4>0
      <4> HIDE DEF u
      <4>2. CASE u = v
        <5>1. /\ Len(revs'[v]) = Len(revs[v]) /\ revs'[v][k].mode = revs[v][k].mode
              /\ \A i \in 1 .. Len(revs[v]) : i # k => revs'[v][i] = revs[v][i]
          BY <4>1, <4>2 DEF RevisionRewritten, Touched
        <5> QED BY <1>1, <5>1
      <4>3. CASE u # v BY <1>1, <4>1, <4>3 DEF RevisionRewritten
      <4> QED BY <4>2, <4>3
    <3> QED BY <1>2, <3>1, <3>2 DEF WorkerMove, PilotFinished, HoldPlaced, Decided, Reviewed
  <2> QED BY <1>1, <2>2, <2>3, <2>4 DEF Stable
<1>3. ASSUME NEW v \in Videos, NEW m \in Modes, RevisionAdded(v, m), NEW u \in Videos
      PROVE  /\ Len(revs[u]) <= Len(revs'[u])
             /\ \A k \in 1 .. Len(revs[u]) : revs'[u][k].mode = revs[u][k].mode
  BY <1>1, <1>3 DEF RevisionAdded, Grown
<1>4. ASSUME NEW v \in Videos, Found(v) PROVE Stable
  <2>1. CASE UNCHANGED <<revs, groups, runs>> BY <1>1, <2>1 DEF Stable, SameGroup, SameRun
  <2>2. CASE RevisionAdded(v, "formal") /\ RowsMarked(v, Current(v))
    <3>1. "formal" \in Modes BY DEF Modes
    <3> QED BY <1>1, <1>3, <1>4, <2>2, <3>1 DEF Found, Stable, RowsMarked, GroupMarked, RunMarked
  <2> QED BY <1>4, <2>1, <2>2 DEF Found
<1>5. ASSUME NEW v \in Videos, NEW pilot \in BOOLEAN, Opened(v, pilot) PROVE Stable
  <2>1. Len(groups') = Len(groups) + 1 /\ Len(runs') = Len(runs) + 1
    BY <1>5 DEF Opened, GroupOpened
  <2>2. CASE RowsAsBefore /\ UNCHANGED revs
    BY <1>1, <2>1, <2>2 DEF RowsAsBefore, Stable, SameGroup, SameRun
  <2>3. CASE RowsMarked(v, Current(v)) /\ \E m \in Modes : RevisionAdded(v, m)
    BY <1>1, <1>3, <2>1, <2>3 DEF Stable, RowsMarked, GroupMarked, RunMarked
  <2> QED BY <1>5, <2>2, <2>3 DEF Opened
<1>6. CASE Holding BY <1>1, <1>6 DEF Holding, Stable, SameGroup, SameRun
<1> QED BY <1>2, <1>4, <1>5, <1>6 DEF Moves

-----------------------------------------------------------------------------
(* What is superseded.                                                     *)

\* A group is superseded with its revision, and for good.
LEMMA SupersededGroupsStay ==
  ASSUME TypeOK, RowsOK, TypeOK', Moves, NEW g \in GroupIds
  PROVE  /\ groups[g].status = "superseded" => groups'[g].status = "superseded"
         /\ groups'[g].status = "superseded" =>
              \/ groups[g].status = "superseded"
              \/ /\ groups[g].rev = Current(groups[g].video)
                 /\ Len(revs'[groups[g].video]) > Len(revs[groups[g].video])
<1> DEFINE OK == /\ groups[g].status = "superseded" => groups'[g].status = "superseded"
                 /\ groups'[g].status = "superseded" =>
                      \/ groups[g].status = "superseded"
                      \/ /\ groups[g].rev = Current(groups[g].video)
                         /\ Len(revs'[groups[g].video]) > Len(revs[groups[g].video])
<1>1. ASSUME NEW r \in RunIds, WorkerMove(r) PROVE OK
  <2>1. CASE Continued(r) BY <2>1 DEF Continued
  <2>2. CASE Ended(r) BY <2>2 DEF Ended, GroupRewritten, Touched, GroupIds
  <2>3. CASE /\ CurrentForRun(r)
             /\ \E row \in GroupRows : GroupRewritten(runs[r].group, row) /\ row.status # "superseded"
    <3>1. runs[r].group \in GroupIds BY RowsOfRun
    <3>2. groups[runs[r].group].rev = Current(groups[runs[r].group].video)
      BY <2>3 DEF CurrentForRun, VideoOfRun
    <3>3. groups[runs[r].group].status # "superseded" BY <3>1, <3>2 DEF RowsOK
    <3> QED BY <2>3, <3>3 DEF GroupRewritten, Touched, GroupIds
  <2>4. CASE Started(r) BY <2>3, <2>4 DEF Started
  <2>5. CASE Finished(r) BY <2>3, <2>5 DEF Finished, Answers, Answered
  <2>6. CASE Reviewed(r) BY <2>3, <2>6 DEF Reviewed, Answered
  <2> QED BY <1>1, <2>1, <2>2, <2>4, <2>5, <2>6 DEF WorkerMove, PilotFinished, HoldPlaced, Decided
<1>2. ASSUME NEW v \in Videos, NEW m \in Modes, RevisionAdded(v, m), RowsMarked(v, Current(v))
      PROVE  OK
  <2>1. GroupMarked(groups'[g], g, v, Current(v)) BY <1>2 DEF RowsMarked
  <2>2. Len(revs'[v]) > Len(revs[v]) BY <1>2 DEF RevisionAdded, Grown, TypeOK
  <2> QED BY <2>1, <2>2 DEF GroupMarked
<1>3. ASSUME NEW v \in Videos, Found(v) PROVE OK
  <2>1. "formal" \in Modes BY DEF Modes
  <2> QED BY <1>2, <1>3, <2>1 DEF Found
<1>4. ASSUME NEW v \in Videos, NEW pilot \in BOOLEAN, Opened(v, pilot) PROVE OK
  <2>1. CASE RowsAsBefore BY <2>1 DEF RowsAsBefore
  <2>2. CASE RowsMarked(v, Current(v)) /\ \E m \in Modes : RevisionAdded(v, m) BY <1>2, <2>2
  <2> QED BY <1>4, <2>1, <2>2 DEF Opened
<1>5. CASE Holding BY <1>5 DEF Holding
<1> QED BY <1>1, <1>3, <1>4, <1>5 DEF Moves

\* A run that was succeeded stays so, and becomes so by its answer only.
LEMMA SucceededStays ==
  ASSUME TypeOK, RowsOK, TypeOK', Moves, NEW q \in RunIds,
         ~(Answers(q) \/ Reviewed(q))
  PROVE  runs'[q].status = "succeeded" <=> runs[q].status = "succeeded"
<1> DEFINE OK == runs'[q].status = "succeeded" <=> runs[q].status = "succeeded"
<1>1. ASSUME NEW r \in RunIds, WorkerMove(r) PROVE OK
  <2>1. CASE r # q
    <3>1. CASE \E row \in RunRows : RunRewritten(r, row)
      BY <2>1, <3>1 DEF RunRewritten, Touched, RunIds
    <3>2. CASE Reviewed(r) BY <2>1, <3>2 DEF Reviewed
    <3> QED BY <1>1, <3>1, <3>2
          DEF WorkerMove, Continued, Started, Ended, PilotFinished, HoldPlaced, Decided, Finished,
              Answers
  <2>2. CASE r = q
    <3>1. Continued(r) \/ Started(r) \/ Ended(r)
      BY <1>1, <2>2 DEF WorkerMove, PilotFinished, HoldPlaced, Decided, Finished
    <3>2. CASE Continued(r) BY <2>2, <3>2 DEF Continued, RunRewritten, Touched
    <3>3. CASE Started(r) BY <2>2, <3>3 DEF Started, RunRewritten, Touched, CurrentForRun
    <3>4. CASE Ended(r) BY <2>2, <3>4 DEF Ended, RunRewritten, Touched, Open
    <3> QED BY <3>1, <3>2, <3>3, <3>4
  <2> QED BY <2>1, <2>2
<1>2. ASSUME NEW v \in Videos, RowsMarked(v, Current(v)) PROVE OK
  <2>1. RunMarked(runs'[q], q, v, Current(v)) BY <1>2 DEF RowsMarked
  <2> QED BY <2>1 DEF RunMarked, Open
<1>3. ASSUME NEW v \in Videos, Found(v) PROVE OK BY <1>2, <1>3 DEF Found
<1>4. ASSUME NEW v \in Videos, NEW pilot \in BOOLEAN, Opened(v, pilot) PROVE OK
  BY <1>2, <1>4 DEF Opened, RowsAsBefore
<1>5. CASE Holding BY <1>5 DEF Holding
<1> QED BY <1>1, <1>3, <1>4, <1>5 DEF Moves

\* Rows still refer to rows that exist.
LEMMA RowsKept ==
  ASSUME TypeOK, RowsOK, TypeOK', Moves
  PROVE  RowsOK'
<1> USE DEF GroupIds, RunIds, Current
<1>0. Stable BY RowsAreStable
<1>1. /\ Len(groups) \in Nat /\ Len(runs) \in Nat /\ \A v \in Videos : Len(revs[v]) \in Nat
      /\ Len(groups') \in Nat /\ Len(runs') \in Nat /\ \A v \in Videos : Len(revs'[v]) \in Nat
      /\ \A g \in GroupIds : groups[g].video \in Videos
  <2>1. \A g \in GroupIds : groups[g] \in GroupRows BY DEF TypeOK
  <2>2. \A g \in GroupIds : groups[g].video \in Videos BY <2>1 DEF GroupRows
  <2> QED BY <2>2 DEF TypeOK
<1>2. ASSUME NEW v \in Videos, NEW pilot \in BOOLEAN, Opened(v, pilot),
             NEW g \in 1 .. Len(groups'), g > Len(groups)
      PROVE  /\ groups'[g].video = v /\ groups'[g].rev = Len(revs'[v])
             /\ Len(revs'[v]) \in 1 .. Len(revs'[v])
             /\ ~groups'[g].pilot => revs'[v][groups'[g].rev].mode # "shadow"
             /\ groups'[g].status # "superseded"
  <2>1. CASE /\ GroupOpened(v, Current(v), pilot) /\ UNCHANGED revs /\ Current(v) > 0
             /\ ~pilot => revs[v][Current(v)].mode # "shadow"
    BY <1>1, <1>2, <2>1 DEF GroupOpened
  <2>2. CASE /\ GroupOpened(v, Current(v) + 1, pilot)
             /\ \E m \in Modes : RevisionAdded(v, m) /\ (~pilot => m # "shadow")
    BY SMTT(30), <1>1, <1>2, <2>2 DEF GroupOpened, RevisionAdded, Grown, NewRevision
  <2> QED BY <1>2, <2>1, <2>2 DEF Opened
<1>3. ASSUME NEW g \in 1 .. Len(groups'), g > Len(groups)
      PROVE  \E v \in Videos, pilot \in BOOLEAN : Opened(v, pilot)
  <2>1. ASSUME NEW r \in RunIds, WorkerMove(r) PROVE FALSE
    <3>1. Len(groups') = Len(groups)
      BY <2>1 DEF WorkerMove, Continued, Started, Ended, PilotFinished, HoldPlaced, Decided,
                  Reviewed, Finished, GroupRewritten, Touched
    <3> QED BY <1>1, <1>3, <3>1
  <2>2. ASSUME NEW v \in Videos, Found(v) PROVE FALSE BY <1>1, <1>3, <2>2 DEF Found
  <2>3. CASE Holding BY <1>1, <1>3, <2>3 DEF Holding
  <2> QED BY <2>1, <2>2, <2>3 DEF Moves
<1>4. ASSUME NEW g \in 1 .. Len(groups')
      PROVE  /\ groups'[g].rev \in 1 .. Len(revs'[groups'[g].video])
             /\ ~groups'[g].pilot => revs'[groups'[g].video][groups'[g].rev].mode # "shadow"
             /\ groups'[g].status = "superseded" => groups'[g].rev # Len(revs'[groups'[g].video])
  <2>1. CASE g > Len(groups) BY <1>2, <1>3, <2>1
  <2>2. CASE g <= Len(groups)
    <3>1. g \in GroupIds BY <1>1, <2>2
    <3> DEFINE v == groups[g].video
               k == groups[g].rev
    <3>2. /\ v \in Videos /\ k \in 1 .. Len(revs[v])
          /\ ~groups[g].pilot => revs[v][k].mode # "shadow"
          /\ groups[g].status = "superseded" => k # Len(revs[v])
      BY <1>1, <3>1 DEF RowsOK
    <3>3. groups'[g].video = v /\ groups'[g].rev = k /\ groups'[g].pilot = groups[g].pilot
      BY <1>0, <3>1 DEF Stable, SameGroup
    <3>4. Len(revs[v]) <= Len(revs'[v]) /\ revs'[v][k].mode = revs[v][k].mode
      BY <1>0, <3>2 DEF Stable
    <3>5. groups'[g].status = "superseded" => k < Len(revs[v]) \/ Len(revs[v]) < Len(revs'[v])
      BY <1>1, <3>1, <3>2, SupersededGroupsStay
    <3> HIDE DEF v, k
    <3> QED BY <1>1, <3>2, <3>3, <3>4, <3>5
  <2> QED BY <1>1, <2>1, <2>2
<1>5. ASSUME NEW r \in 1 .. Len(runs') PROVE runs'[r].group \in 1 .. Len(groups')
  <2>1. CASE r <= Len(runs)
    <3>1. r \in RunIds BY <1>1, <2>1
    <3>2. runs'[r].group = runs[r].group BY <1>0, <3>1 DEF Stable, SameRun
    <3>3. runs[r].group \in 1 .. Len(groups) BY <3>1 DEF RowsOK
    <3> QED BY <1>0, <1>1, <3>2, <3>3 DEF Stable
  <2>2. CASE r > Len(runs)
    <3>1. ASSUME NEW q \in RunIds, WorkerMove(q) PROVE runs'[r].group \in 1 .. Len(groups')
      <4>1. CASE \E row \in RunRows : RunRewritten(q, row)
        BY <1>1, <2>2, <4>1 DEF RunRewritten, Touched
      <4>2. CASE Reviewed(q)
        <5>1. runs[q].group \in 1 .. Len(groups) BY RowsOfRun
        <5>2. r = Len(runs) + 1 BY <1>1, <2>2, <4>2 DEF Reviewed
        <5>3. runs'[r].group = runs[q].group BY <4>2, <5>2 DEF Reviewed
        <5> QED BY <1>0, <1>1, <5>1, <5>3 DEF Stable
      <4> QED BY <3>1, <4>1, <4>2
            DEF WorkerMove, Continued, Started, Ended, PilotFinished, HoldPlaced, Decided,
                Finished, Answers
    <3>2. ASSUME NEW v \in Videos, NEW pilot \in BOOLEAN, Opened(v, pilot)
          PROVE  runs'[r].group \in 1 .. Len(groups')
      BY <1>1, <2>2, <3>2 DEF Opened, GroupOpened
    <3>3. ASSUME NEW v \in Videos, Found(v) PROVE FALSE BY <1>1, <2>2, <3>3 DEF Found
    <3>4. CASE Holding BY <1>1, <2>2, <3>4 DEF Holding
    <3> QED BY <3>1, <3>2, <3>3, <3>4 DEF Moves
  <2> QED BY <1>1, <2>1, <2>2
<1>6. ASSUME NEW v \in Videos, NEW k \in 1 .. Len(revs'[v]), revs'[v][k].decision # 0
      PROVE  LET d == revs'[v][k].decision IN
             /\ d \in GroupIds /\ groups[d].video = v /\ groups[d].rev = k /\ ~groups[d].pilot
  <2>1. CASE k \in 1 .. Len(revs[v]) /\ revs'[v][k].decision = revs[v][k].decision
    BY <1>6, <2>1 DEF RowsOK
  <2>2. ASSUME NEW r \in RunIds, WorkerMove(r)
        PROVE  \/ k \in 1 .. Len(revs[v]) /\ revs'[v][k].decision = revs[v][k].decision
               \/ LET d == revs'[v][k].decision IN
                  /\ d \in GroupIds /\ groups[d].video = v /\ groups[d].rev = k /\ ~groups[d].pilot
    <3>1. CASE UNCHANGED revs BY <3>1
    <3>2. CASE Decided(r)
      <4> DEFINE g == runs[r].group
      <4>1. g \in GroupIds BY RowsOfRun
      <4>2. PICK row \in RevisionRows :
              RevisionRewritten(groups[g].video, groups[g].rev, row) /\ row.decision = g
        BY <3>2 DEF Decided
      <4>3. ~groups[g].pilot BY <3>2 DEF Decided
      <4> HIDE DEF g
      <4>4. CASE v = groups[g].video
        BY <4>1, <4>2, <4>3, <4>4 DEF RevisionRewritten, Touched
      <4>5. CASE v # groups[g].video BY <4>2, <4>5 DEF RevisionRewritten
      <4> QED BY <4>4, <4>5
    <3> QED BY <2>2, <3>1, <3>2 DEF WorkerMove, PilotFinished, HoldPlaced, Reviewed
  <2>3. ASSUME NEW u \in Videos, NEW m \in Modes, RevisionAdded(u, m)
        PROVE  k \in 1 .. Len(revs[v]) /\ revs'[v][k].decision = revs[v][k].decision
    <3>1. CASE u = v
      <4>1. /\ Len(revs'[v]) = Len(revs[v]) + 1 /\ revs'[v][Len(revs[v]) + 1].decision = 0
            /\ \A i \in 1 .. Len(revs[v]) : revs'[v][i] = revs[v][i]
        BY <2>3, <3>1 DEF RevisionAdded, Grown, NewRevision
      <4>2. k # Len(revs[v]) + 1 BY <1>6, <4>1
      <4> QED BY SMTT(30), <1>1, <4>1, <4>2
    <3>2. CASE u # v BY <2>3, <3>2 DEF RevisionAdded
    <3> QED BY <3>1, <3>2
  <2>4. ASSUME NEW u \in Videos, Found(u)
        PROVE  k \in 1 .. Len(revs[v]) /\ revs'[v][k].decision = revs[v][k].decision
    <3>1. "formal" \in Modes BY DEF Modes
    <3> QED BY <2>3, <2>4, <3>1 DEF Found
  <2>5. ASSUME NEW u \in Videos, NEW pilot \in BOOLEAN, Opened(u, pilot)
        PROVE  k \in 1 .. Len(revs[v]) /\ revs'[v][k].decision = revs[v][k].decision
    BY <2>3, <2>5 DEF Opened
  <2>6. ASSUME Holding
        PROVE  k \in 1 .. Len(revs[v]) /\ revs'[v][k].decision = revs[v][k].decision
    BY <2>6 DEF Holding
  <2>7. \/ k \in 1 .. Len(revs[v]) /\ revs'[v][k].decision = revs[v][k].decision
        \/ LET d == revs'[v][k].decision IN
           /\ d \in GroupIds /\ groups[d].video = v /\ groups[d].rev = k /\ ~groups[d].pilot
    BY <2>2, <2>4, <2>5, <2>6 DEF Moves
  <2> QED BY <2>1, <2>7
<1>7. ASSUME NEW v \in Videos, NEW k \in 1 .. Len(revs'[v]), revs'[v][k].decision # 0
      PROVE  LET d == revs'[v][k].decision IN
             /\ d \in 1 .. Len(groups') /\ groups'[d].video = v /\ groups'[d].rev = k
             /\ ~groups'[d].pilot
  <2> DEFINE d == revs'[v][k].decision
  <2>1. d \in GroupIds /\ groups[d].video = v /\ groups[d].rev = k /\ ~groups[d].pilot
    BY <1>6, <1>7
  <2> HIDE DEF d
  <2>2. SameGroup(groups'[d], groups[d]) /\ d \in 1 .. Len(groups')
    BY <1>0, <1>1, <2>1 DEF Stable
  <2> QED BY <2>1, <2>2 DEF SameGroup, d
<1>8. ASSUME NEW h \in holds', h.video \in Videos PROVE h.rev \in 1 .. Len(revs'[h.video])
  <2>1. h \in holds => h.rev \in 1 .. Len(revs[h.video]) BY <1>8 DEF RowsOK
  <2>2. CASE h \in holds BY <1>0, <1>1, <1>8, <2>1, <2>2 DEF Stable
  <2>3. CASE h \notin holds
    <3>1. ASSUME NEW r \in RunIds, WorkerMove(r) PROVE h.rev \in 1 .. Len(revs'[h.video])
      <4> DEFINE g == runs[r].group
      <4>1. HoldPlaced(r) \/ Decided(r)
        BY <2>3, <3>1 DEF WorkerMove, PilotFinished, Reviewed
      <4>2. h.video = groups[g].video /\ h.rev = groups[g].rev
        BY <2>3, <4>1 DEF HoldPlaced, Decided, HoldsOnly
      <4>3. groups[g].rev \in 1 .. Len(revs[groups[g].video]) BY RowsOfRun DEF RowsOK
      <4> HIDE DEF g
      <4> QED BY SMTT(30), <1>0, <1>1, <1>8, <4>2, <4>3 DEF Stable
    <3>2. ASSUME NEW v \in Videos, Found(v) PROVE FALSE BY <2>3, <3>2 DEF Found
    <3>3. ASSUME NEW v \in Videos, NEW pilot \in BOOLEAN, Opened(v, pilot)
          PROVE  h.rev \in 1 .. Len(revs'[h.video])
      <4>1. PICK m \in Modes : RevisionAdded(v, m) /\ HoldsOnly(v, Current(v) + 1, "appeal")
        BY <2>3, <3>3 DEF Opened
      <4>2. h.video = v /\ h.rev = Len(revs[v]) + 1 BY <2>3, <4>1 DEF HoldsOnly
      <4> QED BY <1>1, <4>1, <4>2 DEF RevisionAdded, Grown
    <3>4. CASE Holding
      <4>1. PICK v \in Videos : Current(v) > 0 /\ HoldsOnly(v, Current(v), "manual")
        BY <2>3, <3>4 DEF Holding
      <4>2. h.video = v /\ h.rev = Len(revs[v]) /\ Len(revs[v]) > 0
        BY <2>3, <4>1 DEF HoldsOnly
      <4>3. revs' = revs BY <3>4 DEF Holding
      <4> QED BY <1>1, <4>2, <4>3
    <3> QED BY <3>1, <3>2, <3>3, <3>4 DEF Moves
  <2> QED BY <2>2, <2>3
<1> QED BY <1>4, <1>5, <1>7, <1>8 DEF RowsOK

-----------------------------------------------------------------------------
(* Jobs and valid runs.                                                    *)

\* A run that is new is the first of a new group or the one after a valid answer.
LEMMA NewRuns ==
  ASSUME TypeOK, RowsOK, TypeOK', Moves, NEW r \in 1 .. Len(runs'), r \notin RunIds
  PROVE  /\ r = Len(runs) + 1
         /\ runs'[r].status = "pending" /\ runs'[r].job = "queued" /\ runs'[r].tries = 0
         /\ \/ \E p \in RunIds :
                 /\ Reviewed(p) /\ runs'[r].group = runs[p].group
                 /\ runs'[r].number = Cardinality(ValidRuns(runs[p].group)) + 2
                 /\ runs'[r].number \in 2 .. 3
            \/ \E v \in Videos, pilot \in BOOLEAN :
                 /\ Opened(v, pilot) /\ runs'[r].group = Len(groups) + 1
                 /\ runs'[r].number = 1
<1>1. Len(runs) \in Nat /\ Len(runs') \in Nat /\ r > Len(runs) BY DEF TypeOK, RunIds
<1> DEFINE OK == /\ r = Len(runs) + 1
                 /\ runs'[r].status = "pending" /\ runs'[r].job = "queued" /\ runs'[r].tries = 0
                 /\ \/ \E p \in RunIds :
                         /\ Reviewed(p) /\ runs'[r].group = runs[p].group
                         /\ runs'[r].number = Cardinality(ValidRuns(runs[p].group)) + 2
                         /\ runs'[r].number \in 2 .. 3
                    \/ \E v \in Videos, pilot \in BOOLEAN :
                         /\ Opened(v, pilot) /\ runs'[r].group = Len(groups) + 1
                         /\ runs'[r].number = 1
<1>2. ASSUME NEW q \in RunIds, WorkerMove(q) PROVE OK
  <2>1. CASE \E row \in RunRows : RunRewritten(q, row)
    BY <1>1, <2>1 DEF RunRewritten, Touched
  <2>2. CASE Reviewed(q)
    <3> DEFINE c == Cardinality(ValidRuns(runs[q].group))
    <3>1. r = Len(runs) + 1 BY <1>1, <2>2 DEF Reviewed
    <3>2. PICK n \in 1 .. 2 : /\ n = c + 1
            /\ runs'[Len(runs) + 1].group = runs[q].group
            /\ runs'[Len(runs) + 1].number = n + 1 /\ runs'[Len(runs) + 1].tries = 0
            /\ runs'[Len(runs) + 1].job = "queued" /\ runs'[Len(runs) + 1].status = "pending"
      BY <2>2 DEF Reviewed
    <3>3. c \in Nat
      <4>1. IsFiniteSet(1 .. Len(runs)) BY <1>1, FS_Interval
      <4>2. ValidRuns(runs[q].group) \subseteq 1 .. Len(runs) BY DEF ValidRuns, RunsOf, RunIds
      <4> QED BY <4>1, <4>2, FS_Subset, FS_CardinalityType
    <3> HIDE DEF c
    <3>4. runs'[r].number = c + 2 /\ runs'[r].number \in 2 .. 3 BY <3>1, <3>2, <3>3
    <3> QED BY <2>2, <3>1, <3>2, <3>4 DEF c
  <2> QED BY <1>2, <2>1, <2>2
        DEF WorkerMove, Continued, Started, Ended, PilotFinished, HoldPlaced, Decided,
            Finished, Answers
<1>3. ASSUME NEW v \in Videos, NEW pilot \in BOOLEAN, Opened(v, pilot) PROVE OK
  <2>1. /\ Len(runs') = Len(runs) + 1
        /\ \E row \in RunRows :
             /\ runs'[Len(runs) + 1] = row /\ row.group = Len(groups) + 1 /\ row.number = 1
             /\ row.tries = 0 /\ row.job = "queued" /\ row.status = "pending"
    BY <1>3 DEF Opened, GroupOpened
  <2>2. r = Len(runs) + 1 BY <1>1, <2>1
  <2> QED BY <1>3, <2>1, <2>2
<1>4. ASSUME NEW v \in Videos, Found(v) PROVE OK BY <1>1, <1>4 DEF Found
<1>5. CASE Holding BY <1>1, <1>5 DEF Holding
<1> QED BY <1>2, <1>3, <1>4, <1>5 DEF Moves

\* The valid runs of a group are the same unless one of its runs brings an answer.
LEMMA ValidRunsKept ==
  ASSUME TypeOK, RowsOK, TypeOK', Moves, NEW g,
         \A p \in RunIds : runs[p].group = g => ~(Answers(p) \/ Reviewed(p))
  PROVE  ValidRuns(g)' = ValidRuns(g)
<1>1. Stable BY RowsAreStable
<1>2. Len(runs) \in Nat /\ Len(runs') \in Nat BY DEF TypeOK
<1>3. ASSUME NEW q \in 1 .. Len(runs')
      PROVE  runs'[q].group = g /\ runs'[q].status = "succeeded"
             <=> q \in 1 .. Len(runs) /\ runs[q].group = g /\ runs[q].status = "succeeded"
  <2>1. CASE q \in RunIds
    <3>1. runs'[q].group = runs[q].group BY <1>1, <2>1 DEF Stable, SameRun
    <3>2. runs[q].group = g => (runs'[q].status = "succeeded" <=> runs[q].status = "succeeded")
      BY <2>1, SucceededStays
    <3> QED BY <2>1, <3>1, <3>2 DEF RunIds
  <2>2. CASE q \notin RunIds
    <3>1. runs'[q].status = "pending" BY <2>2, NewRuns
    <3> QED BY <2>2, <3>1 DEF RunIds
  <2> QED BY <2>1, <2>2
<1>4. 1 .. Len(runs) \subseteq 1 .. Len(runs') BY <1>1, <1>2 DEF Stable
<1>5. ValidRuns(g) = {q \in 1 .. Len(runs) : runs[q].group = g /\ runs[q].status = "succeeded"}
  BY DEF ValidRuns, RunsOf, RunIds
<1>6. ValidRuns(g)' = {q \in 1 .. Len(runs') : runs'[q].group = g /\ runs'[q].status = "succeeded"}
  BY DEF ValidRuns, RunsOf, RunIds
<1> QED BY <1>3, <1>4, <1>5, <1>6

\* An answer that asks for a further run adds the run to the valid ones.
LEMMA ValidRunsGrow ==
  ASSUME TypeOK, RowsOK, TypeOK', Moves, NEW p \in RunIds, Reviewed(p), NEW g, g = runs[p].group
  PROVE  /\ p \notin ValidRuns(g) /\ ValidRuns(g)' = ValidRuns(g) \cup {p}
         /\ IsFiniteSet(ValidRuns(g))
         /\ Cardinality(ValidRuns(g)') = Cardinality(ValidRuns(g)) + 1
<1>1. Stable BY RowsAreStable
<1>2. Len(runs) \in Nat /\ Len(runs') \in Nat /\ p \in 1 .. Len(runs) BY DEF TypeOK, RunIds
<1>3. /\ Len(runs') = Len(runs) + 1 /\ runs'[p].status = "succeeded" /\ runs'[p].group = g
      /\ runs'[Len(runs) + 1].status = "pending"
      /\ \A q \in RunIds : q # p => runs'[q] = runs[q]
  BY DEF Reviewed, SameRun
<1>4. ValidRuns(g) = {q \in 1 .. Len(runs) : runs[q].group = g /\ runs[q].status = "succeeded"}
  BY DEF ValidRuns, RunsOf, RunIds
<1>5. ValidRuns(g)' = {q \in 1 .. Len(runs') : runs'[q].group = g /\ runs'[q].status = "succeeded"}
  BY DEF ValidRuns, RunsOf, RunIds
<1>6. runs[p].status # "succeeded" BY DEF Reviewed, Answered, CurrentForRun
<1>7. p \notin ValidRuns(g) BY <1>4, <1>6
<1>8. ASSUME NEW q \in 1 .. Len(runs')
      PROVE  runs'[q].group = g /\ runs'[q].status = "succeeded"
             <=> q = p \/ (q \in 1 .. Len(runs) /\ runs[q].group = g /\ runs[q].status = "succeeded")
  <2>1. CASE q = p BY <1>3, <2>1
  <2>2. CASE q = Len(runs) + 1 BY <1>2, <1>3, <2>2
  <2>3. CASE q \in 1 .. Len(runs) /\ q # p BY <1>3, <2>3 DEF RunIds
  <2> QED BY <1>2, <1>3, <2>1, <2>2, <2>3
<1>9. ValidRuns(g)' = ValidRuns(g) \cup {p} BY <1>2, <1>3, <1>4, <1>5, <1>8
<1>10. IsFiniteSet(ValidRuns(g))
  <2>1. IsFiniteSet(1 .. Len(runs)) BY <1>2, FS_Interval
  <2> QED BY <1>4, <2>1, FS_Subset
<1> QED BY <1>7, <1>9, <1>10, FS_AddElement

\* The steps of a job that is not over, with what the group counts.
JobSame(r, g) ==
  runs'[r].job = runs[r].job /\ runs'[r].tries = runs[r].tries
  /\ groups'[g].attempts = groups[g].attempts
JobMoves(r, g) ==
  \/ JobSame(r, g)
  \/ /\ groups'[g].attempts = groups[g].attempts
     /\ \/ /\ runs[r].job = "queued" /\ runs'[r].job = "claimed"
           /\ runs'[r].tries = runs[r].tries + 1
        \/ /\ runs[r].job = "started" /\ runs'[r].job = "called"
           /\ runs'[r].tries = runs[r].tries
        \/ /\ runs[r].job \in {"claimed", "started"} /\ runs'[r].job = "queued"
           /\ runs'[r].tries = runs[r].tries /\ runs'[r].tries <= 1
  \/ /\ runs[r].job = "claimed" /\ runs'[r].job = "started" /\ runs'[r].tries = runs[r].tries
     /\ groups'[g].attempts = groups[g].attempts + 1

\* Two jobs of a group are one.
LEMMA OneJob ==
  ASSUME JobsOK, NEW r \in RunIds, NEW p \in RunIds, runs[r].group = runs[p].group,
         runs[r].job \in LiveJob, runs[p].job \in LiveJob
  PROVE  r = p
BY DEF JobsOK, VideoOfRun

\* A job that is not over was not over before, and nobody else worked on its group.
LEMMA JobSteps ==
  ASSUME TypeOK, RowsOK, JobsOK, TypeOK', Moves, NEW r \in RunIds, runs'[r].job \in LiveJob
  PROVE  /\ runs[r].job \in LiveJob
         /\ \A p \in RunIds : runs[p].group = runs[r].group => ~(Answers(p) \/ Reviewed(p))
         /\ JobMoves(r, runs[r].group)
<1> DEFINE g == runs[r].group
<1>1. g \in GroupIds BY RowsOfRun
<1>2. ASSUME NEW p \in RunIds, WorkerMove(p)
      PROVE  runs[r].job \in LiveJob /\ JobMoves(r, g)
  <2>1. CASE p = r
    <3>1. CASE Continued(r)
      <4>1. groups' = groups BY <3>1 DEF Continued
      <4> HIDE DEF g
      <4> QED BY <3>1, <4>1 DEF Continued, RunRewritten, Touched, JobMoves, LiveJob
    <3>2. CASE Started(r)
      <4>1. groups'[g].attempts = groups[g].attempts + 1
        BY <3>2 DEF Started, GroupRewritten, Touched
      <4> HIDE DEF g
      <4> QED BY <3>2, <4>1 DEF Started, RunRewritten, Touched, JobMoves, LiveJob
    <3>3. CASE Ended(r) BY <3>3 DEF Ended, RunRewritten, Touched
    <3>4. CASE Answers(r) BY <3>4 DEF Answers, RunRewritten, Touched, LiveJob
    <3>5. CASE Reviewed(r) BY <3>5 DEF Reviewed, LiveJob
    <3> QED BY <1>2, <2>1, <3>1, <3>2, <3>3, <3>4, <3>5
          DEF WorkerMove, PilotFinished, HoldPlaced, Decided, Finished
  <2>2. CASE p # r
    <3>1. runs'[r] = runs[r]
      <4>1. CASE \E row \in RunRows : RunRewritten(p, row)
        BY <2>2, <4>1 DEF RunRewritten, Touched, RunIds
      <4>2. CASE Reviewed(p) BY <2>2, <4>2 DEF Reviewed
      <4> QED BY <1>2, <4>1, <4>2
            DEF WorkerMove, Continued, Started, Ended, PilotFinished, HoldPlaced, Decided,
                Finished, Answers
    <3>2. CASE groups'[g] = groups[g] BY <3>1, <3>2 DEF JobMoves, JobSame
    <3>3. CASE groups'[g] # groups[g]
      <4>1. ~Continued(p) BY <3>3 DEF Continued
      <4>2. \E row \in GroupRows : GroupRewritten(runs[p].group, row)
        BY <1>2, <4>1 DEF WorkerMove, Started, Ended, PilotFinished, HoldPlaced, Decided,
                          Finished, Reviewed
      <4>3. runs[p].group = g BY <1>1, <3>3, <4>2 DEF GroupRewritten, Touched, GroupIds
      <4>4. runs[p].job \in LiveJob
        BY <1>2, <4>1 DEF WorkerMove, Started, Ended, PilotFinished, HoldPlaced, Decided,
                          Finished, Reviewed, Answers, Answered, LiveJob
      <4>5. runs[r].job \in LiveJob BY <3>1
      <4>6. p = r BY <4>3, <4>4, <4>5, OneJob
      <4> QED BY <2>2, <4>6
    <3> QED BY <3>1, <3>2, <3>3
  <2> QED BY <2>1, <2>2
<1>3. ASSUME NEW v \in Videos, RowsMarked(v, Current(v))
      PROVE  runs[r].job \in LiveJob /\ JobMoves(r, g)
  <2>1. GroupMarked(groups'[g], g, v, Current(v)) /\ RunMarked(runs'[r], r, v, Current(v))
    BY <1>1, <1>3 DEF RowsMarked
  <2> HIDE DEF g
  <2> QED BY <2>1 DEF GroupMarked, RunMarked, JobMoves, JobSame
<1>4. ASSUME groups'[g] = groups[g], runs'[r] = runs[r]
      PROVE  runs[r].job \in LiveJob /\ JobMoves(r, g)
  BY <1>4 DEF JobMoves, JobSame
<1>5. ASSUME NEW v \in Videos, Found(v) PROVE runs[r].job \in LiveJob /\ JobMoves(r, g)
  BY <1>3, <1>4, <1>5 DEF Found
<1>6. ASSUME NEW v \in Videos, NEW pilot \in BOOLEAN, Opened(v, pilot)
      PROVE  runs[r].job \in LiveJob /\ JobMoves(r, g)
  BY <1>1, <1>3, <1>4, <1>6 DEF Opened, RowsAsBefore
<1>7. ASSUME Holding PROVE runs[r].job \in LiveJob /\ JobMoves(r, g)
  BY <1>4, <1>7 DEF Holding
<1>8. runs[r].job \in LiveJob /\ JobMoves(r, g) BY <1>2, <1>5, <1>6, <1>7 DEF Moves
<1>9. ASSUME NEW p \in RunIds, runs[p].group = runs[r].group, Answers(p) \/ Reviewed(p)
      PROVE  FALSE
  <2>1. runs[p].job \in LiveJob BY <1>9 DEF Answers, Reviewed, Answered, LiveJob
  <2>2. p = r BY <1>8, <1>9, <2>1, OneJob
  <2>3. runs'[p].job = "succeeded" BY <1>9 DEF Answers, Reviewed, RunRewritten, Touched
  <2> QED BY <2>2, <2>3 DEF LiveJob
<1> QED BY <1>8, <1>9

\* A video still has one job.
LEMMA JobsStayAlone ==
  ASSUME TypeOK, RowsOK, JobsOK, TypeOK', Moves,
         NEW r \in 1 .. Len(runs'), NEW q \in 1 .. Len(runs'),
         runs'[r].job \in LiveJob, runs'[q].job \in LiveJob,
         groups'[runs'[r].group].video = groups'[runs'[q].group].video
  PROVE  r = q
<1>0. Stable BY RowsAreStable
<1>1. ASSUME NEW p \in RunIds
      PROVE  /\ runs'[p].group = runs[p].group
             /\ groups'[runs'[p].group].video = VideoOfRun(p)
  <2>1. runs[p].group \in GroupIds BY RowsOfRun
  <2> QED BY <1>0, <2>1 DEF Stable, SameRun, SameGroup, VideoOfRun
<1>2. ASSUME NEW a \in RunIds, NEW b \in 1 .. Len(runs'), b \notin RunIds,
             runs'[a].job \in LiveJob, groups'[runs'[b].group].video = VideoOfRun(a)
      PROVE  FALSE
  <2>1. runs[a].job \in LiveJob BY <1>2, JobSteps
  <2>2. ASSUME NEW p \in RunIds, Reviewed(p), runs'[b].group = runs[p].group PROVE FALSE
    <3>1. groups'[runs'[b].group].video = VideoOfRun(p) BY <1>1, <2>2
    <3>2. runs[p].job \in LiveJob BY <2>2 DEF Reviewed, Answered, LiveJob
    <3>3. a = p BY <1>2, <2>1, <3>1, <3>2 DEF JobsOK
    <3> QED BY <1>2, <2>2, <3>3, JobSteps
  <2>3. ASSUME NEW v \in Videos, NEW pilot \in BOOLEAN, Opened(v, pilot),
               runs'[b].group = Len(groups) + 1
        PROVE  FALSE
    <3>1. NoActive(v) BY <2>3 DEF Opened
    <3>2. groups'[Len(groups) + 1].video = v BY <2>3 DEF Opened, GroupOpened
    <3> QED BY <1>2, <2>1, <2>3, <3>1, <3>2 DEF NoActive
  <2> QED BY <1>2, <2>2, <2>3, NewRuns
<1>3. CASE r \in RunIds /\ q \in RunIds
  <2>1. runs[r].job \in LiveJob /\ runs[q].job \in LiveJob BY <1>3, JobSteps
  <2>2. VideoOfRun(r) = VideoOfRun(q) BY <1>1, <1>3
  <2> QED BY <1>3, <2>1, <2>2 DEF JobsOK
<1>4. CASE r \in RunIds /\ q \notin RunIds BY <1>1, <1>2, <1>4
<1>5. CASE r \notin RunIds /\ q \in RunIds BY <1>1, <1>2, <1>5
<1>6. CASE r \notin RunIds /\ q \notin RunIds
  <2>1. r = Len(runs) + 1 BY <1>6, NewRuns
  <2>2. q = Len(runs) + 1 BY <1>6, NewRuns
  <2> QED BY <2>1, <2>2
<1> QED BY <1>3, <1>4, <1>5, <1>6

\* A new group has no valid runs.
LEMMA NoRunsYet ==
  ASSUME TypeOK, RowsOK, TypeOK', Moves
  PROVE  Cardinality(ValidRuns(Len(groups) + 1)) = 0
<1>1. Len(groups) \in Nat BY DEF TypeOK
<1>2. ASSUME NEW q \in RunIds PROVE runs[q].group # Len(groups) + 1
  <2>1. runs[q].group \in 1 .. Len(groups) BY RowsOfRun DEF GroupIds
  <2> QED BY <1>1, <2>1
<1>3. ValidRuns(Len(groups) + 1) = {} BY <1>2 DEF ValidRuns, RunsOf
<1> QED BY <1>3, FS_EmptySet

\* Jobs are still of the run after the valid ones, and still count what they use up.
LEMMA JobsStayCounted ==
  ASSUME TypeOK, RowsOK, JobsOK, TypeOK', Moves,
         NEW r \in 1 .. Len(runs'), runs'[r].job \in LiveJob, NEW g, g = runs'[r].group
  PROVE  /\ runs'[r].number = Cardinality(ValidRuns(g)') + 1 /\ runs'[r].number <= 3
         /\ runs'[r].tries <= IF runs'[r].job = "queued" THEN 1 ELSE 2
         /\ IF runs'[r].job = "claimed"
            THEN groups'[g].attempts < 2 * (runs'[r].number - 1) + runs'[r].tries
            ELSE groups'[g].attempts <= 2 * (runs'[r].number - 1) + runs'[r].tries
<1>0. Stable BY RowsAreStable
<1>1. CASE r \in RunIds
  <2>1. g = runs[r].group /\ runs'[r].number = runs[r].number /\ g \in GroupIds
    <3>1. SameRun(runs'[r], runs[r]) BY <1>0, <1>1 DEF Stable
    <3> QED BY <1>1, <3>1, RowsOfRun DEF SameRun
  <2>2. /\ runs[r].job \in LiveJob /\ JobMoves(r, g)
        /\ \A p \in RunIds : runs[p].group = g => ~(Answers(p) \/ Reviewed(p))
    BY <1>1, <2>1, JobSteps
  <2>3. Cardinality(ValidRuns(g)') = Cardinality(ValidRuns(g)) BY <2>2, ValidRunsKept
  <2>4. /\ runs[r].number = Cardinality(ValidRuns(g)) + 1 /\ runs[r].number <= 3
        /\ runs[r].tries <= IF runs[r].job = "queued" THEN 1 ELSE 2
        /\ IF runs[r].job = "claimed"
           THEN groups[g].attempts < 2 * (runs[r].number - 1) + runs[r].tries
           ELSE groups[g].attempts <= 2 * (runs[r].number - 1) + runs[r].tries
    BY <1>1, <2>1, <2>2 DEF JobsOK
  <2>5. /\ runs[r].tries \in Nat /\ runs[r].number \in Nat /\ groups[g].attempts \in Nat
    <3>1. runs[r] \in RunRows /\ groups[g] \in GroupRows BY <1>1, <2>1, RowsOfRun
    <3> QED BY <3>1 DEF RunRows, GroupRows
  <2>6. runs'[r].number = Cardinality(ValidRuns(g)') + 1 BY <2>1, <2>3, <2>4
  <2>7. /\ runs'[r].tries <= IF runs'[r].job = "queued" THEN 1 ELSE 2
        /\ IF runs'[r].job = "claimed"
           THEN groups'[g].attempts < 2 * (runs'[r].number - 1) + runs'[r].tries
           ELSE groups'[g].attempts <= 2 * (runs'[r].number - 1) + runs'[r].tries
    <3> DEFINE m == 2 * (runs[r].number - 1)
    <3>1. m \in Int /\ 2 * (runs'[r].number - 1) = m BY <2>1, <2>5
    <3>2. IF runs[r].job = "claimed" THEN groups[g].attempts < m + runs[r].tries
          ELSE groups[g].attempts <= m + runs[r].tries
      BY <2>4
    <3> HIDE DEF m
    <3>3. CASE JobSame(r, g) BY <2>4, <2>5, <3>1, <3>2, <3>3 DEF JobSame
    <3>4. CASE /\ groups'[g].attempts = groups[g].attempts
               /\ runs[r].job = "queued" /\ runs'[r].job = "claimed"
               /\ runs'[r].tries = runs[r].tries + 1
      <4>1. runs[r].tries <= 1 /\ groups[g].attempts <= m + runs[r].tries
        BY <2>4, <3>2, <3>4
      <4>2. runs'[r].tries <= 2 /\ groups'[g].attempts < m + runs'[r].tries
        BY <2>5, <3>1, <3>4, <4>1
      <4> QED BY <3>1, <3>4, <4>2
    <3>5. CASE /\ groups'[g].attempts = groups[g].attempts
               /\ runs[r].job = "started" /\ runs'[r].job = "called"
               /\ runs'[r].tries = runs[r].tries
      BY <2>4, <2>5, <3>1, <3>2, <3>5
    <3>6. CASE /\ groups'[g].attempts = groups[g].attempts
               /\ runs[r].job \in {"claimed", "started"} /\ runs'[r].job = "queued"
               /\ runs'[r].tries = runs[r].tries /\ runs'[r].tries <= 1
      <4>1. groups[g].attempts <= m + runs[r].tries BY <2>5, <3>1, <3>2, <3>6
      <4> QED BY <3>1, <3>6, <4>1
    <3>7. CASE /\ runs[r].job = "claimed" /\ runs'[r].job = "started"
               /\ runs'[r].tries = runs[r].tries
               /\ groups'[g].attempts = groups[g].attempts + 1
      <4>1. runs[r].tries <= 2 /\ groups[g].attempts < m + runs[r].tries
        BY <2>4, <3>2, <3>7
      <4>2. groups'[g].attempts <= m + runs'[r].tries BY <2>5, <3>1, <3>7, <4>1
      <4> QED BY <3>1, <3>7, <4>1, <4>2
    <3> QED BY <2>2, <3>3, <3>4, <3>5, <3>6, <3>7 DEF JobMoves
  <2> QED BY <2>1, <2>4, <2>6, <2>7
<1>2. CASE r \notin RunIds
  <2>1. runs'[r].job = "queued" /\ runs'[r].tries = 0 BY <1>2, NewRuns
  <2>2. ASSUME NEW p \in RunIds, Reviewed(p), g = runs[p].group,
               runs'[r].number = Cardinality(ValidRuns(g)) + 2, runs'[r].number \in 2 .. 3
        PROVE  /\ runs'[r].number = Cardinality(ValidRuns(g)') + 1
               /\ groups'[g].attempts <= 2 * (runs'[r].number - 1)
    <3>1. runs[p].job = "called" /\ runs[p].job \in LiveJob
      BY <2>2 DEF Reviewed, Answered, LiveJob
    <3>2. /\ runs[p].number = Cardinality(ValidRuns(g)) + 1 /\ runs[p].tries <= 2
          /\ groups[g].attempts <= 2 * (runs[p].number - 1) + runs[p].tries
      BY <2>2, <3>1 DEF JobsOK
    <3>3. /\ Cardinality(ValidRuns(g)') = Cardinality(ValidRuns(g)) + 1
          /\ Cardinality(ValidRuns(g)) \in Nat
      BY <2>2, ValidRunsGrow, FS_CardinalityType
    <3>4. groups'[g].attempts = groups[g].attempts
      BY <2>2 DEF Reviewed, GroupRewritten, Touched
    <3>5. runs[p].tries \in Nat /\ groups[g].attempts \in Nat
      <4>1. runs[p] \in RunRows /\ groups[g] \in GroupRows BY <2>2, RowsOfRun
      <4> QED BY <4>1 DEF RunRows, GroupRows
    <3> DEFINE valid == Cardinality(ValidRuns(g))
    <3>6. /\ valid \in Nat /\ runs[p].number = valid + 1 /\ runs'[r].number = valid + 2
          /\ Cardinality(ValidRuns(g)') = valid + 1
      BY <2>2, <3>2, <3>3
    <3> HIDE DEF valid
    <3>7. 2 * (runs[p].number - 1) = 2 * valid /\ 2 * (runs'[r].number - 1) = 2 * valid + 2 BY <3>6
    <3>8. groups[g].attempts <= 2 * valid + 2 BY SMTT(30), <3>2, <3>5, <3>6, <3>7
    <3> QED BY <3>4, <3>6, <3>7, <3>8
  <2>3. ASSUME NEW v \in Videos, NEW pilot \in BOOLEAN, Opened(v, pilot), g = Len(groups) + 1,
               runs'[r].number = 1
        PROVE  /\ runs'[r].number = Cardinality(ValidRuns(g)') + 1
               /\ groups'[g].attempts <= 2 * (runs'[r].number - 1)
    <3>1. \A p \in RunIds : runs[p].group # g
      <4>1. \A p \in RunIds : runs[p].group \in 1 .. Len(groups) BY RowsOfRun DEF GroupIds
      <4>2. Len(groups) \in Nat BY DEF TypeOK
      <4> QED BY <2>3, <4>1, <4>2
    <3>2. ValidRuns(g)' = ValidRuns(g) BY <3>1, ValidRunsKept
    <3>3. Cardinality(ValidRuns(g)) = 0 BY <2>3, NoRunsYet
    <3>4. groups'[g].attempts = 0 BY <2>3 DEF Opened, GroupOpened
    <3> QED BY <2>3, <3>2, <3>3, <3>4
  <2>4. /\ runs'[r].number = Cardinality(ValidRuns(g)') + 1 /\ runs'[r].number <= 3
        /\ groups'[g].attempts <= 2 * (runs'[r].number - 1)
    BY <1>2, <2>2, <2>3, NewRuns
  <2>5. runs'[r].number \in Nat
    <3>1. runs'[r] \in RunRows BY DEF TypeOK
    <3> QED BY <3>1 DEF RunRows
  <2>6. 2 * (runs'[r].number - 1) + runs'[r].tries = 2 * (runs'[r].number - 1)
    BY <2>1, <2>5
  <2> QED BY <2>1, <2>4, <2>6
<1> QED BY <1>1, <1>2

\* Jobs are still in order.
LEMMA JobsKept ==
  ASSUME TypeOK, RowsOK, JobsOK, TypeOK', Moves
  PROVE  JobsOK'
<1>1. ASSUME NEW r \in 1 .. Len(runs'), NEW q \in 1 .. Len(runs'),
             runs'[r].job \in LiveJob, runs'[q].job \in LiveJob,
             groups'[runs'[r].group].video = groups'[runs'[q].group].video
      PROVE  r = q
  BY <1>1, JobsStayAlone
<1> DEFINE VR(g) == {q \in 1 .. Len(runs') : runs'[q].group = g /\ runs'[q].status = "succeeded"}
<1>2. ASSUME NEW r \in 1 .. Len(runs'), runs'[r].job \in LiveJob, NEW g, g = runs'[r].group
      PROVE  /\ runs'[r].number = Cardinality(VR(g)) + 1 /\ runs'[r].number <= 3
             /\ runs'[r].tries <= IF runs'[r].job = "queued" THEN 1 ELSE 2
             /\ IF runs'[r].job = "claimed"
                THEN groups'[g].attempts < 2 * (runs'[r].number - 1) + runs'[r].tries
                ELSE groups'[g].attempts <= 2 * (runs'[r].number - 1) + runs'[r].tries
  <2>1. ValidRuns(g)' = VR(g) BY DEF ValidRuns, RunsOf, RunIds
  <2> HIDE DEF VR
  <2> QED BY <1>2, <2>1, JobsStayCounted
<1>3. ASSUME NEW r \in 1 .. Len(runs'), runs'[r].job \in LiveJob
      PROVE  LET g == runs'[r].group
                 earlier == 2 * (runs'[r].number - 1)
             IN
             /\ runs'[r].number = Cardinality(VR(g)) + 1 /\ runs'[r].number <= 3
             /\ runs'[r].tries <= IF runs'[r].job = "queued" THEN 1 ELSE 2
             /\ IF runs'[r].job = "claimed" THEN groups'[g].attempts < earlier + runs'[r].tries
                ELSE groups'[g].attempts <= earlier + runs'[r].tries
  <2> HIDE DEF VR
  <2> QED BY <1>2, <1>3
<1>4. (\A r \in RunIds : runs[r].job \in LiveJob =>
         LET g == runs[r].group
             earlier == 2 * (runs[r].number - 1)
         IN
         /\ runs[r].number = Cardinality(ValidRuns(g)) + 1 /\ runs[r].number <= 3
         /\ runs[r].tries <= IF runs[r].job = "queued" THEN 1 ELSE 2
         /\ IF runs[r].job = "claimed" THEN groups[g].attempts < earlier + runs[r].tries
            ELSE groups[g].attempts <= earlier + runs[r].tries)'
  BY <1>3, Zenon DEF ValidRuns, RunsOf, RunIds
<1>5. (\A r, q \in RunIds :
         runs[r].job \in LiveJob /\ runs[q].job \in LiveJob /\ VideoOfRun(r) = VideoOfRun(q) => r = q)'
  BY <1>1 DEF VideoOfRun, RunIds
<1> QED BY <1>4, <1>5 DEF JobsOK

-----------------------------------------------------------------------------
(* Formal jobs.                                                            *)

\* A formal job is still of the current revision.
LEMMA FormalJobsStayCurrent ==
  ASSUME TypeOK, RowsOK, JobsOK, FormalRunIsCurrent, TypeOK', Moves,
         NEW r \in 1 .. Len(runs'), runs'[r].job \in LiveJob, NEW g, g = runs'[r].group,
         ~groups'[g].pilot
  PROVE  groups'[g].rev = Len(revs'[groups'[g].video]) /\ Open(runs'[r].status)
<1>0. Stable BY RowsAreStable
<1>1. CASE r \in RunIds
  <2> DEFINE v == groups[g].video
  <2>1. /\ g = runs[r].group /\ g \in GroupIds /\ v \in Videos
        /\ groups'[g].video = v /\ groups'[g].rev = groups[g].rev /\ ~groups[g].pilot
    <3>1. SameRun(runs'[r], runs[r]) BY <1>0, <1>1 DEF Stable
    <3>2. g = runs[r].group BY <3>1 DEF SameRun
    <3>3. g \in GroupIds /\ v \in Videos BY <1>1, <3>2, RowsOfRun
    <3>4. SameGroup(groups'[g], groups[g]) BY <1>0, <3>3 DEF Stable
    <3> QED BY <3>2, <3>3, <3>4 DEF SameGroup
  <2>2. runs[r].job \in LiveJob BY <1>1, JobSteps
  <2>3. groups[g].rev = Len(revs[v]) /\ Open(runs[r].status)
    BY <1>1, <2>1, <2>2 DEF FormalRunIsCurrent, VideoOfRun, Current, Open
  <2> DEFINE OK == Len(revs'[v]) = Len(revs[v]) /\ Open(runs'[r].status)
  <2>4. ASSUME NEW p \in RunIds, WorkerMove(p) PROVE OK
    <3>1. Len(revs'[v]) = Len(revs[v])
      <4>1. CASE UNCHANGED revs BY <4>1
      <4>2. CASE Decided(p) BY <2>1, <4>2 DEF Decided, RevisionRewritten, Touched
      <4> QED BY <2>4, <4>1, <4>2 DEF WorkerMove, PilotFinished, HoldPlaced, Reviewed
    <3>2. CASE p # r
      <4>1. CASE \E row \in RunRows : RunRewritten(p, row)
        BY <1>1, <2>3, <3>1, <3>2, <4>1 DEF RunRewritten, Touched, RunIds
      <4>2. CASE Reviewed(p) BY <1>1, <2>3, <3>1, <3>2, <4>2 DEF Reviewed
      <4> QED BY <2>4, <4>1, <4>2
            DEF WorkerMove, Continued, Started, Ended, PilotFinished, HoldPlaced, Decided,
                Finished, Answers
    <3>3. CASE p = r
      <4>1. ~Answers(r) /\ ~Reviewed(r) BY <1>1, JobSteps
      <4>2. ~Ended(r) BY DEF Ended, RunRewritten, Touched
      <4>3. Continued(r) \/ Started(r)
        BY <2>4, <3>3, <4>1, <4>2 DEF WorkerMove, PilotFinished, HoldPlaced, Decided, Finished
      <4> QED BY <2>3, <3>1, <4>3 DEF Continued, Started, RunRewritten, Touched, Open
    <3> QED BY <3>2, <3>3
  <2>5. ASSUME NEW u \in Videos, NEW m \in Modes, RevisionAdded(u, m), RowsMarked(u, Current(u)),
               u # v
        PROVE  OK
    <3>1. revs'[v] = revs[v] BY <2>1, <2>5 DEF RevisionAdded
    <3>2. RunMarked(runs'[r], r, u, Current(u)) BY <1>1, <2>5 DEF RowsMarked
    <3>3. runs'[r].status = runs[r].status BY <2>1, <2>5, <3>2 DEF RunMarked
    <3> QED BY <2>3, <3>1, <3>3
  <2>6. ASSUME NEW u \in Videos, Found(u) PROVE OK
    <3>1. CASE UNCHANGED <<revs, runs>> BY <2>3, <3>1
    <3>2. CASE RevisionAdded(u, "formal") /\ RowsMarked(u, Current(u)) /\ NoFormalJob(u)
      <4>1. u # v BY <1>1, <2>1, <2>2, <3>2 DEF NoFormalJob, VideoOfRun
      <4>2. "formal" \in Modes BY DEF Modes
      <4> QED BY <2>5, <3>2, <4>1, <4>2
    <3> QED BY <2>6, <3>1, <3>2 DEF Found
  <2>7. ASSUME NEW u \in Videos, NEW pilot \in BOOLEAN, Opened(u, pilot) PROVE OK
    <3>1. u # v BY <1>1, <2>1, <2>2, <2>7 DEF Opened, NoActive, VideoOfRun
    <3>2. CASE RowsAsBefore /\ UNCHANGED revs BY <1>1, <2>3, <3>2 DEF RowsAsBefore
    <3>3. CASE RowsMarked(u, Current(u)) /\ \E m \in Modes : RevisionAdded(u, m)
      BY <2>5, <3>1, <3>3
    <3> QED BY <2>7, <3>2, <3>3 DEF Opened
  <2>8. ASSUME Holding PROVE OK BY <2>3, <2>8 DEF Holding
  <2>9. OK BY <2>4, <2>6, <2>7, <2>8 DEF Moves
  <2> QED BY <2>1, <2>3, <2>9
<1>2. CASE r \notin RunIds
  <2>1. Open(runs'[r].status) BY <1>2, NewRuns DEF Open
  <2>2. ASSUME NEW p \in RunIds, Reviewed(p), g = runs[p].group
        PROVE  groups'[g].rev = Len(revs'[groups'[g].video])
    <3>1. g \in GroupIds BY <2>2, RowsOfRun
    <3>2. SameGroup(groups'[g], groups[g]) BY <1>0, <3>1 DEF Stable
    <3>3. groups[g].rev = Len(revs[groups[g].video]) /\ revs' = revs
      BY <2>2 DEF Reviewed, Answered, CurrentForRun, VideoOfRun, Current
    <3> QED BY <3>2, <3>3 DEF SameGroup
  <2>3. ASSUME NEW v \in Videos, NEW pilot \in BOOLEAN, Opened(v, pilot), g = Len(groups) + 1
        PROVE  groups'[g].rev = Len(revs'[groups'[g].video])
    BY <2>3 DEF Opened, GroupOpened, RevisionAdded, Grown, Current
  <2>4. groups'[g].rev = Len(revs'[groups'[g].video]) BY <1>2, <2>2, <2>3, NewRuns
  <2> QED BY <2>1, <2>4
<1> QED BY <1>1, <1>2

\* So they all are.
LEMMA FormalRunsKept ==
  ASSUME TypeOK, RowsOK, JobsOK, FormalRunIsCurrent, TypeOK', Moves
  PROVE  FormalRunIsCurrent'
<1>1. ASSUME NEW r \in 1 .. Len(runs'), ~groups'[runs'[r].group].pilot, runs'[r].job \in LiveJob
      PROVE  /\ groups'[runs'[r].group].rev = Len(revs'[groups'[runs'[r].group].video])
             /\ runs'[r].status \in {"pending", "running"}
  BY <1>1, FormalJobsStayCurrent DEF Open
<1> QED BY <1>1 DEF FormalRunIsCurrent, VideoOfRun, RunIds, Current

-----------------------------------------------------------------------------
(* Holds of disagreeing runs.                                              *)

\* A hold of disagreeing runs still keeps formal jobs away.
LEMMA InstabilityStays ==
  ASSUME TypeOK, RowsOK, JobsOK, InstabilityOK, FormalRunIsCurrent, TypeOK', Moves,
         NEW v \in Videos, Len(revs'[v]) > 0, revs'[v][Len(revs'[v])].mode = "formal",
         revs'[v][Len(revs'[v])].decision = 0,
         NEW h \in holds', h.video = v, h.rev = Len(revs'[v]), h.type = "evaluation_instability",
         NEW r \in 1 .. Len(runs'), runs'[r].job \in LiveJob, NEW g, g = runs'[r].group,
         groups'[g].video = v, ~groups'[g].pilot
  PROVE  FALSE
<1>0. Stable BY RowsAreStable
<1>1. Len(revs[v]) \in Nat /\ Len(revs'[v]) \in Nat /\ Len(groups) \in Nat BY DEF TypeOK
<1>2. ASSUME r \in RunIds
      PROVE  /\ g = runs[r].group /\ g \in GroupIds /\ groups[g].video = v /\ ~groups[g].pilot
             /\ runs[r].job \in LiveJob /\ VideoOfRun(r) = v
  <2>1. SameRun(runs'[r], runs[r]) BY <1>0, <1>2 DEF Stable
  <2>2. g = runs[r].group BY <2>1 DEF SameRun
  <2>3. g \in GroupIds BY <1>2, <2>2, RowsOfRun
  <2>4. SameGroup(groups'[g], groups[g]) BY <1>0, <2>3 DEF Stable
  <2>5. runs[r].job \in LiveJob BY <1>2, JobSteps
  <2> QED BY <2>2, <2>3, <2>4, <2>5 DEF SameGroup, VideoOfRun
<1>3. ASSUME revs'[v] = revs[v], h \in holds PROVE Unstable(v)
  <2>1. Current(v) > 0 /\ Len(revs[v]) = Current(v) BY <1>3 DEF Current
  <2>2. revs[v][Current(v)].mode = "formal" /\ Decision(v) = 0
    BY <1>3, <2>1 DEF Decision
  <2>3. Undecided(v) BY <2>1, <2>2, WorkflowModes
  <2>4. "evaluation_instability" \in HoldTypes(v, Current(v)) BY <1>3, <2>1 DEF HoldTypes
  <2> QED BY <2>3, <2>4 DEF Unstable
<1>4. ASSUME revs'[v] = revs[v], h \in holds, NEW p \in RunIds, runs[p].job \in LiveJob,
             VideoOfRun(p) = v, ~groups[runs[p].group].pilot
      PROVE  FALSE
  BY <1>3, <1>4 DEF Unstable, InstabilityOK
<1>5. h \in holds => h.rev <= Len(revs[v]) BY DEF RowsOK, Current
<1>6. ASSUME NEW p \in RunIds, WorkerMove(p) PROVE FALSE
  <2> DEFINE gp == runs[p].group
  <2>1. CASE Reviewed(p)
    <3>1. revs' = revs /\ holds' = holds BY <2>1 DEF Reviewed
    <3>2. runs[p].job \in LiveJob /\ ~groups[gp].pilot BY <2>1 DEF Reviewed, Answered, LiveJob
    <3>3. CASE r \in RunIds BY <1>2, <1>4, <3>1, <3>3
    <3>4. CASE r \notin RunIds
      <4>1. r = Len(runs) + 1 BY <3>4, NewRuns
      <4>2. g = gp BY <2>1, <4>1 DEF Reviewed
      <4>3. gp \in GroupIds BY RowsOfRun
      <4>4. groups[gp].video = v BY <1>0, <4>2, <4>3 DEF Stable, SameGroup
      <4> QED BY <1>4, <3>1, <3>2, <4>4 DEF VideoOfRun
    <3> QED BY <3>3, <3>4
  <2>2. CASE ~Reviewed(p)
    <3>1. r \in RunIds
      <4>1. \E row \in RunRows : RunRewritten(p, row)
        BY <1>6, <2>2 DEF WorkerMove, Continued, Started, Ended, PilotFinished, HoldPlaced, Decided,
                          Finished, Answers
      <4> QED BY <4>1 DEF RunRewritten, Touched, RunIds
    <3>2. CASE UNCHANGED <<revs, holds>> BY <1>2, <1>4, <3>1, <3>2
    <3>3. ASSUME HoldPlaced(p) \/ Decided(p), h \notin holds PROVE FALSE
      <4>1. HoldPlaced(p) /\ groups[gp].video = v
        BY <3>3 DEF HoldPlaced, Decided, HoldsOnly
      <4>2. runs[p].job \in LiveJob /\ VideoOfRun(p) = v
        BY <4>1 DEF HoldPlaced, Finished, Answers, Answered, LiveJob, VideoOfRun
      <4>3. p = r BY <1>2, <3>1, <4>2 DEF JobsOK
      <4> QED BY <3>1, <4>1, <4>3, JobSteps DEF HoldPlaced, Finished
    <3>4. CASE HoldPlaced(p)
      <4>1. revs' = revs BY <3>4 DEF HoldPlaced
      <4> QED BY <1>2, <1>4, <3>1, <3>3, <3>4, <4>1
    <3>5. CASE Decided(p)
      <4>1. PICK row \in RevisionRows :
              RevisionRewritten(groups[gp].video, groups[gp].rev, row) /\ row.decision = gp
        BY <3>5 DEF Decided
      <4>2. gp \in GroupIds /\ gp # 0 BY RowsOfRun DEF GroupIds
      <4>3. groups[gp].rev = Len(revs[groups[gp].video])
        BY <3>5 DEF Decided, Finished, Answers, Answered, CurrentForRun, VideoOfRun, Current
      <4>4. CASE groups[gp].video = v
        <5>1. Len(revs'[v]) = Len(revs[v]) /\ revs'[v][Len(revs[v])].decision = gp
          BY <4>1, <4>3, <4>4 DEF RevisionRewritten, Touched
        <5> QED BY <4>2, <5>1
      <4>5. CASE groups[gp].video # v
        <5>1. revs'[v] = revs[v] BY <4>1, <4>5 DEF RevisionRewritten
        <5> QED BY <1>2, <1>4, <3>1, <3>3, <3>5, <5>1
      <4> QED BY <4>4, <4>5
    <3> QED BY <1>6, <2>2, <3>2, <3>4, <3>5 DEF WorkerMove, PilotFinished
  <2> QED BY <2>1, <2>2
<1>7. ASSUME NEW u \in Videos, NEW m \in Modes, RevisionAdded(u, m), h \in holds
      PROVE  revs'[v] = revs[v] /\ u # v
  <2>1. CASE u = v
    <3>1. Len(revs'[v]) = Len(revs[v]) + 1 BY <1>7, <2>1 DEF RevisionAdded, Grown
    <3> QED BY <1>1, <1>5, <1>7, <3>1
  <2>2. CASE u # v BY <1>7, <2>2 DEF RevisionAdded
  <2> QED BY <2>1, <2>2
<1>8. ASSUME NEW u \in Videos, Found(u) PROVE FALSE
  <2>1. h \in holds /\ r \in RunIds BY <1>8 DEF Found, RunIds
  <2>2. revs'[v] = revs[v]
    <3>1. CASE revs' = revs BY <3>1
    <3>2. CASE RevisionAdded(u, "formal")
      <4>1. "formal" \in Modes BY DEF Modes
      <4> QED BY <1>7, <2>1, <3>2, <4>1
    <3> QED BY <1>8, <3>1, <3>2 DEF Found
  <2> QED BY <1>2, <1>4, <2>1, <2>2
<1>9. ASSUME NEW u \in Videos, NEW pilot \in BOOLEAN, Opened(u, pilot) PROVE FALSE
  <2>1. CASE revs' = revs /\ holds' = holds
    <3>1. CASE r \in RunIds BY <1>2, <1>4, <2>1, <3>1
    <3>2. CASE r \notin RunIds
      <4>1. GroupOpened(u, Current(u), pilot) /\ (~pilot => ~Unstable(u))
        <5>1. ASSUME NEW m \in Modes, RevisionAdded(u, m) PROVE FALSE
          <6>1. Len(revs'[u]) = Len(revs[u]) + 1 BY <5>1 DEF RevisionAdded, Grown
          <6>2. Len(revs[u]) \in Nat BY DEF TypeOK
          <6> QED BY <2>1, <6>1, <6>2
        <5> QED BY <1>9, <5>1 DEF Opened
      <4>2. r = Len(runs) + 1 BY <3>2, NewRuns
      <4>3. g = Len(groups) + 1 BY <4>1, <4>2 DEF GroupOpened
      <4>4. u = v /\ ~pilot BY <4>1, <4>3 DEF GroupOpened
      <4> QED BY <1>3, <2>1, <4>1, <4>4
    <3> QED BY <3>1, <3>2
  <2>2. CASE \E m \in Modes : RevisionAdded(u, m) /\ HoldsOnly(u, Current(u) + 1, "appeal")
    <3>1. PICK m \in Modes : RevisionAdded(u, m) /\ HoldsOnly(u, Current(u) + 1, "appeal")
      BY <2>2
    <3>2. h \in holds BY <3>1 DEF HoldsOnly
    <3>3. revs'[v] = revs[v] /\ u # v BY <1>7, <3>1, <3>2
    <3>4. CASE r \in RunIds BY <1>2, <1>4, <3>2, <3>3, <3>4
    <3>5. CASE r \notin RunIds
      <4>1. r = Len(runs) + 1 BY <3>5, NewRuns
      <4>2. g = Len(groups) + 1 /\ groups'[g].video = u
        BY <1>9, <4>1 DEF Opened, GroupOpened
      <4> QED BY <3>3, <4>2
    <3> QED BY <3>4, <3>5
  <2> QED BY <1>9, <2>1, <2>2 DEF Opened
<1>10. ASSUME Holding PROVE FALSE
  <2>1. h \in holds /\ r \in RunIds /\ revs' = revs BY <1>10 DEF Holding, HoldsOnly, RunIds
  <2> QED BY <1>2, <1>4, <2>1
<1> QED BY <1>6, <1>8, <1>9, <1>10 DEF Moves

\* So all of them do.
LEMMA InstabilityKept ==
  ASSUME TypeOK, RowsOK, JobsOK, InstabilityOK, FormalRunIsCurrent, TypeOK', Moves
  PROVE  InstabilityOK'
<1> SUFFICES ASSUME NEW v \in Videos, Undecided(v)',
                    ("evaluation_instability" \in HoldTypes(v, Current(v)))',
                    NEW r \in 1 .. Len(runs'), VideoOfRun(r)' = v, runs'[r].job \in LiveJob,
                    ~groups'[runs'[r].group].pilot
             PROVE  FALSE
  BY DEF InstabilityOK, RunIds
<1>1. /\ Len(revs'[v]) > 0 /\ revs'[v][Len(revs'[v])].mode = "formal"
      /\ revs'[v][Len(revs'[v])].decision = 0
  BY DEF Undecided, WorkflowMode, Decision, Current
<1>2. PICK h \in holds' : h.video = v /\ h.rev = Len(revs'[v]) /\ h.type = "evaluation_instability"
  BY DEF HoldTypes, Current
<1>3. groups'[runs'[r].group].video = v BY DEF VideoOfRun
<1> QED BY <1>1, <1>2, <1>3, InstabilityStays

-----------------------------------------------------------------------------
(* Groups that wait for a further run.                                     *)

\* A group waits because an answer asked for a further run, or waited before.
LEMMA WaitingGroups ==
  ASSUME TypeOK, RowsOK, TypeOK', Moves, NEW g \in 1 .. Len(groups'),
         groups'[g].status = "review_required"
  PROVE  \/ \E p \in RunIds : Reviewed(p) /\ runs[p].group = g
         \/ /\ g \in GroupIds /\ groups[g].status = "review_required"
            /\ \A p \in RunIds : runs[p].group = g => ~(Answers(p) \/ Reviewed(p))
<1> DEFINE Waited == /\ g \in GroupIds /\ groups[g].status = "review_required"
                     /\ \A p \in RunIds : runs[p].group = g => ~(Answers(p) \/ Reviewed(p))
           OK == (\E p \in RunIds : Reviewed(p) /\ runs[p].group = g) \/ Waited
<1>1. Len(groups) \in Nat /\ Len(runs) \in Nat BY DEF TypeOK
<1>2. ASSUME NEW p \in RunIds, Answers(p), ~Reviewed(p), runs[p].group = g PROVE FALSE
  <2>1. p \in 1 .. Len(runs) /\ runs[p].job = "called" /\ runs'[p].job = "succeeded"
    BY <1>2 DEF Answers, Answered, RunRewritten, Touched, RunIds
  <2>2. ASSUME NEW q \in RunIds, WorkerMove(q) PROVE FALSE
    <3>1. CASE q # p
      <4>1. runs'[p] = runs[p]
        <5>1. CASE \E row \in RunRows : RunRewritten(q, row)
          BY <2>1, <3>1, <5>1 DEF RunRewritten, Touched
        <5>2. CASE Reviewed(q) BY <3>1, <5>2 DEF Reviewed
        <5> QED BY <2>2, <5>1, <5>2
              DEF WorkerMove, Continued, Started, Ended, PilotFinished, HoldPlaced, Decided,
                  Finished, Answers
      <4> QED BY <2>1, <4>1
    <3>2. CASE q = p
      <4>1. ~Continued(p) BY <2>1 DEF Continued, RunRewritten, Touched
      <4>2. ~Started(p) BY <2>1 DEF Started
      <4>3. ~Ended(p)
        <5>1. SUFFICES ASSUME Ended(p) PROVE FALSE OBVIOUS
        <5>2. runs'[p].status = "failed"
          BY <1>2, <5>1 DEF Ended, RunRewritten, Touched, Answers, Answered, CurrentForRun, Open
        <5> QED BY <1>2, <5>2 DEF Answers, RunRewritten, Touched
      <4>4. Finished(p)
        BY <1>2, <2>2, <3>2, <4>1, <4>2, <4>3 DEF WorkerMove, PilotFinished, HoldPlaced, Decided
      <4> QED BY <1>2, <4>4 DEF Finished, GroupRewritten, Touched
    <3> QED BY <3>1, <3>2
  <2>3. ASSUME NEW u \in Videos, RowsMarked(u, Current(u)) PROVE FALSE
    <3>1. RunMarked(runs'[p], p, u, Current(u)) BY <2>3 DEF RowsMarked
    <3> QED BY <2>1, <3>1 DEF RunMarked
  <2>4. ASSUME NEW u \in Videos, Found(u) PROVE FALSE BY <2>1, <2>3, <2>4 DEF Found
  <2>5. ASSUME NEW u \in Videos, NEW pilot \in BOOLEAN, Opened(u, pilot) PROVE FALSE
    BY <2>1, <2>3, <2>5 DEF Opened, RowsAsBefore, RunIds
  <2>6. ~Holding BY <2>1 DEF Holding
  <2> QED BY <2>2, <2>4, <2>5, <2>6 DEF Moves
<1>3. ASSUME g \in GroupIds, groups[g].status = "review_required" PROVE OK BY <1>2, <1>3
<1>4. ASSUME NEW p \in RunIds, WorkerMove(p) PROVE OK
  <2>1. CASE groups' = groups BY <1>3, <2>1 DEF GroupIds
  <2>2. CASE Reviewed(p) /\ runs[p].group = g BY <2>2
  <2>3. ASSUME NEW row \in GroupRows, GroupRewritten(runs[p].group, row), runs[p].group # g
        PROVE  OK
    BY <1>3, <2>3 DEF GroupRewritten, Touched, GroupIds
  <2>4. ASSUME NEW row \in GroupRows, GroupRewritten(runs[p].group, row), runs[p].group = g,
               row.status \in {groups[g].status, "failed", "running", "pilot_done", "hold", "adopted"}
        PROVE  OK
    <3>1. groups'[g] = row /\ g \in GroupIds BY <2>4 DEF GroupRewritten, Touched, GroupIds
    <3> QED BY <1>3, <2>4, <3>1
  <2>5. CASE Reviewed(p) BY <2>2, <2>3, <2>5 DEF Reviewed
  <2>6. CASE Started(p) BY <2>3, <2>4, <2>6 DEF Started
  <2>7. CASE Ended(p) BY <2>3, <2>4, <2>7 DEF Ended
  <2>8. CASE Finished(p) BY <2>3, <2>4, <2>8 DEF Finished
  <2> QED BY <1>4, <2>1, <2>5, <2>6, <2>7, <2>8
        DEF WorkerMove, Continued, PilotFinished, HoldPlaced, Decided
<1>5. ASSUME NEW u \in Videos, RowsMarked(u, Current(u)), g \in GroupIds PROVE OK
  <2>1. GroupMarked(groups'[g], g, u, Current(u)) BY <1>5 DEF RowsMarked
  <2> QED BY <1>3, <1>5, <2>1 DEF GroupMarked
<1>6. ASSUME NEW u \in Videos, Found(u) PROVE OK
  <2>1. g \in GroupIds BY <1>6 DEF Found, GroupIds
  <2> QED BY <1>3, <1>5, <1>6, <2>1 DEF Found
<1>7. ASSUME NEW u \in Videos, NEW pilot \in BOOLEAN, Opened(u, pilot) PROVE OK
  <2>1. /\ Len(groups') = Len(groups) + 1
        /\ groups'[Len(groups) + 1].status = "queued"
    BY <1>7 DEF Opened, GroupOpened
  <2>2. g \in GroupIds BY <1>1, <2>1 DEF GroupIds
  <2> QED BY <1>3, <1>5, <1>7, <2>2 DEF Opened, RowsAsBefore
<1>8. ASSUME Holding PROVE OK BY <1>3, <1>8 DEF Holding, GroupIds
<1> QED BY <1>4, <1>6, <1>7, <1>8 DEF Moves

\* A group that waits for a further run still has one.
LEMMA FurtherRunKept ==
  ASSUME TypeOK, RowsOK, FurtherRunExists, TypeOK', Moves
  PROVE  FurtherRunExists'
<1> DEFINE VR(g) == {q \in 1 .. Len(runs') : runs'[q].group = g /\ runs'[q].status = "succeeded"}
<1>0. Stable BY RowsAreStable
<1>1. Len(runs) \in Nat /\ Len(runs') \in Nat BY DEF TypeOK
<1>2. ASSUME NEW g \in 1 .. Len(groups'), groups'[g].status = "review_required"
      PROVE  /\ Cardinality(VR(g)) \in 1 .. 2
             /\ \E r \in 1 .. Len(runs') :
                  runs'[r].group = g /\ runs'[r].number = Cardinality(VR(g)) + 1
  <2>1. ValidRuns(g)' = VR(g) BY DEF ValidRuns, RunsOf, RunIds
  <2> HIDE DEF VR
  <2>2. ASSUME NEW p \in RunIds, Reviewed(p), runs[p].group = g
        PROVE  /\ Cardinality(VR(g)) \in 1 .. 2
               /\ \E r \in 1 .. Len(runs') :
                    runs'[r].group = g /\ runs'[r].number = Cardinality(VR(g)) + 1
    <3>1. Cardinality(VR(g)) = Cardinality(ValidRuns(g)) + 1 BY <2>1, <2>2, ValidRunsGrow
    <3>2. PICK n \in 1 .. 2 : /\ n = Cardinality(ValidRuns(g)) + 1 /\ Len(runs') = Len(runs) + 1
                              /\ runs'[Len(runs) + 1].group = g
                              /\ runs'[Len(runs) + 1].number = n + 1
      BY <2>2 DEF Reviewed
    <3>3. Len(runs) + 1 \in 1 .. Len(runs') BY <1>1, <3>2
    <3> QED BY <3>1, <3>2, <3>3
  <2>3. ASSUME g \in GroupIds, groups[g].status = "review_required",
               \A p \in RunIds : runs[p].group = g => ~(Answers(p) \/ Reviewed(p))
        PROVE  /\ Cardinality(VR(g)) \in 1 .. 2
               /\ \E r \in 1 .. Len(runs') :
                    runs'[r].group = g /\ runs'[r].number = Cardinality(VR(g)) + 1
    <3>1. VR(g) = ValidRuns(g) BY <2>1, <2>3, ValidRunsKept
    <3>2. Cardinality(ValidRuns(g)) \in 1 .. 2 BY <2>3 DEF FurtherRunExists
    <3>3. PICK r \in RunsOf(g) : runs[r].number = Cardinality(ValidRuns(g)) + 1
      BY <2>3 DEF FurtherRunExists
    <3>4. r \in RunIds /\ runs[r].group = g BY DEF RunsOf
    <3>5. SameRun(runs'[r], runs[r]) /\ Len(runs) <= Len(runs') BY <1>0, <3>4 DEF Stable
    <3>6. r \in 1 .. Len(runs') BY <1>1, <3>4, <3>5 DEF RunIds
    <3> QED BY <3>1, <3>2, <3>3, <3>4, <3>5, <3>6 DEF SameRun
  <2> QED BY <1>2, <2>2, <2>3, WaitingGroups
<1>3. ASSUME NEW g \in 1 .. Len(groups'), groups'[g].status = "review_required"
      PROVE  LET n == Cardinality({q \in {r \in 1 .. Len(runs') : runs'[r].group = g} :
                                     runs'[q].status = "succeeded"})
             IN
             /\ n \in 1 .. 2
             /\ \E r \in {q \in 1 .. Len(runs') : runs'[q].group = g} : runs'[r].number = n + 1
  <2>1. VR(g) = {q \in {r \in 1 .. Len(runs') : runs'[r].group = g} :
                   runs'[q].status = "succeeded"}
    OBVIOUS
  <2> HIDE DEF VR
  <2> QED BY <1>2, <1>3, <2>1
<1> QED BY <1>3, Zenon DEF FurtherRunExists, ValidRuns, RunsOf, RunIds, GroupIds

-----------------------------------------------------------------------------
(* The theorems.                                                           *)

\* The invariant holds at the start.
LEMMA ContentStarts ==
  ASSUME Init
  PROVE  ContentInv
<1>1. TypeOK BY EmptySeq DEF Init, TypeOK
<1>2. /\ GroupIds = {} /\ RunIds = {} /\ \A v \in Videos : Current(v) = 0
  BY DEF Init, GroupIds, RunIds, Current
<1>3. RowsOK BY <1>2 DEF RowsOK, Init
<1>4. JobsOK BY <1>2 DEF JobsOK
<1>5. InstabilityOK BY <1>2 DEF InstabilityOK
<1> QED BY <1>1, <1>2, <1>3, <1>4, <1>5 DEF ContentInv, FormalRunIsCurrent, FurtherRunExists

\* Every step keeps the invariant.
LEMMA ContentStays ==
  ASSUME ContentInv, [Next]_vars
  PROVE  ContentInv'
<1>1. TypeOK /\ RowsOK /\ JobsOK /\ InstabilityOK /\ FormalRunIsCurrent /\ FurtherRunExists
  BY DEF ContentInv
<1>2. TypeOK' /\ Moves BY <1>1, EveryStepMoves
<1>3. RowsOK' BY <1>1, <1>2, RowsKept
<1>4. JobsOK' BY <1>1, <1>2, JobsKept
<1>5. FormalRunIsCurrent' BY <1>1, <1>2, FormalRunsKept
<1>6. InstabilityOK' BY <1>1, <1>2, InstabilityKept
<1>7. FurtherRunExists' BY <1>1, <1>2, FurtherRunKept
<1> QED BY <1>2, <1>3, <1>4, <1>5, <1>6, <1>7 DEF ContentInv

\* The rows of revisions, groups, runs and holds agree at all times, a video has one
\* job, and what replaces a revision finds no formal job (v11-content.service.ts).
THEOREM ContentInvariant == Spec => []ContentInv
<1>1. Init => ContentInv BY ContentStarts
<1>2. ContentInv /\ [Next]_vars => ContentInv' BY ContentStays
<1> QED BY <1>1, <1>2, PTL DEF Spec

\* A formal run that still has a job is of the current revision of its video: no
\* trigger, cutover or appeal supersedes work that is being paid for.
THEOREM FormalWorkIsCurrent == Spec => []FormalRunIsCurrent
<1>1. ContentInv => FormalRunIsCurrent BY DEF ContentInv
<1> QED BY <1>1, ContentInvariant, PTL

\* A group that waits for a further run has one, however many answers came before.
THEOREM ReviewsHaveRuns == Spec => []FurtherRunExists
<1>1. ContentInv => FurtherRunExists BY DEF ContentInv
<1> QED BY <1>1, ContentInvariant, PTL

\* Six technical attempts are enough: whoever sets the limit of a group to six or more
\* never refuses a run one of the attempts its job allows.
THEOREM SixAttemptsSuffice ==
  ASSUME AttemptLimit >= 6
  PROVE  Spec => []AttemptsSuffice
<1>1. ContentInv => AttemptsSuffice
  <2>1. SUFFICES ASSUME ContentInv, NEW r \in RunIds, runs[r].job = "claimed"
                 PROVE  groups[runs[r].group].attempts < AttemptLimit
    BY DEF AttemptsSuffice
  <2>2. TypeOK /\ RowsOK /\ JobsOK BY <2>1 DEF ContentInv
  <2>3. /\ runs[r].number <= 3 /\ runs[r].tries <= 2
        /\ groups[runs[r].group].attempts < 2 * (runs[r].number - 1) + runs[r].tries
    BY <2>1, <2>2 DEF JobsOK, LiveJob
  <2>4. /\ runs[r].number \in Nat /\ runs[r].tries \in Nat
        /\ groups[runs[r].group].attempts \in Nat
    <3>1. runs[r] \in RunRows /\ groups[runs[r].group] \in GroupRows BY <2>2, RowsOfRun
    <3> QED BY <3>1 DEF RunRows, GroupRows
  <2> QED BY <2>3, <2>4, ContentAssumption
<1> QED BY <1>1, ContentInvariant, PTL

\* A step leaves superseded revisions and groups as they are.
LEMMA SupersededStays ==
  ASSUME ContentInv, [Next]_vars
  PROVE  /\ \A v \in Videos : \A k \in 1 .. Current(v) :
              k < Current(v)' /\ k < Current(v) => revs'[v][k] = revs[v][k]
         /\ \A g \in GroupIds : groups[g].status = "superseded" => groups'[g].status = "superseded"
<1>1. TypeOK /\ RowsOK /\ InstabilityOK /\ FormalRunIsCurrent BY DEF ContentInv
<1>2. TypeOK' /\ Moves BY <1>1, EveryStepMoves
<1>3. ASSUME NEW v \in Videos, NEW k \in 1 .. Current(v), k < Current(v)
      PROVE  revs'[v][k] = revs[v][k]
  <2>1. ASSUME NEW r \in RunIds, WorkerMove(r) PROVE revs'[v][k] = revs[v][k]
    <3>1. CASE UNCHANGED revs BY <3>1
    <3>2. CASE Decided(r)
      <4> DEFINE g == runs[r].group
      <4>1. PICK row \in RevisionRows : RevisionRewritten(groups[g].video, groups[g].rev, row)
        BY <3>2 DEF Decided
      <4>2. groups[g].rev = Current(groups[g].video)
        BY <3>2 DEF Decided, Finished, Answers, Answered, CurrentForRun, VideoOfRun
      <4> HIDE DEF g
      <4>3. CASE groups[g].video = v
        <5>1. \A i \in 1 .. Len(revs[v]) : i # Current(v) => revs'[v][i] = revs[v][i]
          BY <4>1, <4>2, <4>3 DEF RevisionRewritten, Touched
        <5>2. k \in 1 .. Len(revs[v]) /\ k # Current(v)
          <6>1. Current(v) \in Nat BY <1>1 DEF TypeOK, Current
          <6> QED BY <1>3, <6>1 DEF Current
        <5> QED BY <5>1, <5>2
      <4>4. CASE groups[g].video # v BY <4>1, <4>4 DEF RevisionRewritten
      <4> QED BY <4>3, <4>4
    <3> QED BY <2>1, <3>1, <3>2 DEF WorkerMove, PilotFinished, HoldPlaced, Reviewed
  <2>2. ASSUME NEW u \in Videos, NEW m \in Modes, RevisionAdded(u, m)
        PROVE  revs'[v][k] = revs[v][k]
    BY <2>2 DEF RevisionAdded, Grown, Current
  <2>3. ASSUME NEW u \in Videos, Found(u) PROVE revs'[v][k] = revs[v][k]
    <3>1. "formal" \in Modes BY DEF Modes
    <3> QED BY <2>2, <2>3, <3>1 DEF Found
  <2>4. ASSUME NEW u \in Videos, NEW pilot \in BOOLEAN, Opened(u, pilot)
        PROVE  revs'[v][k] = revs[v][k]
    BY <2>2, <2>4 DEF Opened
  <2>5. ASSUME Holding PROVE revs'[v][k] = revs[v][k] BY <2>5 DEF Holding
  <2> QED BY <1>2, <2>1, <2>3, <2>4, <2>5 DEF Moves
<1>4. \A g \in GroupIds : groups[g].status = "superseded" => groups'[g].status = "superseded"
  BY <1>1, <1>2, SupersededGroupsStay
<1> QED BY <1>3, <1>4

\* A superseded revision keeps its decision and its gate, and a superseded group never
\* comes back, however late a worker is.
THEOREM SupersededForGood == Spec => SupersededIsFinal
<1>1. ContentInv /\ [Next]_vars =>
        [\A v \in Videos : \A k \in 1 .. Current(v) :
           k < Current(v)' /\ k < Current(v) => revs'[v][k] = revs[v][k]]_vars
  BY SupersededStays
<1>2. ContentInv /\ [Next]_vars =>
        [\A g \in GroupIds : groups[g].status = "superseded" => groups'[g].status = "superseded"]_vars
  BY SupersededStays
<1> QED BY <1>1, <1>2, ContentInvariant, PTL DEF Spec, SupersededIsFinal
=============================================================================
