---------------------------- MODULE PipelineProofs ----------------------------
(***************************************************************************)
(* Proofs about the two ways of a video to a final status, for any number  *)
(* of metrics, evaluations, revisions and decisions.  PipelineInv is       *)
(* inductive: both ways write one status without asking each other, and    *)
(* yet the status always tells of the newest rows, because whatever makes  *)
(* a row the newest of its kind also moves the status on.                  *)
(***************************************************************************)
EXTENDS Reports, SequenceTheorems, WellFoundedInduction, FiniteSetTheorems, TLAPS

-----------------------------------------------------------------------------
(* Sequences that grow at the end or change in one place.                  *)

Grown(s, t, row) ==
  /\ Len(t) = Len(s) + 1 /\ t[Len(s) + 1] = row
  /\ \A i \in 1 .. Len(s) : t[i] = s[i]

Touched(s, t, k, row) ==
  /\ k \in 1 .. Len(s) /\ Len(t) = Len(s) /\ t[k] = row
  /\ \A i \in 1 .. Len(s) : i # k => t[i] = s[i]

\* A row is added at the end.
LEMMA RowAdded ==
  ASSUME NEW R, NEW s \in Seq(R), NEW row \in R
  PROVE  Append(s, row) \in Seq(R) /\ Grown(s, Append(s, row), row)
BY AppendProperties DEF Grown

\* A row is replaced.
LEMMA RowReplaced ==
  ASSUME NEW R, NEW s \in Seq(R), NEW k \in 1 .. Len(s), NEW row \in R
  PROVE  [s EXCEPT ![k] = row] \in Seq(R) /\ Touched(s, [s EXCEPT ![k] = row], k, row)
BY ExceptSeq DEF Touched

\* Of a set of places in a sequence there is a last one.
LEMMA LastIsLast ==
  ASSUME NEW n \in Nat, NEW S \in SUBSET (1 .. n), S # {}
  PROVE  LastOf(S) \in S /\ \A q \in S : q <= LastOf(S)
<1> DEFINE T == {n - r : r \in S}
<1>1. T \subseteq Nat OBVIOUS
<1>2. T # {}
  <2>1. PICK z \in S : TRUE OBVIOUS
  <2>2. n - z \in T BY <2>1
  <2> QED BY <2>2
<1>3. PICK x \in T : \A y \in T : ~(<<y, x>> \in OpToRel(<, Nat))
  BY <1>1, <1>2, NatLessThanWellFounded, WFMin, Zenon
<1>4. ASSUME NEW y \in T, y < x PROVE FALSE
  <2>1. y \in Nat /\ x \in Nat BY <1>1
  <2>2. <<y, x>> \in OpToRel(<, Nat) BY <1>4, <2>1 DEF OpToRel
  <2> QED BY <1>3, <2>2
<1>5. PICK r \in S : x = n - r BY <1>3
<1>6. ASSUME NEW q \in S PROVE q <= r
  <2>1. q \in 1 .. n /\ r \in 1 .. n OBVIOUS
  <2>2. ~(n - q < n - r) BY <1>4, <1>5
  <2> QED BY <2>1, <2>2
<1> QED BY <1>6 DEF LastOf

-----------------------------------------------------------------------------
(* What the steps of the older way do, row by row.                         *)

oldRows == <<metrics, reviews, rules, finals>>
newRows == <<ratings, decisions, sealed>>

ReviewOpens ==
  /\ CanReview /\ status' = "ai_result_reviewing"
  /\ \E row \in ReviewRows : /\ row.metric = metrics /\ row.status = "running"
                             /\ Grown(reviews, reviews', row)
  /\ UNCHANGED <<active, supervised, metrics, rules, finals, flow>>

ReviewEnds ==
  /\ Running(reviews)
  /\ \E row \in ReviewRows :
       /\ row.metric = Latest(reviews).metric /\ Touched(reviews, reviews', Len(reviews), row)
       /\ \/ /\ row.status = "succeeded" /\ row.metric = metrics
             /\ status = "ai_result_reviewing" /\ status' = "pending_rule_engine"
          \/ /\ row.status = "failed"
             /\ status' = IF status = "ai_result_reviewing" THEN "ai_result_failed" ELSE status
  /\ UNCHANGED <<active, supervised, metrics, rules, finals, flow>>

RulesRun ==
  /\ CanExecute
  /\ \E row \in RuleRows : /\ row.review = Len(reviews) /\ row.sufficient = Latest(reviews).sufficient
                           /\ Grown(rules, rules', row)
  /\ status' = IF Latest(reviews).sufficient THEN "pending_final_evaluation" ELSE "pending_data"
  /\ UNCHANGED <<active, supervised, metrics, reviews, finals, flow>>

FinalOpens ==
  /\ CanEvaluate /\ status' = "pending_final_evaluation"
  /\ \E row \in FinalRows : /\ row.rule = Len(rules) /\ row.status = "running" /\ row.grade = "none"
                            /\ Grown(finals, finals', row)
  /\ UNCHANGED <<active, supervised, metrics, reviews, rules, flow>>

FinalEnds ==
  /\ Running(finals)
  /\ \E row \in FinalRows :
       /\ row.rule = Latest(finals).rule /\ row.grade = Latest(finals).grade
       /\ Touched(finals, finals', Len(finals), row)
       /\ \/ /\ row.status = "succeeded" /\ SourcesCurrent(row.rule)
             /\ status' = "pending_final_confirmation"
          \/ /\ row.status = "failed"
             /\ status' = IF status = "pending_final_evaluation" THEN "final_evaluation_failed" ELSE status
  /\ UNCHANGED <<active, supervised, metrics, reviews, rules, flow>>

FinalConfirmed(f, g) ==
  /\ CanConfirm(f) /\ status' = FinalStatus[g]
  /\ \E row \in FinalRows : /\ row.rule = finals[f].rule /\ row.status = finals[f].status
                            /\ row.grade = g /\ Touched(finals, finals', f, row)
  /\ UNCHANGED <<active, supervised, metrics, reviews, rules, flow>>

FinalMarked(f) ==
  /\ CanMark(f)
  /\ \E row \in FinalRows : /\ row.rule = finals[f].rule /\ row.status = finals[f].status
                            /\ row.grade = finals[f].grade /\ Touched(finals, finals', f, row)
  /\ UNCHANGED <<status, active, supervised, metrics, reviews, rules, flow>>

\* The result evaluation.
LEMMA ReviewSteps ==
  ASSUME TypeOK
  PROVE  /\ TriggerReview => reviews' \in Seq(ReviewRows) /\ ReviewOpens
         /\ \A s \in BOOLEAN : CompleteReview(s) => reviews' \in Seq(ReviewRows) /\ ReviewEnds
         /\ FailReview => reviews' \in Seq(ReviewRows) /\ ReviewEnds
<1>1. reviews \in Seq(ReviewRows) /\ metrics \in Nat BY DEF TypeOK
<1>2. ASSUME TriggerReview PROVE reviews' \in Seq(ReviewRows) /\ ReviewOpens
  <2> DEFINE row == [metric |-> metrics, status |-> "running", sufficient |-> FALSE]
  <2>1. row \in ReviewRows /\ row.metric = metrics /\ row.status = "running"
    BY <1>1 DEF ReviewRows, Runs
  <2>2. reviews' = Append(reviews, row) BY <1>2 DEF TriggerReview
  <2> HIDE DEF row
  <2>3. reviews' \in Seq(ReviewRows) /\ Grown(reviews, reviews', row)
    BY <1>1, <2>1, <2>2, RowAdded
  <2> QED BY <1>2, <2>1, <2>3 DEF TriggerReview, ReviewOpens
<1>3. ASSUME NEW s \in BOOLEAN, CompleteReview(s) PROVE reviews' \in Seq(ReviewRows) /\ ReviewEnds
  <2> DEFINE k == Len(reviews)
             row == [reviews[k] EXCEPT !.status = "succeeded", !.sufficient = s]
  <2>1. k \in 1 .. Len(reviews) /\ reviews[k] \in ReviewRows
    BY <1>1, <1>3 DEF CompleteReview, Running
  <2>2. reviews' = [reviews EXCEPT ![k] = row] BY <1>1, <1>3, <2>1 DEF CompleteReview
  <2> HIDE DEF k
  <2>3. row \in ReviewRows /\ row.metric = reviews[k].metric /\ row.status = "succeeded"
    BY <2>1 DEF ReviewRows, Runs
  <2> HIDE DEF row
  <2>4. reviews' \in Seq(ReviewRows) /\ Touched(reviews, reviews', k, row)
    BY <1>1, <2>1, <2>2, <2>3, RowReplaced
  <2> QED BY <1>3, <2>3, <2>4 DEF CompleteReview, ReviewEnds, Latest, k
<1>4. ASSUME FailReview PROVE reviews' \in Seq(ReviewRows) /\ ReviewEnds
  <2> DEFINE k == Len(reviews)
             row == [reviews[k] EXCEPT !.status = "failed"]
  <2>1. k \in 1 .. Len(reviews) /\ reviews[k] \in ReviewRows
    BY <1>1, <1>4 DEF FailReview, Running
  <2>2. reviews' = [reviews EXCEPT ![k] = row] BY <1>1, <1>4, <2>1 DEF FailReview
  <2> HIDE DEF k
  <2>3. row \in ReviewRows /\ row.metric = reviews[k].metric /\ row.status = "failed"
    BY <2>1 DEF ReviewRows, Runs
  <2> HIDE DEF row
  <2>4. reviews' \in Seq(ReviewRows) /\ Touched(reviews, reviews', k, row)
    BY <1>1, <2>1, <2>2, <2>3, RowReplaced
  <2> QED BY <1>4, <2>3, <2>4 DEF FailReview, ReviewEnds, Latest, k
<1> QED BY <1>2, <1>3, <1>4

\* The rule engine and the final evaluation.
LEMMA FinalSteps ==
  ASSUME TypeOK
  PROVE  /\ ExecuteRules => rules' \in Seq(RuleRows) /\ RulesRun
         /\ TriggerFinal => finals' \in Seq(FinalRows) /\ FinalOpens
         /\ CompleteFinal \/ FailFinal => finals' \in Seq(FinalRows) /\ FinalEnds
<1>1. /\ rules \in Seq(RuleRows) /\ finals \in Seq(FinalRows) /\ reviews \in Seq(ReviewRows)
      /\ Len(rules) \in Nat /\ Len(reviews) \in Nat
  BY DEF TypeOK
<1>2. ASSUME ExecuteRules PROVE rules' \in Seq(RuleRows) /\ RulesRun
  <2> DEFINE row == [review |-> Len(reviews), sufficient |-> Latest(reviews).sufficient]
  <2>1. Latest(reviews) \in ReviewRows BY <1>1, <1>2 DEF ExecuteRules, CanExecute, Latest
  <2>2. row \in RuleRows /\ row.review = Len(reviews) /\ row.sufficient = Latest(reviews).sufficient
    BY <1>1, <2>1 DEF RuleRows, ReviewRows
  <2>3. rules' = Append(rules, row) BY <1>2 DEF ExecuteRules
  <2> HIDE DEF row
  <2>4. rules' \in Seq(RuleRows) /\ Grown(rules, rules', row) BY <1>1, <2>2, <2>3, RowAdded
  <2> QED BY <1>2, <2>2, <2>4 DEF ExecuteRules, RulesRun
<1>3. ASSUME TriggerFinal PROVE finals' \in Seq(FinalRows) /\ FinalOpens
  <2> DEFINE row == [rule |-> Len(rules), status |-> "running", grade |-> "none", case |-> FALSE]
  <2>1. /\ row \in FinalRows /\ row.rule = Len(rules) /\ row.status = "running"
        /\ row.grade = "none"
    BY <1>1 DEF FinalRows, Runs
  <2>2. finals' = Append(finals, row) BY <1>3 DEF TriggerFinal
  <2> HIDE DEF row
  <2>3. finals' \in Seq(FinalRows) /\ Grown(finals, finals', row) BY <1>1, <2>1, <2>2, RowAdded
  <2> QED BY <1>3, <2>1, <2>3 DEF TriggerFinal, FinalOpens
<1>4. ASSUME NEW s \in {"succeeded", "failed"},
             finals' = [finals EXCEPT ![Len(finals)].status = s], Running(finals)
      PROVE  /\ finals' \in Seq(FinalRows)
             /\ \E row \in FinalRows :
                  /\ row.rule = Latest(finals).rule /\ row.grade = Latest(finals).grade
                  /\ Touched(finals, finals', Len(finals), row) /\ row.status = s
  <2> DEFINE k == Len(finals)
             row == [finals[k] EXCEPT !.status = s]
  <2>1. k \in 1 .. Len(finals) /\ finals[k] \in FinalRows BY <1>1, <1>4 DEF Running
  <2>2. finals' = [finals EXCEPT ![k] = row] BY <1>1, <1>4, <2>1
  <2> HIDE DEF k
  <2>3. /\ row \in FinalRows /\ row.rule = finals[k].rule /\ row.grade = finals[k].grade
        /\ row.status = s
    BY <2>1 DEF FinalRows, Runs
  <2> HIDE DEF row
  <2>4. finals' \in Seq(FinalRows) /\ Touched(finals, finals', k, row)
    BY <1>1, <2>1, <2>2, <2>3, RowReplaced
  <2> QED BY <2>3, <2>4 DEF Latest, k
<1>5. ASSUME CompleteFinal PROVE finals' \in Seq(FinalRows) /\ FinalEnds
  <2>1. finals' = [finals EXCEPT ![Len(finals)].status = "succeeded"] /\ Running(finals)
    BY <1>5 DEF CompleteFinal
  <2>2. PICK row \in FinalRows :
          /\ row.rule = Latest(finals).rule /\ row.grade = Latest(finals).grade
          /\ Touched(finals, finals', Len(finals), row) /\ row.status = "succeeded"
    BY <1>4, <2>1
  <2>3. finals' \in Seq(FinalRows) BY <1>4, <2>1
  <2>4. /\ SourcesCurrent(Latest(finals).rule) /\ status' = "pending_final_confirmation"
        /\ UNCHANGED <<active, supervised, metrics, reviews, rules, flow>>
    BY <1>5 DEF CompleteFinal
  <2> QED BY <2>1, <2>2, <2>3, <2>4 DEF FinalEnds
<1>6. ASSUME FailFinal PROVE finals' \in Seq(FinalRows) /\ FinalEnds
  <2>1. finals' = [finals EXCEPT ![Len(finals)].status = "failed"] /\ Running(finals)
    BY <1>6 DEF FailFinal
  <2>2. PICK row \in FinalRows :
          /\ row.rule = Latest(finals).rule /\ row.grade = Latest(finals).grade
          /\ Touched(finals, finals', Len(finals), row) /\ row.status = "failed"
    BY <1>4, <2>1
  <2>3. finals' \in Seq(FinalRows) BY <1>4, <2>1
  <2>4. /\ status' = IF status = "pending_final_evaluation" THEN "final_evaluation_failed" ELSE status
        /\ UNCHANGED <<active, supervised, metrics, reviews, rules, flow>>
    BY <1>6 DEF FailFinal
  <2> QED BY <2>1, <2>2, <2>3, <2>4 DEF FinalEnds
<1> QED BY <1>2, <1>3, <1>5, <1>6

\* Confirmations and marks.
LEMMA ConclusionSteps ==
  ASSUME TypeOK, NEW f \in 1 .. Len(finals)
  PROVE  /\ \A g \in Grades : Confirm(f, g) => finals' \in Seq(FinalRows) /\ FinalConfirmed(f, g)
         /\ \A c \in BOOLEAN : MarkCase(f, c) => finals' \in Seq(FinalRows) /\ FinalMarked(f)
<1>1. finals \in Seq(FinalRows) /\ finals[f] \in FinalRows BY DEF TypeOK
<1>2. ASSUME NEW g \in Grades, Confirm(f, g)
      PROVE  finals' \in Seq(FinalRows) /\ FinalConfirmed(f, g)
  <2> DEFINE row == [finals[f] EXCEPT !.grade = g]
  <2>1. /\ row \in FinalRows /\ row.rule = finals[f].rule /\ row.status = finals[f].status
        /\ row.grade = g
    BY <1>1 DEF FinalRows
  <2>2. finals' = [finals EXCEPT ![f] = row] BY <1>1, <1>2 DEF Confirm
  <2> HIDE DEF row
  <2>3. finals' \in Seq(FinalRows) /\ Touched(finals, finals', f, row)
    BY <1>1, <2>1, <2>2, RowReplaced
  <2> QED BY <1>2, <2>1, <2>3 DEF Confirm, FinalConfirmed
<1>3. ASSUME NEW c \in BOOLEAN, MarkCase(f, c)
      PROVE  finals' \in Seq(FinalRows) /\ FinalMarked(f)
  <2> DEFINE row == [finals[f] EXCEPT !.case = c]
  <2>1. /\ row \in FinalRows /\ row.rule = finals[f].rule /\ row.status = finals[f].status
        /\ row.grade = finals[f].grade
    BY <1>1 DEF FinalRows
  <2>2. finals' = [finals EXCEPT ![f] = row] BY <1>1, <1>3 DEF MarkCase
  <2> HIDE DEF row
  <2>3. finals' \in Seq(FinalRows) /\ Touched(finals, finals', f, row)
    BY <1>1, <2>1, <2>2, RowReplaced
  <2> QED BY <1>3, <2>1, <2>3 DEF MarkCase, FinalMarked
<1> QED BY <1>2, <1>3

-----------------------------------------------------------------------------
(* What the steps of the content stage do.                                 *)

\* The status is left alone, or tells what has become of the evaluation.
StatusMoves ==
  \/ status' = "ai_content_reviewing"
  \/ status' = status /\ (flow'.job = flow.job \/ flow'.job # "formal")
  \/ status' = "ai_content_failed" /\ flow'.job = "none"

Opened ==
  /\ flow'.rev = flow.rev + 1 /\ flow'.content = 0 /\ flow'.gate = "none"
  /\ flow'.adopted = flow.adopted /\ StatusMoves

Stayed ==
  /\ flow.rev # 0 \/ flow.job # "none" \/ flow'.job = flow.job
  /\ flow'.rev = flow.rev /\ flow'.content = flow.content /\ flow'.gate = flow.gate
  /\ flow'.adopted = flow.adopted /\ StatusMoves

Adopted ==
  /\ flow.job # "none" /\ flow'.job = "none" /\ flow'.rev = flow.rev
  /\ flow'.adopted = flow.adopted + 1 /\ flow'.content = flow.adopted + 1
  /\ \/ flow'.gate = flow.gate /\ status' = status
     \/ /\ flow.gate = "none"
        /\ \/ flow'.gate = "approved" /\ status' = "approved_for_publish"
           \/ flow'.gate = "revision_required" /\ status' = "revision_required"
           \/ flow'.gate = "hold" /\ status' = "ai_content_failed"

FlowMove ==
  /\ Opened \/ Stayed \/ Adopted
  /\ UNCHANGED <<active, supervised, metrics, reviews, rules, finals>>

Modes == {"unset", "formal", "shadow"}
Gates == {"none", "approved", "revision_required", "hold"}
Jobs == {"none", "formal", "rerun", "pilot"}

\* A row of the content stage.
FlowOf(k, m, c, a, g, b, h, j) ==
  [rev |-> k, mode |-> m, content |-> c, adopted |-> a, gate |-> g, clear |-> b, hold |-> h, job |-> j]

LEMMA FlowRow ==
  ASSUME NEW k \in Nat, NEW m \in Modes, NEW c \in Nat, NEW a \in Nat, NEW g \in Gates,
         NEW b \in BOOLEAN, NEW h \in SUBSET Holds, NEW j \in Jobs
  PROVE  FlowOf(k, m, c, a, g, b, h, j) \in FlowRows
BY Zenon DEF FlowOf, FlowRows, Modes, Gates, Jobs

\* The fields of the current row.
LEMMA FlowFields ==
  ASSUME TypeOK
  PROVE  /\ flow.rev \in Nat /\ flow.mode \in Modes /\ flow.content \in Nat /\ flow.adopted \in Nat
         /\ flow.gate \in Gates /\ flow.clear \in BOOLEAN /\ flow.hold \in SUBSET Holds
         /\ flow.job \in Jobs
         /\ flow = FlowOf(flow.rev, flow.mode, flow.content, flow.adopted, flow.gate, flow.clear,
                          flow.hold, flow.job)
BY DEF TypeOK, FlowOf, FlowRows, Modes, Gates, Jobs

\* A revision that supersedes the current one, with a job of the stage.
LEMMA RevisionOpened ==
  ASSUME TypeOK, NEW m \in Modes, NEW h \in SUBSET Holds, NEW j \in Jobs,
         flow' = [NextRevision(m, h) EXCEPT !.job = j]
  PROVE  /\ flow' \in FlowRows /\ flow'.rev = flow.rev + 1 /\ flow'.content = 0
         /\ flow'.gate = "none" /\ flow'.adopted = flow.adopted /\ flow'.job = j
<1>1. flow' = FlowOf(flow.rev + 1, m, 0, flow.adopted, "none", TRUE, h, j)
  BY FlowFields DEF NextRevision, FlowOf
<1>2. /\ flow.rev + 1 \in Nat /\ 0 \in Nat /\ flow.adopted \in Nat /\ "none" \in Gates
  BY FlowFields DEF Gates
<1>3. flow' \in FlowRows
  <2>1. \A b \in BOOLEAN : FlowOf(flow.rev + 1, m, 0, flow.adopted, "none", b, h, j) \in FlowRows
    BY <1>2, FlowRow
  <2>2. FlowOf(flow.rev + 1, m, 0, flow.adopted, "none", TRUE, h, j) \in FlowRows
    BY <2>1, Zenon
  <2> QED BY <1>1, <2>2, Zenon
<1> QED BY <1>1, <1>3 DEF FlowOf

\* The current revision with another set of holds, and another job of the stage.
LEMMA RevisionKept ==
  ASSUME TypeOK, NEW h \in SUBSET Holds, NEW j \in Jobs,
         flow' = [flow EXCEPT !.hold = h, !.job = j]
  PROVE  /\ flow' \in FlowRows /\ flow'.rev = flow.rev /\ flow'.content = flow.content
         /\ flow'.gate = flow.gate /\ flow'.adopted = flow.adopted /\ flow'.job = j
<1>1. flow' = FlowOf(flow.rev, flow.mode, flow.content, flow.adopted, flow.gate, flow.clear, h, j)
  BY FlowFields DEF FlowOf
<1>2. flow' \in FlowRows BY <1>1, FlowFields, FlowRow
<1> QED BY <1>1, <1>2 DEF FlowOf

\* A trigger, with the job that it leaves.
LEMMA TriggerSteps ==
  ASSUME TypeOK, NEW m \in Modes, NEW j \in Jobs, StatusMoves,
         flow' = [Triggered(m) EXCEPT !.job = j]
  PROVE  flow' \in FlowRows /\ flow'.job = j /\ (Opened \/ Stayed)
<1>1. CASE OpensRevision(m)
  <2>1. flow' = [NextRevision(m, {}) EXCEPT !.job = j] BY <1>1 DEF Triggered
  <2>2. {} \in SUBSET Holds OBVIOUS
  <2>3. /\ flow' \in FlowRows /\ flow'.rev = flow.rev + 1 /\ flow'.content = 0
        /\ flow'.gate = "none" /\ flow'.adopted = flow.adopted /\ flow'.job = j
    BY <2>1, <2>2, RevisionOpened
  <2> QED BY <2>3 DEF Opened
<1>2. CASE ~OpensRevision(m)
  <2>1. flow' = [flow EXCEPT !.job = j] /\ flow.rev # 0 BY <1>2 DEF Triggered, OpensRevision
  <2>2. flow' = [flow EXCEPT !.hold = flow.hold, !.job = j] BY <2>1, FlowFields DEF FlowOf
  <2> QED BY <2>1, <2>2, RevisionKept, FlowFields DEF Stayed
<1> QED BY <1>1, <1>2

\* The content stage.
LEMMA FlowSteps ==
  ASSUME TypeOK,
         \/ \E b \in BOOLEAN : TriggerContent(b)
         \/ TriggerPilot \/ Appeal \/ ResolveAppeal \/ ManualHold \/ Resume \/ FailContent
         \/ \E t \in {"input_incomplete", "evaluation_instability"} : HoldContent(t)
         \/ \E v \in {"passed", "revise", "flagged"} : AdoptContent(v)
  PROVE  flow' \in FlowRows /\ FlowMove
<1>1. /\ flow.rev \in Nat /\ flow.adopted \in Nat /\ flow.adopted + 1 \in Nat
      /\ flow.hold \in SUBSET Holds /\ flow.job \in Jobs /\ flow.gate \in Gates
      /\ {"none", "formal", "rerun", "pilot"} \subseteq Jobs
      /\ {"unset", "formal", "shadow"} \subseteq Modes
  BY FlowFields DEF Jobs, Modes
<1>2. ASSUME NEW found \in BOOLEAN, TriggerContent(found) PROVE flow' \in FlowRows /\ FlowMove
  <2>1. CASE found
    <3>1. flow' = Triggered("formal") /\ status' = status BY <1>2, <2>1 DEF TriggerContent
    <3>2. flow' = [Triggered("formal") EXCEPT !.job = flow.job]
      BY <3>1, FlowFields DEF Triggered, NextRevision, FlowOf
    <3>3. flow'.job = flow.job BY <3>1, FlowFields DEF Triggered, NextRevision, FlowOf
    <3> QED BY <1>1, <1>2, <3>1, <3>2, <3>3, TriggerSteps DEF TriggerContent, StatusMoves, FlowMove
  <2>2. CASE ~found
    <3>1. flow' = [Triggered("formal") EXCEPT !.job = "formal"] /\ status' = "ai_content_reviewing"
      BY <1>2, <2>2 DEF TriggerContent
    <3> QED BY <1>1, <1>2, <3>1, TriggerSteps DEF TriggerContent, StatusMoves, FlowMove
  <2> QED BY <2>1, <2>2
<1>3. ASSUME TriggerPilot PROVE flow' \in FlowRows /\ FlowMove
  <2>1. flow' = [Triggered("shadow") EXCEPT !.job = "pilot"] /\ status' = status
    BY <1>3 DEF TriggerPilot
  <2>2. flow'.job = "pilot" BY <2>1, FlowFields DEF Triggered, NextRevision, FlowOf
  <2> QED BY <1>1, <1>3, <2>1, <2>2, TriggerSteps DEF TriggerPilot, StatusMoves, FlowMove
<1>4. ASSUME Appeal PROVE flow' \in FlowRows /\ FlowMove
  <2>1. flow' = [NextRevision("unset", {"appeal"}) EXCEPT !.job = "rerun"] /\ status' = status
    BY <1>4 DEF Appeal
  <2>2. {"appeal"} \in SUBSET Holds BY DEF Holds
  <2>3. /\ flow' \in FlowRows /\ flow'.rev = flow.rev + 1 /\ flow'.content = 0
        /\ flow'.gate = "none" /\ flow'.adopted = flow.adopted /\ flow'.job = "rerun"
    BY <1>1, <2>1, <2>2, RevisionOpened
  <2> QED BY <1>4, <2>1, <2>3 DEF Appeal, Opened, StatusMoves, FlowMove
<1>5. ASSUME ResolveAppeal \/ ManualHold \/ Resume PROVE flow' \in FlowRows /\ FlowMove
  <2>1. PICK h \in SUBSET Holds : flow' = [flow EXCEPT !.hold = h]
    BY <1>1, <1>5 DEF ResolveAppeal, ManualHold, Resume, Holds
  <2>2. flow' = [flow EXCEPT !.hold = h, !.job = flow.job] BY <2>1, FlowFields DEF FlowOf
  <2>3. /\ flow' \in FlowRows /\ flow'.rev = flow.rev /\ flow'.content = flow.content
        /\ flow'.gate = flow.gate /\ flow'.adopted = flow.adopted /\ flow'.job = flow.job
    BY <1>1, <2>2, RevisionKept
  <2> QED BY <1>5, <2>3 DEF ResolveAppeal, ManualHold, Resume, Stayed, StatusMoves, FlowMove
<1>6. ASSUME FailContent PROVE flow' \in FlowRows /\ FlowMove
  <2>1. /\ flow' = [flow EXCEPT !.hold = flow.hold, !.job = "none"]
        /\ flow.job # "none" /\ status' \in {status, "ai_content_failed"}
    BY <1>6, FlowFields DEF FlowOf, FailContent
  <2>2. /\ flow' \in FlowRows /\ flow'.rev = flow.rev /\ flow'.content = flow.content
        /\ flow'.gate = flow.gate /\ flow'.adopted = flow.adopted /\ flow'.job = "none"
    BY <1>1, <2>1, RevisionKept
  <2> QED BY <1>6, <2>1, <2>2 DEF FailContent, Stayed, StatusMoves, FlowMove
<1>7. ASSUME NEW t \in {"input_incomplete", "evaluation_instability"}, HoldContent(t)
      PROVE  flow' \in FlowRows /\ FlowMove
  <2>1. /\ flow' = [flow EXCEPT !.hold = flow.hold \cup {t}, !.job = "none"]
        /\ flow.job # "none" /\ status' = "ai_content_failed"
    BY <1>7, FlowFields DEF FlowOf, HoldContent
  <2>2. flow.hold \cup {t} \in SUBSET Holds BY <1>1 DEF Holds
  <2>3. /\ flow' \in FlowRows /\ flow'.rev = flow.rev /\ flow'.content = flow.content
        /\ flow'.gate = flow.gate /\ flow'.adopted = flow.adopted /\ flow'.job = "none"
    BY <1>1, <2>1, <2>2, RevisionKept
  <2> QED BY <1>7, <2>1, <2>3 DEF HoldContent, Stayed, StatusMoves, FlowMove
<1>8. ASSUME NEW v \in {"passed", "revise", "flagged"}, AdoptContent(v)
      PROVE  flow' \in FlowRows /\ FlowMove
  <2> DEFINE held == IF flow.job = "rerun" THEN flow.hold \ {"appeal"} ELSE flow.hold
             gate == CASE v = "flagged" -> "hold"
                       [] v # "flagged" /\ held # {} -> "none"
                       [] v = "passed" /\ held = {} -> "approved"
                       [] v = "revise" /\ held = {} -> "revision_required"
             now == IF gate = "none" THEN flow.gate ELSE gate
             hold == IF gate = "hold" THEN held \cup {"compliance"} ELSE held
  <2>1. /\ flow.job # "none" /\ (gate # "none" => flow.gate = "none")
        /\ flow' = [flow EXCEPT !.content = flow.adopted + 1, !.adopted = @ + 1, !.job = "none",
                                !.gate = now, !.clear = v # "flagged", !.hold = hold]
        /\ status' = ContentStatus(gate)
        /\ UNCHANGED <<active, supervised, metrics, reviews, rules, finals>>
    BY <1>8, FlowFields DEF FlowOf, AdoptContent
  <2>2. held \in SUBSET Holds BY <1>1
  <2>3. gate \in Gates
    <3>1. v = "passed" \/ v = "revise" \/ v = "flagged" OBVIOUS
    <3> QED BY <3>1 DEF Gates
  <2> HIDE DEF held, gate
  <2>4. now \in Gates /\ hold \in SUBSET Holds BY <1>1, <2>2, <2>3 DEF Holds
  <2> HIDE DEF now, hold
  <2>5. flow' = FlowOf(flow.rev, flow.mode, flow.adopted + 1, flow.adopted + 1, now, v # "flagged",
                       hold, "none")
    BY <2>1, FlowFields DEF FlowOf
  <2>6. (v # "flagged") \in BOOLEAN /\ "none" \in Jobs BY DEF Jobs
  <2>7. flow' \in FlowRows BY <1>1, <2>4, <2>5, <2>6, FlowFields, FlowRow
  <2>8. /\ flow'.rev = flow.rev /\ flow'.gate = now /\ flow'.job = "none"
        /\ flow'.content = flow.adopted + 1 /\ flow'.adopted = flow.adopted + 1
    BY <2>5 DEF FlowOf
  <2>9. \/ flow'.gate = flow.gate /\ status' = status
        \/ /\ flow.gate = "none"
           /\ \/ flow'.gate = "approved" /\ status' = "approved_for_publish"
              \/ flow'.gate = "revision_required" /\ status' = "revision_required"
              \/ flow'.gate = "hold" /\ status' = "ai_content_failed"
    BY <2>1, <2>3, <2>8 DEF now, Gates, ContentStatus, GateStatus
  <2> QED BY <2>1, <2>7, <2>8, <2>9 DEF Adopted, FlowMove
<1> QED BY <1>2, <1>3, <1>4, <1>5, <1>6, <1>7, <1>8

-----------------------------------------------------------------------------
(* What the steps of the V1.1 way do.                                      *)

Rated ==
  /\ DataStageOpen /\ flow.content # 0
  /\ \A r \in RatingsOf(flow.rev) : ratings[r].metric # metrics
  /\ \E row \in RatingRows : /\ row.rev = flow.rev /\ row.metric = metrics
                             /\ Grown(ratings, ratings', row)
  /\ status' \in {"pending_rule_engine", "pending_data"}
  /\ UNCHANGED <<active, supervised, oldRows, flow, decisions, sealed>>

\* The status after a decision.
Outcome(g, f) ==
  status' = IF g = "R" THEN status
            ELSE IF f THEN FinalStatus[g] ELSE "pending_final_confirmation"

\* A decision is added to the current revision, a final one seals it.
Adds(row) ==
  /\ row.rev = flow.rev /\ ~row.case /\ Grown(decisions, decisions', row)
  /\ row.final => flow.rev \notin sealed /\ row.grade # "R"
  /\ sealed' = IF row.final THEN sealed \cup {flow.rev} ELSE sealed
  /\ Outcome(row.grade, row.final)
  /\ UNCHANGED <<active, supervised, oldRows, flow, ratings>>

Decided(row) ==
  /\ DataStageOpen /\ flow.content # 0 /\ row.content = flow.content /\ row.no = 1
  /\ row.rating \in RatingsOf(flow.rev) /\ ratings[row.rating].metric = metrics
  /\ \A d \in DecisionsOf(flow.rev) :
       ~(decisions[d].content = flow.content /\ decisions[d].rating = row.rating)
  /\ Adds(row)

Settled(d, row) ==
  /\ Previous(d) /\ row.content = decisions[d].content /\ row.rating = decisions[d].rating
  /\ row.no = decisions[d].no + 1 /\ row.grade # "R" /\ ratings[row.rating].metric = metrics
  /\ flow.hold = {} /\ Adds(row)

DecisionMarked(d, row) ==
  /\ decisions[d].final /\ row.final /\ row.rev = decisions[d].rev
  /\ row.content = decisions[d].content /\ row.rating = decisions[d].rating
  /\ row.no = decisions[d].no /\ row.grade = decisions[d].grade
  /\ Touched(decisions, decisions', d, row)
  /\ UNCHANGED <<status, active, supervised, oldRows, flow, ratings, sealed>>

\* What is decided, and what is added to it.
LEMMA DecisionRow ==
  ASSUME TypeOK, NEW c \in Nat, NEW r \in Nat, NEW n \in Nat, NEW g \in Grades \cup {"R"},
         NEW f \in BOOLEAN, g = "R" => ~f,
         Add(Decision(c, r, n, g, f)), Seal(f), Outcome(g, f),
         UNCHANGED <<active, supervised, oldRows, flow, ratings>>
  PROVE  /\ decisions' \in Seq(DecisionRows)
         /\ \E row \in DecisionRows :
              /\ row.content = c /\ row.rating = r /\ row.no = n /\ row.grade = g /\ Adds(row)
<1> DEFINE row == Decision(c, r, n, g, f)
<1>1. decisions \in Seq(DecisionRows) /\ flow.rev \in Nat BY DEF TypeOK, FlowRows
<1>2. /\ row.rev = flow.rev /\ row.content = c /\ row.rating = r /\ row.no = n
      /\ row.grade = g /\ row.final = f /\ row.case = FALSE
  BY DEF Decision
<1>3. row \in DecisionRows
  <2>1. FALSE \in BOOLEAN OBVIOUS
  <2> QED BY <1>1, <2>1, Zenon DEF Decision, DecisionRows
<1>4. decisions' = Append(decisions, row) BY DEF Add
<1> HIDE DEF row
<1>5. decisions' \in Seq(DecisionRows) /\ Grown(decisions, decisions', row)
  BY <1>1, <1>3, <1>4, RowAdded
<1>6. /\ row.final => flow.rev \notin sealed
      /\ sealed' = IF row.final THEN sealed \cup {flow.rev} ELSE sealed
  BY <1>2 DEF Seal, GateFree
<1>7. Adds(row) BY <1>2, <1>5, <1>6 DEF Adds
<1> QED BY <1>2, <1>3, <1>5, <1>7

\* Ratings and decisions.
LEMMA RatingSteps ==
  ASSUME TypeOK
  PROVE  /\ \A s \in BOOLEAN : RateData(s) => ratings' \in Seq(RatingRows) /\ Rated
         /\ \A g \in Grades \cup {"R"}, manual \in BOOLEAN : Decide(g, manual) =>
              decisions' \in Seq(DecisionRows) /\ \E row \in DecisionRows : Decided(row)
<1>1. /\ ratings \in Seq(RatingRows) /\ flow.rev \in Nat /\ flow.content \in Nat
      /\ metrics \in Nat
  BY DEF TypeOK, FlowRows
<1>2. ASSUME NEW s \in BOOLEAN, RateData(s) PROVE ratings' \in Seq(RatingRows) /\ Rated
  <2> DEFINE row == [rev |-> flow.rev, metric |-> metrics, sufficient |-> s]
  <2>1. row \in RatingRows /\ row.rev = flow.rev /\ row.metric = metrics
    BY <1>1 DEF RatingRows
  <2>2. ratings' = Append(ratings, row) BY <1>2 DEF RateData
  <2> HIDE DEF row
  <2>3. ratings' \in Seq(RatingRows) /\ Grown(ratings, ratings', row)
    BY <1>1, <2>1, <2>2, RowAdded
  <2>4. status' \in {"pending_rule_engine", "pending_data"} BY <1>2 DEF RateData
  <2> QED BY <1>2, <2>1, <2>3, <2>4 DEF RateData, Rated, oldRows
<1>3. ASSUME NEW g \in Grades \cup {"R"}, NEW f \in BOOLEAN, g = "R" => ~f,
             NEW r \in RatingsOf(flow.rev), ratings[r].metric = metrics,
             DataStageOpen, flow.content # 0,
             \A d \in DecisionsOf(flow.rev) :
               ~(decisions[d].content = flow.content /\ decisions[d].rating = r),
             Add(Decision(flow.content, r, 1, g, f)), Seal(f), Outcome(g, f),
             UNCHANGED <<active, supervised, oldRows, flow, ratings>>
      PROVE  decisions' \in Seq(DecisionRows) /\ \E row \in DecisionRows : Decided(row)
  <2>1. r \in Nat /\ 1 \in Nat BY <1>1 DEF RatingsOf
  <2>2. ASSUME NEW n \in Nat, Add(Decision(flow.content, r, n, g, f))
        PROVE  /\ decisions' \in Seq(DecisionRows)
               /\ \E row \in DecisionRows : /\ row.content = flow.content /\ row.rating = r
                                            /\ row.no = n /\ row.grade = g /\ Adds(row)
    BY <1>1, <1>3, <2>1, <2>2, DecisionRow
  <2> QED BY <1>3, <2>1, <2>2 DEF Decided
<1>4. ASSUME NEW g \in Grades \cup {"R"}, NEW manual \in BOOLEAN, Decide(g, manual)
      PROVE  decisions' \in Seq(DecisionRows) /\ \E row \in DecisionRows : Decided(row)
  <2>1. RatingsOf(flow.rev) \in SUBSET (1 .. Len(ratings)) /\ Len(ratings) \in Nat
    BY <1>1 DEF RatingsOf
  <2>2. RatingsOf(flow.rev) # {} BY <1>4 DEF Decide
  <2>3. LastOf(RatingsOf(flow.rev)) \in RatingsOf(flow.rev) BY <2>1, <2>2, LastIsLast
  <2>4. (g # "R" /\ ~manual) \in BOOLEAN OBVIOUS
  <2> QED BY <1>3, <1>4, <2>3, <2>4 DEF Decide, Fresh, Outcome, oldRows
<1> QED BY <1>2, <1>4

\* Resolutions, confirmations and marks.
LEMMA SettlingSteps ==
  ASSUME TypeOK, NEW d \in 1 .. Len(decisions)
  PROVE  /\ ConfirmDecision(d) \/ (\E g \in Grades, manual \in BOOLEAN : Resolve(d, g, manual)) =>
              decisions' \in Seq(DecisionRows) /\ \E row \in DecisionRows : Settled(d, row)
         /\ MarkDecision(d) =>
              decisions' \in Seq(DecisionRows) /\ \E row \in DecisionRows : DecisionMarked(d, row)
<1>1. /\ decisions \in Seq(DecisionRows) /\ decisions[d] \in DecisionRows
      /\ "R" \notin Grades
  BY DEF TypeOK, Grades
<1>2. /\ decisions[d].content \in Nat /\ decisions[d].rating \in Nat /\ decisions[d].no + 1 \in Nat
      /\ decisions[d].grade \in Grades \cup {"R"}
  <2>1. decisions[d].content \in Nat /\ decisions[d].rating \in Nat /\ decisions[d].no \in Nat
    BY <1>1 DEF DecisionRows
  <2>2. decisions[d].grade \in Grades \cup {"R"} BY <1>1 DEF DecisionRows
  <2> QED BY <2>1, <2>2
<1>3. ASSUME NEW g \in Grades, NEW f \in BOOLEAN,
             Previous(d), Unblocked, Fresh(decisions[d].rating),
             Add(Decision(decisions[d].content, decisions[d].rating, decisions[d].no + 1, g, f)),
             Seal(f), Outcome(g, f),
             UNCHANGED <<active, supervised, oldRows, flow, ratings>>
      PROVE  decisions' \in Seq(DecisionRows) /\ \E row \in DecisionRows : Settled(d, row)
  <2>1. g # "R" /\ g \in Grades \cup {"R"} BY <1>1
  <2>2. /\ decisions' \in Seq(DecisionRows)
        /\ \E row \in DecisionRows :
             /\ row.content = decisions[d].content /\ row.rating = decisions[d].rating
             /\ row.no = decisions[d].no + 1 /\ row.grade = g /\ Adds(row)
    <3> DEFINE c == decisions[d].content  r == decisions[d].rating  n == decisions[d].no + 1
    <3>1. c \in Nat /\ r \in Nat /\ n \in Nat /\ (g = "R" => ~f) BY <1>2, <2>1
    <3>2. /\ Add(Decision(c, r, n, g, f)) /\ Seal(f) /\ Outcome(g, f)
          /\ UNCHANGED <<active, supervised, oldRows, flow, ratings>>
      BY <1>3
    <3> HIDE DEF c, r, n
    <3>3. /\ decisions' \in Seq(DecisionRows)
          /\ \E row \in DecisionRows :
               row.content = c /\ row.rating = r /\ row.no = n /\ row.grade = g /\ Adds(row)
      BY <2>1, <3>1, <3>2, DecisionRow
    <3> QED BY <3>3 DEF c, r, n
  <2> QED BY <1>3, <2>1, <2>2 DEF Settled, Fresh, Unblocked
<1>4. ASSUME NEW g \in Grades, NEW manual \in BOOLEAN, Resolve(d, g, manual)
      PROVE  decisions' \in Seq(DecisionRows) /\ \E row \in DecisionRows : Settled(d, row)
  <2>1. (~manual) \in BOOLEAN OBVIOUS
  <2> QED BY <1>1, <1>3, <1>4, <2>1 DEF Resolve, Outcome, oldRows
<1>5. ASSUME ConfirmDecision(d)
      PROVE  decisions' \in Seq(DecisionRows) /\ \E row \in DecisionRows : Settled(d, row)
  <2>1. decisions[d].grade \in Grades /\ TRUE \in BOOLEAN BY <1>2, <1>5 DEF ConfirmDecision
  <2> QED BY <1>3, <1>5, <2>1 DEF ConfirmDecision, Outcome, oldRows
<1>6. ASSUME MarkDecision(d)
      PROVE  decisions' \in Seq(DecisionRows) /\ \E row \in DecisionRows : DecisionMarked(d, row)
  <2> DEFINE row == [decisions[d] EXCEPT !.case = TRUE]
  <2>1. /\ row.rev = decisions[d].rev /\ row.content = decisions[d].content
        /\ row.rating = decisions[d].rating /\ row.no = decisions[d].no
        /\ row.grade = decisions[d].grade /\ row.final = decisions[d].final /\ row \in DecisionRows
    BY <1>1 DEF DecisionRows
  <2>2. decisions' = [decisions EXCEPT ![d] = row] BY <1>1, <1>6 DEF MarkDecision
  <2> HIDE DEF row
  <2>3. decisions' \in Seq(DecisionRows) /\ Touched(decisions, decisions', d, row)
    BY <1>1, <2>1, <2>2, RowReplaced
  <2>4. decisions[d].final /\ UNCHANGED <<status, active, supervised, oldRows, flow, ratings, sealed>>
    BY <1>6 DEF MarkDecision, oldRows
  <2> QED BY <2>1, <2>3, <2>4 DEF DecisionMarked
<1> QED BY <1>4, <1>5, <1>6

-----------------------------------------------------------------------------
(* Every step is one of these.                                             *)

OldMove ==
  \/ SubmitMetrics \/ ReviewOpens \/ ReviewEnds \/ RulesRun \/ FinalOpens \/ FinalEnds
  \/ \E f \in 1 .. Len(finals) : FinalMarked(f) \/ \E g \in Grades : FinalConfirmed(f, g)
  \/ \E a \in BOOLEAN : SetRecordState(a)
  \/ FlowMove

NewMove ==
  \/ Rated
  \/ \E row \in DecisionRows : Decided(row)
  \/ \E d \in 1 .. Len(decisions), row \in DecisionRows : Settled(d, row) \/ DecisionMarked(d, row)

Idle == UNCHANGED <<status, active, supervised, oldRows, flow, ratings, decisions, sealed>>

Move == (OldMove /\ UNCHANGED newRows) \/ NewMove \/ Idle

\* Steps of the older way and of the content stage.
LEMMA OldMoves ==
  ASSUME TypeOK, PipelineNext
  PROVE  /\ OldMove
         /\ active' \in BOOLEAN /\ supervised' \in BOOLEAN /\ metrics' \in Nat /\ flow' \in FlowRows
         /\ reviews' \in Seq(ReviewRows) /\ rules' \in Seq(RuleRows) /\ finals' \in Seq(FinalRows)
<1> DEFINE Fine == /\ OldMove
                   /\ active' \in BOOLEAN /\ supervised' \in BOOLEAN /\ metrics' \in Nat
                   /\ flow' \in FlowRows /\ reviews' \in Seq(ReviewRows)
                   /\ rules' \in Seq(RuleRows) /\ finals' \in Seq(FinalRows)
<1> USE DEF OldMove
<1>1. CASE SubmitMetrics BY <1>1 DEF SubmitMetrics, TypeOK
<1>2. CASE TriggerReview \/ FailReview \/ \E s \in BOOLEAN : CompleteReview(s)
  <2>1. reviews' \in Seq(ReviewRows) /\ (ReviewOpens \/ ReviewEnds) BY <1>2, ReviewSteps
  <2> QED BY <2>1 DEF ReviewOpens, ReviewEnds, TypeOK
<1>3. CASE ExecuteRules
  <2>1. rules' \in Seq(RuleRows) /\ RulesRun BY <1>3, FinalSteps
  <2> QED BY <2>1 DEF RulesRun, TypeOK
<1>4. CASE TriggerFinal \/ CompleteFinal \/ FailFinal
  <2>1. finals' \in Seq(FinalRows) /\ (FinalOpens \/ FinalEnds) BY <1>4, FinalSteps
  <2> QED BY <2>1 DEF FinalOpens, FinalEnds, TypeOK
<1>5. ASSUME NEW f \in 1 .. Len(finals),
             (\E g \in Grades : Confirm(f, g)) \/ (\E c \in BOOLEAN : MarkCase(f, c))
      PROVE  Fine
  <2>1. /\ finals' \in Seq(FinalRows)
        /\ FinalMarked(f) \/ \E g \in Grades : FinalConfirmed(f, g)
    BY <1>5, ConclusionSteps
  <2> QED BY <2>1 DEF FinalMarked, FinalConfirmed, TypeOK
<1>6. ASSUME NEW a \in BOOLEAN, SetRecordState(a) PROVE Fine
  BY <1>6 DEF SetRecordState, TypeOK
<1>7. CASE \/ \E b \in BOOLEAN : TriggerContent(b)
           \/ TriggerPilot \/ Appeal \/ ResolveAppeal \/ ManualHold \/ Resume \/ FailContent
           \/ \E t \in {"input_incomplete", "evaluation_instability"} : HoldContent(t)
           \/ \E v \in {"passed", "revise", "flagged"} : AdoptContent(v)
  <2>1. flow' \in FlowRows /\ FlowMove BY <1>7, FlowSteps
  <2> QED BY <2>1 DEF FlowMove, TypeOK
<1> QED BY <1>1, <1>2, <1>3, <1>4, <1>5, <1>6, <1>7 DEF PipelineNext

\* Every step is one of these, and keeps the types.
LEMMA Moves ==
  ASSUME TypeOK, [Next]_vars
  PROVE  TypeOK' /\ Move
<1>1. CASE PipelineNext /\ UNCHANGED <<ratings, decisions, sealed>>
  BY <1>1, OldMoves DEF Move, newRows, TypeOK
<1>2. ASSUME NEW s \in BOOLEAN, RateData(s) PROVE TypeOK' /\ Move
  <2>1. ratings' \in Seq(RatingRows) /\ Rated BY <1>2, RatingSteps
  <2> QED BY <2>1 DEF Move, NewMove, Rated, oldRows, TypeOK
<1>3. ASSUME NEW g \in Grades \cup {"R"}, NEW manual \in BOOLEAN, Decide(g, manual)
      PROVE  TypeOK' /\ Move
  <2>1. decisions' \in Seq(DecisionRows) /\ \E row \in DecisionRows : Decided(row)
    BY <1>3, RatingSteps
  <2> QED BY <2>1 DEF Move, NewMove, Decided, Adds, oldRows, TypeOK
<1>4. ASSUME NEW d \in 1 .. Len(decisions),
             ConfirmDecision(d) \/ MarkDecision(d)
               \/ \E g \in Grades, manual \in BOOLEAN : Resolve(d, g, manual)
      PROVE  TypeOK' /\ Move
  <2>1. /\ decisions' \in Seq(DecisionRows)
        /\ \E row \in DecisionRows : Settled(d, row) \/ DecisionMarked(d, row)
    BY <1>4, SettlingSteps
  <2> QED BY <2>1 DEF Move, NewMove, Settled, Adds, DecisionMarked, oldRows, TypeOK
<1>5. CASE UNCHANGED vars BY <1>5 DEF vars, Move, Idle, oldRows, TypeOK
<1> QED BY <1>1, <1>2, <1>3, <1>4, <1>5 DEF Next

-----------------------------------------------------------------------------
(* Each part of the invariant is kept.                                     *)


\* The older way's rows.
LEMMA OldRowsKept ==
  ASSUME TypeOK, OldRowsOK, Move
  PROVE  OldRowsOK'
<1> DEFINE Review(r) ==
             /\ reviews[r].metric <= metrics
             /\ r < Len(reviews) => /\ reviews[r].status # "running"
                                    /\ ~(reviews[r].metric = metrics /\ reviews[r].status = "succeeded")
           Rule(r) == /\ rules[r].review \in 1 .. Len(reviews)
                      /\ r < Len(rules) => rules[r].review # Len(reviews)
           Final(f) ==
             /\ finals[f].rule \in 1 .. Len(rules)
             /\ finals[f].grade # "none" => finals[f].status = "succeeded"
             /\ f < Len(finals) => /\ finals[f].status # "running"
                                   /\ ~(finals[f].rule = Len(rules) /\ finals[f].status = "succeeded")
<1>0. /\ metrics \in Nat /\ Len(reviews) \in Nat /\ Len(rules) \in Nat /\ Len(finals) \in Nat
      /\ \A r \in 1 .. Len(reviews) : reviews[r] \in ReviewRows /\ reviews[r].metric \in Nat
      /\ \A r \in 1 .. Len(rules) : rules[r] \in RuleRows /\ rules[r].review \in Nat
      /\ \A f \in 1 .. Len(finals) : finals[f] \in FinalRows /\ finals[f].rule \in Nat
  <2>1. /\ metrics \in Nat /\ reviews \in Seq(ReviewRows) /\ rules \in Seq(RuleRows)
        /\ finals \in Seq(FinalRows)
    BY DEF TypeOK
  <2>2. /\ \A r \in 1 .. Len(reviews) : reviews[r] \in ReviewRows
        /\ \A r \in 1 .. Len(rules) : rules[r] \in RuleRows
        /\ \A f \in 1 .. Len(finals) : finals[f] \in FinalRows
        /\ Len(reviews) \in Nat /\ Len(rules) \in Nat /\ Len(finals) \in Nat
    BY <2>1
  <2> QED BY <2>1, <2>2 DEF ReviewRows, RuleRows, FinalRows
<1>1. /\ \A r \in 1 .. Len(reviews) : Review(r)
      /\ \A r \in 1 .. Len(rules) : Rule(r)
      /\ \A f \in 1 .. Len(finals) : Final(f)
  BY DEF OldRowsOK
<1> SUFFICES /\ \A r \in 1 .. Len(reviews') : Review(r)'
             /\ \A r \in 1 .. Len(rules') : Rule(r)'
             /\ \A f \in 1 .. Len(finals') : Final(f)'
  BY DEF OldRowsOK
<1>2. CASE SubmitMetrics BY <1>0, <1>1, <1>2 DEF SubmitMetrics
<1>3. CASE ReviewOpens
  <2>1. PICK row \in ReviewRows : /\ row.metric = metrics /\ row.status = "running"
                                  /\ Grown(reviews, reviews', row)
    BY <1>3 DEF ReviewOpens
  <2>2. \A r \in 1 .. Len(reviews) : /\ reviews[r].status # "running"
                                     /\ ~(reviews[r].metric = metrics /\ reviews[r].status = "succeeded")
    BY <1>0, <1>1, <1>3 DEF ReviewOpens, CanReview, Running, Latest
  <2>3. metrics' = metrics /\ rules' = rules /\ finals' = finals BY <1>3 DEF ReviewOpens
  <2>4. /\ Len(reviews') = Len(reviews) + 1 /\ reviews'[Len(reviews) + 1] = row
        /\ \A r \in 1 .. Len(reviews) : reviews'[r] = reviews[r]
    BY <2>1 DEF Grown
  <2>5. ASSUME NEW r \in 1 .. Len(reviews') PROVE Review(r)'
    <3>1. r \in 1 .. Len(reviews) \/ r = Len(reviews) + 1 BY <1>0, <2>4
    <3> QED BY <1>0, <1>1, <2>1, <2>2, <2>3, <2>4, <3>1
  <2>6. \A r \in 1 .. Len(rules') : Rule(r)' BY <1>0, <1>1, <2>3, <2>4
  <2>7. \A f \in 1 .. Len(finals') : Final(f)' BY <1>1, <2>3
  <2> QED BY <2>5, <2>6, <2>7
<1>4. CASE ReviewEnds
  <2>1. PICK row \in ReviewRows : /\ row.metric = Latest(reviews).metric
                                  /\ Touched(reviews, reviews', Len(reviews), row)
    BY <1>4 DEF ReviewEnds
  <2>2. metrics' = metrics /\ rules' = rules /\ finals' = finals BY <1>4 DEF ReviewEnds
  <2>3. /\ Len(reviews') = Len(reviews) /\ row.metric = reviews[Len(reviews)].metric
        /\ reviews'[Len(reviews)] = row /\ Len(reviews) \in 1 .. Len(reviews)
        /\ \A r \in 1 .. Len(reviews) : r # Len(reviews) => reviews'[r] = reviews[r]
    BY <2>1 DEF Touched, Latest
  <2>4. \A r \in 1 .. Len(reviews') : Review(r)' BY <1>0, <1>1, <2>2, <2>3
  <2> QED BY <1>1, <2>2, <2>3, <2>4
<1>5. CASE RulesRun
  <2>1. PICK row \in RuleRows : row.review = Len(reviews) /\ Grown(rules, rules', row)
    BY <1>5 DEF RulesRun
  <2>2. \A r \in 1 .. Len(rules) : rules[r].review # Len(reviews)
    BY <1>5 DEF RulesRun, CanExecute
  <2>3. Len(reviews) > 0 BY <1>5 DEF RulesRun, CanExecute
  <2>4. metrics' = metrics /\ reviews' = reviews /\ finals' = finals BY <1>5 DEF RulesRun
  <2>5. /\ Len(rules') = Len(rules) + 1 /\ rules'[Len(rules) + 1] = row
        /\ \A r \in 1 .. Len(rules) : rules'[r] = rules[r]
    BY <2>1 DEF Grown
  <2>6. ASSUME NEW r \in 1 .. Len(rules') PROVE Rule(r)'
    <3>1. Len(reviews') = Len(reviews) BY <2>4
    <3>2. CASE r = Len(rules) + 1
      <4>1. rules'[r].review = Len(reviews) /\ r = Len(rules') BY <2>1, <2>5, <3>2
      <4> QED BY <1>0, <2>3, <3>1, <4>1
    <3>3. CASE r # Len(rules) + 1
      <4>1. r \in 1 .. Len(rules) BY <1>0, <2>5, <3>3
      <4>2. rules'[r] = rules[r] BY <2>5, <4>1
      <4> QED BY <1>1, <2>2, <3>1, <4>1, <4>2
    <3> QED BY <3>2, <3>3
  <2>7. \A f \in 1 .. Len(finals') : Final(f)' BY <1>0, <1>1, <2>4, <2>5
  <2> QED BY <1>1, <2>4, <2>6, <2>7
<1>6. CASE FinalOpens
  <2>1. PICK row \in FinalRows : /\ row.rule = Len(rules) /\ row.grade = "none"
                                 /\ Grown(finals, finals', row)
    BY <1>6 DEF FinalOpens
  <2>2. /\ Len(rules) > 0
        /\ \A f \in 1 .. Len(finals) : /\ finals[f].status # "running"
                                       /\ ~(finals[f].rule = Len(rules) /\ finals[f].status = "succeeded")
    BY <1>0, <1>1, <1>6 DEF FinalOpens, CanEvaluate, Running, Latest
  <2>3. metrics' = metrics /\ reviews' = reviews /\ rules' = rules BY <1>6 DEF FinalOpens
  <2>4. /\ Len(finals') = Len(finals) + 1 /\ finals'[Len(finals) + 1] = row
        /\ \A f \in 1 .. Len(finals) : finals'[f] = finals[f]
    BY <2>1 DEF Grown
  <2>5. ASSUME NEW f \in 1 .. Len(finals) PROVE Final(f)'
    <3>1. finals[f].rule \in 1 .. Len(rules) /\ (finals[f].grade # "none" => finals[f].status = "succeeded")
      BY <1>1
    <3> QED BY <2>2, <2>3, <2>4, <3>1
  <2>6. ASSUME NEW f \in Nat, f = Len(finals) + 1 PROVE Final(f)'
    <3>1. Len(rules) \in 1 .. Len(rules) BY <1>0, <2>2
    <3> QED BY <1>0, <2>1, <2>3, <2>4, <2>6, <3>1
  <2>7. \A f \in 1 .. Len(finals') :
          f \in Nat /\ (f \in 1 .. Len(finals) \/ f = Len(finals) + 1)
    BY <1>0, <2>4
  <2>8. \A f \in 1 .. Len(finals') : Final(f)' BY <2>5, <2>6, <2>7
  <2> QED BY <1>1, <2>3, <2>8
<1>7. CASE FinalEnds
  <2>1. PICK row \in FinalRows : /\ row.rule = Latest(finals).rule /\ row.grade = Latest(finals).grade
                                 /\ Touched(finals, finals', Len(finals), row)
    BY <1>7 DEF FinalEnds
  <2>2. Latest(finals).status = "running" BY <1>7 DEF FinalEnds, Running
  <2> QED BY <1>0, <1>1, <1>7, <2>1, <2>2 DEF FinalEnds, Touched, Latest
<1>8. ASSUME NEW f \in 1 .. Len(finals),
             NEW row \in FinalRows, row.rule = finals[f].rule, row.status = finals[f].status,
             row.grade # "none" => row.status = "succeeded", Touched(finals, finals', f, row),
             UNCHANGED <<metrics, reviews, rules>>
      PROVE  \A h \in 1 .. Len(finals') : Final(h)'
  BY <1>0, <1>1, <1>8 DEF Touched
<1>9. ASSUME NEW f \in 1 .. Len(finals), NEW g \in Grades, FinalConfirmed(f, g)
      PROVE  /\ UNCHANGED <<metrics, reviews, rules>>
             /\ \A h \in 1 .. Len(finals') : Final(h)'
  <2>1. finals[f].status = "succeeded" /\ UNCHANGED <<metrics, reviews, rules>>
    BY <1>9 DEF FinalConfirmed, CanConfirm, Confirmable
  <2>2. PICK row \in FinalRows : /\ row.rule = finals[f].rule /\ row.status = finals[f].status
                                 /\ Touched(finals, finals', f, row)
    BY <1>9 DEF FinalConfirmed
  <2> QED BY <1>8, <2>1, <2>2
<1>10. ASSUME NEW f \in 1 .. Len(finals), FinalMarked(f)
       PROVE  /\ UNCHANGED <<metrics, reviews, rules>>
              /\ \A h \in 1 .. Len(finals') : Final(h)'
  <2>1. PICK row \in FinalRows : /\ row.rule = finals[f].rule /\ row.status = finals[f].status
                                 /\ row.grade = finals[f].grade /\ Touched(finals, finals', f, row)
    BY <1>10 DEF FinalMarked
  <2>2. UNCHANGED <<metrics, reviews, rules>> BY <1>10 DEF FinalMarked
  <2>3. finals[f].grade # "none" => finals[f].status = "succeeded" BY <1>1
  <2> QED BY <1>8, <2>1, <2>2, <2>3
<1>11. CASE UNCHANGED oldRows BY <1>1, <1>11 DEF oldRows
<1>12. ASSUME \/ \E a \in BOOLEAN : SetRecordState(a)
              \/ FlowMove \/ NewMove \/ Idle
       PROVE  UNCHANGED oldRows
  BY <1>12 DEF SetRecordState, FlowMove, NewMove, Rated, Decided, Settled, Adds, DecisionMarked,
               Idle, oldRows
<1> HIDE DEF Review, Rule, Final
<1> QED BY <1>1, <1>2, <1>3, <1>4, <1>5, <1>6, <1>7, <1>9, <1>10, <1>11, <1>12 DEF Move, OldMove, Review, Rule

\* Numbers of rows, revisions and contents only grow.
LEMMA NumbersGrow ==
  ASSUME TypeOK, Move
  PROVE  /\ metrics \in Nat /\ metrics' \in Nat /\ metrics <= metrics'
         /\ flow.rev \in Nat /\ flow'.rev \in Nat /\ flow.rev <= flow'.rev
         /\ flow.adopted \in Nat /\ flow'.adopted \in Nat /\ flow.adopted <= flow'.adopted
<1>1. metrics \in Nat /\ flow.rev \in Nat /\ flow.adopted \in Nat BY DEF TypeOK, FlowRows
<1>2. CASE SubmitMetrics BY <1>1, <1>2 DEF SubmitMetrics
<1>3. CASE FlowMove
  BY <1>1, <1>3 DEF FlowMove, Opened, Stayed, Adopted
<1>4. CASE UNCHANGED <<metrics, flow>> BY <1>1, <1>4
<1>5. ASSUME ~SubmitMetrics, ~FlowMove PROVE UNCHANGED <<metrics, flow>>
  BY <1>5 DEF Move, OldMove, NewMove, Idle, oldRows, ReviewOpens, ReviewEnds, RulesRun, FinalOpens,
              FinalEnds, FinalMarked, FinalConfirmed, SetRecordState, Rated, Decided, Settled, Adds,
              DecisionMarked
<1> QED BY <1>2, <1>3, <1>4, <1>5

\* What the parts say of a decision that is added or marked.
DecisionOK(d) ==
  /\ decisions[d].rating \in 1 .. Len(ratings)
  /\ ratings[decisions[d].rating].rev = decisions[d].rev
  /\ decisions[d].content <= flow.adopted
  /\ decisions[d].case => decisions[d].final
  /\ decisions[d].final => decisions[d].rev \in sealed /\ decisions[d].grade # "R"

\* The rows of the V1.1 way.
LEMMA NewRowsKept ==
  ASSUME TypeOK, NewRowsOK, StatusOK, Move
  PROVE  NewRowsOK'
<1> DEFINE Dated == \A r \in 1 .. Len(ratings) :
                      ratings[r].rev <= flow.rev /\ ratings[r].metric <= metrics
           Single == \A r, q \in 1 .. Len(ratings) :
                       ratings[r].rev = ratings[q].rev /\ ratings[r].metric = ratings[q].metric => r = q
           Sound == \A d \in 1 .. Len(decisions) : DecisionOK(d)
           Once == \A d, e \in 1 .. Len(decisions) :
                     decisions[d].final /\ decisions[e].final /\ decisions[d].rev = decisions[e].rev => d = e
<1>1. Dated /\ Single /\ Sound /\ Once BY DEF NewRowsOK, DecisionOK
<1> SUFFICES Dated' /\ Single' /\ Sound' /\ Once' BY DEF NewRowsOK, DecisionOK
<1>2. /\ metrics \in Nat /\ metrics' \in Nat /\ metrics <= metrics'
      /\ flow.rev \in Nat /\ flow'.rev \in Nat /\ flow.rev <= flow'.rev
      /\ flow.adopted \in Nat /\ flow'.adopted \in Nat /\ flow.adopted <= flow'.adopted
      /\ flow.content <= flow.adopted
  BY NumbersGrow DEF StatusOK
<1>3. /\ \A r \in 1 .. Len(ratings) : ratings[r].rev \in Nat /\ ratings[r].metric \in Nat
      /\ \A d \in 1 .. Len(decisions) :
           /\ decisions[d].rev \in Nat /\ decisions[d].content \in Nat /\ decisions[d].rating \in Nat
      /\ Len(ratings) \in Nat /\ Len(decisions) \in Nat
  <2>1. ratings \in Seq(RatingRows) /\ decisions \in Seq(DecisionRows) BY DEF TypeOK
  <2>2. /\ \A r \in 1 .. Len(ratings) : ratings[r] \in RatingRows
        /\ \A d \in 1 .. Len(decisions) : decisions[d] \in DecisionRows
        /\ Len(ratings) \in Nat /\ Len(decisions) \in Nat
    BY <2>1
  <2> QED BY <2>2 DEF RatingRows, DecisionRows
<1>4. CASE UNCHANGED newRows \/ Idle
  <2>1. UNCHANGED <<ratings, decisions, sealed>> BY <1>4 DEF newRows, Idle
  <2>2. Dated' BY <1>1, <1>2, <1>3, <2>1
  <2>3. Sound' BY <1>1, <1>2, <1>3, <2>1 DEF DecisionOK
  <2> QED BY <1>1, <2>1, <2>2, <2>3
<1>5. CASE Rated
  <2>1. PICK row \in RatingRows : /\ row.rev = flow.rev /\ row.metric = metrics
                                  /\ Grown(ratings, ratings', row)
    BY <1>5 DEF Rated
  <2>2. /\ UNCHANGED <<metrics, flow, decisions, sealed>>
        /\ \A r \in 1 .. Len(ratings) : ratings[r].rev = flow.rev => ratings[r].metric # metrics
    BY <1>5 DEF Rated, oldRows, RatingsOf
  <2>3. Dated' BY <1>1, <1>2, <1>3, <2>1, <2>2 DEF Grown
  <2>4. Single' BY <1>1, <1>3, <2>1, <2>2 DEF Grown
  <2>5. Sound' BY <1>1, <1>3, <2>1, <2>2 DEF Grown, DecisionOK
  <2> QED BY <1>1, <2>2, <2>3, <2>4, <2>5
<1>6. ASSUME NEW row \in DecisionRows, Adds(row), row.rating \in 1 .. Len(ratings),
             ratings[row.rating].rev = flow.rev, row.content <= flow.adopted
      PROVE  Dated' /\ Single' /\ Sound' /\ Once'
  <2>1. /\ UNCHANGED <<metrics, flow, ratings>> /\ Grown(decisions, decisions', row)
        /\ row.rev = flow.rev /\ ~row.case
        /\ row.final => flow.rev \notin sealed /\ row.grade # "R" /\ flow.rev \in sealed'
        /\ sealed \subseteq sealed'
    BY <1>6 DEF Adds, oldRows
  <2> DEFINE n == Len(decisions) + 1
  <2>7. /\ Len(decisions') = n /\ decisions'[n] = row
        /\ \A d \in 1 .. Len(decisions) : decisions'[d] = decisions[d]
        /\ \A d \in 1 .. n : d \in 1 .. Len(decisions) \/ d = n
    BY <1>3, <2>1 DEF Grown
  <2>5. ASSUME NEW d \in 1 .. Len(decisions) PROVE DecisionOK(d)'
    <3>1. decisions'[d] = decisions[d] /\ DecisionOK(d) BY <1>1, <2>7
    <3> QED BY <2>1, <3>1 DEF DecisionOK
  <2> HIDE DEF n
  <2>6. ASSUME NEW d \in 1 .. n, d = n PROVE DecisionOK(d)'
    <3>1. decisions'[d] = row BY <2>6, <2>7
    <3> QED BY <1>6, <2>1, <3>1 DEF DecisionOK
  <2>8. \A d \in 1 .. n : DecisionOK(d)' BY <2>5, <2>6, <2>7
  <2>2. Sound' BY <2>7, <2>8
  <2>3. \A d \in 1 .. Len(decisions) : row.final => ~(decisions[d].final /\ decisions[d].rev = flow.rev)
    BY <1>1, <2>1 DEF DecisionOK
  <2>4. Once'
    <3> SUFFICES ASSUME NEW d \in 1 .. n, NEW e \in 1 .. n,
                        decisions'[d].final, decisions'[e].final, decisions'[d].rev = decisions'[e].rev
                 PROVE  d = e
      BY <2>7
    <3> QED BY <1>1, <2>1, <2>3, <2>7
  <2> QED BY <1>1, <2>1, <2>2, <2>4
<1>7. ASSUME NEW row \in DecisionRows, Decided(row) PROVE Dated' /\ Single' /\ Sound' /\ Once'
  BY <1>2, <1>6, <1>7 DEF Decided, RatingsOf
<1>8. ASSUME NEW d \in 1 .. Len(decisions), NEW row \in DecisionRows, Settled(d, row)
      PROVE  Dated' /\ Single' /\ Sound' /\ Once'
  <2>1. decisions[d].rev = flow.rev BY <1>8 DEF Settled, Previous, DecisionsOf
  <2>2. DecisionOK(d) BY <1>1
  <2> QED BY <1>6, <1>8, <2>1, <2>2 DEF Settled, DecisionOK
<1>9. ASSUME NEW d \in 1 .. Len(decisions), NEW row \in DecisionRows, DecisionMarked(d, row)
      PROVE  Dated' /\ Single' /\ Sound' /\ Once'
  <2>1. UNCHANGED <<metrics, flow, ratings, sealed>> BY <1>9 DEF DecisionMarked, oldRows
  <2>2. Sound'
    <3>1. /\ Len(decisions') = Len(decisions) /\ decisions'[d] = row
          /\ \A e \in 1 .. Len(decisions) : e # d => decisions'[e] = decisions[e]
          /\ \A e \in 1 .. Len(decisions) : DecisionOK(e)
      BY <1>1, <1>9 DEF DecisionMarked, Touched
    <3>2. DecisionOK(d)' BY <1>9, <2>1, <3>1 DEF DecisionMarked, DecisionOK
    <3>3. ASSUME NEW e \in 1 .. Len(decisions), e # d PROVE DecisionOK(e)'
      BY <2>1, <3>1, <3>3 DEF DecisionOK
    <3> QED BY <3>1, <3>2, <3>3
  <2>3. Once' BY <1>1, <1>3, <1>9 DEF DecisionMarked, Touched
  <2> QED BY <1>1, <2>1, <2>2, <2>3
<1> HIDE DEF Dated, Single, Sound, Once
<1> QED BY <1>4, <1>5, <1>7, <1>8, <1>9 DEF Move, NewMove

\* The final statuses, one for each grade.
LEMMA FinalStatuses ==
  /\ \A g \in Grades : FinalStatus[g] \in {"final_effective", "final_low_effective", "final_invalid"}
  /\ \A g, h \in Grades : FinalStatus[g] = FinalStatus[h] => g = h
  /\ "R" \notin Grades /\ "none" \notin Grades
BY DEF FinalStatus, Grades

\* The last row after a row was added or the last one replaced.
LEMMA LatestRow ==
  ASSUME NEW s, NEW t, NEW row, Len(s) \in Nat,
         Grown(s, t, row) \/ Touched(s, t, Len(s), row)
  PROVE  Len(t) > 0 /\ Latest(t) = row
BY DEF Grown, Touched, Latest

\* What the status says.
LEMMA StatusKept ==
  ASSUME TypeOK, OldRowsOK, NewRowsOK, StatusOK, Move
  PROVE  StatusOK'
<1> DEFINE Content == /\ flow.content <= flow.adopted
                      /\ flow.content # 0 \/ flow.job # "none" \/ flow.gate # "none" => flow.rev > 0
                      /\ status \in {"submitted", "ai_content_failed"} => flow.job # "formal"
                      /\ status = "revision_required" =>
                           flow.gate = "revision_required" \/ (flow.rev > 1 /\ flow.gate = "none")
           RulePart == status = "pending_rule_engine" =>
             ratings # <<>> \/ (Newest(reviews, "succeeded") /\ Latest(reviews).metric = metrics)
           FinalPart == status \in {"pending_final_evaluation", "final_evaluation_failed"} =>
             Len(rules) > 0 /\ SourcesCurrent(Len(rules))
           ConfirmPart == status = "pending_final_confirmation" =>
             \/ ratings # <<>>
             \/ /\ Newest(finals, "succeeded") /\ Latest(finals).grade = "none"
                /\ SourcesCurrent(Latest(finals).rule)
<1>1. Content /\ RulePart /\ FinalPart /\ ConfirmPart BY DEF StatusOK
<1> SUFFICES (Content /\ RulePart /\ FinalPart /\ ConfirmPart)' BY DEF StatusOK
<1>2. /\ metrics \in Nat /\ Len(reviews) \in Nat /\ Len(rules) \in Nat /\ Len(finals) \in Nat
      /\ Len(ratings) \in Nat /\ flow.rev \in Nat /\ flow.content \in Nat /\ flow.adopted \in Nat
  BY DEF TypeOK, FlowRows
\* The parts do not hold of a status they do not name.
<1>3. ASSUME NEW s \in {"pending_result_data", "ai_result_reviewing", "ai_result_failed", "pending_data",
                        "final_effective", "final_low_effective", "final_invalid"},
             status' = s, UNCHANGED flow
      PROVE  (Content /\ RulePart /\ FinalPart /\ ConfirmPart)'
  BY <1>1, <1>3
<1>4. CASE SubmitMetrics BY <1>3, <1>4 DEF SubmitMetrics
<1>5. CASE ReviewOpens BY <1>3, <1>5 DEF ReviewOpens
<1>6. CASE ReviewEnds /\ UNCHANGED newRows
  <2>1. PICK row \in ReviewRows :
          /\ Touched(reviews, reviews', Len(reviews), row)
          /\ \/ row.status = "succeeded" /\ row.metric = metrics /\ status' = "pending_rule_engine"
             \/ /\ row.status = "failed"
                /\ status' = IF status = "ai_result_reviewing" THEN "ai_result_failed" ELSE status
    BY <1>6 DEF ReviewEnds
  <2>2. /\ UNCHANGED <<flow, metrics, rules, finals, ratings>>
        /\ Latest(reviews).status = "running"
    BY <1>6 DEF ReviewEnds, Running, newRows
  <2>3. Len(reviews') > 0 /\ Latest(reviews') = row BY <1>2, <2>1, LatestRow
  <2>4. CASE status' = "pending_rule_engine" /\ row.status = "succeeded" /\ row.metric = metrics
    BY <1>1, <2>2, <2>3, <2>4 DEF Newest
  <2>5. CASE status' = "ai_result_failed" BY <1>3, <2>2, <2>5
  <2>6. CASE status' = status
    <3>1. \A r : ~SourcesCurrent(r) BY <2>2 DEF SourcesCurrent
    <3> QED BY <1>1, <2>2, <2>6, <3>1 DEF Newest
  <2> QED BY <2>1, <2>4, <2>5, <2>6
<1>7. CASE RulesRun
  <2>1. PICK row \in RuleRows : /\ row.review = Len(reviews) /\ row.sufficient = Latest(reviews).sufficient
                                /\ Grown(rules, rules', row)
    BY <1>7 DEF RulesRun
  <2>2. /\ UNCHANGED <<flow, supervised, reviews, metrics>> /\ supervised
        /\ Latest(reviews).status = "succeeded" /\ Latest(reviews).metric = metrics
        /\ status' = IF Latest(reviews).sufficient THEN "pending_final_evaluation" ELSE "pending_data"
    BY <1>7 DEF RulesRun, CanExecute
  <2>3. CASE Latest(reviews).sufficient
    <3>1. status' = "pending_final_evaluation" BY <2>2, <2>3
    <3>2. /\ Len(rules') > 0 /\ rules'[Len(rules')] = row
      BY <1>2, <2>1 DEF Grown
    <3>3. SourcesCurrent(Len(rules))' BY <2>1, <2>2, <2>3, <3>2 DEF SourcesCurrent
    <3> QED BY <1>1, <2>2, <3>1, <3>2, <3>3
  <2>4. CASE ~Latest(reviews).sufficient BY <1>3, <2>2, <2>4
  <2> QED BY <2>3, <2>4
<1>8. CASE FinalOpens
  <2>1. /\ status' = "pending_final_evaluation" /\ UNCHANGED <<flow, supervised, metrics, reviews, rules>>
        /\ Len(rules) > 0 /\ SourcesCurrent(Len(rules))
    BY <1>8 DEF FinalOpens, CanEvaluate
  <2>2. SourcesCurrent(Len(rules))' BY <2>1 DEF SourcesCurrent
  <2> QED BY <1>1, <2>1, <2>2
<1>9. CASE FinalEnds /\ UNCHANGED newRows
  <2>1. PICK row \in FinalRows :
          /\ row.rule = Latest(finals).rule /\ row.grade = Latest(finals).grade
          /\ Touched(finals, finals', Len(finals), row)
          /\ \/ /\ row.status = "succeeded" /\ SourcesCurrent(row.rule)
                /\ status' = "pending_final_confirmation"
             \/ /\ row.status = "failed"
                /\ status' = IF status = "pending_final_evaluation" THEN "final_evaluation_failed" ELSE status
    BY <1>9 DEF FinalEnds
  <2>2. /\ UNCHANGED <<flow, supervised, metrics, reviews, rules, ratings>>
        /\ Len(finals) > 0 /\ Latest(finals).status = "running"
    BY <1>9 DEF FinalEnds, Running, newRows
  <2>3. Len(finals') > 0 /\ Latest(finals') = row BY <1>2, <2>1, LatestRow
  <2>4. Latest(finals).grade = "none" BY <1>2, <2>2 DEF OldRowsOK, Latest
  <2>5. CASE row.status = "succeeded"
    <3>1. SourcesCurrent(row.rule) /\ status' = "pending_final_confirmation" BY <2>1, <2>5
    <3>2. SourcesCurrent(Latest(finals).rule)' BY <2>2, <2>3, <3>1 DEF SourcesCurrent
    <3> QED BY <1>1, <2>1, <2>2, <2>3, <2>4, <2>5, <3>1, <3>2 DEF Newest
  <2>6. CASE status' = status
    BY <1>1, <2>2, <2>6 DEF Newest, SourcesCurrent
  <2>7. CASE status = "pending_final_evaluation" /\ status' = "final_evaluation_failed"
    BY <1>1, <2>2, <2>7 DEF SourcesCurrent
  <2> QED BY <2>1, <2>5, <2>6, <2>7
<1>10. ASSUME NEW f \in 1 .. Len(finals), NEW g \in Grades, FinalConfirmed(f, g)
       PROVE  (Content /\ RulePart /\ FinalPart /\ ConfirmPart)'
  BY <1>3, <1>10, FinalStatuses DEF FinalConfirmed
<1>11. ASSUME NEW f \in 1 .. Len(finals), FinalMarked(f)
       PROVE  (Content /\ RulePart /\ FinalPart /\ ConfirmPart)'
  BY <1>3, <1>11, FinalStatuses DEF FinalMarked, CanMark
<1>12. CASE UNCHANGED <<status, supervised, oldRows, flow, ratings>>
  BY <1>1, <1>12 DEF oldRows, Newest, SourcesCurrent
<1>13. CASE FlowMove /\ UNCHANGED newRows
  <2>1. UNCHANGED <<supervised, metrics, reviews, rules, finals, ratings>>
    BY <1>13 DEF FlowMove, newRows
  <2>2. Content'
    BY <1>1, <1>2, <1>13 DEF FlowMove, Opened, Stayed, Adopted, StatusMoves
  <2>3. status' \in {status, "ai_content_reviewing", "ai_content_failed", "approved_for_publish",
                     "revision_required"}
    BY <1>13 DEF FlowMove, Opened, Stayed, Adopted, StatusMoves
  <2>4. CASE status' = status
    <3>1. (RulePart /\ FinalPart /\ ConfirmPart)' BY <1>1, <2>1, <2>4 DEF Newest, SourcesCurrent
    <3> QED BY <2>2, <3>1
  <2>5. CASE status' # status
    <3>1. (RulePart /\ FinalPart /\ ConfirmPart)' BY <2>3, <2>5
    <3> QED BY <2>2, <3>1
  <2> QED BY <2>4, <2>5
<1>14. ASSUME UNCHANGED flow, ratings' # <<>>,
              \/ status' \in {"pending_rule_engine", "pending_data", "pending_final_confirmation"}
              \/ \E g \in Grades : status' = FinalStatus[g]
       PROVE  (Content /\ RulePart /\ FinalPart /\ ConfirmPart)'
  <2>1. status' \in {"pending_rule_engine", "pending_data", "pending_final_confirmation",
                     "final_effective", "final_low_effective", "final_invalid"}
    BY <1>14, FinalStatuses
  <2> QED BY <1>1, <1>14, <2>1
<1>15. CASE Rated
  <2>1. PICK row \in RatingRows : Grown(ratings, ratings', row) BY <1>15 DEF Rated
  <2>2. ratings' # <<>> BY <1>2, <2>1 DEF Grown
  <2> QED BY <1>14, <1>15, <2>2 DEF Rated
<1>16. ASSUME NEW row \in DecisionRows, Adds(row), row.rating \in 1 .. Len(ratings)
       PROVE  (Content /\ RulePart /\ FinalPart /\ ConfirmPart)'
  <2>1. UNCHANGED <<supervised, oldRows, flow, ratings>> /\ Outcome(row.grade, row.final)
    BY <1>16 DEF Adds
  <2>2. ratings' # <<>> BY <1>2, <1>16, <2>1
  <2>3. row.grade \in Grades \cup {"R"} BY DEF DecisionRows
  <2>4. CASE row.grade = "R" BY <1>12, <2>1, <2>4 DEF Outcome
  <2>5. CASE row.grade \in Grades BY <1>14, <2>1, <2>2, <2>5, FinalStatuses DEF Outcome
  <2> QED BY <2>3, <2>4, <2>5
<1>17. ASSUME NEW row \in DecisionRows, Decided(row)
       PROVE  (Content /\ RulePart /\ FinalPart /\ ConfirmPart)'
  BY <1>16, <1>17 DEF Decided, RatingsOf
<1>18. ASSUME NEW d \in 1 .. Len(decisions), NEW row \in DecisionRows, Settled(d, row)
       PROVE  (Content /\ RulePart /\ FinalPart /\ ConfirmPart)'
  BY <1>16, <1>18 DEF Settled, NewRowsOK
<1>19. ASSUME \/ \E a \in BOOLEAN : SetRecordState(a) /\ UNCHANGED newRows
              \/ \E d \in 1 .. Len(decisions), row \in DecisionRows : DecisionMarked(d, row)
              \/ Idle
       PROVE  UNCHANGED <<status, supervised, oldRows, flow, ratings>>
  BY <1>19 DEF SetRecordState, DecisionMarked, Idle, oldRows, newRows
<1> HIDE DEF Content, RulePart, FinalPart, ConfirmPart
<1> QED BY <1>4, <1>5, <1>6, <1>7, <1>8, <1>9, <1>10, <1>11, <1>12, <1>13, <1>15, <1>17, <1>18, <1>19
        DEF Move, OldMove, NewMove

\* Where a revision with a concluded or waiting decision can be.
Waiting == {"pending_final_confirmation", "ai_content_reviewing", "ai_content_failed"}
             \cup {FinalStatus[g] : g \in Grades}

\* What DecidedOK says of one decision.
Stands(d) ==
  decisions[d].rev = flow.rev =>
    /\ flow.gate = "approved"
    /\ decisions[d].grade # "R" =>
         ratings[decisions[d].rating].metric = metrics /\ status \in Waiting

\* The revision's decisions stand.
LEMMA DecidedKept ==
  ASSUME TypeOK, NewRowsOK, StatusOK, DecidedOK, Move
  PROVE  DecidedOK'
<1>1. \A d \in 1 .. Len(decisions) : Stands(d)
  BY DEF DecidedOK, DecisionsOf, Stands, Waiting
<1> SUFFICES ASSUME NEW d \in 1 .. Len(decisions') PROVE Stands(d)'
  BY DEF DecidedOK, DecisionsOf, Stands, Waiting
<1>2. Len(decisions) \in Nat /\ Len(ratings) \in Nat /\ flow.rev \in Nat /\ metrics \in Nat
  BY DEF TypeOK, FlowRows
<1>3. ASSUME NEW e \in 1 .. Len(decisions)
      PROVE  /\ decisions[e].rating \in 1 .. Len(ratings)
             /\ ratings[decisions[e].rating].rev = decisions[e].rev
             /\ decisions[e].rev \in Nat /\ decisions[e].rev <= flow.rev
  <2>1. decisions[e] \in DecisionRows BY DEF TypeOK
  <2> QED BY <2>1 DEF NewRowsOK, DecisionRows
<1>4. "pending_final_confirmation" \in Waiting /\ (\A g \in Grades : FinalStatus[g] \in Waiting)
  BY DEF Waiting
<1>5. \A s \in Waiting : s \in {"pending_final_confirmation", "ai_content_reviewing", "ai_content_failed",
                                "final_effective", "final_low_effective", "final_invalid"}
  BY FinalStatuses DEF Waiting
\* Nothing moves that the decisions are about, and the status stays where they are or was not there.
<1>6. ASSUME UNCHANGED <<metrics, flow, ratings, decisions>>,
             status \notin Waiting \/ status' = status \/ status' \in Waiting
      PROVE  Stands(d)'
  BY <1>1, <1>6 DEF Stands
<1>7. CASE SubmitMetrics /\ UNCHANGED newRows
  <2>1. status \notin Waiting /\ UNCHANGED <<flow, ratings, decisions>>
    BY <1>5, <1>7 DEF SubmitMetrics, CanSubmit, newRows
  <2> QED BY <1>1, <2>1 DEF Stands
<1>8. ASSUME ReviewOpens \/ ReviewEnds \/ RulesRun \/ FinalOpens \/ FinalEnds, UNCHANGED newRows
      PROVE  Stands(d)'
  <2>1. UNCHANGED <<metrics, flow, ratings, decisions>>
    BY <1>8 DEF ReviewOpens, ReviewEnds, RulesRun, FinalOpens, FinalEnds, newRows
  <2>2. \/ status \in {"pending_result_data", "ai_result_failed", "ai_result_reviewing",
                       "pending_rule_engine", "pending_final_evaluation", "final_evaluation_failed"}
        \/ status' = status \/ status' = "pending_final_confirmation"
    BY <1>8 DEF ReviewOpens, ReviewEnds, RulesRun, FinalOpens, FinalEnds, CanReview, CanExecute,
                CanEvaluate
  <2> QED BY <1>4, <1>5, <1>6, <2>1, <2>2
<1>9. ASSUME NEW f \in 1 .. Len(finals), FinalMarked(f) \/ \E g \in Grades : FinalConfirmed(f, g),
             UNCHANGED newRows
      PROVE  Stands(d)'
  BY <1>4, <1>6, <1>9 DEF FinalMarked, FinalConfirmed, newRows
<1>10. CASE FlowMove /\ UNCHANGED newRows
  <2>1. UNCHANGED <<metrics, ratings, decisions>> BY <1>10 DEF FlowMove, newRows
  <2>2. \/ Opened
        \/ /\ flow'.rev = flow.rev /\ flow'.gate = flow.gate
           /\ status' \in {status, "ai_content_reviewing", "ai_content_failed"}
        \/ flow'.rev = flow.rev /\ flow.gate = "none"
    BY <1>10 DEF FlowMove, Stayed, Adopted, StatusMoves
  <2>3. decisions'[d] = decisions[d] /\ Stands(d) /\ d \in 1 .. Len(decisions) BY <1>1, <2>1
  <2>4. CASE Opened
    <3>1. decisions[d].rev # flow'.rev BY <1>2, <1>3, <2>3, <2>4 DEF Opened
    <3> QED BY <2>3, <3>1 DEF Stands
  <2>5. CASE /\ flow'.rev = flow.rev /\ flow'.gate = flow.gate
             /\ status' \in {status, "ai_content_reviewing", "ai_content_failed"}
    BY <2>1, <2>3, <2>5 DEF Stands, Waiting
  <2>6. CASE flow'.rev = flow.rev /\ flow.gate = "none" BY <2>1, <2>3, <2>6 DEF Stands
  <2> QED BY <2>2, <2>4, <2>5, <2>6
<1>11. CASE Rated
  <2>1. PICK row \in RatingRows : Grown(ratings, ratings', row) BY <1>11 DEF Rated
  <2>2. /\ UNCHANGED <<metrics, flow, decisions>>
        /\ \A r \in 1 .. Len(ratings) : ratings[r].rev = flow.rev => ratings[r].metric # metrics
    BY <1>11 DEF Rated, oldRows, RatingsOf
  <2>3. d \in 1 .. Len(decisions) /\ decisions'[d] = decisions[d] /\ Stands(d) BY <1>1, <2>2
  <2>4. ratings'[decisions[d].rating] = ratings[decisions[d].rating] BY <1>3, <2>1, <2>3 DEF Grown
  <2> QED BY <1>3, <2>2, <2>3, <2>4 DEF Stands
<1>12. ASSUME NEW row \in DecisionRows, Adds(row), flow.gate = "approved",
              ratings[row.rating].metric = metrics
       PROVE  Stands(d)'
  <2>1. /\ UNCHANGED <<metrics, flow, ratings>> /\ Grown(decisions, decisions', row)
        /\ Outcome(row.grade, row.final)
    BY <1>12 DEF Adds, oldRows
  <2>2. row.grade \in Grades \cup {"R"} BY DEF DecisionRows
  <2>3. row.grade # "R" => status' \in Waiting BY <1>4, <2>1, <2>2 DEF Outcome
  <2>4. row.grade = "R" => status' = status BY <2>1 DEF Outcome
  <2>5. CASE d \in 1 .. Len(decisions)
    <3>1. decisions'[d] = decisions[d] /\ Stands(d) BY <1>1, <2>1, <2>5 DEF Grown
    <3> QED BY <2>1, <2>3, <2>4, <3>1 DEF Stands
  <2>6. CASE decisions'[d] = row BY <1>12, <2>1, <2>3, <2>6 DEF Stands
  <2> QED BY <1>2, <2>1, <2>5, <2>6 DEF Grown
<1>13. ASSUME NEW row \in DecisionRows, Decided(row) PROVE Stands(d)'
  <2>1. flow.gate = "approved" BY <1>2, <1>13 DEF Decided, DataStageOpen, StatusOK
  <2> QED BY <1>12, <1>13, <2>1 DEF Decided
<1>14. ASSUME NEW e \in 1 .. Len(decisions), NEW row \in DecisionRows, Settled(e, row)
       PROVE  Stands(d)'
  <2>1. flow.gate = "approved" BY <1>1, <1>14 DEF Settled, Previous, DecisionsOf, Stands
  <2> QED BY <1>12, <1>14, <2>1 DEF Settled
<1>15. ASSUME NEW e \in 1 .. Len(decisions), NEW row \in DecisionRows, DecisionMarked(e, row)
       PROVE  Stands(d)'
  <2>1. UNCHANGED <<status, metrics, flow, ratings>> BY <1>15 DEF DecisionMarked, oldRows
  <2>2. CASE d = e
    <3>1. /\ decisions'[d] = row /\ row.rev = decisions[d].rev /\ row.rating = decisions[d].rating
          /\ row.grade = decisions[d].grade /\ Stands(d)
      BY <1>1, <1>15, <2>2 DEF DecisionMarked, Touched
    <3> QED BY <2>1, <3>1 DEF Stands
  <2>3. CASE d # e
    <3>1. decisions'[d] = decisions[d] /\ Stands(d)
      BY <1>1, <1>15, <2>3 DEF DecisionMarked, Touched
    <3> QED BY <2>1, <3>1 DEF Stands
  <2> QED BY <2>2, <2>3
<1>16. ASSUME ((\E a \in BOOLEAN : SetRecordState(a)) /\ UNCHANGED newRows) \/ Idle PROVE Stands(d)'
  BY <1>6, <1>16 DEF SetRecordState, Idle, oldRows, newRows
<1> HIDE DEF Stands
<1> QED BY <1>7, <1>8, <1>9, <1>10, <1>11, <1>13, <1>14, <1>15, <1>16 DEF Move, OldMove, NewMove

\* The two ways to found a final status.
EvaluationSays(g) ==
  \E f \in 1 .. Len(finals) :
    finals[f].grade = g /\ reviews[rules[finals[f].rule].review].metric = metrics

DecisionSays(g) ==
  \E d \in 1 .. Len(decisions) :
    /\ decisions[d].final /\ decisions[d].grade = g /\ ratings[decisions[d].rating].metric = metrics
    /\ decisions[d].rev = flow.rev \/ flow.gate # "approved"

\* A confirmed evaluation founds the status as long as the rows keep what it says.
LEMMA EvaluationKept ==
  ASSUME OldRowsOK, NEW g \in Grades, EvaluationSays(g),
         metrics' = metrics, rules' = rules, Len(finals') = Len(finals),
         \A f \in 1 .. Len(finals) : /\ finals'[f].rule = finals[f].rule
                                     /\ finals'[f].grade = finals[f].grade,
         \A r \in 1 .. Len(reviews) : reviews'[r].metric = reviews[r].metric
  PROVE  EvaluationSays(g)'
<1>1. PICK f \in 1 .. Len(finals) :
        finals[f].grade = g /\ reviews[rules[finals[f].rule].review].metric = metrics
  BY DEF EvaluationSays
<1>2. /\ f \in 1 .. Len(finals') /\ finals'[f].grade = g
      /\ rules'[finals'[f].rule].review = rules[finals[f].rule].review
  BY <1>1
<1>3. rules[finals[f].rule].review \in 1 .. Len(reviews) BY DEF OldRowsOK
<1>4. reviews'[rules[finals[f].rule].review].metric = metrics' BY <1>1, <1>3
<1> QED BY <1>2, <1>4 DEF EvaluationSays

\* So does a final decision, until another revision passes its gate.
LEMMA DecisionKept ==
  ASSUME NEW g \in Grades, DecisionSays(g),
         metrics' = metrics, ratings' = ratings,
         Len(decisions) \in Nat, Len(decisions') \in Nat, Len(decisions) <= Len(decisions'),
         \A d \in 1 .. Len(decisions) : /\ decisions'[d].final = decisions[d].final
                                        /\ decisions'[d].grade = decisions[d].grade
                                        /\ decisions'[d].rating = decisions[d].rating
                                        /\ decisions'[d].rev = decisions[d].rev,
         flow'.gate # "approved" \/ (flow'.rev = flow.rev /\ flow'.gate = flow.gate)
  PROVE  DecisionSays(g)'
<1>1. PICK d \in 1 .. Len(decisions) :
        /\ decisions[d].final /\ decisions[d].grade = g /\ ratings[decisions[d].rating].metric = metrics
        /\ decisions[d].rev = flow.rev \/ flow.gate # "approved"
  BY DEF DecisionSays
<1>2. /\ d \in 1 .. Len(decisions') /\ decisions'[d].final /\ decisions'[d].grade = g
      /\ ratings'[decisions'[d].rating].metric = metrics'
      /\ decisions'[d].rev = flow'.rev \/ flow'.gate # "approved"
  BY <1>1
<1> QED BY <1>2 DEF DecisionSays

\* A final status stays founded.
LEMMA ConclusionsKept ==
  ASSUME TypeOK, OldRowsOK, NewRowsOK, StatusOK, ConcludedOK, Move
  PROVE  ConcludedOK'
<1>1. \A g \in Grades : status = FinalStatus[g] => EvaluationSays(g) \/ DecisionSays(g)
  BY DEF ConcludedOK, EvaluationSays, DecisionSays
<1> SUFFICES ASSUME NEW g \in Grades, status' = FinalStatus[g]
             PROVE  EvaluationSays(g)' \/ DecisionSays(g)'
  BY DEF ConcludedOK, EvaluationSays, DecisionSays
<1>2. status' \in {"final_effective", "final_low_effective", "final_invalid"} BY FinalStatuses
<1>3. /\ Len(reviews) \in Nat /\ Len(rules) \in Nat /\ Len(finals) \in Nat
      /\ Len(ratings) \in Nat /\ Len(decisions) \in Nat
  BY DEF TypeOK
\* Neither the status nor a founding row changes.
<1>4. ASSUME status' = status, UNCHANGED <<metrics, rules, flow, ratings, decisions>>,
             Len(finals') = Len(finals),
             \A f \in 1 .. Len(finals) : /\ finals'[f].rule = finals[f].rule
                                         /\ finals'[f].grade = finals[f].grade,
             \A r \in 1 .. Len(reviews) : reviews'[r].metric = reviews[r].metric
      PROVE  EvaluationSays(g)' \/ DecisionSays(g)'
  <2>1. CASE EvaluationSays(g) BY <1>4, <2>1, EvaluationKept
  <2>2. CASE DecisionSays(g) BY <1>3, <1>4, <2>2, DecisionKept
  <2> QED BY <1>1, <1>4, <2>1, <2>2
<1>5. CASE SubmitMetrics \/ ReviewOpens \/ RulesRun \/ FinalOpens \/ Rated
  BY <1>2, <1>5 DEF SubmitMetrics, ReviewOpens, RulesRun, FinalOpens, Rated
<1>6. CASE ReviewEnds /\ UNCHANGED newRows
  <2>1. PICK row \in ReviewRows : /\ row.metric = Latest(reviews).metric
                                  /\ Touched(reviews, reviews', Len(reviews), row)
    BY <1>6 DEF ReviewEnds
  <2>2. status' = status /\ UNCHANGED <<metrics, rules, finals, flow, ratings, decisions>>
    BY <1>2, <1>6 DEF ReviewEnds, newRows
  <2>3. \A r \in 1 .. Len(reviews) : reviews'[r].metric = reviews[r].metric
    BY <2>1 DEF Touched, Latest
  <2> QED BY <1>4, <2>2, <2>3
<1>7. CASE FinalEnds /\ UNCHANGED newRows
  <2>1. PICK row \in FinalRows : /\ row.rule = Latest(finals).rule /\ row.grade = Latest(finals).grade
                                 /\ Touched(finals, finals', Len(finals), row)
    BY <1>7 DEF FinalEnds
  <2>2. status' = status /\ UNCHANGED <<metrics, rules, reviews, flow, ratings, decisions>>
    BY <1>2, <1>7 DEF FinalEnds, newRows
  <2>3. /\ Len(finals') = Len(finals)
        /\ \A f \in 1 .. Len(finals) : /\ finals'[f].rule = finals[f].rule
                                       /\ finals'[f].grade = finals[f].grade
    BY <2>1 DEF Touched, Latest
  <2> QED BY <1>4, <2>2, <2>3
<1>8. ASSUME NEW f \in 1 .. Len(finals), NEW h \in Grades, FinalConfirmed(f, h)
      PROVE  EvaluationSays(g)'
  <2>1. PICK row \in FinalRows : /\ row.rule = finals[f].rule /\ row.grade = h
                                 /\ Touched(finals, finals', f, row)
    BY <1>8 DEF FinalConfirmed
  <2>2. /\ UNCHANGED <<metrics, reviews, rules>> /\ SourcesCurrent(finals[f].rule)
        /\ FinalStatus[h] = FinalStatus[g]
    BY <1>8 DEF FinalConfirmed, CanConfirm
  <2>3. h = g BY <2>2, FinalStatuses
  <2>4. reviews[rules[finals[f].rule].review].metric = metrics BY <2>2 DEF SourcesCurrent, Latest
  <2>5. f \in 1 .. Len(finals') /\ finals'[f] = row BY <2>1 DEF Touched
  <2> QED BY <2>1, <2>2, <2>3, <2>4, <2>5 DEF EvaluationSays
<1>9. ASSUME NEW f \in 1 .. Len(finals), FinalMarked(f), UNCHANGED newRows
      PROVE  EvaluationSays(g)' \/ DecisionSays(g)'
  <2>1. PICK row \in FinalRows : /\ row.rule = finals[f].rule /\ row.grade = finals[f].grade
                                 /\ Touched(finals, finals', f, row)
    BY <1>9 DEF FinalMarked
  <2>2. status' = status /\ UNCHANGED <<metrics, rules, reviews, flow, ratings, decisions>>
    BY <1>9 DEF FinalMarked, newRows
  <2>3. /\ Len(finals') = Len(finals)
        /\ \A h \in 1 .. Len(finals) : /\ finals'[h].rule = finals[h].rule
                                       /\ finals'[h].grade = finals[h].grade
    BY <2>1 DEF Touched
  <2> QED BY <1>4, <2>2, <2>3
<1>10. CASE FlowMove /\ UNCHANGED newRows
  <2>1. UNCHANGED <<metrics, rules, reviews, finals, ratings, decisions>>
    BY <1>10 DEF FlowMove, newRows
  <2>2. status' = status
    BY <1>2, <1>10 DEF FlowMove, Opened, Stayed, Adopted, StatusMoves
  <2>3. flow'.gate # "approved" \/ (flow'.rev = flow.rev /\ flow'.gate = flow.gate)
    BY <1>2, <1>10 DEF FlowMove, Opened, Stayed, Adopted
  <2>4. EvaluationSays(g) \/ DecisionSays(g) BY <1>1, <2>2
  <2>5. CASE EvaluationSays(g) BY <2>1, <2>5, EvaluationKept
  <2>6. CASE DecisionSays(g) BY <1>3, <2>1, <2>3, <2>6, DecisionKept
  <2> QED BY <2>4, <2>5, <2>6
<1>11. ASSUME NEW row \in DecisionRows, Adds(row), ratings[row.rating].metric = metrics
       PROVE  EvaluationSays(g)' \/ DecisionSays(g)'
  <2>1. /\ UNCHANGED <<metrics, reviews, rules, finals, flow, ratings>>
        /\ Grown(decisions, decisions', row) /\ row.rev = flow.rev /\ Outcome(row.grade, row.final)
        /\ row.grade \in Grades \cup {"R"}
    BY <1>11 DEF Adds, oldRows, DecisionRows
  <2>2. CASE row.grade = "R"
    <3>1. EvaluationSays(g) \/ DecisionSays(g) BY <1>1, <2>1, <2>2 DEF Outcome
    <3>2. CASE EvaluationSays(g) BY <2>1, <3>2, EvaluationKept
    <3>3. CASE DecisionSays(g)
      <4>1. /\ Len(decisions') \in Nat /\ Len(decisions) <= Len(decisions')
            /\ \A d \in 1 .. Len(decisions) : decisions'[d] = decisions[d]
        BY <1>3, <2>1 DEF Grown
      <4> QED BY <1>3, <2>1, <3>3, <4>1, DecisionKept
    <3> QED BY <3>1, <3>2, <3>3
  <2>3. CASE row.grade # "R"
    <3>1. row.final /\ row.grade = g BY <1>2, <2>1, <2>3, FinalStatuses DEF Outcome
    <3>2. Len(decisions) + 1 \in 1 .. Len(decisions') /\ decisions'[Len(decisions) + 1] = row
      BY <1>3, <2>1 DEF Grown
    <3> QED BY <1>11, <2>1, <3>1, <3>2 DEF DecisionSays
  <2> QED BY <2>2, <2>3
<1>12. ASSUME NEW d \in 1 .. Len(decisions), NEW row \in DecisionRows, DecisionMarked(d, row)
       PROVE  EvaluationSays(g)' \/ DecisionSays(g)'
  <2>1. /\ status' = status /\ UNCHANGED <<metrics, reviews, rules, finals, flow, ratings>>
        /\ Len(decisions') = Len(decisions)
        /\ \A e \in 1 .. Len(decisions) : /\ decisions'[e].final = decisions[e].final
                                          /\ decisions'[e].grade = decisions[e].grade
                                          /\ decisions'[e].rating = decisions[e].rating
                                          /\ decisions'[e].rev = decisions[e].rev
    <3>1. decisions'[d] = row /\ \A e \in 1 .. Len(decisions) : e # d => decisions'[e] = decisions[e]
      BY <1>12 DEF DecisionMarked, Touched
    <3>2. /\ row.final = decisions[d].final /\ row.grade = decisions[d].grade
          /\ row.rating = decisions[d].rating /\ row.rev = decisions[d].rev
      <4>1. decisions[d] \in DecisionRows BY DEF TypeOK
      <4>2. row.final \in BOOLEAN /\ decisions[d].final \in BOOLEAN BY <4>1 DEF DecisionRows
      <4> QED BY <1>12, <4>2 DEF DecisionMarked
    <3>3. \A e \in 1 .. Len(decisions) : /\ decisions'[e].final = decisions[e].final
                                         /\ decisions'[e].grade = decisions[e].grade
                                         /\ decisions'[e].rating = decisions[e].rating
                                         /\ decisions'[e].rev = decisions[e].rev
      BY <3>1, <3>2
    <3> QED BY <1>12, <3>3 DEF DecisionMarked, Touched, oldRows
  <2>2. EvaluationSays(g) \/ DecisionSays(g) BY <1>1, <2>1
  <2>3. CASE EvaluationSays(g) BY <2>1, <2>3, EvaluationKept
  <2>4. CASE DecisionSays(g) BY <1>3, <2>1, <2>4, DecisionKept
  <2> QED BY <2>2, <2>3, <2>4
<1>13. ASSUME ((\E a \in BOOLEAN : SetRecordState(a)) /\ UNCHANGED newRows) \/ Idle
       PROVE  EvaluationSays(g)' \/ DecisionSays(g)'
  BY <1>4, <1>13 DEF SetRecordState, Idle, oldRows, newRows
<1>14. ASSUME \/ \E row \in DecisionRows : Decided(row)
              \/ \E d \in 1 .. Len(decisions), row \in DecisionRows : Settled(d, row)
       PROVE  EvaluationSays(g)' \/ DecisionSays(g)'
  BY <1>11, <1>14 DEF Decided, Settled
<1> HIDE DEF EvaluationSays, DecisionSays
<1> QED BY <1>5, <1>6, <1>7, <1>8, <1>9, <1>10, <1>12, <1>13, <1>14 DEF Move, OldMove, NewMove

\* The decision that could be resolved or confirmed after a decision was added: the new one,
\* or one that could be before.
LEMMA PreviousAfter ==
  ASSUME TypeOK, NEW row \in DecisionRows, Grown(decisions, decisions', row), row.rev = flow.rev,
         flow' = flow, NEW d, Previous(d)'
  PROVE  \/ d = Len(decisions) + 1 /\ decisions'[d] = row
         \/ /\ d \in 1 .. Len(decisions) /\ decisions'[d] = decisions[d] /\ Previous(d)
            /\ row.no <= decisions[d].no
<1>1. /\ Len(decisions') = Len(decisions) + 1 /\ decisions'[Len(decisions) + 1] = row
      /\ Len(decisions) \in Nat
      /\ \A e \in 1 .. Len(decisions) : decisions'[e] = decisions[e]
  BY DEF Grown, TypeOK
<1>2. d \in 1 .. Len(decisions') /\ decisions'[d].rev = flow.rev BY DEF Previous, DecisionsOf
<1>3. \A e \in 1 .. Len(decisions') : decisions'[e].rev = flow.rev =>
        decisions'[e].no < decisions'[d].no \/ (decisions'[e].no = decisions'[d].no /\ e <= d)
  BY DEF Previous, DecisionsOf
<1>4. CASE d = Len(decisions) + 1 BY <1>1, <1>4
<1>5. CASE d # Len(decisions) + 1
  <2>1. d \in 1 .. Len(decisions) /\ decisions'[d] = decisions[d] BY <1>1, <1>2, <1>5
  <2>2. Previous(d)
    <3>1. \A e \in 1 .. Len(decisions) : decisions[e].rev = flow.rev =>
            decisions[e].no < decisions[d].no \/ (decisions[e].no = decisions[d].no /\ e <= d)
      <4> SUFFICES ASSUME NEW e \in 1 .. Len(decisions), decisions[e].rev = flow.rev
                   PROVE  decisions[e].no < decisions[d].no \/ (decisions[e].no = decisions[d].no /\ e <= d)
        OBVIOUS
      <4>1. e \in 1 .. Len(decisions') /\ decisions'[e] = decisions[e] BY <1>1
      <4> QED BY <1>3, <2>1, <4>1
    <3> QED BY <1>2, <2>1, <3>1 DEF Previous, DecisionsOf
  <2>3. decisions[d] \in DecisionRows BY <2>1 DEF TypeOK
  <2>4. row.no \in Nat /\ decisions[d].no \in Nat BY <2>3 DEF DecisionRows
  <2>5. Len(decisions) + 1 \in 1 .. Len(decisions') BY <1>1
  <2>6. row.no <= decisions[d].no BY <1>1, <1>3, <2>1, <2>4, <2>5
  <2> QED BY <2>1, <2>2, <2>6
<1> QED BY <1>4, <1>5

\* The grade that the top decision would have to have.
TopSays(g) ==
  \A d \in DecisionsOf(flow.rev) :
    Previous(d) /\ decisions[d].grade # "R" /\ decisions[d].content = flow.content
      => decisions[d].grade = g

\* The top decision does not contradict the status.
LEMMA TopKept ==
  ASSUME PipelineInv, Move
  PROVE  TopOK'
<1> USE DEF PipelineInv
<1>1. \A g \in Grades : status = FinalStatus[g] /\ (\A f \in 1 .. Len(finals) : finals[f].grade = "none")
        => TopSays(g)
  BY DEF TopOK, TopSays
<1> SUFFICES ASSUME NEW g \in Grades, status' = FinalStatus[g],
                    \A f \in 1 .. Len(finals') : finals'[f].grade = "none"
             PROVE  TopSays(g)'
  BY DEF TopOK, TopSays
<1>2. status' \in {"final_effective", "final_low_effective", "final_invalid"} BY FinalStatuses
<1>3. Len(finals) \in Nat /\ Len(decisions) \in Nat /\ flow.adopted \in Nat /\ flow.rev \in Nat
  BY DEF TypeOK, FlowRows
\* What can be resolved is of the current revision.
<1>4. ASSUME NEW d \in DecisionsOf(flow.rev)
      PROVE  /\ d \in 1 .. Len(decisions) /\ decisions[d].rev = flow.rev
             /\ decisions[d].content \in Nat /\ decisions[d].content <= flow.adopted
             /\ decisions[d].rating \in 1 .. Len(ratings)
             /\ ratings[decisions[d].rating].rev = flow.rev
             /\ decisions[d].grade # "R" => ratings[decisions[d].rating].metric = metrics
  <2>1. d \in 1 .. Len(decisions) /\ decisions[d].rev = flow.rev BY DEF DecisionsOf
  <2>2. decisions[d] \in DecisionRows BY <2>1 DEF TypeOK
  <2> QED BY <2>1, <2>2 DEF NewRowsOK, DecidedOK, DecisionRows
<1>5. CASE SubmitMetrics \/ ReviewOpens \/ RulesRun \/ FinalOpens \/ Rated
  BY <1>2, <1>5 DEF SubmitMetrics, ReviewOpens, RulesRun, FinalOpens, Rated
<1>6. ASSUME status' = status, UNCHANGED <<flow, decisions>>,
             \A f \in 1 .. Len(finals) : finals[f].grade = "none"
      PROVE  TopSays(g)'
  <2>1. TopSays(g) BY <1>1, <1>6
  <2> QED BY <1>6, <2>1 DEF TopSays, Previous, DecisionsOf
<1>7. CASE ((ReviewEnds \/ \E a \in BOOLEAN : SetRecordState(a)) /\ UNCHANGED newRows) \/ Idle
  <2>1. status' = status /\ UNCHANGED <<finals, flow, decisions>>
    BY <1>2, <1>7 DEF ReviewEnds, SetRecordState, Idle, newRows, oldRows
  <2> QED BY <1>6, <2>1
<1>8. CASE FinalEnds /\ UNCHANGED newRows
  <2>1. PICK row \in FinalRows : /\ row.grade = Latest(finals).grade
                                 /\ Touched(finals, finals', Len(finals), row)
    BY <1>8 DEF FinalEnds
  <2>2. status' = status /\ UNCHANGED <<flow, decisions>> BY <1>2, <1>8 DEF FinalEnds, newRows
  <2>3. \A f \in 1 .. Len(finals) : finals[f].grade = "none" BY <2>1 DEF Touched, Latest
  <2> QED BY <1>6, <2>2, <2>3
<1>9. ASSUME NEW f \in 1 .. Len(finals), NEW h \in Grades, FinalConfirmed(f, h) PROVE FALSE
  BY <1>9, FinalStatuses DEF FinalConfirmed, Touched
<1>10. ASSUME NEW f \in 1 .. Len(finals), FinalMarked(f), UNCHANGED newRows PROVE TopSays(g)'
  <2>1. PICK row \in FinalRows : row.grade = finals[f].grade /\ Touched(finals, finals', f, row)
    BY <1>10 DEF FinalMarked
  <2>2. status' = status /\ UNCHANGED <<flow, decisions>> BY <1>10 DEF FinalMarked, newRows
  <2>3. \A h \in 1 .. Len(finals) : finals[h].grade = "none" BY <2>1 DEF Touched
  <2> QED BY <1>6, <2>2, <2>3
<1>11. CASE FlowMove /\ UNCHANGED newRows
  <2>1. UNCHANGED <<finals, decisions>> BY <1>11 DEF FlowMove, newRows
  <2>2. /\ status' = status
        /\ \/ flow'.rev = flow.rev /\ flow'.content = flow.content
           \/ Opened
           \/ flow'.rev = flow.rev /\ flow'.content = flow.adopted + 1
    BY <1>2, <1>11 DEF FlowMove, Opened, Stayed, Adopted, StatusMoves
  <2>3. TopSays(g) BY <1>1, <2>1, <2>2
  <2>4. CASE flow'.rev = flow.rev /\ flow'.content = flow.content
    BY <2>1, <2>3, <2>4 DEF TopSays, Previous, DecisionsOf
  <2>5. CASE Opened
    <3>1. \A d \in 1 .. Len(decisions) : decisions[d].rev <= flow.rev /\ decisions[d].rev \in Nat
      <4> SUFFICES ASSUME NEW d \in 1 .. Len(decisions)
                   PROVE  decisions[d].rev <= flow.rev /\ decisions[d].rev \in Nat
        OBVIOUS
      <4>1. decisions[d] \in DecisionRows BY DEF TypeOK
      <4> QED BY <4>1 DEF NewRowsOK, DecisionRows
    <3>2. DecisionsOf(flow.rev)' = {} BY <1>3, <2>1, <2>5, <3>1 DEF Opened, DecisionsOf
    <3> QED BY <3>2 DEF TopSays
  <2>6. CASE flow'.rev = flow.rev /\ flow'.content = flow.adopted + 1
    <3> SUFFICES ASSUME NEW d \in DecisionsOf(flow.rev)', decisions'[d].content = flow'.content
                 PROVE  FALSE
      BY DEF TopSays
    <3>1. d \in DecisionsOf(flow.rev) BY <2>1, <2>6 DEF DecisionsOf
    <3> QED BY <1>3, <1>4, <2>1, <2>6, <3>1
  <2> QED BY <2>2, <2>4, <2>5, <2>6
<1>12. ASSUME NEW row \in DecisionRows, Adds(row), status' # status \/ row.grade # "R"
       PROVE  row.grade = g
  <2>1. row.grade \in Grades \cup {"R"} /\ Outcome(row.grade, row.final) BY <1>12 DEF Adds, DecisionRows
  <2> QED BY <1>2, <1>12, <2>1, FinalStatuses DEF Outcome
<1>13. ASSUME NEW row \in DecisionRows, Decided(row) PROVE TopSays(g)'
  <2> SUFFICES ASSUME NEW d, Previous(d)', decisions'[d].grade # "R",
                      decisions'[d].content = flow'.content
               PROVE  decisions'[d].grade = g
    BY DEF TopSays
  <2>1. /\ UNCHANGED <<metrics, finals, flow, ratings>> /\ Grown(decisions, decisions', row)
        /\ row.rev = flow.rev
    BY <1>13 DEF Decided, Adds, oldRows
  <2>2. CASE decisions'[d] = row BY <1>12, <1>13, <2>2 DEF Decided
  <2>3. CASE decisions'[d] = decisions[d] /\ Previous(d)
    <3>1. d \in DecisionsOf(flow.rev) BY <2>3 DEF Previous
    <3>2. decisions[d].rating # row.rating BY <1>13, <2>1, <2>3, <3>1 DEF Decided
    <3>3. /\ row.rating \in 1 .. Len(ratings) /\ ratings[row.rating].rev = flow.rev
          /\ ratings[row.rating].metric = metrics
      BY <1>13 DEF Decided, RatingsOf
    <3>4. FALSE BY <1>4, <2>3, <3>1, <3>2, <3>3 DEF NewRowsOK
    <3> QED BY <3>4
  <2> QED BY <2>1, <2>2, <2>3, PreviousAfter
<1>14. ASSUME NEW e \in 1 .. Len(decisions), NEW row \in DecisionRows, Settled(e, row)
       PROVE  TopSays(g)'
  <2> SUFFICES ASSUME NEW d, Previous(d)' PROVE decisions'[d].grade = g
    BY DEF TopSays
  <2>1. flow' = flow /\ Grown(decisions, decisions', row) /\ row.rev = flow.rev
    BY <1>14 DEF Settled, Adds
  <2>2. CASE decisions'[d] = row BY <1>12, <1>14, <2>2 DEF Settled
  <2>3. CASE d \in 1 .. Len(decisions) /\ Previous(d) /\ row.no <= decisions[d].no
    <3>1. decisions[d] \in DecisionRows /\ decisions[e] \in DecisionRows BY <2>3 DEF TypeOK
    <3>2. decisions[d].no \in Nat /\ decisions[e].no \in Nat BY <3>1 DEF DecisionRows
    <3>3. decisions[d].no <= decisions[e].no BY <1>14, <2>3, <3>2 DEF Settled, Previous
    <3>4. row.no = decisions[e].no + 1 BY <1>14 DEF Settled
    <3> QED BY <2>3, <3>2, <3>3, <3>4
  <2> QED BY <2>1, <2>2, <2>3, PreviousAfter
<1>15. ASSUME NEW e \in 1 .. Len(decisions), NEW row \in DecisionRows, DecisionMarked(e, row)
       PROVE  TopSays(g)'
  <2>1. UNCHANGED <<status, finals, flow>> BY <1>15 DEF DecisionMarked, oldRows
  <2>2. /\ Len(decisions') = Len(decisions)
        /\ \A d \in 1 .. Len(decisions) :
             /\ decisions'[d].rev = decisions[d].rev /\ decisions'[d].no = decisions[d].no
             /\ decisions'[d].grade = decisions[d].grade
             /\ decisions'[d].content = decisions[d].content
    BY <1>15 DEF DecisionMarked, Touched
  <2>3. TopSays(g) BY <1>1, <2>1
  <2>4. DecisionsOf(flow.rev)' = DecisionsOf(flow.rev) BY <2>1, <2>2 DEF DecisionsOf
  <2>5. \A d \in DecisionsOf(flow.rev) : Previous(d)' => Previous(d)
    BY <2>1, <2>2, <2>4 DEF Previous, DecisionsOf
  <2> QED BY <2>1, <2>2, <2>3, <2>4, <2>5 DEF TopSays, DecisionsOf
<1> HIDE DEF TopSays, PipelineInv
<1> QED BY <1>5, <1>7, <1>8, <1>9, <1>10, <1>11, <1>13, <1>14, <1>15 DEF Move, OldMove, NewMove

\* A hidden video stays quiet: what opens an evaluation looks at the record's state, and what
\* hides the video at the evaluations.
LEMMA QuietKept ==
  ASSUME TypeOK, HiddenIsQuiet, Move
  PROVE  HiddenIsQuiet'
<1>1. Len(reviews) \in Nat /\ Len(finals) \in Nat BY DEF TypeOK
<1>2. CASE ReviewOpens \/ FinalOpens
  BY <1>2 DEF ReviewOpens, FinalOpens, CanReview, CanEvaluate, StillActive, HiddenIsQuiet
<1>3. CASE ReviewEnds
  <2>1. PICK row \in ReviewRows : /\ Touched(reviews, reviews', Len(reviews), row)
                                  /\ row.status \in {"succeeded", "failed"}
    BY <1>3 DEF ReviewEnds
  <2>2. Latest(reviews') = row BY <1>1, <2>1, LatestRow
  <2>3. ~Running(reviews') BY <2>1, <2>2 DEF Running
  <2> QED BY <1>3, <2>3 DEF ReviewEnds, HiddenIsQuiet, Running
<1>4. CASE FinalEnds
  <2>1. PICK row \in FinalRows : /\ Touched(finals, finals', Len(finals), row)
                                 /\ row.status \in {"succeeded", "failed"}
    BY <1>4 DEF FinalEnds
  <2>2. Latest(finals') = row BY <1>1, <2>1, LatestRow
  <2>3. ~Running(finals') BY <2>1, <2>2 DEF Running
  <2> QED BY <1>4, <2>3 DEF FinalEnds, HiddenIsQuiet, Running
<1>5. ASSUME NEW f \in 1 .. Len(finals), FinalMarked(f) \/ \E g \in Grades : FinalConfirmed(f, g)
      PROVE  HiddenIsQuiet'
  BY <1>5 DEF FinalMarked, FinalConfirmed, CanMark, CanConfirm, StillActive, HiddenIsQuiet
<1>6. ASSUME NEW a \in BOOLEAN, SetRecordState(a) PROVE HiddenIsQuiet'
  BY <1>6 DEF SetRecordState, Quiet, HiddenIsQuiet, Running
<1>7. CASE UNCHANGED <<active, reviews, finals>> BY <1>7 DEF HiddenIsQuiet, Running
<1>8. ASSUME SubmitMetrics \/ RulesRun \/ FlowMove \/ NewMove \/ Idle
      PROVE  UNCHANGED <<active, reviews, finals>>
  BY <1>8 DEF SubmitMetrics, RulesRun, FlowMove, NewMove, Rated, Decided, Settled, Adds,
              DecisionMarked, Idle, oldRows
<1> QED BY <1>2, <1>3, <1>4, <1>5, <1>6, <1>7, <1>8 DEF Move, OldMove

-----------------------------------------------------------------------------
(* The invariant.                                                          *)

\* It holds initially, of a video that nothing has happened to yet.
LEMMA PipelineInvInitially ==
  ASSUME Init
  PROVE  PipelineInv
<1>1. /\ reviews = <<>> /\ rules = <<>> /\ finals = <<>> /\ ratings = <<>> /\ decisions = <<>>
      /\ metrics = 0 /\ active = TRUE /\ supervised \in BOOLEAN
      /\ status \in {"submitted", "pending_supervisor_review", "approved_for_publish"}
      /\ flow = NoWorkflow
  <2>1. /\ reviews = <<>> /\ rules = <<>> /\ finals = <<>> /\ ratings = <<>> /\ decisions = <<>>
        /\ metrics = 0 /\ active = TRUE
        /\ flow = NoWorkflow
    BY DEF Init, PipelineInit
  <2>2. \/ status = "submitted" /\ supervised = FALSE
        \/ status = "pending_supervisor_review" /\ supervised = FALSE
        \/ status = "approved_for_publish" /\ supervised = TRUE
    <3>1. PICK i \in {<<"submitted", FALSE>>, <<"pending_supervisor_review", FALSE>>,
                      <<"approved_for_publish", TRUE>>} : status = i[1] /\ supervised = i[2]
      BY DEF Init, PipelineInit
    <3>2. ASSUME NEW s, NEW b, i = <<s, b>> PROVE status = s /\ supervised = b
      BY <3>1, <3>2
    <3> QED BY <3>2
  <2>3. supervised \in BOOLEAN BY <2>2
  <2> QED BY <2>1, <2>2, <2>3
<1>2. /\ flow.rev = 0 /\ flow.content = 0 /\ flow.adopted = 0
      /\ flow.job = "none" /\ flow.gate = "none"
  BY <1>1 DEF NoWorkflow
<1>3. flow \in FlowRows
  <2>1. /\ 0 \in Nat /\ TRUE \in BOOLEAN /\ {} \in SUBSET Holds
        /\ "unset" \in Modes /\ "none" \in Gates /\ "none" \in Jobs
    BY DEF Modes, Gates, Jobs
  <2>2. flow = FlowOf(0, "unset", 0, 0, "none", TRUE, {}, "none") BY <1>1 DEF NoWorkflow, FlowOf
  <2> QED BY <2>1, <2>2, FlowRow
<1> HIDE <1>1
<1>4. TypeOK
  <2>1. active \in BOOLEAN BY <1>1
  <2>2. metrics \in Nat /\ supervised \in BOOLEAN BY <1>1
  <2>3. /\ reviews \in Seq(ReviewRows) /\ rules \in Seq(RuleRows) /\ finals \in Seq(FinalRows)
        /\ ratings \in Seq(RatingRows) /\ decisions \in Seq(DecisionRows)
    BY <1>1
  <2> QED BY <1>3, <2>1, <2>2, <2>3 DEF TypeOK
<1>5. /\ Len(reviews) = 0 /\ Len(rules) = 0 /\ Len(finals) = 0 /\ Len(ratings) = 0
      /\ Len(decisions) = 0 /\ active
      /\ status \in {"submitted", "pending_supervisor_review", "approved_for_publish"}
  BY <1>1
<1>6. OldRowsOK /\ NewRowsOK BY <1>5 DEF OldRowsOK, NewRowsOK
<1>7. StatusOK BY <1>2, <1>5 DEF StatusOK
<1>8. DecisionsOf(flow.rev) = {} BY <1>5 DEF DecisionsOf
<1>9. DecidedOK /\ TopOK BY <1>8 DEF DecidedOK, TopOK
<1>10. ConcludedOK BY <1>5, FinalStatuses DEF ConcludedOK
<1>11. HiddenIsQuiet BY <1>5 DEF HiddenIsQuiet
<1> QED BY <1>4, <1>6, <1>7, <1>9, <1>10, <1>11 DEF PipelineInv

\* Every step keeps it.
LEMMA PipelineInvKept ==
  ASSUME PipelineInv, [Next]_vars
  PROVE  PipelineInv'
<1>1. TypeOK' /\ Move BY Moves DEF PipelineInv
<1>2. OldRowsOK' /\ NewRowsOK' /\ StatusOK'
  BY <1>1, OldRowsKept, NewRowsKept, StatusKept DEF PipelineInv
<1>3. DecidedOK' /\ ConcludedOK' /\ HiddenIsQuiet'
  BY <1>1, DecidedKept, ConclusionsKept, QuietKept DEF PipelineInv
<1>4. TopOK' BY <1>1, TopKept
<1> QED BY <1>1, <1>2, <1>3, <1>4 DEF PipelineInv

\* The rows of a video and its status agree, whoever wrote the status last.
THEOREM PipelineInvariant == Spec => []PipelineInv
<1>1. PipelineInv /\ [Next]_vars => PipelineInv' BY PipelineInvKept
<1> QED BY <1>1, PipelineInvInitially, PTL DEF Spec

-----------------------------------------------------------------------------
(* What follows.                                                           *)

\* A hidden or trashed video has no evaluation in progress.
THEOREM HiddenVideosAreQuiet == Spec => []HiddenIsQuiet
<1>1. PipelineInv => HiddenIsQuiet BY DEF PipelineInv
<1> QED BY <1>1, PipelineInvariant, PTL

\* A final status is somebody's conclusion about the newest metrics.
THEOREM FinalStatusesAreFounded == Spec => []FinalStatusIsFounded
<1>1. PipelineInv => FinalStatusIsFounded
  BY DEF PipelineInv, ConcludedOK, FinalStatusIsFounded
<1> QED BY <1>1, PipelineInvariant, PTL

\* A revision concludes once, and has one example at most.
THEOREM RevisionsConcludeOnce == Spec => []OneConclusion
<1>1. PipelineInv => OneConclusion BY DEF PipelineInv, NewRowsOK, OneConclusion, Listed
<1> QED BY <1>1, PipelineInvariant, PTL

\* Every confirmation is of the newest evaluation and of the newest of all that it was made from.
THEOREM ConfirmationsAreCurrent == Spec => ConfirmedOnCurrentSources
<1> DEFINE Good ==
      \A f \in DOMAIN finals : finals'[f].grade # finals[f].grade =>
        /\ finals[f].grade = "none"
        /\ \A h \in DOMAIN finals : finals[h].status = "succeeded" => h <= f
        /\ reviews[rules[finals[f].rule].review].metric = metrics
        /\ finals[f].rule = Len(rules)
<1>1. ASSUME PipelineInv, [Next]_vars PROVE [Good]_finals
  <2>1. Move /\ finals \in Seq(FinalRows) BY <1>1, Moves DEF PipelineInv, TypeOK
  <2>2. DOMAIN finals = 1 .. Len(finals) BY <2>1
  <2>3. CASE FinalOpens
    <3>1. \A f \in 1 .. Len(finals) : finals'[f] = finals[f] BY <2>3 DEF FinalOpens, Grown
    <3> QED BY <2>2, <3>1
  <2>4. CASE FinalEnds
    <3>1. \A f \in 1 .. Len(finals) : finals'[f].grade = finals[f].grade
      BY <2>4 DEF FinalEnds, Touched, Latest
    <3> QED BY <2>2, <3>1
  <2>5. ASSUME NEW f \in 1 .. Len(finals), FinalMarked(f) PROVE Good
    <3>1. \A h \in 1 .. Len(finals) : finals'[h].grade = finals[h].grade
      BY <2>5 DEF FinalMarked, Touched
    <3> QED BY <2>2, <3>1
  <2>6. ASSUME NEW f \in 1 .. Len(finals), NEW g \in Grades, FinalConfirmed(f, g) PROVE Good
    <3>1. \A h \in 1 .. Len(finals) : h # f => finals'[h] = finals[h]
      BY <2>6 DEF FinalConfirmed, Touched
    <3>2. /\ finals[f].grade = "none"
          /\ \A h \in 1 .. Len(finals) : finals[h].status = "succeeded" => h <= f
          /\ reviews[rules[finals[f].rule].review].metric = metrics
          /\ finals[f].rule = Len(rules)
      BY <2>6 DEF FinalConfirmed, CanConfirm, Confirmable, SourcesCurrent, Latest
    <3> QED BY <2>2, <3>1, <3>2
  <2>7. ASSUME ~FinalOpens, ~FinalEnds,
               ~\E f \in 1 .. Len(finals) : FinalMarked(f) \/ \E g \in Grades : FinalConfirmed(f, g)
        PROVE  finals' = finals
    BY <2>1, <2>7 DEF Move, OldMove, NewMove, Idle, SubmitMetrics, ReviewOpens, ReviewEnds, RulesRun,
                      SetRecordState, FlowMove, Rated, Decided, Settled, Adds, DecisionMarked, oldRows
  <2> QED BY <2>3, <2>4, <2>5, <2>6, <2>7
<1> QED BY <1>1, PipelineInvariant, PTL DEF Spec, ConfirmedOnCurrentSources

-----------------------------------------------------------------------------
(* What is offered is accepted.                                            *)

Asked == {"content", "upload", "submit", "review", "rules", "final", "confirm", "mark"}

\* What the page offers, action by action.
LEMMA OfferNeeds ==
  ASSUME NEW p \in People, NEW a \in Offered(p)
  PROVE  /\ a \in Asked /\ active /\ CanManageResultData(p)
         /\ a \in {"confirm", "mark"} => p.role = "admin" \/ (p.own /\ p.role = "content_owner")
         /\ a = "content" => OffersContent
         /\ a = "upload" => OffersUpload
         /\ a = "submit" => OffersSubmit
         /\ a = "review" => OffersReview
         /\ a = "rules" => OffersRules
         /\ a = "final" => OffersFinal
         /\ a = "confirm" => OffersConfirm
         /\ a = "mark" => OffersMark
<1>1. a \in Asked BY DEF Offered, Asked
<1>2. CASE a = "content" BY <1>2 DEF Offered, CanManageResultData, Asked
<1>3. CASE a = "upload" BY <1>3 DEF Offered, CanManageResultData, Asked
<1>4. CASE a = "submit" BY <1>4 DEF Offered, CanManageResultData, Asked
<1>5. CASE a = "review" BY <1>5 DEF Offered, CanManageResultData, Asked
<1>6. CASE a = "rules" BY <1>6 DEF Offered, CanManageResultData, Asked
<1>7. CASE a = "final" BY <1>7 DEF Offered, CanManageResultData, Asked
<1>8. CASE a = "confirm" BY <1>8 DEF Offered, CanManageResultData, Asked
<1>9. CASE a = "mark" BY <1>9 DEF Offered, CanManageResultData, Asked
<1> QED BY <1>1, <1>2, <1>3, <1>4, <1>5, <1>6, <1>7, <1>8, <1>9 DEF Asked

\* What the handlers take, action by action.
LEMMA AcceptedIf ==
  ASSUME NEW p \in People
  PROVE  /\ CanTriggerContent(p) => "content" \in Accepted(p)
         /\ CanUpload(p) => "upload" \in Accepted(p)
         /\ CanAct(p) /\ CanSubmit => "submit" \in Accepted(p)
         /\ CanAct(p) /\ CanReview => "review" \in Accepted(p)
         /\ CanAct(p) /\ CanExecute => "rules" \in Accepted(p)
         /\ CanAct(p) /\ CanEvaluate => "final" \in Accepted(p)
         /\ CanConclude(p) /\ (\E f \in DOMAIN finals : CanConfirm(f)) => "confirm" \in Accepted(p)
         /\ CanConclude(p) /\ (\E f \in DOMAIN finals : CanMark(f)) => "mark" \in Accepted(p)
BY DEF Accepted

\* An offer that is not unsure is taken.
LEMMA OffersAreTaken ==
  ASSUME PipelineInv
  PROVE  OfferedIsAccepted
<1> SUFFICES ASSUME NEW p \in People, NEW a \in Offered(p), a \notin Unsure
             PROVE  a \in Accepted(p)
  BY DEF OfferedIsAccepted
<1>0. TypeOK /\ OldRowsOK /\ StatusOK BY DEF PipelineInv
<1>1. a \in Asked /\ CanAct(p) /\ (a \in {"confirm", "mark"} => CanConclude(p))
  BY OfferNeeds DEF CanAct, CanConclude, StillActive
<1>2. /\ a = "content" => flow.hold = {} /\ flow.job \notin {"rerun", "pilot"}
      /\ a = "upload" => ~(flow.rev > 1 /\ flow.gate = "none")
      /\ a \in {"submit", "review"} => DataStageOpen
      /\ a = "rules" => supervised /\ ratings = <<>>
      /\ a = "confirm" => ratings = <<>>
  BY DEF Unsure
<1>3. /\ Len(reviews) \in Nat /\ Len(rules) \in Nat /\ Len(finals) \in Nat
      /\ DOMAIN finals = 1 .. Len(finals)
      /\ \A r \in 1 .. Len(rules) : rules[r].review \in Nat
      /\ \A f \in 1 .. Len(finals) : finals[f].rule \in Nat
  <2>1. rules \in Seq(RuleRows) /\ finals \in Seq(FinalRows) /\ reviews \in Seq(ReviewRows)
    BY <1>0 DEF TypeOK
  <2>2. /\ \A r \in 1 .. Len(rules) : rules[r] \in RuleRows
        /\ \A f \in 1 .. Len(finals) : finals[f] \in FinalRows
    BY <2>1
  <2> QED BY <2>1, <2>2 DEF RuleRows, FinalRows
<1>4. CASE a = "content"
  <2>1. status \in {"submitted", "ai_content_failed"} BY <1>4, OfferNeeds DEF OffersContent
  <2>2. flow.job = "none"
    <3>1. flow.job \in Jobs BY <1>0, FlowFields
    <3> QED BY <1>0, <1>2, <1>4, <2>1, <3>1 DEF StatusOK, Jobs
  <2>3. CanTriggerContent(p) BY <1>1, <1>2, <1>4, <2>2 DEF CanTriggerContent, CanAct, Blocked
  <2> QED BY <1>4, <2>3, AcceptedIf
<1>5. CASE a = "upload"
  <2>1. status = "revision_required" BY <1>5, OfferNeeds DEF OffersUpload
  <2>2. flow.gate = "revision_required" BY <1>0, <1>2, <1>5, <2>1 DEF StatusOK
  <2>3. CanUpload(p) BY <1>1, <2>1, <2>2 DEF CanUpload, RevisionRequired
  <2> QED BY <1>5, <2>3, AcceptedIf
<1>6. CASE a = "submit"
  <2>1. CanSubmit BY <1>1, <1>2, <1>6, OfferNeeds DEF OffersSubmit, CanSubmit, CanAct
  <2> QED BY <1>1, <1>6, <2>1, AcceptedIf
<1>7. CASE a = "review"
  <2>1. /\ status \in {"pending_result_data", "ai_result_failed"} /\ metrics > 0
        /\ ~Newest(reviews, "running")
        /\ ~(Newest(reviews, "succeeded") /\ Latest(reviews).metric = metrics)
    BY <1>7, OfferNeeds DEF OffersReview, Evidence
  <2>2. \A r \in 1 .. Len(reviews) : ~(reviews[r].metric = metrics /\ reviews[r].status = "succeeded")
    BY <1>0, <1>3, <2>1 DEF OldRowsOK, Newest, Latest
  <2>3. CanReview
    BY <1>1, <1>2, <1>7, <2>1, <2>2 DEF CanReview, CanAct, Newest, Running
  <2> QED BY <1>1, <1>7, <2>3, AcceptedIf
<1>8. CASE a = "rules"
  <2>1. /\ status = "pending_rule_engine" /\ ~(Len(rules) > 0 /\ Latest(rules).review = Len(reviews))
    BY <1>8, OfferNeeds DEF OffersRules, Evidence
  <2>2. Newest(reviews, "succeeded") /\ Latest(reviews).metric = metrics
    BY <1>0, <1>2, <1>8, <2>1 DEF StatusOK
  <2>3. \A r \in 1 .. Len(rules) : rules[r].review # Len(reviews)
    BY <1>0, <1>3, <2>1 DEF OldRowsOK, Latest
  <2>4. CanExecute BY <1>2, <1>8, <2>1, <2>2, <2>3 DEF CanExecute, Newest
  <2> QED BY <1>1, <1>8, <2>4, AcceptedIf
<1>9. CASE a = "final"
  <2>1. /\ status \in {"pending_final_evaluation", "final_evaluation_failed"}
        /\ ~Newest(finals, "running")
        /\ ~(Newest(finals, "succeeded") /\ Latest(finals).rule = Len(rules))
    BY <1>9, OfferNeeds DEF OffersFinal, Evidence
  <2>2. Len(rules) > 0 /\ SourcesCurrent(Len(rules)) BY <1>0, <2>1 DEF StatusOK
  <2>3. \A f \in 1 .. Len(finals) : ~(finals[f].rule = Len(rules) /\ finals[f].status = "succeeded")
    BY <1>0, <1>3, <2>1 DEF OldRowsOK, Newest, Latest
  <2>4. CanEvaluate BY <1>1, <2>1, <2>2, <2>3 DEF CanEvaluate, CanAct, Newest, Running
  <2> QED BY <1>1, <1>9, <2>4, AcceptedIf
<1>10. CASE a = "confirm"
  <2>1. status = "pending_final_confirmation" BY <1>10, OfferNeeds DEF OffersConfirm
  <2>2. /\ Newest(finals, "succeeded") /\ Latest(finals).grade = "none"
        /\ SourcesCurrent(Latest(finals).rule)
    BY <1>0, <1>2, <1>10, <2>1 DEF StatusOK
  <2>3. CanConfirm(Len(finals))
    BY <1>1, <1>3, <2>1, <2>2 DEF CanConfirm, Confirmable, CanAct, Newest, Latest
  <2>4. Len(finals) \in DOMAIN finals BY <1>3, <2>2 DEF Newest
  <2> QED BY <1>1, <1>10, <2>3, <2>4, AcceptedIf
<1>11. CASE a = "mark"
  <2>1. /\ status \in {FinalStatus[g] : g \in Grades} /\ Len(finals) > 0 /\ Latest(finals).grade # "none"
    BY <1>11, OfferNeeds DEF OffersMark, Evidence
  <2>2. CanMark(Len(finals)) BY <1>1, <2>1 DEF CanMark, CanAct, Latest
  <2>3. Len(finals) \in DOMAIN finals BY <1>3, <2>1
  <2> QED BY <1>1, <1>11, <2>2, <2>3, AcceptedIf
<1> QED BY <1>1, <1>4, <1>5, <1>6, <1>7, <1>8, <1>9, <1>10, <1>11 DEF Asked

\* The buttons on the page of a video keep what they promise.
THEOREM OffersAreAccepted == Spec => []OfferedIsAccepted
BY OffersAreTaken, PipelineInvariant, PTL

-----------------------------------------------------------------------------
(* The reports.                                                            *)

\* What is counted is finite, and counted if there is any.
LEMMA Counts ==
  ASSUME NEW n \in Nat, NEW S \in SUBSET (1 .. n)
  PROVE  IsFiniteSet(S) /\ Cardinality(S) \in Nat /\ (Cardinality(S) = 0 <=> S = {})
<1>1. IsFiniteSet(1 .. n) BY FS_Interval
<1>2. IsFiniteSet(S) BY <1>1, FS_Subset
<1> QED BY <1>2, FS_CardinalityType, FS_EmptySet

\* A revision's final decision is the one that the dashboard counts.
LEMMA CountedDecision ==
  ASSUME PipelineInv, NEW d \in 1 .. Len(decisions), decisions[d].final,
         decisions[d].rev = flow.rev, flow.hold = {}
  PROVE  d \in LatestFinal
<1>1. \A e \in DecisionsOf(flow.rev) : decisions[e].final => e = d
  BY DEF PipelineInv, NewRowsOK, DecisionsOf
<1>2. d \in DecisionsOf(flow.rev) /\ d <= d BY DEF DecisionsOf
<1> QED BY <1>1, <1>2 DEF LatestFinal

\* The reports agree about what is concluded.
LEMMA ReportsTellTheSame ==
  ASSUME PipelineInv
  PROVE  ReportsAgree
<1> DEFINE Old(g) == {f \in Finalized : finals[f].grade = g}
           New(g) == {d \in LatestFinal : active /\ decisions[d].grade = g}
<1>1. Len(finals) \in Nat /\ Len(decisions) \in Nat /\ finals \in Seq(FinalRows)
      /\ decisions \in Seq(DecisionRows)
  BY DEF PipelineInv, TypeOK
<1>2. DOMAIN finals = 1 .. Len(finals) /\ DOMAIN decisions = 1 .. Len(decisions) BY <1>1
<1>3. \A g : Old(g) \in SUBSET (1 .. Len(finals)) BY <1>2 DEF Finalized
<1>4. \A g : New(g) \in SUBSET (1 .. Len(decisions)) BY DEF LatestFinal, DecisionsOf
<1>5. \A g \in Grades : OldCount[g] = Cardinality(Old(g)) /\ NewCount[g] = Cardinality(New(g))
  BY DEF OldCount, NewCount
<1>6. ASSUME NEW g
      PROVE  /\ IsFiniteSet(Old(g)) /\ Cardinality(Old(g)) \in Nat
             /\ Cardinality(Old(g)) = 0 <=> Old(g) = {}
             /\ IsFiniteSet(New(g)) /\ Cardinality(New(g)) \in Nat
             /\ Cardinality(New(g)) = 0 <=> New(g) = {}
  BY <1>1, <1>3, <1>4, Counts
<1>7. InList("completed") => active /\ \E g \in Grades : status = FinalStatus[g]
  BY DEF InList, BusinessStatuses
<1>8. ASSUME InList("completed"), flow.hold = {}, flow.rev = 0 \/ flow.gate = "approved"
      PROVE  \E g \in Grades : status = FinalStatus[g] /\ OldCount[g] + NewCount[g] > 0
  <2>1. PICK g \in Grades : status = FinalStatus[g] BY <1>7, <1>8
  <2>2. \/ \E f \in 1 .. Len(finals) : finals[f].grade = g
        \/ \E d \in 1 .. Len(decisions) :
             decisions[d].final /\ decisions[d].grade = g /\ decisions[d].rev = flow.rev
    <3>1. ASSUME NEW d \in 1 .. Len(decisions), flow.rev = 0 PROVE decisions[d].rev = flow.rev
      <4>1. decisions[d] \in DecisionRows BY <1>1
      <4> QED BY <3>1, <4>1 DEF PipelineInv, NewRowsOK, DecisionRows
    <3> QED BY <1>8, <2>1, <3>1 DEF PipelineInv, ConcludedOK
  <2>3. Old(g) # {} \/ New(g) # {}
    <3>1. ASSUME NEW f \in 1 .. Len(finals), finals[f].grade = g PROVE f \in Old(g)
      BY <1>2, <1>7, <1>8, <3>1, FinalStatuses DEF Finalized
    <3>2. ASSUME NEW d \in 1 .. Len(decisions), decisions[d].final, decisions[d].grade = g,
                 decisions[d].rev = flow.rev
          PROVE  d \in New(g)
      BY <1>7, <1>8, <3>2, CountedDecision
    <3> QED BY <2>2, <3>1, <3>2
  <2> HIDE DEF Old, New
  <2>4. OldCount[g] + NewCount[g] > 0 BY <1>5, <1>6, <2>3
  <2> QED BY <2>1, <2>4
<1>9. ASSUME NEW kind \in {"effective", "invalid"}
      PROVE  /\ Cardinality(OldCases(kind)) <= OldCount[kind]
             /\ Cardinality(NewCases(kind, FALSE)) <= NewCount[kind]
  <2>1. kind \in Grades /\ kind # "none" BY DEF Grades
  <2>2. OldCases(kind) \subseteq Old(kind) BY <2>1 DEF OldCases, Finalized
  <2>3. NewCases(kind, FALSE) \subseteq New(kind)
    <3> SUFFICES ASSUME NEW d \in NewCases(kind, FALSE) PROVE d \in New(kind)
      OBVIOUS
    <3>1. d \in 1 .. Len(decisions) /\ Listed(d) /\ decisions[d].grade = kind /\ active
      BY <1>2 DEF NewCases
    <3>2. decisions[d].final /\ decisions[d].rev = flow.rev /\ flow.hold = {}
      BY <3>1 DEF Listed, PipelineInv, NewRowsOK
    <3> QED BY <3>1, <3>2, CountedDecision
  <2> HIDE DEF Old, New
  <2>4. /\ Cardinality(OldCases(kind)) <= Cardinality(Old(kind))
        /\ Cardinality(NewCases(kind, FALSE)) <= Cardinality(New(kind))
    BY <1>6, <2>2, <2>3, FS_Subset
  <2> QED BY <1>5, <2>1, <2>4
<1>10. ASSUME InList("completed"), OldCount = [g \in Grades |-> 0],
              NEW d \in Shown, decisions[d].content = flow.content
       PROVE  status = FinalStatus[decisions[d].grade]
  <2>1. PICK g \in Grades : status = FinalStatus[g] BY <1>7, <1>10
  <2>2. \A f \in 1 .. Len(finals) : finals[f].grade = "none"
    <3> SUFFICES ASSUME NEW f \in 1 .. Len(finals), finals[f].grade # "none" PROVE FALSE
      OBVIOUS
    <3>1. finals[f] \in FinalRows BY <1>1
    <3>2. finals[f].grade \in Grades BY <3>1 DEF FinalRows
    <3>3. f \in Old(finals[f].grade) BY <1>2, <1>7, <1>10 DEF Finalized
    <3>4. OldCount[finals[f].grade] = 0 BY <1>10, <3>2
    <3> HIDE DEF Old, New
    <3> QED BY <1>5, <1>6, <3>2, <3>3, <3>4
  <2>3. d \in DecisionsOf(flow.rev) /\ Previous(d) /\ decisions[d].grade # "R" BY DEF Shown
  <2>4. decisions[d].grade = g BY <1>10, <2>1, <2>2, <2>3 DEF PipelineInv, TopOK
  <2> QED BY <2>1, <2>4
<1> HIDE DEF Old, New
<1> QED BY <1>8, <1>9, <1>10 DEF ReportsAgree

\* List, dashboard and case libraries tell of the same conclusions.
THEOREM ReportsAgreeAlways == Spec => []ReportsAgree
BY ReportsTellTheSame, PipelineInvariant, PTL
=============================================================================
