----------------------------- MODULE V11Ratings -----------------------------
(***************************************************************************)
(* The V1.1 way from metrics to a final status: v11-ratings.service.ts.    *)
(*                                                                         *)
(* A data rating compares the newest metrics with the benchmark profile, a *)
(* comprehensive decision joins it with the content decision in force.     *)
(* The matrix answers with a grade or with R, which an administrator       *)
(* resolves; the final gate is automatic or waits for a confirmation.      *)
(* Decisions are rows of their own: resolving and confirming add a row     *)
(* with the next decision revision.                                        *)
(*                                                                         *)
(* The status column is shared with VideoPipeline, and several of these    *)
(* operations write it without reading it.                                 *)
(***************************************************************************)
EXTENDS VideoActions

CONSTANT MaxDecisions  \* bound: comprehensive decisions

ASSUME RatingsAssumption == MaxDecisions \in Nat

VARIABLES
  ratings,    \* v11_data_rating_decisions: [rev, metric, sufficient]
  decisions,  \* v11_comprehensive_decisions: [rev, content, rating, no, grade
              \* or R, final, case]
  sealed      \* revisions with a gate decision of the stage final_confirmation

vars == <<status, active, supervised, metrics, reviews, rules, finals, flow,
          ratings, decisions, sealed>>

Init ==
  /\ PipelineInit
  /\ ratings = <<>> /\ decisions = <<>> /\ sealed = {}

-----------------------------------------------------------------------------
(* What the transactions read.                                             *)

RatingsOf(k) == {r \in 1 .. Len(ratings) : ratings[r].rev = k}
DecisionsOf(k) == {d \in 1 .. Len(decisions) : decisions[d].rev = k}
LastOf(S) == CHOOSE r \in S : \A q \in S : q <= r

\* The decision that can be resolved or confirmed: of the current revision the
\* highest decision revision, then the newest.
Previous(d) ==
  /\ d \in DecisionsOf(flow.rev)
  /\ \A e \in DecisionsOf(flow.rev) :
       decisions[e].no < decisions[d].no \/ (decisions[e].no = decisions[d].no /\ e <= d)

\* Wrong variant: a second gate decision is accepted.
GateFreeAlways == TRUE

\* The unique index on revision and stage: a second row ends the transaction.
GateFree == flow.rev \notin sealed

\* Wrong variant: any rating of the revision will do.
FreshStale(r) == ratings[r].rev = flow.rev

\* The rating is about the newest metrics.
Fresh(r) == ratings[r].metric = metrics

-----------------------------------------------------------------------------
(* Operations.  manual is the policy manualFinalConfirmationEnabled as the     *)
(* transaction reads it, once; administrators switch it at any moment.     *)

Add(d) == decisions' = Append(decisions, d)

Decision(content, rating, no, grade, final) ==
  [rev |-> flow.rev, content |-> content, rating |-> rating, no |-> no,
   grade |-> grade, final |-> final, case |-> FALSE]

Seal(final) == /\ final => GateFree
               /\ sealed' = IF final THEN sealed \cup {flow.rev} ELSE sealed

\* rateData: the same metrics are rated once in a revision.  Jobs and the
\* video's status are not looked at.
RateData(sufficient) ==
  /\ StillActive /\ DataStageOpen /\ flow.content # 0 /\ metrics > 0
  /\ \A r \in RatingsOf(flow.rev) : ratings[r].metric # metrics
  /\ ratings' = Append(ratings, [rev |-> flow.rev, metric |-> metrics, sufficient |-> sufficient])
  /\ status' = IF sufficient THEN "pending_rule_engine" ELSE "pending_data"
  /\ UNCHANGED <<active, supervised, metrics, reviews, rules, finals, flow, decisions, sealed>>

\* createComprehensiveDecision: R waits for an administrator, and the status
\* for him.
Decide(grade, manual) ==
  LET S == RatingsOf(flow.rev)  r == LastOf(S)
      final == grade # "R" /\ ~manual
  IN
  /\ StillActive /\ DataStageOpen /\ flow.content # 0 /\ Len(decisions) < MaxDecisions
  /\ S # {} /\ ratings[r].sufficient /\ Fresh(r)
  /\ \A d \in DecisionsOf(flow.rev) : ~(decisions[d].content = flow.content /\ decisions[d].rating = r)
  /\ Add(Decision(flow.content, r, 1, grade, final))
  /\ Seal(final)
  /\ status' = IF grade = "R" THEN status
               ELSE IF final THEN FinalStatus[grade] ELSE "pending_final_confirmation"
  /\ UNCHANGED <<active, supervised, metrics, reviews, rules, finals, flow, ratings>>

\* Holds and appeals of the revision.  The content of the previous decision was
\* clear when it was made; the one in force may be another by now.
Unblocked == StillActive /\ flow.hold = {}

\* resolveManualComprehensive.
Resolve(d, grade, manual) ==
  LET final == ~manual IN
  /\ Previous(d) /\ decisions[d].grade = "R" /\ Unblocked /\ Len(decisions) < MaxDecisions
  /\ Fresh(decisions[d].rating)
  /\ Add(Decision(decisions[d].content, decisions[d].rating, decisions[d].no + 1, grade, final))
  /\ Seal(final)
  /\ status' = IF final THEN FinalStatus[grade] ELSE "pending_final_confirmation"
  /\ UNCHANGED <<active, supervised, metrics, reviews, rules, finals, flow, ratings>>

\* confirmComprehensive, which is there only when the policy is on.
ConfirmDecision(d) ==
  /\ Previous(d) /\ decisions[d].grade # "R" /\ ~decisions[d].final
  /\ Unblocked /\ Len(decisions) < MaxDecisions
  /\ Fresh(decisions[d].rating)
  /\ Add(Decision(decisions[d].content, decisions[d].rating, decisions[d].no + 1,
                  decisions[d].grade, TRUE))
  /\ Seal(TRUE)
  /\ status' = FinalStatus[decisions[d].grade]
  /\ UNCHANGED <<active, supervised, metrics, reviews, rules, finals, flow, ratings>>

\* markCase locks the decision only.  A mark is not taken back.
MarkDecision(d) ==
  /\ decisions[d].final /\ decisions[d].grade # "low_effective"
  /\ StillActive /\ decisions[d].rev = flow.rev /\ flow.hold = {}
  /\ decisions' = [decisions EXCEPT ![d].case = TRUE]
  /\ UNCHANGED <<status, active, supervised, metrics, reviews, rules, finals, flow,
                 ratings, sealed>>

Next ==
  \/ PipelineNext /\ UNCHANGED <<ratings, decisions, sealed>>
  \/ \E s \in BOOLEAN : RateData(s)
  \/ \E g \in Grades \cup {"R"}, manual \in BOOLEAN : Decide(g, manual)
  \/ \E d \in 1 .. Len(decisions) :
       ConfirmDecision(d) \/ MarkDecision(d) \/ \E g \in Grades, manual \in BOOLEAN : Resolve(d, g, manual)

Spec == Init /\ [][Next]_vars

-----------------------------------------------------------------------------
(* Properties.                                                             *)

\* A final status is somebody's conclusion about the newest metrics: a final
\* decision, or a confirmed evaluation, says so.  An appeal leaves it standing.
FinalStatusIsFounded ==
  \A g \in Grades : status = FinalStatus[g] =>
    \/ \E d \in 1 .. Len(decisions) :
         decisions[d].final /\ decisions[d].grade = g /\ ratings[decisions[d].rating].metric = metrics
    \/ \E f \in 1 .. Len(finals) :
         finals[f].grade = g /\ reviews[rules[finals[f].rule].review].metric = metrics

\* listCases: a decision of the current revision, not held.
Listed(d) == decisions[d].case /\ decisions[d].rev = flow.rev /\ flow.hold = {}

\* A revision concludes once, however often its content is decided again: the
\* case library never shows a video as an example of both kinds.
OneConclusion ==
  /\ \A d, e \in 1 .. Len(decisions) :
       decisions[d].final /\ decisions[e].final /\ decisions[d].rev = decisions[e].rev => d = e
  /\ \A d, e \in 1 .. Len(decisions) : Listed(d) /\ Listed(e) => d = e

\* Offers that may be refused: the detail does not look at what holds a revision, at
\* a rerun or a pilot that goes on, nor at the gate of the data stage; it takes the
\* status that the revision before left for one of the current revision, offers the
\* rule engine to a video that can never have it, and takes the status that a V1.1
\* rating or decision left for one of the older way.
Unsure == (IF flow.hold = {} /\ flow.job \notin {"rerun", "pilot"} THEN {} ELSE {"content"})
          \cup (IF flow.rev > 1 /\ flow.gate = "none" THEN {"upload"} ELSE {})
          \cup (IF DataStageOpen THEN {} ELSE {"submit", "review"})
          \cup (IF supervised /\ ratings = <<>> THEN {} ELSE {"rules"})
          \cup (IF ratings = <<>> THEN {} ELSE {"confirm"})

\* What the detail of a video offers a person is accepted from him by the handler,
\* although the two decide from different rows: a button that the page shows is
\* never refused but in the cases above.
OfferedIsAccepted == \A p \in People : \A a \in Offered(p) : a \in Accepted(p) \/ a \in Unsure

-----------------------------------------------------------------------------
(* The inductive invariant the proofs in PipelineProofs rest on.           *)

Holds == {"manual", "appeal", "compliance", "input_incomplete", "evaluation_instability"}
FlowRows ==
  [rev : Nat, mode : {"unset", "formal", "shadow"}, content : Nat, adopted : Nat,
   gate : {"none", "approved", "revision_required", "hold"}, clear : BOOLEAN, hold : SUBSET Holds,
   job : {"none", "formal", "rerun", "pilot"}]
RatingRows == [rev : Nat, metric : Nat, sufficient : BOOLEAN]
DecisionRows ==
  [rev : Nat, content : Nat, rating : Nat, no : Nat, grade : Grades \cup {"R"},
   final : BOOLEAN, case : BOOLEAN]

TypeOK ==
  /\ active \in BOOLEAN /\ supervised \in BOOLEAN
  /\ metrics \in Nat /\ flow \in FlowRows
  /\ reviews \in Seq(ReviewRows) /\ rules \in Seq(RuleRows) /\ finals \in Seq(FinalRows)
  /\ ratings \in Seq(RatingRows) /\ decisions \in Seq(DecisionRows)

\* The rows of the older way come one after another: each is made from the newest
\* of the kind before, and only the newest can be running or be about the newest
\* of what it is made from.
OldRowsOK ==
  /\ \A r \in 1 .. Len(reviews) :
       /\ reviews[r].metric <= metrics
       /\ r < Len(reviews) => /\ reviews[r].status # "running"
                              /\ ~(reviews[r].metric = metrics /\ reviews[r].status = "succeeded")
  /\ \A r \in 1 .. Len(rules) :
       /\ rules[r].review \in 1 .. Len(reviews)
       /\ r < Len(rules) => rules[r].review # Len(reviews)
  /\ \A f \in 1 .. Len(finals) :
       /\ finals[f].rule \in 1 .. Len(rules)
       /\ finals[f].grade # "none" => finals[f].status = "succeeded"
       /\ f < Len(finals) => /\ finals[f].status # "running"
                             /\ ~(finals[f].rule = Len(rules) /\ finals[f].status = "succeeded")

\* The decisions of a revision follow from its ratings, at most one of which is
\* about the newest metrics; a final one has sealed the revision.
NewRowsOK ==
  /\ \A r \in 1 .. Len(ratings) : ratings[r].rev <= flow.rev /\ ratings[r].metric <= metrics
  /\ \A r, q \in 1 .. Len(ratings) :
       ratings[r].rev = ratings[q].rev /\ ratings[r].metric = ratings[q].metric => r = q
  /\ \A d \in 1 .. Len(decisions) :
       /\ decisions[d].rating \in 1 .. Len(ratings)
       /\ ratings[decisions[d].rating].rev = decisions[d].rev
       /\ decisions[d].content <= flow.adopted
       /\ decisions[d].case => decisions[d].final
       /\ decisions[d].final => decisions[d].rev \in sealed /\ decisions[d].grade # "R"
  /\ \A d, e \in 1 .. Len(decisions) :
       decisions[d].final /\ decisions[e].final /\ decisions[d].rev = decisions[e].rev => d = e

\* What the status says of the newest rows, and of the content stage.
StatusOK ==
  /\ flow.content <= flow.adopted
  /\ flow.content # 0 \/ flow.job # "none" \/ flow.gate # "none" => flow.rev > 0
  /\ status \in {"submitted", "ai_content_failed"} => flow.job # "formal"
  /\ status = "revision_required" =>
       flow.gate = "revision_required" \/ (flow.rev > 1 /\ flow.gate = "none")
  /\ status = "pending_rule_engine" =>
       ratings # <<>> \/ (Newest(reviews, "succeeded") /\ Latest(reviews).metric = metrics)
  /\ status \in {"pending_final_evaluation", "final_evaluation_failed"} =>
       Len(rules) > 0 /\ SourcesCurrent(Len(rules))
  /\ status = "pending_final_confirmation" =>
       \/ ratings # <<>>
       \/ /\ Newest(finals, "succeeded") /\ Latest(finals).grade = "none"
          /\ SourcesCurrent(Latest(finals).rule)

\* A revision with decisions has passed its gate.  Once it has a rating it waits for a
\* conclusion or has it, with the metrics it has, unless its content is evaluated again.
DecidedOK ==
  \A d \in DecisionsOf(flow.rev) :
    /\ flow.gate = "approved"
    /\ decisions[d].grade # "R" =>
         /\ ratings[decisions[d].rating].metric = metrics
         /\ status \in {"pending_final_confirmation", "ai_content_reviewing", "ai_content_failed"}
                         \cup {FinalStatus[g] : g \in Grades}

\* A final status was concluded from the newest metrics: by a confirmed evaluation, or
\* by a decision of the current revision, or of one before until the current one
\* passes its gate.  The top decision does not contradict it.
ConcludedOK ==
  \A g \in Grades : status = FinalStatus[g] =>
    \/ \E f \in 1 .. Len(finals) :
         finals[f].grade = g /\ reviews[rules[finals[f].rule].review].metric = metrics
    \/ \E d \in 1 .. Len(decisions) :
         /\ decisions[d].final /\ decisions[d].grade = g
         /\ ratings[decisions[d].rating].metric = metrics
         /\ decisions[d].rev = flow.rev \/ flow.gate # "approved"

TopOK ==
  \A g \in Grades : status = FinalStatus[g] /\ (\A f \in 1 .. Len(finals) : finals[f].grade = "none") =>
    \A d \in DecisionsOf(flow.rev) :
      Previous(d) /\ decisions[d].grade # "R" /\ decisions[d].content = flow.content
        => decisions[d].grade = g

PipelineInv ==
  TypeOK /\ OldRowsOK /\ NewRowsOK /\ StatusOK /\ DecidedOK /\ ConcludedOK /\ TopOK /\ HiddenIsQuiet
=============================================================================
