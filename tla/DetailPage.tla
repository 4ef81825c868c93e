----------------------------- MODULE DetailPage -----------------------------
(***************************************************************************)
(* A tab of the browser that shows one video, with the panel of the result *)
(* evaluation or that of the final evaluation: page.tsx, the two panels    *)
(* and the helpers they use.  Other people act on the video at the same    *)
(* time.                                                                   *)
(*                                                                         *)
(* Requests are answered at some moment and the answer arrives later, or   *)
(* not at all.  The page loads the detail again whenever something ended,  *)
(* and answers may arrive in another order.  A detail that differs in      *)
(* status, offers or newest metrics makes the panel load its source, and   *)
(* only the newest of these loads counts.  A panel's three requests are    *)
(* taken as one; the history is left out.                                  *)
(*                                                                         *)
(* The source of a result evaluation are the newest metrics, that of a     *)
(* final evaluation the newest rule result.                                *)
(***************************************************************************)
EXTENDS VideoActions

CONSTANT Blank  \* nothing: no detail yet, no load or request under way

VARIABLE tab
\* The fields of tab:
\*   stage     whose panel it is, "review" or "final"
\*   detail    [status, offers, metric] as last delivered
\*   unread    requests for the detail that the server has not read; bound: two
\*   answers   details that the server has read and that are under way
\*   source    the panel's load: Blank, Due, or what was read
\*   origin    the source the panel shows
\*   shown     the evaluation it shows, [id, status]
\*   pinned    the evaluation this tab started or found running, 0 for none
\*   tracked   the one whose job it asks about, 0 for none
\*   ticking   these questions go on
\*   paused    the user is told that they do not
\*   late      evaluations whose final fetch is under way
\*   sent      source that a trigger request names, 0 for none
\*   started   the evaluation that a trigger's answer names, 0 for none

\* Who has the page open: the content owner who created the video.
Viewer == [role |-> "content_owner", own |-> TRUE]

Due == [read |-> FALSE]

\* The evaluations of the panel, and the number of the newest source.
Evaluations == IF tab.stage = "review" THEN reviews ELSE finals
NewestSource == IF tab.stage = "review" THEN metrics ELSE Len(rules)

Opened(stage) ==
  [stage |-> stage, detail |-> Blank, unread |-> 1, answers |-> {}, source |-> Blank, origin |-> 0,
   shown |-> [id |-> 0, status |-> "none"], pinned |-> 0, tracked |-> 0,
   ticking |-> FALSE, paused |-> FALSE, late |-> {}, sent |-> 0, started |-> 0]

\* A video whose rule result asks for a final evaluation.
Ruled ==
  /\ status = "pending_final_evaluation" /\ active = TRUE /\ supervised = TRUE /\ metrics = 1
  /\ reviews = <<[metric |-> 1, status |-> "succeeded", sufficient |-> TRUE]>>
  /\ rules = <<[review |-> 1, sufficient |-> TRUE]>> /\ finals = <<>>
  /\ flow = NoWorkflow

PageInit ==
  \/ PipelineInit /\ supervised /\ tab = Opened("review")
  \/ Ruled /\ tab = Opened("final")

\* What the tab does leaves the video alone.
Becomes(t) == tab' = t /\ UNCHANGED pipelineVars

\* The tab is opened again; all it knew is gone.
Reload == tab.detail # Blank /\ Becomes(Opened(tab.stage))

-----------------------------------------------------------------------------
(* The detail of the video.                                                *)

Asked == IF tab.unread = 2 THEN 2 ELSE tab.unread + 1

ReadDetail ==
  /\ tab.unread > 0
  /\ Becomes([tab EXCEPT !.unread = @ - 1,
                !.answers = @ \cup {[status |-> status, offers |-> Offered(Viewer), metric |-> metrics]}])

LoseDetail == tab.unread > 0 /\ tab.detail # Blank /\ Becomes([tab EXCEPT !.unread = @ - 1])

\* workflowEvidenceKey: the panel of the final evaluation does not look at metrics.
EvidenceKey(d) ==
  IF d = Blank THEN Blank
  ELSE IF tab.stage = "review" THEN d ELSE [status |-> d.status, offers |-> d.offers]

\* onDetail.  Other metrics also start the questions about a result evaluation again.
DeliverDetail(d) ==
  LET again == /\ tab.stage = "review" /\ tab.detail # Blank
               /\ d.metric # tab.detail.metric /\ tab.tracked # 0
  IN
  Becomes([tab EXCEPT !.answers = @ \ {d}, !.detail = d,
             !.source = IF EvidenceKey(d) # EvidenceKey(tab.detail) THEN Due ELSE @,
             !.ticking = @ \/ again, !.paused = @ /\ ~again])

-----------------------------------------------------------------------------
(* The source of the panel.                                                *)

ReadSource ==
  /\ tab.source = Due
  /\ Becomes([tab EXCEPT !.source =
       [read |-> TRUE, origin |-> NewestSource, id |-> Len(Evaluations),
        status |-> IF Evaluations = <<>> THEN "none" ELSE Latest(Evaluations).status]])

LoseSource == tab.source # Blank /\ Becomes([tab EXCEPT !.source = Blank])

\* Wrong variant: the newest evaluation is always shown.
ShouldApplyAlways(id) == TRUE

\* shouldApplyLatestSelection
ShouldApply(id) == tab.pinned \in {0, id}

\* The effect of a new tracked evaluation.
Tracking(t, id) == [t EXCEPT !.pinned = id, !.tracked = id, !.ticking = TRUE, !.paused = FALSE]

\* onMetric: metrics that are not those of the detail are not taken.
TakeMetric(s) == IF s.origin = tab.detail.metric THEN s.origin ELSE tab.origin

\* onRule: the rule result is taken as it comes.
TakeRule(s) == s.origin

\* onLatest: a running evaluation is followed when no other is.
DeliverSource ==
  /\ tab.source # Blank /\ tab.source.read
  /\ LET s == tab.source
         t == [tab EXCEPT !.source = Blank,
                 !.origin = IF tab.stage = "review" THEN TakeMetric(s) ELSE TakeRule(s),
                 !.shown = IF ShouldApply(s.id) THEN [id |-> s.id, status |-> s.status] ELSE @]
     IN  Becomes(IF tab.pinned = 0 /\ s.status = "running" THEN Tracking(t, s.id) ELSE t)

-----------------------------------------------------------------------------
(* Questions about the job: startStatusPolling.                            *)

\* The job has ended and its evaluation with it; the evaluation is fetched, and
\* nothing cancels that fetch any more.
PollEnd ==
  /\ tab.ticking /\ Evaluations[tab.tracked].status # "running"
  /\ Becomes([tab EXCEPT !.ticking = FALSE, !.late = @ \cup {tab.tracked}])

\* Five errors in a row, or twenty minutes.
PollPause == tab.ticking /\ Becomes([tab EXCEPT !.ticking = FALSE, !.paused = TRUE])

PollAgain == tab.paused /\ tab.tracked # 0 /\ Becomes([tab EXCEPT !.ticking = TRUE, !.paused = FALSE])

\* onReview and onEvaluation.  Whatever is tracked by then is tracked no more.
Fetched(id, st) ==
  Becomes([tab EXCEPT !.late = @ \ {id}, !.tracked = 0, !.ticking = FALSE, !.unread = Asked,
             !.shown = IF id = tab.pinned THEN [id |-> id, status |-> st] ELSE @])

FetchReview(id) == tab.stage = "review" /\ Fetched(id, reviews[id].status)
FetchFinal(id) == tab.stage = "final" /\ Fetched(id, finals[id].status)

FailFetch(id) == Becomes([tab EXCEPT !.late = @ \ {id}, !.paused = TRUE])

-----------------------------------------------------------------------------
(* The trigger of the panel.                                               *)

\* The button is there, and no other request of it is under way.
CanAsk(offer) ==
  /\ tab.detail # Blank /\ tab.sent = 0 /\ tab.started = 0
  /\ offer \in tab.detail.offers

\* latestMetricForTrigger: without the metrics of the detail it loads again.
AskForReview ==
  /\ tab.stage = "review" /\ CanAsk("review")
  /\ Becomes(IF tab.origin = tab.detail.metric THEN [tab EXCEPT !.sent = tab.origin]
             ELSE [tab EXCEPT !.source = Due])

\* The rule result that the panel shows, however old.
AskForFinal ==
  /\ tab.stage = "final" /\ CanAsk("final") /\ tab.origin # 0
  /\ Becomes([tab EXCEPT !.sent = tab.origin])

\* The server takes it for the newest source only, or refuses.
Refuse(can) == ~(tab.sent = NewestSource /\ can) /\ Becomes([tab EXCEPT !.sent = 0])

ServeReview ==
  /\ tab.stage = "review" /\ tab.sent # 0
  /\ \/ /\ tab.sent = metrics /\ TriggerReview
        /\ tab' = [tab EXCEPT !.sent = 0, !.started = Len(reviews')]
     \/ Refuse(CanReview)

ServeFinal ==
  /\ tab.stage = "final" /\ tab.sent # 0
  /\ \/ /\ tab.sent = Len(rules) /\ TriggerFinal
        /\ tab' = [tab EXCEPT !.sent = 0, !.started = Len(finals')]
     \/ Refuse(CanEvaluate)

DeliverTrigger ==
  /\ tab.started # 0
  /\ Becomes(Tracking([tab EXCEPT !.started = 0, !.unread = Asked,
                         !.shown = [id |-> tab.started, status |-> "running"]], tab.started))

\* The answer does not arrive; the evaluation runs.
LoseTrigger == tab.started # 0 /\ Becomes([tab EXCEPT !.started = 0])

-----------------------------------------------------------------------------
\* Other people, and the worker.
Others ==
  /\ UNCHANGED tab
  /\ \/ /\ tab.stage = "review"
        /\ \/ SubmitMetrics \/ TriggerReview \/ FailReview \/ ExecuteRules
           \/ \E s \in BOOLEAN : CompleteReview(s)
     \/ /\ tab.stage = "final"
        /\ \/ TriggerFinal \/ FailFinal \/ CompleteFinal
           \/ \E f \in DOMAIN finals, g \in Grades : Confirm(f, g)

PageNext ==
  \/ Reload \/ ReadDetail \/ LoseDetail \/ \E d \in tab.answers : DeliverDetail(d)
  \/ ReadSource \/ LoseSource \/ DeliverSource
  \/ PollEnd \/ PollPause \/ PollAgain
  \/ \E id \in tab.late : FetchReview(id) \/ FetchFinal(id) \/ FailFetch(id)
  \/ AskForReview \/ ServeReview \/ AskForFinal \/ ServeFinal \/ DeliverTrigger \/ LoseTrigger
  \/ Others

PageSpec == PageInit /\ [][PageNext]_<<pipelineVars, tab>>

-----------------------------------------------------------------------------
(* Properties.                                                             *)

\* The panel follows the evaluation that a trigger returned (docs/superpowers/specs/
\* 2026-09-07-v101-ui-contract.md:32).  Whatever arrives late or in another order, a
\* tab that follows an evaluation shows no other one and asks about no other one, and
\* an end that it shows is the end that the evaluation had.
PanelTellsTheTruth ==
  /\ tab.pinned # 0 => tab.shown.id = tab.pinned
  /\ tab.tracked \in {0, tab.pinned} /\ (tab.ticking => tab.tracked # 0)
  /\ tab.shown.status \in {"succeeded", "failed"} => Evaluations[tab.shown.id].status = tab.shown.status

-----------------------------------------------------------------------------
(* The inductive invariant the proofs in BrowserProofs rest on.            *)

Ends == {"succeeded", "failed"}
Places == 0 .. Len(Evaluations)

\* What was once read of an evaluation; an end stays true.
Tells(id, st) ==
  /\ id \in Places /\ (id = 0 => st = "none")
  /\ st \in Ends => Evaluations[id].status = st

RowsOK ==
  metrics \in Nat /\ reviews \in Seq(ReviewRows) /\ rules \in Seq(RuleRows) /\ finals \in Seq(FinalRows)

TabOK ==
  /\ DOMAIN tab = DOMAIN Opened("review") /\ tab.stage \in {"review", "final"}
  /\ tab.tracked \in Places /\ tab.started \in Places /\ tab.late \subseteq Places \ {0}
  /\ Tells(tab.shown.id, tab.shown.status)
  /\ tab.source \in {Blank, Due} \/ Tells(tab.source.id, tab.source.status)

PageInv == RowsOK /\ TabOK /\ PanelTellsTheTruth
=============================================================================
