----------------------------- MODULE JobPromise -----------------------------
(***************************************************************************)
(* What the evaluation queue promises to the account that asks for an      *)
(* evaluation, without workers, leases, attempts or crashes: a request is  *)
(* put to the paid model at most once, it gets one outcome, it is charged  *)
(* or given back once, and a request given back is never put to the model  *)
(* afterwards.  EvaluationJobs implements this module.                     *)
(***************************************************************************)
CONSTANTS
  Jobs,    \* the evaluation requests
  Payable  \* those charged to a quota

VARIABLES
  phase,   \* how far the request has come
  asked,   \* the requests put to the paid model
  charge   \* what the account's quota says of the request

promise == <<phase, asked, charge>>

Open == "pending"
Outcomes == {"succeeded", "failed", "uncertain"}

TypeOK ==
  /\ phase \in [Jobs -> {"absent", Open} \cup Outcomes]
  /\ asked \subseteq Jobs
  /\ charge \in [Jobs -> {"none", "reserved", "charged", "given_back"}]

Init ==
  \E q \in SUBSET Jobs :
    /\ phase = [j \in Jobs |-> IF j \in q THEN Open ELSE "absent"]
    /\ asked = {}
    /\ charge = [j \in Jobs |-> IF j \in q \cap Payable THEN "reserved" ELSE "none"]

\* The request is accepted, with a reservation when it is payable.
Submit(j) ==
  /\ phase[j] = "absent"
  /\ phase' = [phase EXCEPT ![j] = Open]
  /\ charge' = [charge EXCEPT ![j] = IF j \in Payable THEN "reserved" ELSE "none"]
  /\ UNCHANGED asked

\* The model is asked: once, and never for a request already given back.  The
\* request may already count as uncertain when it reaches the model.
Ask(j) ==
  /\ phase[j] \in {Open, "uncertain"}
  /\ j \notin asked
  /\ charge[j] # "given_back"
  /\ asked' = asked \cup {j}
  /\ UNCHANGED <<phase, charge>>

\* The charge a settled request ends with.
Settled(j, c) ==
  charge' = [charge EXCEPT ![j] = IF @ = "none" THEN @ ELSE c]

Succeed(j) ==
  /\ phase[j] = Open /\ j \in asked
  /\ phase' = [phase EXCEPT ![j] = "succeeded"]
  /\ Settled(j, "charged")
  /\ UNCHANGED asked

Fail(j) ==
  /\ phase[j] = Open
  /\ phase' = [phase EXCEPT ![j] = "failed"]
  /\ Settled(j, IF j \in asked THEN "charged" ELSE "given_back")
  /\ UNCHANGED asked

\* Nobody knows what the model answered, or whether it was asked at all; a
\* request that was asked is paid for.
GiveUp(j) ==
  /\ phase[j] = Open
  /\ phase' = [phase EXCEPT ![j] = "uncertain"]
  /\ \/ Settled(j, "charged")
     \/ j \notin asked /\ Settled(j, "given_back")
  /\ UNCHANGED asked

\* An evaluation found without a request: never charged, never asked again.
Adopt(j) ==
  /\ phase[j] = "absent"
  /\ phase' = [phase EXCEPT ![j] = "uncertain"]
  /\ UNCHANGED <<asked, charge>>

\* A success that calls for another evaluation submits it in the same step.
SucceedAndSubmit(j, n) ==
  /\ phase[j] = Open /\ j \in asked /\ phase[n] = "absent"
  /\ phase' = [phase EXCEPT ![j] = "succeeded", ![n] = Open]
  /\ charge' = [charge EXCEPT ![j] = IF @ = "none" THEN @ ELSE "charged",
                              ![n] = IF n \in Payable THEN "reserved" ELSE "none"]
  /\ UNCHANGED asked

Next ==
  \/ \E j \in Jobs :
       Submit(j) \/ Ask(j) \/ Succeed(j) \/ Fail(j) \/ GiveUp(j) \/ Adopt(j)
  \/ \E j, n \in Jobs : SucceedAndSubmit(j, n)

Spec == Init /\ [][Next]_promise
=============================================================================
