------------------------- MODULE MCEvaluationJobs -------------------------
(* Instances of the queue for TLC; the .cfg files choose among them.       *)
EXTENDS EvaluationJobs, TLC

CONSTANTS v1, v2, u1, r1, r2, r3, f1, c1, c2, c3, l1

\* The second video carries the evaluations of the time before V1.1.
MCVideoOf == [j \in Jobs |-> IF j = l1 THEN v2 ELSE v1]

\* r: data reviews, f: final evaluations, c: V1.1 content runs, l: a content
\* evaluation of the time before V1.1.
MCStageOf ==
  [j \in Jobs |-> CASE j \in {r1, r2, r3} -> "result"
                    [] j = f1 -> "final"
                    [] j \in {c1, c2, c3} -> "v11_content"
                    [] j = l1 -> "content"]

MCActorOf == [j \in Jobs |-> u1]

OneAttempt  == [j \in Jobs |-> 1]
TwoAttempts == [j \in Jobs |-> 2]

QuotaTwo == [u \in Users |-> 2]

Interchangeable == Permutations(Workers)
=============================================================================
