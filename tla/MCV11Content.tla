---------------------------- MODULE MCV11Content ----------------------------
(* Instances of the V1.1 content evaluation for TLC.                       *)
EXTENDS V11Content, TLC

CONSTANT v1

\* What later steps can still read: the attempts and compliance of a closed
\* group, the tries of a settled job and the holds and appeals of a superseded
\* revision are history.
Relevant ==
  << revs, vstatus, fingerprint,
     [g \in GroupIds |-> IF groups[g].status \in OpenGroup THEN groups[g]
                         ELSE [groups[g] EXCEPT !.attempts = 0]],
     [r \in RunIds |-> [runs[r] EXCEPT
         !.tries = IF runs[r].job \in LiveJob THEN @ ELSE 0,
         !.job   = IF @ \in LiveJob THEN @ ELSE "failed",
         !.clear = @ \/ groups[runs[r].group].status \notin OpenGroup]],
     {h \in holds : h.rev = Current(h.video)},
     {a \in appeals : a.rev = Current(a.video)} >>
=============================================================================
