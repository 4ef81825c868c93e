----------------------------- MODULE MCUploads ------------------------------
(* Instances of the uploads for TLC.                                       *)
EXTENDS Uploads, TLC

CONSTANTS u1, u2, t1, t2, q1, q2, p1

\* Two users revise the same parent, one of them while a local upload under
\* the other ticket's key competes for the quota.
MCInputs ==
  { [user |-> u1, ticket |-> t1, parent |-> p1, local |-> FALSE],
    [user |-> u2, ticket |-> t2, parent |-> p1, local |-> FALSE],
    [user |-> u1, ticket |-> t2, parent |-> NoParent, local |-> TRUE] }
=============================================================================
