---------------------------- MODULE MCAccounts ------------------------------
(* Two administrators and an account to be created, for TLC.               *)
EXTENDS Accounts, TLC

CONSTANTS a, b, v, s1, s2

MCSymmetry == Permutations(Sessions)

MCNewAccounts ==
  { [role |-> "visitor", status |-> "active", expiry |-> "future", secret |-> 0,
     name |-> 0, must |-> TRUE, finite |-> TRUE] }

\* A name, a demotion, a suspension with and without naming it again, an end
\* by date, an archive.
MCChanges ==
  { [name |-> 1], [role |-> "content_owner"], [status |-> "disabled"],
    [status |-> "archived"], [status |-> "active"], [expiry |-> "future"], [expiry |-> "past"],
    [role |-> "visitor", expiry |-> "future"] }
=============================================================================
