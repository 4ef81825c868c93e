------------------------------- MODULE Uploads -------------------------------
(***************************************************************************)
(* Uploads: videos.service.ts, upload-ticket-maintenance.ts, the quota     *)
(* ledger of upload_count and storage_bytes, and the object store.         *)
(*                                                                         *)
(* A ticket reserves quota for one upload.  A direct upload gets its       *)
(* ticket first, the browser puts the source object and then confirms; a   *)
(* local upload arrives with the file and makes its ticket itself.  A      *)
(* request that owns the ticket seals the file under a key of its own and  *)
(* creates the video in one transaction.  Meanwhile the client cancels or  *)
(* asks again, the ticket expires, the worker sweeps, and processes die.   *)
(*                                                                         *)
(* Transactions take the lock of the user's row and are atomic, except for *)
(* the one that creates the video: a request can lose its connection while *)
(* that transaction is still open, and must then not take it for failed.   *)
(***************************************************************************)
EXTENDS Naturals, FiniteSets

CONSTANTS
  Users,
  Tickets,
  Requests,    \* bound: confirmations and local uploads ever sent
  Parents,     \* videos that may get a revision
  NoParent,
  Inputs,      \* what a request may ask for, see UploadAssumption
  QuotaLimit   \* uploads an account may have

ASSUME UploadAssumption ==
  /\ QuotaLimit \in Nat /\ NoParent \notin Parents /\ Inputs # {}
  /\ Inputs \subseteq [user : Users, ticket : Tickets,
                       parent : Parents \cup {NoParent}, local : BOOLEAN]

VARIABLES
  tickets,    \* upload_tickets with their two rows of the quota ledger
  objects,    \* what the object store and the disk hold
  reqs,       \* requests in progress
  open,       \* requests whose creating transaction has not ended
  videos,     \* videos created by uploads
  late        \* history: direct tickets whose source was put after their sweep

vars == <<tickets, objects, reqs, open, videos, late>>

OpenStatus == {"reserved", "confirming", "uploading"}

Source(t) == <<"source", t>>
FileOf(q) == IF reqs[q].in.local THEN <<"file", q>> ELSE <<"sealed", reqs[q].in.ticket>>

Init ==
  /\ tickets = [t \in Tickets |->
       [status |-> "none", user |-> CHOOSE u \in Users : TRUE, local |-> FALSE,
        age |-> "live", ledger |-> "none", cleaned |-> FALSE]]
  /\ objects = {} /\ open = {} /\ videos = {} /\ late = {}
  /\ reqs = [q \in Requests |->
       [pc |-> "idle", in |-> CHOOSE i \in Inputs : TRUE, owner |-> FALSE]]

-----------------------------------------------------------------------------
(* Locks and guards.                                                       *)

\* Wrong variant: transactions do not lock the user's row.
LockFreeNever(u) == TRUE

\* FOR UPDATE on the user's row waits for an open transaction of that user.
LockFree(u) == \A q \in open : reqs[q].in.user # u

\* Wrong variant: the parent's row is read without a lock.
ParentFreeUnlocked(p) == TRUE

\* The same for the row of the parent video.
ParentFree(p) == p = NoParent \/ \A q \in open : reqs[q].in.parent # p

Used(u) == {t \in Tickets : tickets[t].user = u /\ tickets[t].ledger \in {"reserved", "committed"}}

\* reserveUpload: the two kinds are reserved in one transaction.
QuotaFree(u) == Cardinality(Used(u)) < QuotaLimit

\* Wrong variant: an upload that is being confirmed is left alone.
SweepableIdle(t) ==
  /\ tickets[t].age = "overdue" /\ ~tickets[t].cleaned
  /\ tickets[t].status \notin {"none", "confirming", "uploading"}

\* The sweep waits a minute longer than the signature is valid.
Sweepable(t) ==
  /\ tickets[t].age = "overdue" /\ ~tickets[t].cleaned
  /\ tickets[t].status # "none"

Referenced(o) == \E v \in videos : v.file = o

\* A revision is active until it is approved, and again when it is evaluated
\* again.
ActiveRevision(p) == \E v \in videos : p # NoParent /\ v.parent = p /\ v.stage \in {"fresh", "again"}

\* Wrong variant: cancelling leaves the reservation to the sweep.
CanceledOnly(ts, S) ==
  [t \in Tickets |-> IF t \in S THEN [ts[t] EXCEPT !.status = "canceled"] ELSE ts[t]]

\* cancelDirectUploadTicket, for tickets that are not confirmed.
Canceled(ts, S) ==
  [t \in Tickets |-> IF t \in S
     THEN [ts[t] EXCEPT !.status = "canceled", !.ledger = "released"] ELSE ts[t]]

-----------------------------------------------------------------------------
(* Tickets and the client.                                                 *)

NewTicket(t, u, status, local) ==
  [tickets EXCEPT ![t] = [status |-> status, user |-> u, local |-> local,
                          age |-> "live", ledger |-> "reserved", cleaned |-> FALSE]]

\* createDirectUploadTicket begins by cancelling what of the user's has expired.
ExpireOwn(u) ==
  LET S == {t \in Tickets : /\ tickets[t].user = u /\ tickets[t].age # "live"
                            /\ tickets[t].status \in OpenStatus}
  IN  /\ S # {} /\ LockFree(u)
      /\ tickets' = Canceled(tickets, S)
      /\ UNCHANGED <<objects, reqs, open, videos, late>>

Issue(u, t) ==
  /\ tickets[t].status = "none" /\ \E in \in Inputs : in.user = u /\ in.ticket = t /\ ~in.local
  /\ LockFree(u) /\ QuotaFree(u)
  /\ tickets' = NewTicket(t, u, "reserved", FALSE)
  /\ UNCHANGED <<objects, reqs, open, videos, late>>

\* The browser's PUT lands.  The signature, which outlives a cancellation, bounds
\* only when it may begin: it has no timeout, and may land after the sweep.
Put(t) ==
  /\ tickets[t].status # "none" /\ ~tickets[t].local
  /\ objects' = objects \cup {Source(t)}
  /\ late' = IF tickets[t].cleaned THEN late \cup {t} ELSE late
  /\ UNCHANGED <<tickets, reqs, open, videos>>

\* The user aborts the upload in the browser.
Abort(t) ==
  /\ tickets[t].status \notin {"none", "confirmed"}
  /\ LockFree(tickets[t].user)
  /\ tickets' = Canceled(tickets, {t})
  /\ UNCHANGED <<objects, reqs, open, videos, late>>

Age(t) ==
  /\ tickets[t].status # "none" /\ tickets[t].age # "overdue"
  /\ tickets' = [tickets EXCEPT ![t].age = IF @ = "live" THEN "expired" ELSE "overdue"]
  /\ UNCHANGED <<objects, reqs, open, videos, late>>

-----------------------------------------------------------------------------
(* A request.                                                              *)

Become(q, pc) == reqs' = [reqs EXCEPT ![q].pc = pc]

\* A confirmation of a ticket that was issued to its user; others are refused.
StartDirect(q, in) ==
  /\ reqs[q].pc = "idle" /\ ~in.local
  /\ tickets[in.ticket].status # "none" /\ ~tickets[in.ticket].local
  /\ tickets[in.ticket].user = in.user
  /\ reqs' = [reqs EXCEPT ![q].pc = "claiming", ![q].in = in]
  /\ UNCHANGED <<tickets, objects, open, videos, late>>

\* A local upload with the ticket's key: its file is already on the disk.
StartLocal(q, in) ==
  /\ reqs[q].pc = "idle" /\ in.local
  /\ reqs' = [reqs EXCEPT ![q].pc = "reserving", ![q].in = in]
  /\ objects' = objects \cup {<<"file", q>>}
  /\ UNCHANGED <<tickets, open, videos, late>>

Claimable(t) == tickets[t].status = "reserved" /\ tickets[t].age = "live"

\* One round of the claiming loop that does not just wait.
Claim(q) ==
  LET t == reqs[q].in.ticket IN
  /\ reqs[q].pc = "claiming" /\ LockFree(reqs[q].in.user)
  /\ IF Claimable(t)
     THEN /\ tickets' = [tickets EXCEPT ![t].status = "confirming"]
          /\ reqs' = [reqs EXCEPT ![q].pc = "sealing", ![q].owner = TRUE]
     ELSE /\ UNCHANGED tickets
          /\ Become(q, "done")  \* answered with the video, refused, or waited in vain
  /\ UNCHANGED <<objects, open, videos, late>>

\* A key that is in use, or has ended, gets no second reservation.
Reserve(q) ==
  LET t == reqs[q].in.ticket  u == reqs[q].in.user IN
  /\ reqs[q].pc = "reserving" /\ LockFree(u)
  /\ IF tickets[t].status = "none" /\ QuotaFree(u)
     THEN /\ tickets' = NewTicket(t, u, "uploading", TRUE)
          /\ reqs' = [reqs EXCEPT ![q].pc = "confirming", ![q].owner = TRUE]
     ELSE UNCHANGED tickets /\ Become(q, "cleaning")
  /\ UNCHANGED <<objects, open, videos, late>>

\* finalizeDirectUpload checks the source, then the store copies it.
SealBegin(q) ==
  /\ reqs[q].pc = "sealing" /\ Source(reqs[q].in.ticket) \in objects
  /\ Become(q, "copying")
  /\ UNCHANGED <<tickets, objects, open, videos, late>>

SealEnd(q) ==
  /\ reqs[q].pc = "copying"
  /\ objects' = objects \cup {FileOf(q)}
  /\ Become(q, "confirming")
  /\ UNCHANGED <<tickets, open, videos, late>>

\* The transaction that creates the video passes its checks, or refuses; that
\* the parent still waits for a revision is decided elsewhere (Fail).
Confirm(q) ==
  LET t == reqs[q].in.ticket  p == reqs[q].in.parent IN
  /\ reqs[q].pc = "confirming" /\ LockFree(reqs[q].in.user) /\ ParentFree(p)
  /\ IF /\ tickets[t].status \in {"confirming", "uploading"} /\ tickets[t].age = "live"
        /\ ~ActiveRevision(p)
     THEN Become(q, "committing") /\ open' = open \cup {q}
     ELSE Become(q, "failed") /\ UNCHANGED open
  /\ UNCHANGED <<tickets, objects, videos, late>>

\* The transaction ends in the database, whatever became of the request.
Commit(q) ==
  /\ q \in open
  /\ open' = open \ {q}
  /\ videos' = videos \cup {[ticket |-> reqs[q].in.ticket, file |-> FileOf(q),
                             parent |-> reqs[q].in.parent, stage |-> "fresh"]}
  /\ tickets' = [tickets EXCEPT ![reqs[q].in.ticket].status = "confirmed",
                                ![reqs[q].in.ticket].ledger = "committed"]
  /\ reqs' = [reqs EXCEPT ![q].pc = IF @ = "committing" THEN "done" ELSE @]
  /\ UNCHANGED <<objects, late>>

Rollback(q) ==
  /\ q \in open
  /\ open' = open \ {q}
  /\ reqs' = [reqs EXCEPT ![q].pc = IF @ = "committing" THEN "failed" ELSE @]
  /\ UNCHANGED <<tickets, objects, videos, late>>

\* An error on the way: an account disabled meanwhile, a failed copy whose
\* target is deleted if that works, a lost connection to the database.
Fail(q) ==
  /\ reqs[q].pc \in {"claiming", "reserving", "sealing", "copying", "confirming", "committing"}
  /\ Become(q, IF reqs[q].owner THEN "failed"
               ELSE IF reqs[q].in.local THEN "cleaning" ELSE "done")
  /\ objects' \in IF reqs[q].pc = "copying" THEN {objects, objects \cup {FileOf(q)}} ELSE {objects}
  /\ UNCHANGED <<tickets, open, videos, late>>

\* The catch branch of the owner: cancel first, which waits for the creating
\* transaction; a confirmed ticket ends it.
Recover(q) ==
  LET t == reqs[q].in.ticket IN
  /\ reqs[q].pc = "failed" /\ LockFree(reqs[q].in.user)
  /\ IF tickets[t].status = "confirmed"
     THEN UNCHANGED tickets /\ Become(q, "done")
     ELSE tickets' = Canceled(tickets, {t}) /\ Become(q, "cleaning")
  /\ UNCHANGED <<objects, open, videos, late>>

\* Only then the file, unless a video refers to it; the deletion may fail.
CleanUp(q) ==
  /\ reqs[q].pc = "cleaning"
  /\ objects' \in IF Referenced(FileOf(q)) THEN {objects} ELSE {objects, objects \ {FileOf(q)}}
  /\ Become(q, "done")
  /\ UNCHANGED <<tickets, open, videos, late>>

\* The API process dies, or the catch branch itself fails.
Die(q) ==
  /\ reqs[q].pc \notin {"idle", "done", "dead"}
  /\ Become(q, "dead")
  /\ UNCHANGED <<tickets, objects, open, videos, late>>

-----------------------------------------------------------------------------
(* The worker's sweep, one transaction for each ticket.                    *)

Garbage(t) ==
  {o \in {Source(t)} \cup (IF tickets[t].status = "confirmed" THEN {} ELSE {<<"sealed", t>>}) :
     ~tickets[t].local /\ ~Referenced(o)}

Sweep(t) ==
  /\ Sweepable(t) /\ LockFree(tickets[t].user)
  /\ objects' = objects \ Garbage(t)
  /\ tickets' = [tickets EXCEPT ![t].cleaned = TRUE,
       ![t].status = IF @ = "confirmed" THEN @ ELSE "expired",
       ![t].ledger = IF tickets[t].status = "confirmed" THEN @ ELSE "released"]
  /\ UNCHANGED <<reqs, open, videos, late>>

\* A deletion or the transaction fails: the rows are rolled back, the objects
\* are not.
SweepFails(t) ==
  /\ Sweepable(t) /\ LockFree(tickets[t].user)
  /\ \E S \in SUBSET Garbage(t) : objects' = objects \ S
  /\ UNCHANGED <<tickets, reqs, open, videos, late>>

-----------------------------------------------------------------------------
(* The life of the videos, which goes on elsewhere.                        *)

\* A revision is approved, or evaluated again.
RevisionMoves(v) ==
  /\ v.parent # NoParent
  /\ videos' = (videos \ {v}) \cup
       {[v EXCEPT !.stage = IF @ = "left" THEN "again" ELSE "left"]}
  /\ UNCHANGED <<tickets, objects, reqs, open, late>>

RequestStep(q) ==
  \/ Claim(q) \/ Reserve(q) \/ SealBegin(q) \/ SealEnd(q) \/ Confirm(q)
  \/ Fail(q) \/ Recover(q) \/ CleanUp(q) \/ Die(q)

Next ==
  \/ \E u \in Users : ExpireOwn(u) \/ \E t \in Tickets : Issue(u, t)
  \/ \E t \in Tickets : Put(t) \/ Abort(t) \/ Age(t) \/ Sweep(t) \/ SweepFails(t)
  \/ \E q \in Requests, in \in Inputs : StartDirect(q, in) \/ StartLocal(q, in)
  \/ \E q \in Requests : RequestStep(q) \/ Commit(q) \/ Rollback(q)
  \/ \E v \in videos : RevisionMoves(v)

Spec == Init /\ [][Next]_vars

\* The worker sweeps every minute, the store answers again and again, and the
\* database ends a transaction.
Fairness ==
  /\ \A t \in Tickets : WF_vars(Age(t)) /\ SF_vars(Sweep(t))
  /\ \A q \in Requests : WF_vars(Commit(q) \/ Rollback(q))

FairSpec == Spec /\ Fairness

-----------------------------------------------------------------------------
(* Properties.                                                             *)

\* No account holds more uploads than its quota, whatever the interleaving of
\* tickets, local uploads, cancellations and the sweep; and a reservation is open
\* exactly while its ticket is, spent exactly when a video came of it, and given back
\* otherwise: cancel, expiry, sweep and the catch branch settle it once between them.
ReservationFollowsTicket ==
  /\ \A u \in Users : Cardinality(Used(u)) <= QuotaLimit
  /\ \A t \in Tickets :
       /\ tickets[t].ledger = "reserved" <=> tickets[t].status \in OpenStatus
       /\ tickets[t].ledger = "committed" <=> tickets[t].status = "confirmed"
       /\ tickets[t].status = "confirmed" <=> \E v \in videos : v.ticket = t

Owns(q, t) == reqs[q].owner /\ reqs[q].in.ticket = t

\* The file of a video is there: neither the sweep nor the catch branch of a request
\* with an unknown outcome deletes it.  One request owns a ticket, so that the sealed
\* key is written once.  And a swept ticket leaves a source behind only when a PUT
\* landed after the sweep, and a sealed file without a video only to a request that has
\* its own cleaning before it, could not do it, or died.
FilesFollowVideos ==
  /\ \A v \in videos : v.file \in objects
  /\ \A q, r \in Requests, t \in Tickets : Owns(q, t) /\ Owns(r, t) => q = r
  /\ \A t \in Tickets : tickets[t].cleaned /\ ~tickets[t].local =>
       /\ Source(t) \in objects => t \in late
       /\ <<"sealed", t>> \in objects /\ ~Referenced(<<"sealed", t>>) =>
            \E q \in Requests : Owns(q, t)

\* Two users, or two tabs, never revise one video at the same time: of its
\* revisions at most one is still on its way to a first decision.
OneRevisionAtATime ==
  \A v, w \in videos :
    v.parent # NoParent /\ v.parent = w.parent /\ v.stage = "fresh" /\ w.stage = "fresh"
      => v = w

\* Quota reserved for an upload is spent or given back in the end, whatever
\* happens to the client, the request and the process that served it.
EveryReservationEnds ==
  \A t \in Tickets : tickets[t].ledger = "reserved" ~> tickets[t].ledger # "reserved"

-----------------------------------------------------------------------------
(* The inductive invariant the proofs in UploadsProofs rest on.            *)

Steps == {"idle", "claiming", "reserving", "sealing", "copying", "confirming",
          "committing", "failed", "cleaning", "done", "dead"}
OwnerSteps == {"sealing", "copying", "confirming", "committing", "failed"}

TicketRows ==
  [status : {"none", "confirmed", "canceled", "expired"} \cup OpenStatus,
   user : Users, local : BOOLEAN, age : {"live", "expired", "overdue"},
   ledger : {"none", "reserved", "committed", "released"}, cleaned : BOOLEAN]

RequestRows == [pc : Steps, in : Inputs, owner : BOOLEAN]

VideoRows ==
  [ticket : Tickets, parent : Parents \cup {NoParent},
   file : ({"file"} \X Requests) \cup ({"sealed"} \X Tickets),
   stage : {"fresh", "left", "again"}]

TypeOK ==
  /\ tickets \in [Tickets -> TicketRows]
  /\ reqs \in [Requests -> RequestRows]
  /\ open \subseteq Requests
  /\ late \subseteq Tickets
  /\ videos \subseteq VideoRows

\* The reservation of a ticket tells how the ticket ended.
LedgerOK ==
  \A t \in Tickets :
    /\ tickets[t].ledger = "reserved" <=> tickets[t].status \in OpenStatus
    /\ tickets[t].ledger = "committed" <=> tickets[t].status = "confirmed"
    /\ tickets[t].status = "confirmed" <=> \E v \in videos : v.ticket = t

\* A request works on a ticket of its user and of its kind.  Owning it is the only
\* way to its steps and to a sealed file, and lasts.
OwnersOK ==
  /\ \A q \in Requests : reqs[q].pc = "claiming" \/ reqs[q].owner =>
       /\ tickets[reqs[q].in.ticket].status # "none"
       /\ tickets[reqs[q].in.ticket].user = reqs[q].in.user
       /\ tickets[reqs[q].in.ticket].local = reqs[q].in.local
  /\ \A q \in Requests :
       /\ reqs[q].owner =>
            /\ reqs[q].pc \in OwnerSteps \cup {"cleaning", "done", "dead"}
            /\ tickets[reqs[q].in.ticket].status # "reserved"
       /\ reqs[q].pc \in OwnerSteps => reqs[q].owner
       /\ reqs[q].pc = "cleaning" /\ ~reqs[q].in.local => reqs[q].owner
       /\ reqs[q].pc = "claiming" => ~reqs[q].in.local
       /\ reqs[q].pc = "reserving" => reqs[q].in.local
  /\ \A q, r \in Requests, t \in Tickets : Owns(q, t) /\ Owns(r, t) => q = r

\* While the creating transaction of a request is open nobody ends its ticket,
\* touches its file or revises the same parent, whatever became of the request.
OpenOK ==
  \A q \in open :
    /\ reqs[q].owner /\ reqs[q].pc \in {"committing", "failed", "dead"}
    /\ tickets[reqs[q].in.ticket].status \in {"confirming", "uploading"}
    /\ FileOf(q) \in objects
    /\ reqs[q].in.parent # NoParent =>
         /\ \A v \in videos : v.parent = reqs[q].in.parent => v.stage # "fresh"
         /\ \A r \in open : reqs[r].in.parent = reqs[q].in.parent => r = q

\* A request that is about to confirm a live ticket has its file, a sealed file
\* was made by an owner, and a swept ticket is too old to be used again and has a
\* source only by a late PUT.
ObjectsOK ==
  /\ \A q \in Requests :
       reqs[q].pc = "confirming" /\ tickets[reqs[q].in.ticket].age = "live" => FileOf(q) \in objects
  /\ \A q \in Requests : reqs[q].pc = "reserving" => FileOf(q) \in objects
  /\ \A t \in Tickets : <<"sealed", t>> \in objects => \E q \in Requests : Owns(q, t)
  /\ \A v \in videos : v.file \in objects
  /\ \A t \in Tickets : tickets[t].cleaned =>
       /\ tickets[t].age = "overdue"
       /\ ~tickets[t].local /\ Source(t) \in objects => t \in late

UploadInv == TypeOK /\ LedgerOK /\ OwnersOK /\ OpenOK /\ ObjectsOK /\ OneRevisionAtATime
=============================================================================
