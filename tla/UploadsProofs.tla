---------------------------- MODULE UploadsProofs ----------------------------
(***************************************************************************)
(* Proofs about uploads, for any number of accounts, tickets, requests and *)
(* parents.  UploadInv is inductive: a request that owns its ticket is the *)
(* only one that writes its file, and while the transaction that creates a *)
(* video is open, the lock of the user's row keeps cancellation, expiry    *)
(* and the sweep away from its ticket.                                     *)
(***************************************************************************)
EXTENDS Uploads, FiniteSetTheorems, TLAPS

-----------------------------------------------------------------------------
(* Types.                                                                  *)

\* A request that moves to another step stays a request.
LEMMA BecomeTypes ==
  ASSUME TypeOK, NEW q \in Requests, NEW s \in Steps, Become(q, s)
  PROVE  /\ reqs' \in [Requests -> RequestRows]
         /\ reqs'[q].pc = s /\ reqs'[q].in = reqs[q].in /\ reqs'[q].owner = reqs[q].owner
         /\ \A r \in Requests : r # q => reqs'[r] = reqs[r]
BY DEF TypeOK, RequestRows, Become

\* What an input names belongs to the model.
LEMMA InputTypes ==
  ASSUME NEW i \in Inputs
  PROVE  i.user \in Users /\ i.ticket \in Tickets /\ i.parent \in Parents \cup {NoParent}
         /\ i.local \in BOOLEAN
BY UploadAssumption

\* The file of a request.
LEMMA FileTypes ==
  ASSUME TypeOK, NEW q \in Requests
  PROVE  /\ reqs[q].in.local => FileOf(q) = <<"file", q>>
         /\ ~reqs[q].in.local => FileOf(q) = <<"sealed", reqs[q].in.ticket>>
         /\ FileOf(q) \in ({"file"} \X Requests) \cup ({"sealed"} \X Tickets)
<1>1. reqs[q].in \in Inputs BY DEF TypeOK, RequestRows
<1> QED BY <1>1, InputTypes DEF FileOf

\* Cancelling ends tickets and leaves the others alone.
LEMMA CanceledTypes ==
  ASSUME TypeOK, NEW S \in SUBSET Tickets
  PROVE  /\ Canceled(tickets, S) \in [Tickets -> TicketRows]
         /\ \A t \in Tickets \ S : Canceled(tickets, S)[t] = tickets[t]
         /\ \A t \in S : Canceled(tickets, S)[t] =
              [tickets[t] EXCEPT !.status = "canceled", !.ledger = "released"]
<1>1. \A t \in Tickets : tickets[t] \in TicketRows BY DEF TypeOK
<1>2. \A t \in Tickets :
        [tickets[t] EXCEPT !.status = "canceled", !.ledger = "released"] \in TicketRows
  BY <1>1 DEF TicketRows
<1>3. Canceled(tickets, S) \in [Tickets -> TicketRows]
  BY <1>1, <1>2, Zenon DEF Canceled
<1>4. /\ \A t \in Tickets \ S : Canceled(tickets, S)[t] = tickets[t]
      /\ \A t \in S : Canceled(tickets, S)[t] =
           [tickets[t] EXCEPT !.status = "canceled", !.ledger = "released"]
  BY DEF Canceled
<1> QED BY <1>3, <1>4

\* A new ticket is one.
LEMMA NewTicketTypes ==
  ASSUME TypeOK, NEW t \in Tickets, NEW u \in Users, NEW s \in OpenStatus, NEW l \in BOOLEAN
  PROVE  /\ NewTicket(t, u, s, l) \in [Tickets -> TicketRows]
         /\ \A x \in Tickets : x # t => NewTicket(t, u, s, l)[x] = tickets[x]
         /\ NewTicket(t, u, s, l)[t] =
              [status |-> s, user |-> u, local |-> l, age |-> "live",
               ledger |-> "reserved", cleaned |-> FALSE]
BY DEF TypeOK, NewTicket, TicketRows

-----------------------------------------------------------------------------
(* The ways in which a ticket changes.                                     *)

Sweeping(t) == tickets[t].age = "overdue" /\ objects' = objects \ Garbage(t)

Issued(t) ==
  /\ tickets[t].status = "none" /\ tickets'[t].status \in {"reserved", "uploading"}
  /\ tickets'[t].ledger = "reserved" /\ tickets'[t].age = "live" /\ ~tickets'[t].cleaned
  /\ LockFree(tickets'[t].user)
  /\ QuotaFree(tickets'[t].user) /\ \A x \in Tickets : x # t => tickets'[x] = tickets[x]

\* The account and the kind of a ticket do not change.
Bound(t) == tickets'[t].user = tickets[t].user /\ tickets'[t].local = tickets[t].local

Aged(t) ==
  /\ Bound(t) /\ tickets[t].status # "none"
  /\ tickets[t].age # "overdue" /\ tickets'[t].age \in {"expired", "overdue"}
  /\ tickets'[t].status = tickets[t].status /\ tickets'[t].ledger = tickets[t].ledger
  /\ tickets'[t].cleaned = tickets[t].cleaned

TakenUp(t) ==
  /\ Bound(t) /\ tickets[t].status = "reserved" /\ tickets'[t].status = "confirming"
  /\ tickets'[t].age = tickets[t].age /\ tickets'[t].ledger = tickets[t].ledger
  /\ tickets'[t].cleaned = tickets[t].cleaned

\* Cancelled or swept: its user has no open transaction.
Ended(t) ==
  /\ Bound(t) /\ LockFree(tickets[t].user)
  /\ tickets[t].status \notin {"none", "confirmed"}
  /\ tickets'[t].status \in {"canceled", "expired"} /\ tickets'[t].ledger = "released"
  /\ tickets'[t].age = tickets[t].age
  /\ tickets'[t].cleaned = tickets[t].cleaned \/ Sweeping(t)

\* The creating transaction commits.
Fulfilled(t) ==
  /\ Bound(t) /\ \E q \in open \ open' : reqs[q].in.ticket = t
  /\ \E v \in videos' : v.ticket = t
  /\ tickets'[t].status = "confirmed" /\ tickets'[t].ledger = "committed"
  /\ tickets'[t].age = tickets[t].age /\ tickets'[t].cleaned = tickets[t].cleaned

SweptAfter(t) ==
  /\ Bound(t) /\ tickets[t].status = "confirmed" /\ Sweeping(t)
  /\ tickets'[t].status = tickets[t].status /\ tickets'[t].ledger = tickets[t].ledger
  /\ tickets'[t].age = tickets[t].age

TicketMove(t) ==
  \/ tickets'[t] = tickets[t]
  \/ Issued(t) \/ Aged(t) \/ TakenUp(t) \/ Ended(t) \/ Fulfilled(t) \/ SweptAfter(t)

\* Tickets that are cancelled.
LEMMA CanceledMoves ==
  ASSUME TypeOK, NEW S \in SUBSET Tickets, tickets' = Canceled(tickets, S),
         \A t \in S : LockFree(tickets[t].user) /\ tickets[t].status \notin {"none", "confirmed"}
  PROVE  tickets' \in [Tickets -> TicketRows] /\ \A t \in Tickets : TicketMove(t)
<1>1. /\ tickets' \in [Tickets -> TicketRows]
      /\ \A t \in Tickets \ S : tickets'[t] = tickets[t]
      /\ \A t \in S : tickets'[t] = [tickets[t] EXCEPT !.status = "canceled", !.ledger = "released"]
  BY CanceledTypes
<1>2. ASSUME NEW t \in S PROVE Ended(t)
  <2> DEFINE r == [tickets[t] EXCEPT !.status = "canceled", !.ledger = "released"]
  <2>1. tickets[t] \in TicketRows BY DEF TypeOK
  <2>2. /\ r.status = "canceled" /\ r.ledger = "released" /\ r.cleaned = tickets[t].cleaned
        /\ r.user = tickets[t].user /\ r.local = tickets[t].local /\ r.age = tickets[t].age
    BY <2>1 DEF TicketRows
  <2>3. tickets'[t] = r BY <1>1
  <2> HIDE DEF r
  <2> QED BY <2>2, <2>3 DEF Ended, Bound
<1> QED BY <1>1, <1>2 DEF TicketMove

\* A ticket that is issued, for a direct or with a local upload.
LEMMA NewTicketMoves ==
  ASSUME TypeOK, NEW t \in Tickets, NEW u \in Users, NEW s \in {"reserved", "uploading"},
         NEW l \in BOOLEAN, tickets' = NewTicket(t, u, s, l),
         tickets[t].status = "none", LockFree(u), QuotaFree(u)
  PROVE  /\ tickets' \in [Tickets -> TicketRows] /\ \A x \in Tickets : TicketMove(x)
         /\ tickets'[t].user = u /\ tickets'[t].local = l /\ tickets'[t].status = s
<1>1. s \in OpenStatus BY DEF OpenStatus
<1>2. /\ tickets' \in [Tickets -> TicketRows]
      /\ \A x \in Tickets : x # t => tickets'[x] = tickets[x]
      /\ tickets'[t] = [status |-> s, user |-> u, local |-> l, age |-> "live",
                        ledger |-> "reserved", cleaned |-> FALSE]
  BY <1>1, NewTicketTypes
<1>3. Issued(t) BY <1>2 DEF Issued
<1> QED BY <1>2, <1>3 DEF TicketMove

\* Every step changes every ticket in one of these ways, or not at all.
LEMMA TicketMoves ==
  ASSUME UploadInv, [Next]_vars
  PROVE  tickets' \in [Tickets -> TicketRows] /\ \A t \in Tickets : TicketMove(t)
<1> DEFINE Moves == tickets' \in [Tickets -> TicketRows] /\ \A t \in Tickets : TicketMove(t)
<1>0. TypeOK /\ tickets \in [Tickets -> TicketRows] BY DEF UploadInv, TypeOK
<1>1. CASE tickets' = tickets BY <1>0, <1>1 DEF TicketMove
<1>2. ASSUME NEW u \in Users, ExpireOwn(u) PROVE Moves
  BY <1>0, <1>2, CanceledMoves DEF ExpireOwn, OpenStatus
<1>3. ASSUME NEW u \in Users, NEW t \in Tickets, Issue(u, t) PROVE Moves
  BY <1>0, <1>3, NewTicketMoves DEF Issue
<1>4. ASSUME NEW t \in Tickets, Abort(t) PROVE Moves
  BY <1>0, <1>4, CanceledMoves DEF Abort
<1>5. ASSUME NEW t \in Tickets, Age(t) PROVE Moves
  <2>1. PICK a \in {"expired", "overdue"} :
          tickets' = [tickets EXCEPT ![t] = [tickets[t] EXCEPT !.age = a]]
    BY <1>5 DEF Age
  <2> DEFINE r == [tickets[t] EXCEPT !.age = a]
  <2>2. /\ r \in TicketRows /\ r.age = a /\ r.status = tickets[t].status
        /\ r.user = tickets[t].user /\ r.local = tickets[t].local
        /\ r.ledger = tickets[t].ledger /\ r.cleaned = tickets[t].cleaned
    BY <1>0 DEF TicketRows
  <2>3. tickets' = [tickets EXCEPT ![t] = r] BY <2>1
  <2> HIDE DEF r
  <2>4. Aged(t) BY <1>0, <1>5, <2>2, <2>3 DEF Age, Aged, Bound
  <2> QED BY <1>0, <2>2, <2>3, <2>4 DEF TicketMove
<1>6. ASSUME NEW t \in Tickets, Sweep(t) PROVE Moves
  <2> DEFINE st == IF tickets[t].status = "confirmed" THEN "confirmed" ELSE "expired"
             ld == IF tickets[t].status = "confirmed" THEN tickets[t].ledger ELSE "released"
             r3 == [tickets[t] EXCEPT !.cleaned = TRUE, !.status = st, !.ledger = ld]
  <2>5. /\ r3 \in TicketRows /\ r3.status = st /\ r3.ledger = ld /\ r3.cleaned = TRUE
        /\ r3.user = tickets[t].user /\ r3.local = tickets[t].local /\ r3.age = tickets[t].age
    <3>1. tickets[t] \in TicketRows BY <1>0
    <3>2. /\ ld \in {"none", "reserved", "committed", "released"}
          /\ st \in {"none", "confirmed", "canceled", "expired"} \cup OpenStatus
      BY <3>1 DEF TicketRows
    <3> HIDE DEF ld, st
    <3> QED BY <3>1, <3>2 DEF TicketRows
  <2>6. tickets' = [tickets EXCEPT ![t] = r3]
    BY <1>0, <1>6 DEF Sweep, TicketRows
  <2> HIDE DEF r3
  <2>7. tickets'[t] = r3 /\ \A x \in Tickets : x # t => tickets'[x] = tickets[x]
    BY <1>0, <2>6
  <2>8. /\ Sweeping(t) /\ Bound(t) /\ LockFree(tickets[t].user) /\ tickets[t].status # "none"
    BY <1>6, <2>5, <2>7 DEF Sweep, Sweepable, Sweeping, Bound
  <2>9. SweptAfter(t) \/ Ended(t) BY <2>5, <2>7, <2>8 DEF SweptAfter, Ended
  <2> QED BY <1>0, <2>5, <2>6, <2>7, <2>9 DEF TicketMove
<1>7. ASSUME NEW q \in Requests, Claim(q), tickets' # tickets PROVE Moves
  <2> DEFINE t == reqs[q].in.ticket
  <2>1. /\ t \in Tickets /\ tickets[t].status = "reserved" /\ "confirming" \in OpenStatus
        /\ tickets' = [tickets EXCEPT ![t] = [tickets[t] EXCEPT !.status = "confirming"]]
    BY <1>0, <1>7, InputTypes DEF Claim, Claimable, TypeOK, OpenStatus, RequestRows
  <2> DEFINE r == [tickets[t] EXCEPT !.status = "confirming"]
  <2>2. /\ r \in TicketRows /\ r.status = "confirming" /\ r.age = tickets[t].age
        /\ r.user = tickets[t].user /\ r.local = tickets[t].local
        /\ r.ledger = tickets[t].ledger /\ r.cleaned = tickets[t].cleaned
    BY <1>0, <2>1 DEF TicketRows
  <2> HIDE DEF r
  <2>3. TakenUp(t) BY <1>0, <2>1, <2>2 DEF TakenUp, Bound, r
  <2> QED BY <1>0, <2>1, <2>2, <2>3 DEF TicketMove, r
<1>8. ASSUME NEW q \in Requests, Reserve(q), tickets' # tickets PROVE Moves
  BY <1>0, <1>8, NewTicketMoves, InputTypes DEF Reserve, TypeOK, RequestRows
<1>9. ASSUME NEW q \in Requests, Commit(q) PROVE Moves
  <2> DEFINE t == reqs[q].in.ticket
             r2 == [tickets[t] EXCEPT !.status = "confirmed", !.ledger = "committed"]
  <2>0. t \in Tickets BY <1>0, InputTypes DEF TypeOK, RequestRows
  <2>2. /\ r2 \in TicketRows /\ r2.status = "confirmed" /\ r2.ledger = "committed"
        /\ r2.cleaned = tickets[t].cleaned /\ r2.user = tickets[t].user
        /\ r2.local = tickets[t].local /\ r2.age = tickets[t].age
    <3> HIDE DEF t
    <3>1. tickets[t] \in TicketRows BY <1>0, <2>0
    <3> QED BY <3>1 DEF TicketRows
  <2>3. tickets' = [tickets EXCEPT ![t] = r2] BY <1>0, <1>9, <2>0 DEF Commit
  <2> HIDE DEF r2
  <2>4. \E v \in videos' : v.ticket = t
    <3> DEFINE v == [ticket |-> t, file |-> FileOf(q), parent |-> reqs[q].in.parent, stage |-> "fresh"]
    <3>1. v \in videos' BY <1>9 DEF Commit
    <3>2. v.ticket = t OBVIOUS
    <3> QED BY <3>1, <3>2
  <2>5. Fulfilled(t) BY <1>0, <1>9, <2>0, <2>2, <2>3, <2>4 DEF Commit, Fulfilled, Bound
  <2> QED BY <1>0, <2>0, <2>2, <2>3, <2>5 DEF TicketMove
<1>10. ASSUME NEW q \in Requests, Recover(q), tickets' # tickets PROVE Moves
  <2> DEFINE t == reqs[q].in.ticket
  <2>1. /\ t \in Tickets /\ tickets' = Canceled(tickets, {t})
        /\ LockFree(reqs[q].in.user) /\ tickets[t].status # "confirmed"
    BY <1>0, <1>10, InputTypes DEF Recover, TypeOK, RequestRows
  <2>2. tickets[t].status # "none" /\ tickets[t].user = reqs[q].in.user
    BY <1>10 DEF Recover, UploadInv, OwnersOK, OwnerSteps
  <2> QED BY <1>0, <2>1, <2>2, CanceledMoves
<1>11. ASSUME tickets' # tickets
       PROVE  \/ \E u \in Users : ExpireOwn(u) \/ \E t \in Tickets : Issue(u, t)
              \/ \E t \in Tickets : Abort(t) \/ Age(t) \/ Sweep(t)
              \/ \E q \in Requests : Claim(q) \/ Reserve(q) \/ Recover(q) \/ Commit(q)
  BY <1>11 DEF Next, vars, RequestStep, Put, SweepFails, StartDirect, StartLocal, SealBegin,
               SealEnd, Confirm, Fail, CleanUp, Die, Rollback, RevisionMoves
<1> QED BY <1>1, <1>2, <1>3, <1>4, <1>5, <1>6, <1>7, <1>8, <1>9, <1>10, <1>11

-----------------------------------------------------------------------------
(* The ways in which a request moves.                                      *)

Starts(q) ==
  /\ reqs[q].pc = "idle" /\ reqs'[q].owner = reqs[q].owner
  /\ \/ /\ reqs'[q].pc = "claiming" /\ ~reqs'[q].in.local
        /\ tickets[reqs'[q].in.ticket].status # "none" /\ ~tickets[reqs'[q].in.ticket].local
        /\ tickets[reqs'[q].in.ticket].user = reqs'[q].in.user
     \/ reqs'[q].pc = "reserving" /\ reqs'[q].in.local /\ <<"file", q>> \in objects'

\* It becomes the owner of its ticket.
Takes(q) ==
  /\ reqs'[q].in = reqs[q].in /\ reqs'[q].owner = TRUE
  /\ \/ /\ reqs[q].pc = "claiming" /\ reqs'[q].pc = "sealing"
        /\ TakenUp(reqs[q].in.ticket)
     \/ /\ reqs[q].pc = "reserving" /\ reqs'[q].pc = "confirming" /\ objects' = objects
        /\ Issued(reqs[q].in.ticket) /\ tickets'[reqs[q].in.ticket].status = "uploading"
        /\ tickets'[reqs[q].in.ticket].user = reqs[q].in.user
        /\ tickets'[reqs[q].in.ticket].local = reqs[q].in.local

\* It goes on, fails or ends; only an owner gets to the steps of owners.
Goes(q) ==
  /\ reqs'[q].in = reqs[q].in /\ reqs'[q].owner = reqs[q].owner
  /\ reqs'[q].pc \in OwnerSteps \cup {"cleaning", "done", "dead"}
  /\ reqs'[q].pc \in OwnerSteps => reqs[q].owner
  /\ reqs'[q].pc = "cleaning" /\ ~reqs[q].in.local => reqs[q].owner
  /\ reqs'[q].pc = "confirming" => FileOf(q) \in objects'
  /\ q \in open' => reqs'[q].pc \in {"committing", "failed", "dead"}

Elsewhere(q) == \A r \in Requests : r # q => reqs'[r] = reqs[r]

RequestMove(q) == Elsewhere(q) /\ (Starts(q) \/ Takes(q) \/ Goes(q))

\* A request that starts.
LEMMA StartMoves ==
  ASSUME UploadInv, NEW q \in Requests, NEW in \in Inputs, StartDirect(q, in) \/ StartLocal(q, in)
  PROVE  reqs' \in [Requests -> RequestRows] /\ RequestMove(q)
<1>0. reqs[q] \in RequestRows /\ in.local \in BOOLEAN BY InputTypes DEF UploadInv, TypeOK
<1>1. PICK s \in {"claiming", "reserving"} :
        /\ reqs' = [reqs EXCEPT ![q].pc = s, ![q].in = in]
        /\ reqs[q].pc = "idle"
        /\ \/ /\ s = "claiming" /\ ~in.local
              /\ tickets[in.ticket].status # "none" /\ ~tickets[in.ticket].local
              /\ tickets[in.ticket].user = in.user
           \/ s = "reserving" /\ in.local /\ <<"file", q>> \in objects'
  BY DEF StartDirect, StartLocal
<1> DEFINE r == [reqs[q] EXCEPT !.pc = s, !.in = in]
<1>2. r \in RequestRows /\ r.pc = s /\ r.in = in /\ r.owner = reqs[q].owner
  BY <1>0 DEF RequestRows, Steps
<1>3. reqs' = [reqs EXCEPT ![q] = r] BY <1>0, <1>1 DEF UploadInv, TypeOK
<1> HIDE DEF r
<1>4. /\ reqs' \in [Requests -> RequestRows] /\ reqs'[q] = r /\ Elsewhere(q)
  BY <1>2, <1>3 DEF UploadInv, TypeOK, Elsewhere
<1>5. Starts(q) BY <1>1, <1>2, <1>4 DEF Starts
<1> QED BY <1>4, <1>5 DEF RequestMove

\* A request that becomes the owner of its ticket.
LEMMA TakeMoves ==
  ASSUME UploadInv, NEW q \in Requests, Claim(q) \/ Reserve(q), tickets' # tickets
  PROVE  reqs' \in [Requests -> RequestRows] /\ RequestMove(q)
<1> DEFINE t == reqs[q].in.ticket
<1>0. /\ TypeOK /\ reqs[q] \in RequestRows /\ t \in Tickets /\ reqs[q].in.user \in Users
  BY InputTypes DEF UploadInv, TypeOK, RequestRows
<1>1. PICK s \in {"sealing", "confirming"} :
        /\ reqs' = [reqs EXCEPT ![q].pc = s, ![q].owner = TRUE]
        /\ s = "sealing" => Claim(q) /\ Claimable(t)
        /\ s = "confirming" => Reserve(q) /\ tickets[t].status = "none" /\ QuotaFree(reqs[q].in.user)
  BY DEF Claim, Reserve
<1> DEFINE r == [reqs[q] EXCEPT !.pc = s, !.owner = TRUE]
<1>2. r \in RequestRows /\ r.pc = s /\ r.in = reqs[q].in /\ r.owner = TRUE
  BY <1>0 DEF RequestRows, Steps
<1>3. reqs' = [reqs EXCEPT ![q] = r] BY <1>0, <1>1 DEF UploadInv, TypeOK
<1> HIDE DEF r
<1>4. /\ reqs' \in [Requests -> RequestRows] /\ reqs'[q] = r /\ Elsewhere(q)
  BY <1>2, <1>3 DEF UploadInv, TypeOK, Elsewhere
<1>5. CASE s = "sealing"
  <2> DEFINE n == [tickets[t] EXCEPT !.status = "confirming"]
  <2>1. tickets[t].status = "reserved" /\ tickets[t] \in TicketRows /\ tickets' = [tickets EXCEPT ![t] = n]
    BY <1>0, <1>1, <1>5 DEF Claim, Claimable, TypeOK
  <2>2. /\ n.status = "confirming" /\ n.age = tickets[t].age
        /\ n.user = tickets[t].user /\ n.local = tickets[t].local
        /\ n.ledger = tickets[t].ledger /\ n.cleaned = tickets[t].cleaned
    <3> HIDE DEF t
    <3> QED BY <2>1 DEF TicketRows
  <2>3. tickets'[t] = n BY <1>0, <2>1 DEF TypeOK
  <2> HIDE DEF n
  <2>4. TakenUp(t) BY <2>1, <2>2, <2>3 DEF TakenUp, Bound
  <2>5. reqs[q].pc = "claiming" BY <1>1, <1>5 DEF Claim
  <2> QED BY <1>2, <1>4, <1>5, <2>4, <2>5 DEF Takes, RequestMove
<1>6. CASE s = "confirming"
  <2>1. /\ reqs[q].pc = "reserving" /\ tickets' = NewTicket(t, reqs[q].in.user, "uploading", TRUE)
        /\ LockFree(reqs[q].in.user) /\ objects' = objects
    BY <1>1, <1>6 DEF Reserve
  <2>2. reqs[q].in.local = TRUE
    <3>1. reqs[q].in.local \in BOOLEAN BY <1>0, InputTypes DEF RequestRows
    <3> QED BY <2>1, <3>1 DEF UploadInv, OwnersOK
  <2>3. "uploading" \in OpenStatus BY DEF OpenStatus
  <2>4. /\ \A x \in Tickets : x # t => tickets'[x] = tickets[x]
        /\ tickets'[t] = [status |-> "uploading", user |-> reqs[q].in.user, local |-> TRUE,
                          age |-> "live", ledger |-> "reserved", cleaned |-> FALSE]
    BY ZenonT(30), <1>0, <2>1, <2>3, NewTicketTypes
  <2>5. /\ tickets'[t].status = "uploading" /\ tickets'[t].user = reqs[q].in.user
        /\ tickets'[t].local = TRUE /\ tickets'[t].age = "live"
        /\ tickets'[t].ledger = "reserved" /\ ~tickets'[t].cleaned
    BY <2>4
  <2>6. tickets[t].status = "none" /\ LockFree(tickets'[t].user) /\ QuotaFree(tickets'[t].user)
    BY <1>1, <1>6, <2>1, <2>5
  <2>7. Issued(t) BY <2>4, <2>5, <2>6 DEF Issued
  <2>8. Takes(q) BY <1>2, <1>4, <1>6, <2>1, <2>2, <2>5, <2>7 DEF Takes
  <2> QED BY <1>4, <2>8 DEF RequestMove
<1> QED BY <1>1, <1>5, <1>6

\* A request that goes on, fails or ends.
LEMMA GoMoves ==
  ASSUME UploadInv, NEW q \in Requests,
         \/ Claim(q) /\ tickets' = tickets
         \/ Reserve(q) /\ tickets' = tickets
         \/ SealBegin(q) \/ SealEnd(q) \/ Confirm(q) \/ Fail(q) \/ Recover(q) \/ CleanUp(q)
         \/ Die(q) \/ Commit(q) \/ Rollback(q)
  PROVE  reqs' \in [Requests -> RequestRows] /\ (reqs' = reqs \/ RequestMove(q))
<1> DEFINE t == reqs[q].in.ticket
<1>0. /\ TypeOK /\ reqs[q] \in RequestRows /\ t \in Tickets
      /\ reqs[q].in.local \in BOOLEAN /\ tickets[t] \in TicketRows
  BY InputTypes DEF UploadInv, TypeOK, RequestRows
<1>1. /\ q \in open => reqs[q].owner /\ reqs[q].pc \in {"committing", "failed", "dead"}
      /\ reqs[q].pc \in OwnerSteps => reqs[q].owner
      /\ reqs[q].pc = "cleaning" /\ ~reqs[q].in.local => reqs[q].owner
      /\ reqs[q].pc = "reserving" => reqs[q].in.local
  BY DEF UploadInv, OpenOK, OwnersOK
<1>2. ASSUME NEW s \in Steps \ {"idle", "claiming", "reserving"}, Become(q, s),
             s \in OwnerSteps => reqs[q].owner,
             s = "cleaning" /\ ~reqs[q].in.local => reqs[q].owner,
             s = "confirming" => FileOf(q) \in objects',
             q \in open' => s \in {"committing", "failed", "dead"}
      PROVE  reqs' \in [Requests -> RequestRows] /\ RequestMove(q)
  <2>1. /\ reqs' \in [Requests -> RequestRows] /\ Elsewhere(q)
        /\ reqs'[q].pc = s /\ reqs'[q].in = reqs[q].in /\ reqs'[q].owner = reqs[q].owner
    BY <1>0, <1>2, BecomeTypes DEF Elsewhere
  <2>2. Goes(q) BY <1>2, <2>1 DEF Goes, Steps, OwnerSteps
  <2> QED BY <2>1, <2>2 DEF RequestMove
<1>3. CASE Claim(q) /\ tickets' = tickets
  <2>1. ~Claimable(t)
    <3>1. ASSUME Claimable(t), tickets' = [tickets EXCEPT ![t].status = "confirming"] PROVE FALSE
      <4> DEFINE n == [tickets[t] EXCEPT !.status = "confirming"]
      <4>1. n.status = "confirming"
        <5> HIDE DEF t
        <5> QED BY <1>0 DEF TicketRows
      <4>2. tickets'[t] = n BY <1>0, <3>1 DEF TypeOK
      <4> QED BY <1>3, <3>1, <4>1, <4>2 DEF Claimable
    <3> QED BY <1>3, <3>1 DEF Claim
  <2>2. Become(q, "done") /\ q \notin open' BY <1>1, <1>3, <2>1 DEF Claim
  <2> QED BY <1>2, <2>2 DEF Steps, OwnerSteps
<1>4. CASE Reserve(q) /\ tickets' = tickets
  <2>1. tickets[t].status # "none" \/ ~QuotaFree(reqs[q].in.user)
    <3>1. ASSUME tickets[t].status = "none", tickets' = NewTicket(t, reqs[q].in.user, "uploading", TRUE)
          PROVE  FALSE
      <4>1. tickets'[t].status = "uploading"
        <5>1. "uploading" \in OpenStatus /\ reqs[q].in.user \in Users
          BY <1>0, InputTypes DEF OpenStatus, RequestRows
        <5>2. tickets'[t] = [status |-> "uploading", user |-> reqs[q].in.user, local |-> TRUE,
                             age |-> "live", ledger |-> "reserved", cleaned |-> FALSE]
          BY <1>0, <3>1, <5>1, NewTicketTypes
        <5> QED BY <5>2
      <4> QED BY <1>4, <3>1, <4>1
    <3> QED BY <1>4, <3>1 DEF Reserve
  <2>2. /\ Become(q, "cleaning") /\ q \notin open' /\ reqs[q].in.local
    BY <1>1, <1>4, <2>1 DEF Reserve
  <2> QED BY <1>2, <2>2 DEF Steps, OwnerSteps
<1>5. CASE SealBegin(q) BY <1>1, <1>2, <1>5 DEF SealBegin, Steps, OwnerSteps
<1>6. CASE SealEnd(q) BY <1>1, <1>2, <1>6 DEF SealEnd, Steps, OwnerSteps
<1>7. CASE Confirm(q)
  BY <1>1, <1>2, <1>7 DEF Confirm, Steps, OwnerSteps
<1>8. CASE Fail(q)
  BY <1>1, <1>2, <1>8 DEF Fail, Steps, OwnerSteps
<1>9. CASE Recover(q)
  <2>1. q \notin open BY <1>9 DEF Recover, LockFree
  <2> QED BY <1>1, <1>2, <1>9, <2>1 DEF Recover, Steps, OwnerSteps
<1>10. CASE CleanUp(q) BY <1>1, <1>2, <1>10 DEF CleanUp, Steps, OwnerSteps
<1>11. CASE Die(q) BY <1>2, <1>11 DEF Die, Steps, OwnerSteps
<1>12. CASE Commit(q) \/ Rollback(q)
  <2>1. q \notin open' /\ q \in open BY <1>12 DEF Commit, Rollback
  <2>2. CASE reqs[q].pc = "committing"
    <3>1. \E s \in {"done", "failed"} : Become(q, s)
      BY <1>12, <2>2 DEF Commit, Rollback, Become
    <3> QED BY <1>1, <1>2, <2>1, <3>1 DEF Steps, OwnerSteps
  <2>3. CASE reqs[q].pc # "committing"
    <3>1. reqs' = [reqs EXCEPT ![q].pc = reqs[q].pc] BY <1>12, <2>3 DEF Commit, Rollback
    <3>2. [reqs[q] EXCEPT !.pc = reqs[q].pc] = reqs[q] BY <1>0 DEF RequestRows
    <3> QED BY <1>0, <3>1, <3>2 DEF TypeOK
  <2> QED BY <2>2, <2>3
<1> QED BY <1>3, <1>4, <1>5, <1>6, <1>7, <1>8, <1>9, <1>10, <1>11, <1>12

\* At most one request moves in a step, in one of these ways.
LEMMA RequestMoves ==
  ASSUME UploadInv, [Next]_vars
  PROVE  /\ reqs' \in [Requests -> RequestRows]
         /\ reqs' = reqs \/ \E q \in Requests : RequestMove(q)
<1>1. CASE reqs' = reqs BY <1>1 DEF UploadInv, TypeOK
<1>2. ASSUME NEW q \in Requests, RequestStep(q) \/ Commit(q) \/ Rollback(q)
      PROVE  /\ reqs' \in [Requests -> RequestRows]
             /\ reqs' = reqs \/ RequestMove(q)
  BY <1>2, TakeMoves, GoMoves DEF RequestStep
<1>3. ASSUME NEW q \in Requests, NEW in \in Inputs, StartDirect(q, in) \/ StartLocal(q, in)
      PROVE  reqs' \in [Requests -> RequestRows] /\ RequestMove(q)
  BY <1>3, StartMoves
<1>4. ASSUME reqs' # reqs
      PROVE  \/ \E q \in Requests : RequestStep(q) \/ Commit(q) \/ Rollback(q)
             \/ \E q \in Requests, in \in Inputs : StartDirect(q, in) \/ StartLocal(q, in)
  BY <1>4 DEF Next, vars, ExpireOwn, Issue, Put, Abort, Age, Sweep, SweepFails, RevisionMoves
<1> QED BY <1>1, <1>2, <1>3, <1>4

-----------------------------------------------------------------------------
(* The ways in which transactions, videos and objects come and go.         *)

Opens(q) ==
  LET t == reqs[q].in.ticket  p == reqs[q].in.parent IN
  /\ reqs[q].pc = "confirming" /\ reqs'[q].pc = "committing" /\ reqs'[q].in = reqs[q].in
  /\ tickets[t].status \in {"confirming", "uploading"} /\ tickets[t].age = "live"
  /\ ParentFree(p) /\ ~ActiveRevision(p)
  /\ open' = open \cup {q} /\ UNCHANGED <<tickets, objects, videos>>

OpenMove ==
  \/ open' = open
  \/ \E q \in Requests : Opens(q)
  \/ \E q \in open : open' = open \ {q} /\ UNCHANGED objects

Creates(q) ==
  /\ open' = open \ {q} /\ objects' = objects
  /\ tickets'[reqs[q].in.ticket].status = "confirmed"
  /\ videos' = videos \cup {[ticket |-> reqs[q].in.ticket, file |-> FileOf(q),
                             parent |-> reqs[q].in.parent, stage |-> "fresh"]}

Revises(v) ==
  \E s \in {"left", "again"} : videos' = (videos \ {v}) \cup {[v EXCEPT !.stage = s]}

VideoMove ==
  \/ videos' = videos
  \/ \E q \in open : Creates(q)
  \/ \E v \in videos : Revises(v) /\ objects' = objects /\ open' = open

Added(o) ==
  \/ \E t \in Tickets : o = Source(t) /\ Put(t)
  \/ \E q \in Requests : o = FileOf(q) /\ reqs[q].pc = "copying"
  \/ \E q \in Requests : o = <<"file", q>>

Removed(o) ==
  /\ ~Referenced(o)
  /\ \/ \E q \in Requests : o = FileOf(q) /\ reqs[q].pc = "cleaning"
     \/ \E t \in Tickets : /\ o \in Garbage(t) /\ tickets[t].age = "overdue"
                           /\ LockFree(tickets[t].user)

ObjectMove ==
  /\ \A o \in objects' \ objects : Added(o)
  /\ \A o \in objects \ objects' : Removed(o) /\ videos' = videos /\ open' = open

\* Creating transactions are opened by a request that passes the checks.
LEMMA OpenMoves ==
  ASSUME UploadInv, [Next]_vars
  PROVE  OpenMove
<1>1. ASSUME NEW q \in Requests, Confirm(q), open' # open PROVE Opens(q)
  <2>1. Become(q, "committing") BY <1>1 DEF Confirm
  <2>2. reqs'[q].pc = "committing" /\ reqs'[q].in = reqs[q].in
    BY <2>1, BecomeTypes DEF UploadInv, Steps
  <2> QED BY <1>1, <2>2 DEF Confirm, Opens
<1>2. ASSUME NEW q \in Requests, Commit(q) \/ Rollback(q)
      PROVE  q \in open /\ open' = open \ {q} /\ UNCHANGED objects
  BY <1>2 DEF Commit, Rollback
<1>3. ASSUME open' # open
      PROVE  \E q \in Requests : Confirm(q) \/ Commit(q) \/ Rollback(q)
  BY <1>3 DEF Next, vars, RequestStep, ExpireOwn, Issue, Put, Abort, Age, Sweep, SweepFails,
              StartDirect, StartLocal, Claim, Reserve, SealBegin, SealEnd, Fail, Recover,
              CleanUp, Die, RevisionMoves
<1> QED BY <1>1, <1>2, <1>3 DEF OpenMove

\* Videos are created by open transactions and change their stage.
LEMMA VideoMoves ==
  ASSUME UploadInv, [Next]_vars
  PROVE  VideoMove
<1>1. ASSUME NEW q \in Requests, Commit(q) PROVE q \in open /\ Creates(q)
  <2> DEFINE t == reqs[q].in.ticket
             r == [tickets[t] EXCEPT !.status = "confirmed", !.ledger = "committed"]
  <2>1. t \in Tickets /\ tickets[t] \in TicketRows
    BY InputTypes DEF UploadInv, TypeOK, RequestRows
  <2>2. r.status = "confirmed"
    <3> HIDE DEF t
    <3> QED BY <2>1 DEF TicketRows
  <2>3. tickets'[t] = r BY <1>1, <2>1 DEF Commit, UploadInv, TypeOK
  <2>4. tickets'[t].status = "confirmed" BY <2>2, <2>3
  <2> QED BY <1>1, <2>4 DEF Commit, Creates
<1>2. ASSUME NEW v \in videos, RevisionMoves(v)
      PROVE  Revises(v) /\ objects' = objects /\ open' = open
  BY <1>2 DEF RevisionMoves, Revises
<1>3. ASSUME videos' # videos
      PROVE  (\E q \in Requests : Commit(q)) \/ (\E v \in videos : RevisionMoves(v))
  BY <1>3 DEF Next, vars, RequestStep, ExpireOwn, Issue, Put, Abort, Age, Sweep, SweepFails,
              StartDirect, StartLocal, Claim, Reserve, SealBegin, SealEnd, Confirm, Fail, Recover,
              CleanUp, Die, Rollback
<1> QED BY <1>1, <1>2, <1>3 DEF VideoMove

\* Objects are written by browsers and requests, and deleted by requests that clean
\* up and by the sweep, unless a video refers to them.
LEMMA ObjectMoves ==
  ASSUME UploadInv, [Next]_vars
  PROVE  ObjectMove
<1>1. CASE objects' = objects BY <1>1 DEF ObjectMove
<1>2. ASSUME NEW t \in Tickets, Put(t) PROVE ObjectMove
  BY <1>2 DEF Put, ObjectMove, Added
<1>3. ASSUME NEW t \in Tickets, Sweep(t) \/ SweepFails(t) PROVE ObjectMove
  <2>1. \A o \in Garbage(t) : Removed(o)
    BY <1>3 DEF Sweep, SweepFails, Sweepable, Garbage, Removed
  <2>2. /\ objects' \subseteq objects /\ objects \ objects' \subseteq Garbage(t)
        /\ videos' = videos /\ open' = open
    BY <1>3 DEF Sweep, SweepFails
  <2> QED BY <2>1, <2>2 DEF ObjectMove
<1>4. ASSUME NEW q \in Requests, NEW in \in Inputs, StartLocal(q, in) PROVE ObjectMove
  BY <1>4 DEF StartLocal, ObjectMove, Added
<1>5. ASSUME NEW q \in Requests, SealEnd(q) \/ Fail(q) PROVE ObjectMove
  <2>1. objects' = objects \/ (objects' = objects \cup {FileOf(q)} /\ reqs[q].pc = "copying")
    BY <1>5 DEF SealEnd, Fail
  <2> QED BY <2>1 DEF ObjectMove, Added
<1>6. ASSUME NEW q \in Requests, CleanUp(q) PROVE ObjectMove
  <2>1. /\ objects' = objects \/ (objects' = objects \ {FileOf(q)} /\ ~Referenced(FileOf(q)))
        /\ reqs[q].pc = "cleaning" /\ videos' = videos /\ open' = open
    BY <1>6 DEF CleanUp
  <2> QED BY <2>1 DEF ObjectMove, Removed
<1>7. ASSUME objects' # objects
      PROVE  \/ \E t \in Tickets : Put(t) \/ Sweep(t) \/ SweepFails(t)
             \/ \E q \in Requests, in \in Inputs : StartLocal(q, in)
             \/ \E q \in Requests : SealEnd(q) \/ Fail(q) \/ CleanUp(q)
  BY <1>7 DEF Next, vars, RequestStep, ExpireOwn, Issue, Abort, Age, StartDirect, Claim, Reserve,
              SealBegin, Confirm, Recover, Die, Commit, Rollback, RevisionMoves
<1> QED BY <1>1, <1>2, <1>3, <1>4, <1>5, <1>6, <1>7

\* Who has put a source late stays known, and who puts one is late when his ticket has
\* been swept.
LEMMA LateMoves ==
  ASSUME UploadInv, [Next]_vars
  PROVE  /\ late \subseteq late' /\ late' \subseteq Tickets
         /\ \A t \in Tickets : Put(t) /\ tickets[t].cleaned => t \in late'
<1>1. late \subseteq Tickets BY DEF UploadInv, TypeOK
<1>2. ASSUME NEW t \in Tickets, Put(t)
      PROVE  late \subseteq late' /\ late' \subseteq Tickets /\ (tickets[t].cleaned => t \in late')
  BY <1>1, <1>2 DEF Put
<1>3. ASSUME ~\E t \in Tickets : Put(t) PROVE late' = late
  BY <1>3 DEF Next, vars, RequestStep, ExpireOwn, Issue, Abort, Age, Sweep, SweepFails,
              StartDirect, StartLocal, Claim, Reserve, SealBegin, SealEnd, Confirm, Fail, Recover,
              CleanUp, Die, Commit, Rollback, RevisionMoves
<1> QED BY <1>1, <1>2, <1>3

-----------------------------------------------------------------------------
(* Every part of UploadInv is kept by these moves.                         *)

\* Types are kept.
LEMMA TypeKept ==
  ASSUME UploadInv, [Next]_vars
  PROVE  TypeOK'
<1>0. TypeOK BY DEF UploadInv
<1>1. open' \subseteq Requests BY OpenMoves DEF OpenMove, Opens, UploadInv, TypeOK
<1>2. videos' \subseteq VideoRows
  <2>1. ASSUME NEW q \in open, Creates(q) PROVE videos' \subseteq VideoRows
    <3>1. /\ FileOf(q) \in ({"file"} \X Requests) \cup ({"sealed"} \X Tickets)
          /\ reqs[q].in.ticket \in Tickets /\ reqs[q].in.parent \in Parents \cup {NoParent}
      BY <1>0, FileTypes, InputTypes DEF TypeOK, RequestRows
    <3>2. [ticket |-> reqs[q].in.ticket, file |-> FileOf(q),
           parent |-> reqs[q].in.parent, stage |-> "fresh"] \in VideoRows
      BY <3>1 DEF VideoRows
    <3> QED BY <1>0, <2>1, <3>2 DEF Creates, TypeOK
  <2>2. ASSUME NEW v \in videos, Revises(v) PROVE videos' \subseteq VideoRows
    <3>1. \A s \in {"left", "again"} : [v EXCEPT !.stage = s] \in VideoRows
      BY <1>0 DEF TypeOK, VideoRows
    <3> QED BY <1>0, <2>2, <3>1 DEF Revises, TypeOK
  <2> QED BY <1>0, <2>1, <2>2, VideoMoves DEF VideoMove, TypeOK
<1> QED BY <1>1, <1>2, TicketMoves, RequestMoves, LateMoves DEF TypeOK

\* A ticket that was issued stays so, for the same account and of the same kind; one
\* that was taken up is never free again, and an old one never young.
LEMMA TicketKept ==
  ASSUME NEW t \in Tickets, TicketMove(t)
  PROVE  /\ tickets[t].status # "none" => Bound(t) /\ tickets'[t].status # "none"
         /\ tickets[t].status \notin {"none", "reserved"} =>
              tickets'[t].status \notin {"none", "reserved"}
         /\ tickets'[t].age = "live" => tickets[t].age = "live" \/ Issued(t)
         /\ tickets[t].age = "overdue" /\ tickets[t].status # "none" => tickets'[t].age = "overdue"
BY DEF TicketMove, Bound, Issued, Aged, TakenUp, Ended, Fulfilled, SweptAfter, Sweeping

\* Nobody becomes the owner of a ticket that has one.
LEMMA OwnersKept ==
  ASSUME UploadInv, [Next]_vars
  PROVE  OwnersOK'
<1> DEFINE T(q) == reqs[q].in.ticket
<1>0. \A q \in Requests : T(q) \in Tickets /\ reqs'[q].in.ticket \in Tickets /\ reqs[q].pc \in Steps
  BY InputTypes, RequestMoves DEF UploadInv, TypeOK, RequestRows
<1>1. \A q \in Requests :
        /\ reqs[q].pc = "claiming" \/ reqs[q].owner =>
             /\ tickets[T(q)].status # "none" /\ tickets[T(q)].user = reqs[q].in.user
             /\ tickets[T(q)].local = reqs[q].in.local
        /\ reqs[q].owner =>
             /\ reqs[q].pc \in OwnerSteps \cup {"cleaning", "done", "dead"}
             /\ tickets[T(q)].status # "reserved"
        /\ reqs[q].pc \in OwnerSteps => reqs[q].owner
        /\ reqs[q].pc = "cleaning" /\ ~reqs[q].in.local => reqs[q].owner
        /\ reqs[q].pc = "claiming" => ~reqs[q].in.local
        /\ reqs[q].pc = "reserving" => reqs[q].in.local
  BY DEF UploadInv, OwnersOK
<1> DEFINE Fine(q) ==
       /\ reqs'[q].pc = "claiming" \/ reqs'[q].owner =>
            /\ tickets'[reqs'[q].in.ticket].status # "none"
            /\ tickets'[reqs'[q].in.ticket].user = reqs'[q].in.user
            /\ tickets'[reqs'[q].in.ticket].local = reqs'[q].in.local
       /\ reqs'[q].owner =>
            /\ reqs'[q].pc \in OwnerSteps \cup {"cleaning", "done", "dead"}
            /\ tickets'[reqs'[q].in.ticket].status # "reserved"
       /\ reqs'[q].pc \in OwnerSteps => reqs'[q].owner
       /\ reqs'[q].pc = "cleaning" /\ ~reqs'[q].in.local => reqs'[q].owner
       /\ reqs'[q].pc = "claiming" => ~reqs'[q].in.local
       /\ reqs'[q].pc = "reserving" => reqs'[q].in.local
<1>2. ASSUME NEW q \in Requests, reqs'[q] = reqs[q] PROVE Fine(q)
  <2>1. TicketMove(T(q)) BY <1>0, TicketMoves
  <2> QED BY <1>0, <1>1, <1>2, <2>1, TicketKept DEF Bound
<1>3. ASSUME NEW q \in Requests, Starts(q) PROVE Fine(q)
  <2>1. ~reqs[q].owner BY <1>1, <1>3 DEF Starts, OwnerSteps
  <2>2. TicketMove(reqs'[q].in.ticket) BY <1>0, TicketMoves
  <2>3. reqs'[q].in.local \in BOOLEAN /\ tickets[reqs'[q].in.ticket].local \in BOOLEAN
    BY <1>0, InputTypes, RequestMoves DEF UploadInv, TypeOK, RequestRows, TicketRows
  <2> QED BY <1>0, <1>3, <2>1, <2>2, <2>3, TicketKept DEF Starts, Bound, OwnerSteps
<1>4. ASSUME NEW q \in Requests, Takes(q) PROVE Fine(q)
  <2>1. reqs'[q].in = reqs[q].in /\ reqs'[q].owner = TRUE BY <1>4 DEF Takes
  <2>2. CASE reqs[q].pc = "claiming"
    <3>1. reqs'[q].pc = "sealing" /\ TakenUp(T(q)) BY <1>4, <2>2 DEF Takes
    <3> QED BY <1>1, <2>1, <2>2, <3>1 DEF TakenUp, Bound, OwnerSteps
  <2>3. CASE reqs[q].pc = "reserving"
    <3>1. /\ reqs'[q].pc = "confirming" /\ tickets'[T(q)].status = "uploading"
          /\ tickets'[T(q)].user = reqs[q].in.user /\ tickets'[T(q)].local = reqs[q].in.local
      BY <1>4, <2>3 DEF Takes
    <3> QED BY <2>1, <3>1 DEF OwnerSteps
  <2> QED BY <1>4, <2>2, <2>3 DEF Takes
<1>5. ASSUME NEW q \in Requests, Goes(q) PROVE Fine(q)
  <2>1. TicketMove(T(q)) BY <1>0, TicketMoves
  <2> QED BY <1>0, <1>1, <1>5, <2>1, TicketKept DEF Goes, Bound, OwnerSteps
<1>6. \A q \in Requests : Fine(q)
  BY <1>2, <1>3, <1>4, <1>5, RequestMoves DEF RequestMove, Elsewhere
<1>7. ASSUME NEW q \in Requests, NEW r \in Requests, reqs'[q].owner, reqs'[r].owner,
             reqs'[q].in.ticket = reqs'[r].in.ticket
      PROVE  q = r
  <2>1. ASSUME NEW x \in Requests, reqs'[x].owner
        PROVE  Takes(x) \/ (reqs[x].owner /\ reqs'[x].in = reqs[x].in)
    BY <1>1, <2>1, RequestMoves DEF RequestMove, Elsewhere, Starts, Goes, OwnerSteps
  <2>2. ASSUME NEW x \in Requests, Takes(x)
        PROVE  /\ Elsewhere(x) /\ reqs'[x].in = reqs[x].in
               /\ tickets[T(x)].status \in {"none", "reserved"}
    <3>1. reqs'[x] # reqs[x] BY <2>2 DEF Takes
    <3> QED BY <2>2, <3>1, RequestMoves DEF RequestMove, Elsewhere, Takes, TakenUp, Issued
  <2>3. ASSUME NEW x \in Requests, NEW y \in Requests, x # y, Takes(x),
               reqs'[y].owner, reqs'[x].in.ticket = reqs'[y].in.ticket
        PROVE  FALSE
    <3>1. reqs'[y] = reqs[y] BY <2>2, <2>3 DEF Elsewhere
    <3>2. tickets[T(y)].status \notin {"none", "reserved"} BY <1>1, <2>3, <3>1
    <3> QED BY <2>2, <2>3, <3>1, <3>2
  <2>4. CASE Takes(q) \/ Takes(r) BY <1>7, <2>3, <2>4
  <2>5. CASE ~Takes(q) /\ ~Takes(r)
    <3>1. Owns(q, T(q)) /\ Owns(r, T(q)) BY <1>7, <2>1, <2>5 DEF Owns
    <3> QED BY <1>0, <3>1 DEF UploadInv, OwnersOK
  <2> QED BY <2>4, <2>5
<1> QED BY <1>6, <1>7 DEF OwnersOK, Owns

\* A revised video is the same video at another stage.
LEMMA RevisedFields ==
  ASSUME UploadInv, NEW v \in videos, Revises(v)
  PROVE  \E w \in videos' :
           /\ videos' = (videos \ {v}) \cup {w} /\ w.stage # "fresh"
           /\ w.ticket = v.ticket /\ w.file = v.file /\ w.parent = v.parent
<1>1. PICK s \in {"left", "again"} : videos' = (videos \ {v}) \cup {[v EXCEPT !.stage = s]}
  BY DEF Revises
<1> DEFINE w == [v EXCEPT !.stage = s]
<1>2. w.stage = s /\ w.ticket = v.ticket /\ w.file = v.file /\ w.parent = v.parent
  BY DEF UploadInv, TypeOK, VideoRows
<1>3. videos' = (videos \ {v}) \cup {w} BY <1>1
<1> HIDE DEF w
<1> QED BY <1>2, <1>3

\* A video that is created has the fields of its request.
LEMMA CreatedFields ==
  ASSUME NEW q \in open, Creates(q)
  PROVE  \E w \in videos' :
           /\ videos' = videos \cup {w} /\ w.stage = "fresh" /\ w.file = FileOf(q)
           /\ w.ticket = reqs[q].in.ticket /\ w.parent = reqs[q].in.parent
<1> DEFINE w == [ticket |-> reqs[q].in.ticket, file |-> FileOf(q),
                 parent |-> reqs[q].in.parent, stage |-> "fresh"]
<1>1. /\ w.stage = "fresh" /\ w.file = FileOf(q)
      /\ w.ticket = reqs[q].in.ticket /\ w.parent = reqs[q].in.parent
  OBVIOUS
<1>2. videos' = videos \cup {w} BY DEF Creates
<1> HIDE DEF w
<1> QED BY <1>1, <1>2

\* Reservations end with their tickets, and confirmed tickets have their videos.
LEMMA LedgerKept ==
  ASSUME UploadInv, [Next]_vars
  PROVE  LedgerOK'
<1>1. ASSUME NEW t \in Tickets
      PROVE  /\ tickets'[t].ledger = "reserved" <=> tickets'[t].status \in OpenStatus
             /\ tickets'[t].ledger = "committed" <=> tickets'[t].status = "confirmed"
  <2>1. TicketMove(t) BY TicketMoves
  <2> QED BY <2>1 DEF TicketMove, Issued, Aged, TakenUp, Ended, Fulfilled, SweptAfter,
                      OpenStatus, UploadInv, LedgerOK
<1>2. ASSUME NEW t \in Tickets, tickets'[t].status = "confirmed"
      PROVE  \E v \in videos' : v.ticket = t
  <2>1. CASE tickets[t].status = "confirmed"
    <3>1. PICK v \in videos : v.ticket = t BY <2>1 DEF UploadInv, LedgerOK
    <3> QED BY <3>1, VideoMoves, RevisedFields, CreatedFields DEF VideoMove
  <2>2. CASE tickets[t].status # "confirmed"
    <3>1. TicketMove(t) BY TicketMoves
    <3> QED BY <1>2, <2>2, <3>1
            DEF TicketMove, Issued, Aged, TakenUp, Ended, Fulfilled, SweptAfter
  <2> QED BY <2>1, <2>2
<1>3. ASSUME NEW t \in Tickets, NEW v \in videos', v.ticket = t
      PROVE  tickets'[t].status = "confirmed"
  <2>1. TicketMove(t) BY TicketMoves
  <2>2. CASE \E w \in videos : w.ticket = t
    <3>1. tickets[t].status = "confirmed" BY <2>2 DEF UploadInv, LedgerOK
    <3> QED BY <2>1, <3>1 DEF TicketMove, Issued, Aged, TakenUp, Ended, Fulfilled, SweptAfter
  <2>3. ASSUME NEW q \in open, Creates(q), v \notin videos PROVE tickets'[t].status = "confirmed"
    BY <1>3, <2>3, CreatedFields DEF Creates
  <2> QED BY <1>3, <2>2, <2>3, VideoMoves, RevisedFields DEF VideoMove
<1> QED BY <1>1, <1>2, <1>3 DEF LedgerOK

\* Of the revisions of a video at most one is fresh: the transaction that creates
\* another holds the lock of the parent's row and has seen none.
LEMMA RevisionKept ==
  ASSUME UploadInv, [Next]_vars
  PROVE  OneRevisionAtATime'
<1>1. CASE videos' = videos BY <1>1 DEF UploadInv, OneRevisionAtATime
<1>2. ASSUME NEW q \in open, Creates(q) PROVE OneRevisionAtATime'
  <2>1. PICK n \in videos' : /\ videos' = videos \cup {n} /\ n.stage = "fresh"
                             /\ n.parent = reqs[q].in.parent
    BY <1>2, CreatedFields
  <2>2. n.parent # NoParent => \A v \in videos : v.parent = n.parent => v.stage # "fresh"
    BY <2>1 DEF UploadInv, OpenOK
  <2> QED BY <2>1, <2>2 DEF UploadInv, OneRevisionAtATime
<1>3. ASSUME NEW v \in videos, Revises(v) PROVE OneRevisionAtATime'
  BY <1>3, RevisedFields DEF UploadInv, OneRevisionAtATime
<1> QED BY <1>1, <1>2, <1>3, VideoMoves DEF VideoMove

\* While a creating transaction is open, and before it is, nobody deletes the file
\* of its request: the request itself has not come to clean up, nobody else owns its
\* ticket, and the sweep waits for the user's lock or comes too late for the request.
LEMMA FileStays ==
  ASSUME UploadInv, NEW q \in Requests, FileOf(q) \in objects, reqs[q].owner \/ reqs[q].in.local,
         reqs[q].pc # "cleaning",
         \/ q \in open \/ reqs[q].in.local
         \/ tickets[reqs[q].in.ticket].age # "overdue",
         [Next]_vars
  PROVE  FileOf(q) \in objects'
<1> SUFFICES ASSUME FileOf(q) \notin objects' PROVE FALSE
  OBVIOUS
<1>0. TypeOK /\ reqs[q].in.ticket \in Tickets
  BY InputTypes DEF UploadInv, TypeOK, RequestRows
<1>1. Removed(FileOf(q)) BY ObjectMoves DEF ObjectMove
<1>2. ASSUME NEW r \in Requests, FileOf(q) = FileOf(r), reqs[r].pc = "cleaning" PROVE FALSE
  <2>1. CASE reqs[q].in.local
    BY <1>0, <1>2, <2>1, FileTypes
  <2>2. CASE ~reqs[q].in.local
    <3>1. ~reqs[r].in.local /\ reqs[r].in.ticket = reqs[q].in.ticket
      BY <1>0, <1>2, <2>2, FileTypes
    <3>2. reqs[r].owner BY <1>2, <3>1 DEF UploadInv, OwnersOK
    <3>3. Owns(q, reqs[q].in.ticket) /\ Owns(r, reqs[q].in.ticket)
      BY <2>2, <3>1, <3>2 DEF Owns
    <3> QED BY <1>0, <1>2, <3>3 DEF UploadInv, OwnersOK
  <2> QED BY <2>1, <2>2
<1>3. ASSUME NEW t \in Tickets, FileOf(q) \in Garbage(t), tickets[t].age = "overdue",
             LockFree(tickets[t].user)
      PROVE  FALSE
  <2>1. FileOf(q) \in {Source(t), <<"sealed", t>>} BY <1>3 DEF Garbage
  <2>2. ~reqs[q].in.local /\ reqs[q].in.ticket = t BY <1>0, <2>1, FileTypes DEF Source
  <2>3. q \in open /\ reqs[q].owner BY <1>3, <2>2
  <2>4. tickets[t].user = reqs[q].in.user BY <2>2, <2>3 DEF UploadInv, OwnersOK
  <2> QED BY <1>3, <2>3, <2>4 DEF LockFree
<1> QED BY <1>1, <1>2, <1>3 DEF Removed

\* A request whose creating transaction is open keeps its input and its ownership.
LEMMA OpenRequestKept ==
  ASSUME UploadInv, [Next]_vars, NEW q \in open
  PROVE  /\ reqs'[q].in = reqs[q].in /\ reqs'[q].owner
         /\ q \in open' => reqs'[q].pc \in {"committing", "failed", "dead"}
<1>1. q \in Requests /\ reqs[q].owner /\ reqs[q].pc \in {"committing", "failed", "dead"}
  BY DEF UploadInv, TypeOK, OpenOK
<1> QED BY <1>1, RequestMoves DEF RequestMove, Elsewhere, Starts, Takes, Goes

\* The request that opens a creating transaction owns its ticket.
LEMMA OpenerOwns ==
  ASSUME UploadInv, [Next]_vars, NEW q \in Requests, Opens(q)
  PROVE  reqs[q].owner /\ reqs'[q].owner /\ \A r \in open : reqs'[r].in = reqs[r].in
<1>1. reqs[q].owner BY DEF Opens, UploadInv, OwnersOK, OwnerSteps
<1>2. reqs'[q] # reqs[q] /\ reqs[q].pc = "confirming" BY DEF Opens
<1>3. reqs'[q].owner
  BY <1>1, <1>2, RequestMoves DEF RequestMove, Elsewhere, Starts, Takes, Goes
<1> QED BY <1>1, <1>3, OpenRequestKept

\* Nobody but its own transaction ends the ticket of an open transaction.
LEMMA OpenTicketKept ==
  ASSUME UploadInv, [Next]_vars, NEW q \in open, q \in open'
  PROVE  tickets'[reqs[q].in.ticket].status \in {"confirming", "uploading"}
<1> DEFINE t == reqs[q].in.ticket
<1>1. /\ t \in Tickets /\ q \in Requests /\ reqs[q].owner /\ tickets[t].user = reqs[q].in.user
      /\ tickets[t].status \in {"confirming", "uploading"}
  BY InputTypes DEF UploadInv, TypeOK, RequestRows, OpenOK, OwnersOK
<1>2. TicketMove(t) BY <1>1, TicketMoves
<1>3. ~LockFree(tickets[t].user) BY <1>1 DEF LockFree
<1>4. ~Fulfilled(t)
  <2>1. ASSUME NEW r \in open \ open', reqs[r].in.ticket = t PROVE FALSE
    <3>1. Owns(q, t) /\ Owns(r, t) /\ r \in Requests
      BY <1>1, <2>1 DEF Owns, UploadInv, OpenOK, TypeOK
    <3> QED BY <1>1, <2>1, <3>1 DEF UploadInv, OwnersOK
  <2> QED BY <2>1 DEF Fulfilled
<1> QED BY <1>1, <1>2, <1>3, <1>4 DEF TicketMove, Issued, Aged, TakenUp, Ended, SweptAfter

\* What is true of an open transaction stays so: of its request and its ticket.
LEMMA OpenKept ==
  ASSUME UploadInv, [Next]_vars
  PROVE  OpenOK'
<1>0. TypeOK /\ open \subseteq Requests BY DEF UploadInv, TypeOK
<1>1. ASSUME NEW q \in open'
      PROVE  /\ reqs'[q].owner /\ reqs'[q].pc \in {"committing", "failed", "dead"}
             /\ tickets'[reqs'[q].in.ticket].status \in {"confirming", "uploading"}
             /\ FileOf(q)' \in objects'
  <2>1. CASE q \in open
    <3>1. FileOf(q) \in objects'
      BY <1>0, <2>1, FileStays DEF UploadInv, OpenOK
    <3>2. FileOf(q)' = FileOf(q) BY <2>1, OpenRequestKept DEF FileOf
    <3> QED BY <2>1, <1>1, <3>1, <3>2, OpenRequestKept, OpenTicketKept
  <2>2. CASE q \notin open
    <3>1. q \in Requests /\ Opens(q) BY <1>1, <2>2, OpenMoves DEF OpenMove, Opens
    <3>2. FileOf(q) \in objects BY <3>1 DEF Opens, UploadInv, ObjectsOK
    <3>3. FileOf(q)' = FileOf(q) /\ objects' = objects BY <3>1 DEF Opens, FileOf
    <3> QED BY <3>1, <3>2, <3>3, OpenerOwns DEF Opens
  <2> QED BY <2>1, <2>2
<1>2. ASSUME NEW q \in open', reqs'[q].in.parent # NoParent
      PROVE  /\ \A v \in videos' : v.parent = reqs'[q].in.parent => v.stage # "fresh"
             /\ \A r \in open' : reqs'[r].in.parent = reqs'[q].in.parent => r = q
  <2> DEFINE p == reqs'[q].in.parent
  <2>1. CASE \E x \in Requests : Opens(x)
    <3>1. PICK x \in Requests : Opens(x) BY <2>1
    <3>2. \A r \in open : reqs'[r].in = reqs[r].in BY <3>1, OpenerOwns
    <3>3. open' = open \cup {x} /\ videos' = videos /\ reqs'[x].in = reqs[x].in BY <3>1 DEF Opens
    <3>4. reqs[x].in.parent # NoParent =>
            /\ \A r \in open : reqs[r].in.parent # reqs[x].in.parent
            /\ \A v \in videos : v.parent = reqs[x].in.parent => v.stage # "fresh"
      BY <3>1 DEF Opens, ParentFree, ActiveRevision
    <3> QED BY <1>2, <3>2, <3>3, <3>4 DEF UploadInv, OpenOK
  <2>2. CASE ~\E x \in Requests : Opens(x)
    <3>1. open' \subseteq open BY <2>2, OpenMoves DEF OpenMove
    <3>2. \A r \in open : reqs'[r].in = reqs[r].in BY OpenRequestKept
    <3>3. q \in open /\ p = reqs[q].in.parent BY <3>1, <3>2
    <3>4. /\ \A v \in videos : v.parent = p => v.stage # "fresh"
          /\ \A r \in open : reqs[r].in.parent = p => r = q
      BY <1>2, <3>3 DEF UploadInv, OpenOK
    <3>5. ASSUME NEW v \in videos', v.parent = p PROVE v.stage # "fresh"
      <4>1. CASE videos' = videos BY <3>4, <3>5, <4>1
      <4>2. ASSUME NEW x \in open, Creates(x) PROVE v.stage # "fresh"
        <5>1. x # q BY <4>2 DEF Creates
        <5>2. reqs[x].in.parent # p BY <3>4, <5>1
        <5> QED BY <3>4, <3>5, <4>2, <5>2, CreatedFields
      <4>3. ASSUME NEW w \in videos, Revises(w) PROVE v.stage # "fresh"
        BY <3>4, <3>5, <4>3, RevisedFields
      <4> QED BY <4>1, <4>2, <4>3, VideoMoves DEF VideoMove
    <3> QED BY <3>1, <3>2, <3>4, <3>5
  <2> QED BY <2>1, <2>2
<1> QED BY <1>1, <1>2 DEF OpenOK

\* An owner stays one.
LEMMA OwnerStays ==
  ASSUME UploadInv, [Next]_vars, NEW q \in Requests, reqs[q].owner
  PROVE  reqs'[q].owner /\ reqs'[q].in = reqs[q].in
<1>1. reqs[q].pc # "idle" BY DEF UploadInv, OwnersOK, OwnerSteps
<1> QED BY <1>1, RequestMoves DEF RequestMove, Elsewhere, Starts, Takes, Goes

\* A ticket is swept when it is overdue, and its source goes with it: only a PUT that
\* lands later brings it back.
LEMMA SweptKept ==
  ASSUME UploadInv, [Next]_vars, NEW t \in Tickets, tickets'[t].cleaned
  PROVE  /\ tickets'[t].age = "overdue"
         /\ ~tickets'[t].local /\ Source(t) \in objects' => t \in late'
<1>0. TypeOK /\ TicketMove(t) BY TicketMoves DEF UploadInv
<1>1. CASE tickets[t].cleaned /\ ~Issued(t)
  <2>1. /\ tickets[t].age = "overdue"
        /\ ~tickets[t].local /\ Source(t) \in objects => t \in late
    BY <1>1 DEF UploadInv, ObjectsOK
  <2>2. tickets'[t].age = "overdue" /\ tickets'[t].local = tickets[t].local
    BY <1>0, <1>1, <2>1
       DEF TicketMove, Bound, Aged, TakenUp, Ended, Fulfilled, SweptAfter, Sweeping
  <2>3. Added(Source(t)) => Put(t)
    <3>1. \A q \in Requests : FileOf(q) # Source(t) BY <1>0, FileTypes DEF Source
    <3>2. \A x \in Tickets : Source(x) = Source(t) => x = t BY DEF Source
    <3>3. \A q \in Requests : <<"file", q>> # Source(t) BY DEF Source
    <3> QED BY <3>1, <3>2, <3>3 DEF Added
  <2>4. Source(t) \in objects' => Source(t) \in objects \/ t \in late'
    BY <1>1, <2>3, ObjectMoves, LateMoves DEF ObjectMove
  <2> QED BY <2>1, <2>2, <2>4, LateMoves
<1>2. CASE ~tickets[t].cleaned \/ Issued(t)
  <2>1. Sweeping(t) /\ Bound(t) /\ tickets'[t].age = tickets[t].age
    BY <1>0, <1>2 DEF TicketMove, Issued, Aged, TakenUp, Ended, Fulfilled, SweptAfter
  <2>2. ~Referenced(Source(t))
    BY <1>0 DEF Referenced, Source, TypeOK, VideoRows
  <2>3. ~tickets[t].local => Source(t) \in Garbage(t) BY <2>2 DEF Garbage
  <2> QED BY <2>1, <2>3 DEF Sweeping, Bound
<1> QED BY <1>1, <1>2

\* Files come before their videos and outlive every reference to them.
LEMMA ObjectsKept ==
  ASSUME UploadInv, [Next]_vars
  PROVE  ObjectsOK'
<1>0. TypeOK BY DEF UploadInv
<1>1. ASSUME NEW q \in Requests, reqs'[q].pc = "confirming",
             tickets'[reqs'[q].in.ticket].age = "live"
      PROVE  FileOf(q)' \in objects'
  <2> DEFINE t == reqs[q].in.ticket
  <2>1. CASE reqs'[q] = reqs[q]
    <3>1. /\ t \in Tickets /\ reqs[q].owner /\ tickets[t].status # "none"
      BY <1>1, <2>1, InputTypes DEF UploadInv, TypeOK, RequestRows, OwnersOK, OwnerSteps
    <3>2. TicketMove(t) BY <3>1, TicketMoves
    <3>3. tickets[t].age = "live" BY <1>1, <2>1, <3>1, <3>2, TicketKept DEF Issued
    <3>4. FileOf(q) \in objects BY <1>1, <2>1, <3>3 DEF UploadInv, ObjectsOK
    <3>5. FileOf(q) \in objects' BY <1>1, <2>1, <3>1, <3>3, <3>4, FileStays
    <3> QED BY <2>1, <3>5 DEF FileOf
  <2>2. CASE Takes(q)
    <3>1. FileOf(q) \in objects' BY <1>1, <2>2 DEF Takes, UploadInv, ObjectsOK
    <3> QED BY <2>2, <3>1 DEF Takes, FileOf
  <2>3. CASE Goes(q)
    <3>1. FileOf(q) \in objects' BY <1>1, <2>3 DEF Goes
    <3> QED BY <2>3, <3>1 DEF Goes, FileOf
  <2> QED BY <1>1, <2>1, <2>2, <2>3, RequestMoves DEF RequestMove, Elsewhere, Starts
<1>2. ASSUME NEW q \in Requests, reqs'[q].pc = "reserving" PROVE FileOf(q)' \in objects'
  <2>1. CASE reqs'[q] = reqs[q]
    <3>1. FileOf(q) \in objects /\ reqs[q].in.local
      BY <1>2, <2>1 DEF UploadInv, ObjectsOK, OwnersOK
    <3>2. FileOf(q) \in objects' BY <1>2, <2>1, <3>1, FileStays
    <3> QED BY <2>1, <3>2 DEF FileOf
  <2>2. CASE Starts(q) BY <1>2, <2>2 DEF Starts, FileOf
  <2> QED BY <1>2, <2>1, <2>2, RequestMoves DEF RequestMove, Elsewhere, Takes, Goes, OwnerSteps
<1>3. ASSUME NEW t \in Tickets, <<"sealed", t>> \in objects'
      PROVE  \E q \in Requests : reqs'[q].owner /\ reqs'[q].in.ticket = t
  <2>1. \E q \in Requests : Owns(q, t)
    <3>1. CASE <<"sealed", t>> \in objects BY <3>1 DEF UploadInv, ObjectsOK
    <3>2. CASE <<"sealed", t>> \notin objects
      <4>1. PICK q \in Requests : <<"sealed", t>> = FileOf(q) /\ reqs[q].pc = "copying"
        BY <1>3, <3>2, ObjectMoves DEF ObjectMove, Added, Source
      <4>2. reqs[q].in.ticket = t BY <1>0, <4>1, FileTypes
      <4> QED BY <4>1, <4>2 DEF UploadInv, OwnersOK, OwnerSteps, Owns
    <3> QED BY <3>1, <3>2
  <2> QED BY <2>1, OwnerStays DEF Owns
<1>4. ASSUME NEW v \in videos' PROVE v.file \in objects'
  <2>1. CASE videos' = videos
    <3>1. v.file \in objects BY <1>4, <2>1 DEF UploadInv, ObjectsOK
    <3> QED BY <1>4, <2>1, <3>1, ObjectMoves DEF ObjectMove, Removed, Referenced
  <2>2. ASSUME NEW q \in open, Creates(q) PROVE v.file \in objects'
    <3>1. FileOf(q) \in objects BY DEF UploadInv, OpenOK
    <3> QED BY <1>4, <2>2, <3>1, CreatedFields DEF Creates, UploadInv, ObjectsOK
  <2>3. ASSUME NEW w \in videos, Revises(w), objects' = objects PROVE v.file \in objects'
    BY <1>4, <2>3, RevisedFields DEF UploadInv, ObjectsOK
  <2> QED BY <2>1, <2>2, <2>3, VideoMoves DEF VideoMove
<1> QED BY <1>1, <1>2, <1>3, <1>4, SweptKept DEF ObjectsOK, Owns, Source

-----------------------------------------------------------------------------
(* The invariant.                                                          *)

\* Nothing has been uploaded in the beginning.
LEMMA UploadInvInitially ==
  ASSUME Init
  PROVE  UploadInv
<1>0. \E i \in Inputs : i.user \in Users BY UploadAssumption, InputTypes
<1>1. /\ (CHOOSE u \in Users : TRUE) \in Users /\ (CHOOSE i \in Inputs : TRUE) \in Inputs
  BY <1>0
<1>2. /\ \A t \in Tickets : /\ tickets[t] \in TicketRows /\ tickets[t].status = "none"
                            /\ tickets[t].ledger = "none" /\ tickets[t].cleaned = FALSE
      /\ tickets \in [Tickets -> TicketRows]
  BY <1>1 DEF Init, TicketRows
<1>3. /\ \A q \in Requests : reqs[q].pc = "idle" /\ reqs[q].owner = FALSE
      /\ reqs \in [Requests -> RequestRows]
  BY <1>1 DEF Init, RequestRows, Steps
<1>4. objects = {} /\ open = {} /\ videos = {} /\ late = {} BY DEF Init
<1>5. TypeOK BY <1>2, <1>3, <1>4 DEF TypeOK
<1>6. LedgerOK BY <1>2, <1>4 DEF LedgerOK, OpenStatus
<1>7. OwnersOK BY <1>3 DEF OwnersOK, OwnerSteps, Owns
<1>8. OpenOK /\ ObjectsOK /\ OneRevisionAtATime
  BY <1>2, <1>3, <1>4 DEF OpenOK, ObjectsOK, OneRevisionAtATime
<1> QED BY <1>5, <1>6, <1>7, <1>8 DEF UploadInv

\* It is kept by every step.
LEMMA UploadInvStep ==
  ASSUME UploadInv, [Next]_vars
  PROVE  UploadInv'
BY TypeKept, LedgerKept, OwnersKept, OpenKept, ObjectsKept, RevisionKept DEF UploadInv

\* The invariant of uploads.
THEOREM UploadInvariant == Spec => []UploadInv
<1>1. UploadInv /\ [Next]_vars => UploadInv' BY UploadInvStep
<1> QED BY <1>1, UploadInvInitially, PTL DEF Spec

-----------------------------------------------------------------------------
(* The quota.                                                              *)

\* No account holds more uploads than its quota.
WithinLimit ==
  \A u \in Users : IsFiniteSet(Used(u)) /\ Cardinality(Used(u)) <= QuotaLimit

\* What an account holds grows only by a ticket that is issued within its quota.
LEMMA UsedSteps ==
  ASSUME UploadInv, [Next]_vars, NEW u \in Users
  PROVE  \/ Used(u)' \subseteq Used(u)
         \/ \E t \in Tickets : Used(u)' \subseteq Used(u) \cup {t} /\ QuotaFree(u)
<1>1. ASSUME NEW t \in Tickets, t \in Used(u)', t \notin Used(u)
      PROVE  Issued(t) /\ tickets'[t].user = u
  <2>1. TicketMove(t) BY TicketMoves
  <2>2. /\ tickets'[t].user = u /\ tickets'[t].ledger \in {"reserved", "committed"}
        /\ tickets[t].user = u => tickets[t].ledger \notin {"reserved", "committed"}
    BY <1>1 DEF Used
  <2>3. ASSUME Fulfilled(t) PROVE tickets[t].ledger = "reserved"
    <3>1. PICK q \in open : reqs[q].in.ticket = t BY <2>3 DEF Fulfilled
    <3>2. tickets[t].status \in {"confirming", "uploading"} BY <3>1 DEF UploadInv, OpenOK
    <3> QED BY <3>2 DEF UploadInv, LedgerOK, OpenStatus
  <2> QED BY <2>1, <2>2, <2>3 DEF TicketMove, Bound, Aged, TakenUp, Ended, Fulfilled, SweptAfter
<1>2. CASE \E t \in Tickets : Issued(t) /\ tickets'[t].user = u
  <2>1. PICK t \in Tickets : Issued(t) /\ tickets'[t].user = u BY <1>2
  <2>2. QuotaFree(u) /\ \A x \in Tickets : x # t => tickets'[x] = tickets[x]
    BY <2>1 DEF Issued
  <2>3. Used(u)' \subseteq Used(u) \cup {t} BY <2>2 DEF Used
  <2> QED BY <2>2, <2>3
<1>3. CASE ~\E t \in Tickets : Issued(t) /\ tickets'[t].user = u
  BY <1>1, <1>3 DEF Used
<1> QED BY <1>2, <1>3

\* In the beginning an account holds nothing.
LEMMA LimitInitially ==
  ASSUME Init
  PROVE  WithinLimit
<1> SUFFICES ASSUME NEW u \in Users
             PROVE  IsFiniteSet(Used(u)) /\ Cardinality(Used(u)) <= QuotaLimit
  BY DEF WithinLimit
<1>1. Used(u) = {} BY DEF Init, Used
<1>2. IsFiniteSet(Used(u)) /\ Cardinality(Used(u)) = 0 BY <1>1, FS_EmptySet
<1> QED BY <1>2, UploadAssumption

\* And it never comes to hold more than its quota.
LEMMA LimitKept ==
  ASSUME UploadInv, WithinLimit, [Next]_vars
  PROVE  WithinLimit'
<1>1. ASSUME NEW u \in Users
      PROVE  IsFiniteSet(Used(u)') /\ Cardinality(Used(u)') <= QuotaLimit
  <2>0. /\ IsFiniteSet(Used(u)) /\ Cardinality(Used(u)) <= QuotaLimit
        /\ Cardinality(Used(u)) \in Nat /\ QuotaLimit \in Nat
    BY FS_CardinalityType, UploadAssumption DEF WithinLimit
  <2>1. CASE Used(u)' \subseteq Used(u)
    <3>1. /\ IsFiniteSet(Used(u)') /\ Cardinality(Used(u)') <= Cardinality(Used(u))
          /\ Cardinality(Used(u)') \in Nat
      BY <2>0, <2>1, FS_Subset, FS_CardinalityType
    <3> QED BY <2>0, <3>1
  <2>2. ASSUME NEW t \in Tickets, Used(u)' \subseteq Used(u) \cup {t}, QuotaFree(u)
        PROVE  IsFiniteSet(Used(u)') /\ Cardinality(Used(u)') <= QuotaLimit
    <3>1. /\ IsFiniteSet(Used(u) \cup {t})
          /\ Cardinality(Used(u) \cup {t}) \in {Cardinality(Used(u)), Cardinality(Used(u)) + 1}
      BY <2>0, FS_AddElement
    <3>2. /\ IsFiniteSet(Used(u)') /\ Cardinality(Used(u)') \in Nat
          /\ Cardinality(Used(u)') <= Cardinality(Used(u) \cup {t})
      BY <2>2, <3>1, FS_Subset, FS_CardinalityType
    <3>3. Cardinality(Used(u)) < QuotaLimit BY <2>2 DEF QuotaFree
    <3> QED BY <2>0, <3>1, <3>2, <3>3
  <2> QED BY <2>1, <2>2, UsedSteps
<1> QED BY <1>1 DEF WithinLimit

-----------------------------------------------------------------------------
(* What the runs check, for any number of everything.                      *)

\* No account holds more uploads than its quota, and the reservation of a ticket is
\* open exactly while the ticket is, spent exactly when a video came of it, and given
\* back otherwise: cancel, expiry, sweep and the catch branch settle it once between them.
THEOREM ReservationFollows == Spec => []ReservationFollowsTicket
<1>1. UploadInv /\ WithinLimit /\ [Next]_vars => WithinLimit' BY LimitKept
<1>2. UploadInv /\ WithinLimit => ReservationFollowsTicket
  BY DEF UploadInv, WithinLimit, LedgerOK, ReservationFollowsTicket
<1> QED BY <1>1, <1>2, LimitInitially, UploadInvariant, PTL DEF Spec

\* The file of a video is never deleted, whatever becomes of the request that made
\* it, one request owns a ticket, and the sweep leaves no source behind, unless a PUT
\* lands after it, and no sealed file that is nobody's.
THEOREM FilesFollow == Spec => []FilesFollowVideos
<1>1. UploadInv => FilesFollowVideos
  BY DEF UploadInv, ObjectsOK, OwnersOK, FilesFollowVideos
<1> QED BY <1>1, UploadInvariant, PTL

\* At most one revision of a video is on its way to a first decision.
THEOREM RevisionsTakeTurns == Spec => []OneRevisionAtATime
<1>1. UploadInv => OneRevisionAtATime BY DEF UploadInv
<1> QED BY <1>1, UploadInvariant, PTL
=============================================================================
