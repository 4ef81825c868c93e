------------------------------ MODULE Accounts ------------------------------
(***************************************************************************)
(* Accounts, sessions and administration: auth.service.ts,                 *)
(* jwt.strategy.ts, jwt-auth.guard.ts, admin-users.service.ts and the      *)
(* settings of admin-operations.service.ts.                                *)
(*                                                                         *)
(* A login compares the password outside a transaction and issues the      *)
(* session inside one.  A request is admitted by its session and commits   *)
(* later; in between the account behind it can be changed, disabled or     *)
(* expire, and its session can be revoked.  Administrators act on the      *)
(* accounts of others and of one another.                                  *)
(*                                                                         *)
(* A handler that refuses changes nothing but the end of the request       *)
(* (Refuse); refusals over data that is not modelled (the manager of an    *)
(* account, the length of a reason) are part of it.                        *)
(***************************************************************************)
EXTENDS Naturals, FiniteSets

CONSTANTS
  Users,
  Administrators,  \* the accounts there are at first, all administrators
  Sessions,        \* bound: sessions ever issued
  NewAccounts,     \* what an account may be created as
  Changes,         \* what an update may ask for: some fields and their values
  MaxSecret,       \* bound: passwords an account goes through
  MaxCommits,      \* bound: changes of accounts
  MaxRequests,     \* bound: requests and logins under way
  MaxVersion       \* bound: versions of the setting

Roles == {"admin", "content_owner", "visitor"}
Statuses == {"absent", "active", "disabled", "archived"}
Secrets == 0 .. MaxSecret
Expiries == {"none", "future", "past"}
Accounts == [role : Roles, status : Statuses, expiry : Expiries, secret : Secrets,
             name : {0, 1}, must : BOOLEAN, finite : BOOLEAN]

ASSUME AccountsAssumption ==
  /\ Administrators \subseteq Users /\ Administrators # {}
  /\ {MaxSecret, MaxCommits, MaxRequests, MaxVersion} \subseteq Nat
  /\ NewAccounts \subseteq Accounts
  /\ \A c \in Changes :
       /\ DOMAIN c \subseteq {"role", "status", "expiry", "name"}
       /\ "role" \in DOMAIN c => c["role"] \in Roles
       /\ "status" \in DOMAIN c => c["status"] \in Statuses \ {"absent"}
       /\ "expiry" \in DOMAIN c => c["expiry"] \in Expiries
       /\ "name" \in DOMAIN c => c["name"] \in {0, 1}

VARIABLES
  user,      \* users, each with whether all its quotas are finite
  session,   \* user_sessions, with what the account was when they were issued
  logins,    \* logins whose password was compared
  requests,  \* requests the guards have admitted
  setting,   \* the version of the setting
  commits    \* how many changes of accounts there were

vars == <<user, session, logins, requests, setting, commits>>

\* What a session rests on.
Grounds == [role : Roles, secret : Secrets, name : {0, 1}, expiry : Expiries]

GroundsOf(u) == [role |-> user[u].role, secret |-> user[u].secret,
                 name |-> user[u].name, expiry |-> user[u].expiry]

TypeOK ==
  /\ user \in [Users -> Accounts]
  /\ session \in [Sessions -> [of : Users, grounds : Grounds,
                               state : {"none", "live", "revoked", "lapsed"}]]
  /\ logins \subseteq [of : Users, secret : Secrets, name : {0, 1}, adminOnly : BOOLEAN]
  /\ requests \subseteq [sid : Sessions, managed : BOOLEAN]
  /\ setting \in 0 .. MaxVersion
  /\ commits \in 0 .. MaxCommits

Free == Cardinality(logins) + Cardinality(requests) < MaxRequests

Init ==
  /\ user = [u \in Users |->
       [role |-> "admin", expiry |-> "none", secret |-> 0, name |-> 0, must |-> FALSE, finite |-> FALSE,
        status |-> IF u \in Administrators THEN "active" ELSE "absent"]]
  /\ session = [s \in Sessions |->
       [of |-> CHOOSE u \in Users : TRUE, state |-> "none",
        grounds |-> [role |-> "admin", secret |-> 0, name |-> 0, expiry |-> "none"]]]
  /\ logins = {} /\ requests = {} /\ setting = 0 /\ commits = 0

-----------------------------------------------------------------------------
(* Guards.                                                                 *)

\* assertActive, assertIdentityActive.
Active(u) == user[u].status = "active" /\ user[u].expiry # "past"

ActiveAdmin(u) == Active(u) /\ user[u].role = "admin"

\* The cookie of a request is good: JwtStrategy.validate.
Valid(s) == session[s].state = "live" /\ Active(session[s].of)

\* JwtAuthGuard.canActivate: who must change the password reaches nothing else.
Admitted(s, managed) ==
  /\ Valid(s)
  /\ managed => user[session[s].of].role = "admin" /\ ~user[session[s].of].must

\* Wrong variant: the recheck under the lock only asks for an active account.
StillTheSameActive(l) == Active(l.of)

\* What the login compared is still so once the row is locked.
StillTheSame(l) ==
  /\ Active(l.of)
  /\ user[l.of].name = l.name /\ user[l.of].secret = l.secret
  /\ l.adminOnly => user[l.of].role = "admin"

\* Wrong variant: any other administrator will do, active or not.
OthersRemainListed(u) == \E o \in Users \ {u} : user[o].role = "admin" /\ user[o].status # "absent"

\* Some other administrator can still act.
OthersRemain(u) == \E o \in Users \ {u} : ActiveAdmin(o)

\* The last administrator stays one, and gets no earlier expiry.
KeepsAdministrator(u, next) ==
  (ActiveAdmin(u) /\ ( \/ next.role # "admin" \/ next.status # "active"
                       \/ next.expiry # user[u].expiry /\ next.expiry # "none"))
    => OthersRemain(u)

\* A visitor has an expiry and explicit quotas.
VisitorBounded(next) == next.role = "visitor" => next.expiry # "none" /\ next.finite

-----------------------------------------------------------------------------
(* Sessions.                                                               *)

Revoked(S) == [s \in Sessions |->
  IF session[s].of \in S /\ session[s].state = "live"
    THEN [session[s] EXCEPT !.state = "revoked"] ELSE session[s]]

\* issue, on top of the sessions base.  Its expiry is no later than the account's.
Issued(base, s, u, grounds) ==
  [base EXCEPT ![s] = [of |-> u, state |-> "live", grounds |-> grounds]]

\* The password and the account name are the ones the login gave.
GroundsGiven(l) == [GroundsOf(l.of) EXCEPT !.secret = l.secret, !.name = l.name]

\* findUnique and bcrypt.compare, outside the transaction.
Compare(u, adminOnly) ==
  /\ user[u].status # "absent" /\ Free
  /\ adminOnly => user[u].role = "admin"
  /\ logins' = logins \cup {[of |-> u, secret |-> user[u].secret, name |-> user[u].name,
                             adminOnly |-> adminOnly]}
  /\ UNCHANGED <<user, session, requests, setting, commits>>

Login(l) ==
  /\ logins' = logins \ {l}
  /\ \/ /\ StillTheSame(l)
        /\ \E s \in Sessions : /\ session[s].state = "none"
                               /\ session' = Issued(session, s, l.of, GroundsGiven(l))
     \/ ~StillTheSame(l) /\ UNCHANGED session
  /\ UNCHANGED <<user, requests, setting, commits>>

\* Two hours pass.
Lapse(s) ==
  /\ session[s].state = "live"
  /\ session' = [session EXCEPT ![s].state = "lapsed"]
  /\ UNCHANGED <<user, logins, requests, setting, commits>>

\* The day an account expires; sessions issued with that day end with it.
Expire(u) ==
  /\ user[u].status # "absent" /\ user[u].expiry = "future"
  /\ user' = [user EXCEPT ![u].expiry = "past"]
  /\ session' = [s \in Sessions |->
       IF session[s].of = u /\ session[s].state = "live" /\ session[s].grounds.expiry = "future"
         THEN [session[s] EXCEPT !.state = "lapsed"] ELSE session[s]]
  /\ UNCHANGED <<logins, requests, setting, commits>>

Admit(s, managed) ==
  /\ Admitted(s, managed) /\ Free
  /\ requests' = requests \cup {[sid |-> s, managed |-> managed]}
  /\ UNCHANGED <<user, session, logins, setting, commits>>

Refuse(r) ==
  /\ requests' = requests \ {r}
  /\ UNCHANGED <<user, session, logins, setting, commits>>

Actor(r) == session[r.sid].of

Logout(r, all) ==
  /\ ~r.managed
  /\ requests' = requests \ {r}
  /\ session' = IF all THEN Revoked({Actor(r)})
                ELSE [s \in Sessions |-> IF s = r.sid THEN Revoked({Actor(r)})[s] ELSE session[s]]
  /\ UNCHANGED <<user, logins, setting, commits>>

\* changePassword: the old sessions end, the browser gets a new one.
ChangePassword(r) ==
  /\ ~r.managed /\ Valid(r.sid) /\ commits < MaxCommits
  /\ user[Actor(r)].secret < MaxSecret
  /\ LET u == Actor(r)
         changed == [user[u] EXCEPT !.secret = @ + 1, !.must = FALSE]
     IN  /\ user' = [user EXCEPT ![u] = changed]
         /\ \E s \in Sessions :
              /\ session[s].state = "none"
              /\ session' = Issued(Revoked({u}), s, u,
                   [GroundsOf(u) EXCEPT !.secret = changed.secret])
  /\ requests' = requests \ {r} /\ commits' = commits + 1
  /\ UNCHANGED <<logins, setting>>

-----------------------------------------------------------------------------
(* Administration.  The transactions of admin-users.service.ts hold one    *)
(* advisory lock and read the actor again.                                 *)

\* Wrong variant: the request was admitted, so its actor is an administrator.
CommitsAdmitted(r) == r.managed /\ commits < MaxCommits

\* AdminUsersService.transaction and actor.
Commits(r) == r.managed /\ ActiveAdmin(Actor(r)) /\ commits < MaxCommits

Done(r) ==
  /\ requests' = requests \ {r} /\ commits' = commits + 1
  /\ UNCHANGED <<logins, setting>>

\* batch: one account of the batch.
Create(r, u, next) ==
  /\ Commits(r) /\ user[u].status = "absent"
  /\ next.status = "active" /\ next.expiry # "past" /\ VisitorBounded(next)
  /\ next.secret = 0 /\ next.name = 0
  /\ user' = [user EXCEPT ![u] = next]
  /\ Done(r) /\ UNCHANGED session

Field(c, f, old) == IF f \in DOMAIN c THEN c[f] ELSE old

\* The account as the update leaves it.
Changed(old, c) ==
  [old EXCEPT !.role = Field(c, "role", old.role), !.status = Field(c, "status", old.status),
              !.expiry = Field(c, "expiry", old.expiry), !.name = Field(c, "name", old.name)]

\* Naming the role, the status or the expiry ends every session, even if the
\* value stays; an account name does if it is a new one.
EndsSessions(old, c) ==
  DOMAIN c \cap {"role", "status", "expiry"} # {} \/ Changed(old, c).name # old.name

Update(r, u, c) ==
  /\ Commits(r) /\ user[u].status # "absent"
  /\ LET next == Changed(user[u], c)
     IN  /\ user[u].status = "archived" => next.status = "archived" /\ next.name = user[u].name
         /\ KeepsAdministrator(u, next) /\ VisitorBounded(next)
         /\ user' = [user EXCEPT ![u] = next]
  /\ session' = IF EndsSessions(user[u], c) THEN Revoked({u}) ELSE session
  /\ Done(r)

\* setPassword; resetPassword is the case of must.
SetPassword(r, u, must) ==
  /\ Commits(r) /\ user[u].status \notin {"absent", "archived"}
  /\ user[u].secret < MaxSecret
  /\ user' = [user EXCEPT ![u].secret = @ + 1, ![u].must = must]
  /\ session' = Revoked({u})
  /\ Done(r)

\* A visitor's quota may be made unlimited here.
AdjustQuota(r, u, finite) ==
  /\ Commits(r) /\ user[u].status # "absent"
  /\ user' = [user EXCEPT ![u].finite = finite]
  /\ Done(r) /\ UNCHANGED session

\* revoke: one session of an account, or all.
Revoke(r, u, S) ==
  /\ Commits(r) /\ user[u].status # "absent"
  /\ session' = [s \in Sessions |-> IF s \in S THEN Revoked({u})[s] ELSE session[s]]
  /\ Done(r) /\ UNCHANGED user

\* saveSetting, from a page that was loaded at version seen: expectedVersion.
SaveSetting(r, seen) ==
  /\ r.managed /\ ActiveAdmin(Actor(r)) /\ ~user[Actor(r)].must
  /\ seen = setting /\ setting < MaxVersion
  /\ setting' = setting + 1
  /\ requests' = requests \ {r}
  /\ UNCHANGED <<user, session, logins, commits>>

Next ==
  \/ \E u \in Users, b \in BOOLEAN : Compare(u, b)
  \/ \E l \in logins : Login(l)
  \/ \E s \in Sessions : Lapse(s)
  \/ \E u \in Users : Expire(u)
  \/ \E s \in Sessions, b \in BOOLEAN : Admit(s, b)
  \/ \E r \in requests : Refuse(r)
  \/ \E r \in requests, b \in BOOLEAN : Logout(r, b)
  \/ \E r \in requests : ChangePassword(r)
  \/ \E r \in requests, u \in Users, next \in NewAccounts : Create(r, u, next)
  \/ \E r \in requests, u \in Users, c \in Changes : Update(r, u, c)
  \/ \E r \in requests, u \in Users, b \in BOOLEAN : SetPassword(r, u, b)
  \/ \E r \in requests, u \in Users, b \in BOOLEAN : AdjustQuota(r, u, b)
  \/ \E r \in requests, u \in Users, S \in {Sessions} \cup {{s} : s \in Sessions} : Revoke(r, u, S)
  \/ \E r \in requests, seen \in 0 .. MaxVersion : SaveSetting(r, seen)

Spec == Init /\ [][Next]_vars

-----------------------------------------------------------------------------
(* Properties.                                                             *)

\* A session that has neither ended nor been revoked rests on what its account
\* is now: the same role, account name, password and expiry, and an account
\* that is active.  Every change of one of these ends the sessions in the same
\* transaction, and a login that raced with the change does not get past it.
LiveSessionsAreCurrent ==
  \A s \in Sessions : session[s].state = "live" =>
    /\ session[s].grounds = GroundsOf(session[s].of)
    /\ Active(session[s].of)

\* Only time takes the last administrator away: no administrator, and no two of
\* them at once, can leave the system without one who is active and not expired.
AdministratorRemains ==
  [][ (\E u \in Users : ActiveAdmin(u))
        => (\E u \in Users : ActiveAdmin(u)') \/ (\E u \in Users : Expire(u)) ]_vars

\* Whatever a request changes about the accounts of others or the setting, its
\* actor is an active administrator at that moment, and not only when the guards
\* let the request in.
OnlyAdministratorsDecide ==
  [][ \A r \in requests \ requests' :
        (\/ setting' # setting
         \/ \E u \in Users \ {Actor(r)} : user'[u] # user[u]) => ActiveAdmin(Actor(r)) ]_vars
=============================================================================
