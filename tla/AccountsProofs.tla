--------------------------- MODULE AccountsProofs ---------------------------
(***************************************************************************)
(* Sessions and administrators, for every number of accounts, sessions and *)
(* requests.  TypeOK and LiveSessionsAreCurrent together are inductive;    *)
(* the two action properties need only what the types say.                 *)
(***************************************************************************)
EXTENDS Accounts, TLAPS

\* What an update leaves is an account again.
LEMMA ChangedType ==
  ASSUME NEW old \in Accounts, NEW c \in Changes
  PROVE  Changed(old, c) \in Accounts
<1>1. /\ "role" \in DOMAIN c => c["role"] \in Roles
      /\ "status" \in DOMAIN c => c["status"] \in Statuses \ {"absent"}
      /\ "expiry" \in DOMAIN c => c["expiry"] \in Expiries
      /\ "name" \in DOMAIN c => c["name"] \in {0, 1}
  BY AccountsAssumption
<1>2. /\ Field(c, "role", old.role) \in Roles /\ Field(c, "status", old.status) \in Statuses
      /\ Field(c, "expiry", old.expiry) \in Expiries /\ Field(c, "name", old.name) \in {0, 1}
  BY <1>1 DEF Field, Accounts
<1> QED BY <1>2 DEF Changed, Accounts

\* The grounds of a session are taken from an account.
LEMMA GroundsType ==
  ASSUME TypeOK, NEW u \in Users
  PROVE  GroundsOf(u) \in Grounds
  BY DEF TypeOK, GroundsOf, Grounds, Accounts

SessionRecords == [of : Users, grounds : Grounds, state : {"none", "live", "revoked", "lapsed"}]

\* Revoking and issuing keep the sessions sessions.
LEMMA RevokedType ==
  ASSUME TypeOK, NEW S
  PROVE  Revoked(S) \in [Sessions -> SessionRecords]
  BY DEF TypeOK, Revoked, SessionRecords

LEMMA IssuedType ==
  ASSUME NEW base \in [Sessions -> SessionRecords], NEW s \in Sessions,
         NEW u \in Users, NEW g \in Grounds
  PROVE  Issued(base, s, u, g) \in [Sessions -> SessionRecords]
  BY DEF Issued, SessionRecords

\* An administrator's action that leaves accounts and sessions well typed does
\* so with everything.
LEMMA DoneType ==
  ASSUME TypeOK, NEW r, Commits(r), Done(r),
         user' \in [Users -> Accounts], session' \in [Sessions -> SessionRecords]
  PROVE  TypeOK'
  BY AccountsAssumption DEF TypeOK, Commits, Done, SessionRecords

\* The variables keep their types: no action leaves an account, a session or a
\* request that is not one.
THEOREM TypeCorrect == Spec => []TypeOK
<1>1. Init => TypeOK
  BY AccountsAssumption DEF Init, TypeOK, Accounts, Grounds, Roles, Statuses, Secrets, Expiries
<1>2. TypeOK /\ [Next]_vars => TypeOK'
  <2> SUFFICES ASSUME TypeOK, [Next]_vars PROVE TypeOK'
    OBVIOUS
  <2> USE AccountsAssumption
  <2>1. ASSUME NEW u \in Users, NEW b \in BOOLEAN, Compare(u, b) PROVE TypeOK'
    BY <2>1 DEF Compare, TypeOK, Accounts
  <2>2. ASSUME NEW l \in logins, Login(l) PROVE TypeOK'
    <3>1. l.of \in Users /\ l.secret \in Secrets /\ l.name \in {0, 1}
      BY DEF TypeOK
    <3>2. GroundsOf(l.of) \in Grounds
      BY <3>1, GroundsType
    <3>3. GroundsGiven(l) \in Grounds
      BY <3>1, <3>2 DEF GroundsGiven, Grounds
    <3>4. session' \in [Sessions -> SessionRecords]
      BY <2>2, <3>1, <3>3, IssuedType DEF Login, TypeOK, SessionRecords
    <3> QED BY <2>2, <3>4 DEF Login, TypeOK, SessionRecords
  <2>3. ASSUME NEW s \in Sessions, Lapse(s) PROVE TypeOK'
    BY <2>3 DEF Lapse, TypeOK
  <2>4. ASSUME NEW u \in Users, Expire(u) PROVE TypeOK'
    <3>1. user' \in [Users -> Accounts]
      BY <2>4 DEF Expire, TypeOK, Accounts, Expiries
    <3>2. session' \in [Sessions -> SessionRecords]
      BY <2>4 DEF Expire, TypeOK, SessionRecords
    <3> QED BY <2>4, <3>1, <3>2 DEF Expire, TypeOK, SessionRecords
  <2>5. ASSUME NEW s \in Sessions, NEW b \in BOOLEAN, Admit(s, b) PROVE TypeOK'
    BY <2>5 DEF Admit, TypeOK
  <2>6. ASSUME NEW r \in requests, Refuse(r) PROVE TypeOK'
    BY <2>6 DEF Refuse, TypeOK
  <2>7. ASSUME NEW r \in requests, NEW b \in BOOLEAN, Logout(r, b) PROVE TypeOK'
    <3>1. session' \in [Sessions -> SessionRecords]
      BY <2>7, RevokedType DEF Logout, TypeOK, SessionRecords
    <3> QED BY <2>7, <3>1 DEF Logout, TypeOK, SessionRecords
  <2>8. ASSUME NEW r \in requests, ChangePassword(r) PROVE TypeOK'
    <3> DEFINE u == Actor(r)
               g == [GroundsOf(u) EXCEPT !.secret = user[u].secret + 1]
    <3>1. u \in Users /\ user[u] \in Accounts
      BY DEF Actor, TypeOK
    <3>2. user[u].secret + 1 \in Secrets
      BY <2>8, <3>1 DEF ChangePassword, Accounts, Secrets
    <3>3. g \in Grounds
      BY <3>1, <3>2, GroundsType DEF Grounds
    <3>4. user' \in [Users -> Accounts]
      BY <2>8, <3>1, <3>2 DEF ChangePassword, TypeOK, Accounts
    <3>5. PICK s \in Sessions : session' = Issued(Revoked({u}), s, u, g)
      BY <2>8, <3>1 DEF ChangePassword, Accounts
    <3>6. session' \in [Sessions -> SessionRecords]
      BY <3>1, <3>3, <3>5, RevokedType, IssuedType
    <3>7. requests' = requests \ {r} /\ commits' = commits + 1 /\ commits < MaxCommits
          /\ UNCHANGED <<logins, setting>>
      BY <2>8 DEF ChangePassword
    <3> QED BY <3>4, <3>6, <3>7 DEF TypeOK, SessionRecords
  <2>9. ASSUME NEW r \in requests, NEW u \in Users, NEW next \in NewAccounts, Create(r, u, next)
        PROVE TypeOK'
    BY <2>9 DEF Create, Commits, Done, TypeOK
  <2>10. ASSUME NEW r \in requests, NEW u \in Users, NEW c \in Changes, Update(r, u, c)
         PROVE TypeOK'
    <3>1. Changed(user[u], c) \in Accounts
      BY ChangedType DEF TypeOK
    <3>2. user' \in [Users -> Accounts]
      BY <2>10, <3>1 DEF Update, TypeOK
    <3>3. session' \in [Sessions -> SessionRecords]
      BY <2>10, RevokedType DEF Update, TypeOK, SessionRecords
    <3> QED BY <2>10, <3>2, <3>3, DoneType DEF Update
  <2>11. ASSUME NEW r \in requests, NEW u \in Users, NEW b \in BOOLEAN, SetPassword(r, u, b)
         PROVE TypeOK'
    <3> DEFINE changed == [user[u] EXCEPT !.secret = @ + 1, !.must = b]
    <3>1. user[u] \in Accounts /\ user[u].secret < MaxSecret
      BY <2>11 DEF SetPassword, TypeOK
    <3>2. changed \in Accounts
      <4>1. user[u].secret + 1 \in Secrets
        BY <3>1 DEF Accounts, Secrets
      <4> QED BY <3>1, <4>1 DEF Accounts
    <3>3. user' = [user EXCEPT ![u] = changed]
      BY <2>11 DEF SetPassword, TypeOK
    <3>4. user' \in [Users -> Accounts]
      BY <3>2, <3>3 DEF TypeOK
    <3>5. session' \in [Sessions -> SessionRecords]
      BY <2>11, RevokedType DEF SetPassword
    <3> QED BY <2>11, <3>4, <3>5, DoneType DEF SetPassword
  <2>12. ASSUME NEW r \in requests, NEW u \in Users, NEW b \in BOOLEAN, AdjustQuota(r, u, b)
         PROVE TypeOK'
    BY <2>12 DEF AdjustQuota, Commits, Done, TypeOK, Accounts
  <2>13. ASSUME NEW r \in requests, NEW u \in Users, NEW S, Revoke(r, u, S) PROVE TypeOK'
    <3>1. session' \in [Sessions -> SessionRecords]
      BY <2>13, RevokedType DEF Revoke, TypeOK, SessionRecords
    <3>2. user' \in [Users -> Accounts]
      BY <2>13 DEF Revoke, TypeOK
    <3> QED BY <2>13, <3>1, <3>2, DoneType DEF Revoke
  <2>14. ASSUME NEW r \in requests, NEW n \in 0 .. MaxVersion, SaveSetting(r, n) PROVE TypeOK'
    BY <2>14 DEF SaveSetting, TypeOK
  <2>15. ASSUME UNCHANGED vars PROVE TypeOK'
    BY <2>15 DEF vars, TypeOK
  <2> QED
    BY <2>1, <2>2, <2>3, <2>4, <2>5, <2>6, <2>7, <2>8, <2>9, <2>10, <2>11, <2>12, <2>13,
       <2>14, <2>15 DEF Next
<1> QED BY <1>1, <1>2, PTL DEF Spec

-----------------------------------------------------------------------------
(* Sessions.                                                               *)

\* A session that revoking leaves alive was alive and is of another account.
LEMMA RevokedLive ==
  ASSUME TypeOK, NEW u, NEW s \in Sessions, Revoked({u})[s].state = "live"
  PROVE  Revoked({u})[s] = session[s] /\ session[s].state = "live" /\ session[s].of # u
  BY DEF Revoked, TypeOK

\* If the accounts whose sessions go on keep what the sessions rest on, then
\* the sessions stay current.
LEMMA StaysCurrent ==
  ASSUME TypeOK, LiveSessionsAreCurrent,
         \A s \in Sessions : session'[s].state = "live" =>
           /\ session[s].state = "live"
           /\ session'[s].of = session[s].of /\ session'[s].grounds = session[s].grounds
           /\ LET u == session[s].of
              IN  /\ user'[u].role = user[u].role /\ user'[u].status = user[u].status
                  /\ user'[u].expiry = user[u].expiry /\ user'[u].name = user[u].name
                  /\ user'[u].secret = user[u].secret
  PROVE  LiveSessionsAreCurrent'
  BY DEF LiveSessionsAreCurrent, GroundsOf, Active

\* A change of one account that ends its sessions leaves the others current.
LEMMA RevokedStaysCurrent ==
  ASSUME TypeOK, LiveSessionsAreCurrent, NEW u \in Users,
         session' = Revoked({u}), \A w \in Users \ {u} : user'[w] = user[w]
  PROVE  LiveSessionsAreCurrent'
<1>1. ASSUME NEW s \in Sessions, session'[s].state = "live"
      PROVE  session'[s] = session[s] /\ session[s].state = "live" /\ session[s].of \in Users \ {u}
  <2>1. session'[s] = Revoked({u})[s] /\ Revoked({u})[s].state = "live"
    BY <1>1
  <2>2. Revoked({u})[s] = session[s] /\ session[s].state = "live" /\ session[s].of # u
    BY <2>1, RevokedLive
  <2> QED BY <2>1, <2>2 DEF TypeOK
<1> QED BY <1>1, StaysCurrent

\* A session that has not ended rests on what its account is now: neither a
\* login that raced with a change nor a change of an account leaves one behind
\* that rests on an old role, name, password or expiry.
THEOREM SessionsAreCurrent == Spec => []LiveSessionsAreCurrent
<1>1. Init => LiveSessionsAreCurrent
  BY DEF Init, LiveSessionsAreCurrent
<1>2. TypeOK /\ LiveSessionsAreCurrent /\ [Next]_vars => LiveSessionsAreCurrent'
  <2> SUFFICES ASSUME TypeOK, LiveSessionsAreCurrent, [Next]_vars PROVE LiveSessionsAreCurrent'
    OBVIOUS
  <2>1. ASSUME UNCHANGED user, session' = session PROVE LiveSessionsAreCurrent'
    BY <2>1, StaysCurrent
  <2>2. ASSUME NEW u \in Users, NEW b \in BOOLEAN, Compare(u, b) PROVE LiveSessionsAreCurrent'
    BY <2>1, <2>2 DEF Compare
  <2>3. ASSUME NEW l \in logins, Login(l) PROVE LiveSessionsAreCurrent'
    <3>1. CASE ~StillTheSame(l)
      BY <2>1, <2>3, <3>1 DEF Login
    <3>2. CASE StillTheSame(l)
      <4>1. PICK s \in Sessions : session' = Issued(session, s, l.of, GroundsGiven(l))
        BY <2>3, <3>2 DEF Login
      <4>2. l.of \in Users /\ UNCHANGED user
        BY <2>3 DEF Login, TypeOK
      <4> DEFINE held == GroundsOf(l.of)
      <4>3. GroundsGiven(l) = held
        <5>1. held.secret = l.secret /\ held.name = l.name /\ held \in Grounds
          BY <3>2, <4>2, GroundsType DEF GroundsOf, StillTheSame
        <5>2. [held EXCEPT !.secret = held.secret, !.name = held.name] = held
          BY <5>1 DEF Grounds
        <5> QED BY <5>1, <5>2 DEF GroundsGiven
      <4>4. session'[s].of = l.of /\ session'[s].grounds = GroundsOf(l.of)
        BY <4>1, <4>3 DEF Issued, TypeOK
      <4>5. \A t \in Sessions \ {s} : session'[t] = session[t]
        BY <4>1 DEF Issued, TypeOK
      <4> QED BY <3>2, <4>2, <4>4, <4>5
              DEF LiveSessionsAreCurrent, GroundsOf, Active, StillTheSame
    <3> QED BY <3>1, <3>2
  <2>4. ASSUME NEW s \in Sessions, Lapse(s) PROVE LiveSessionsAreCurrent'
    <3>1. UNCHANGED user /\ session' = [session EXCEPT ![s].state = "lapsed"]
      BY <2>4 DEF Lapse
    <3> QED BY <3>1, StaysCurrent DEF TypeOK
  <2>5. ASSUME NEW u \in Users, Expire(u) PROVE LiveSessionsAreCurrent'
    <3>1. ASSUME NEW s \in Sessions, session'[s].state = "live"
          PROVE  session'[s] = session[s] /\ session[s].of # u
      <4>1. session'[s] = IF /\ session[s].of = u /\ session[s].state = "live"
                             /\ session[s].grounds.expiry = "future"
                            THEN [session[s] EXCEPT !.state = "lapsed"] ELSE session[s]
        BY <2>5 DEF Expire
      <4>2. session'[s] = session[s] /\ session[s].state = "live"
        BY <3>1, <4>1 DEF TypeOK
      <4>3. session[s].of = u => session[s].grounds.expiry = "future"
        <5>1. user[u].expiry = "future"
          BY <2>5 DEF Expire
        <5>2. session[s].grounds = GroundsOf(session[s].of)
          BY <4>2 DEF LiveSessionsAreCurrent
        <5> QED BY <5>1, <5>2 DEF GroundsOf
      <4>4. session[s].of # u
        BY <3>1, <4>1, <4>2, <4>3 DEF TypeOK
      <4> QED BY <4>2, <4>4
    <3>2. \A w \in Users \ {u} : user'[w] = user[w]
      BY <2>5 DEF Expire, TypeOK
    <3> QED BY <3>1, <3>2, StaysCurrent DEF TypeOK
  <2>6. ASSUME NEW s \in Sessions, NEW b \in BOOLEAN, Admit(s, b) PROVE LiveSessionsAreCurrent'
    BY <2>1, <2>6 DEF Admit
  <2>7. ASSUME NEW r \in requests, Refuse(r) PROVE LiveSessionsAreCurrent'
    BY <2>1, <2>7 DEF Refuse
  <2>8. ASSUME NEW r \in requests, NEW b \in BOOLEAN, Logout(r, b) PROVE LiveSessionsAreCurrent'
    <3>1. \A s \in Sessions : session'[s].state = "live" => session'[s] = session[s]
      BY <2>8, RevokedLive DEF Logout
    <3>2. UNCHANGED user
      BY <2>8 DEF Logout
    <3> QED BY <3>1, <3>2, StaysCurrent
  <2>9. ASSUME NEW r \in requests, ChangePassword(r) PROVE LiveSessionsAreCurrent'
    <3>0. PICK u \in Users : u = Actor(r)
      BY DEF Actor, TypeOK
    <3> DEFINE changed == [user[u] EXCEPT !.secret = @ + 1, !.must = FALSE]
               g == [GroundsOf(u) EXCEPT !.secret = changed.secret]
    <3>1. u \in Users /\ user[u] \in Accounts /\ Active(u)
      BY <2>9, <3>0 DEF ChangePassword, Valid, Actor, TypeOK
    <3>2. user' = [user EXCEPT ![u] = changed]
      BY <2>9, <3>0 DEF ChangePassword
    <3>3. PICK s \in Sessions : session' = Issued(Revoked({u}), s, u, g)
      BY <2>9, <3>0 DEF ChangePassword
    <3>4. session'[s].of = u /\ session'[s].grounds = g
      BY <3>3 DEF Issued, Revoked
    <3>5. \A t \in Sessions \ {s} : session'[t] = Revoked({u})[t]
      BY <3>3 DEF Issued, Revoked
    <3>6. \A t \in Sessions \ {s} : session'[t].state = "live" =>
            session'[t] = session[t] /\ session[t].state = "live" /\ session[t].of # u
      <4> SUFFICES ASSUME NEW t \in Sessions \ {s}, Revoked({u})[t].state = "live"
                   PROVE  /\ Revoked({u})[t] = session[t]
                          /\ session[t].state = "live" /\ session[t].of # u
        BY <3>5
      <4> QED BY RevokedLive
    <3>7. user'[u] = changed /\ \A w \in Users \ {u} : user'[w] = user[w]
      BY <3>1, <3>2 DEF TypeOK
    <3> DEFINE old == user[u]
    <3>8. g = GroundsOf(u)' /\ Active(u)'
      <4>1. old \in Accounts /\ user'[u] = [old EXCEPT !.secret = old.secret + 1, !.must = FALSE]
        BY <3>1, <3>7
      <4>2. /\ user'[u].role = old.role /\ user'[u].name = old.name
            /\ user'[u].expiry = old.expiry /\ user'[u].status = old.status
            /\ user'[u].secret = changed.secret
        BY <4>1 DEF Accounts
      <4> QED BY <3>1, <4>2 DEF GroundsOf, Active
    <3>9. \A t \in Sessions \ {s} : session'[t].state = "live" =>
            session'[t].grounds = GroundsOf(session[t].of)' /\ Active(session[t].of)'
      BY <3>6, <3>7 DEF LiveSessionsAreCurrent, GroundsOf, Active, TypeOK
    <3> QED BY <3>4, <3>8, <3>9 DEF LiveSessionsAreCurrent, GroundsOf, Active
  <2>10. ASSUME NEW r \in requests, NEW u \in Users, NEW next \in NewAccounts, Create(r, u, next)
         PROVE LiveSessionsAreCurrent'
    <3>1. \A w \in Users \ {u} : user'[w] = user[w]
      BY <2>10 DEF Create, TypeOK
    <3>2. session' = session /\ ~Active(u)
      BY <2>10 DEF Create, Active
    <3>3. \A s \in Sessions : session[s].state = "live" => session[s].of # u
      BY <3>2 DEF LiveSessionsAreCurrent
    <3> QED BY <3>1, <3>2, <3>3, StaysCurrent DEF TypeOK
  <2>11. ASSUME NEW r \in requests, NEW u \in Users, NEW c \in Changes, Update(r, u, c)
         PROVE LiveSessionsAreCurrent'
    <3>1. user' = [user EXCEPT ![u] = Changed(user[u], c)]
      BY <2>11 DEF Update
    <3>2. \A w \in Users \ {u} : user'[w] = user[w]
      BY <3>1 DEF TypeOK
    <3>3. CASE EndsSessions(user[u], c)
      <4>1. session' = Revoked({u})
        BY <2>11, <3>3 DEF Update
      <4> QED BY <3>2, <4>1, RevokedStaysCurrent
    <3>4. CASE ~EndsSessions(user[u], c)
      <4>1. session' = session
        BY <2>11, <3>4 DEF Update
      <4>2. user'[u] = Changed(user[u], c) /\ user[u] \in Accounts
        BY <3>1 DEF TypeOK
      <4>3. /\ user'[u].role = user[u].role /\ user'[u].status = user[u].status
            /\ user'[u].expiry = user[u].expiry /\ user'[u].name = user[u].name
            /\ user'[u].secret = user[u].secret
        BY <3>4, <4>2 DEF EndsSessions, Changed, Field, Accounts
      <4> QED BY <3>2, <4>1, <4>3, StaysCurrent DEF TypeOK
    <3> QED BY <3>3, <3>4
  <2>12. ASSUME NEW r \in requests, NEW u \in Users, NEW b \in BOOLEAN, SetPassword(r, u, b)
         PROVE LiveSessionsAreCurrent'
    <3>1. \A w \in Users \ {u} : user'[w] = user[w]
      BY <2>12 DEF SetPassword, TypeOK
    <3>2. session' = Revoked({u})
      BY <2>12 DEF SetPassword
    <3> QED BY <3>1, <3>2, RevokedStaysCurrent
  <2>13. ASSUME NEW r \in requests, NEW u \in Users, NEW b \in BOOLEAN, AdjustQuota(r, u, b)
         PROVE LiveSessionsAreCurrent'
    <3>1. session' = session /\ user' = [user EXCEPT ![u].finite = b]
      BY <2>13 DEF AdjustQuota
    <3> QED BY <3>1, StaysCurrent DEF TypeOK, Accounts
  <2>14. ASSUME NEW r \in requests, NEW u \in Users, NEW S, Revoke(r, u, S)
         PROVE LiveSessionsAreCurrent'
    <3>1. UNCHANGED user
      BY <2>14 DEF Revoke
    <3>2. \A s \in Sessions : session'[s].state = "live" => session'[s] = session[s]
      BY <2>14, RevokedLive DEF Revoke
    <3> QED BY <3>1, <3>2, StaysCurrent
  <2>15. ASSUME NEW r \in requests, NEW n \in 0 .. MaxVersion, SaveSetting(r, n)
         PROVE LiveSessionsAreCurrent'
    BY <2>1, <2>15 DEF SaveSetting
  <2>16. ASSUME UNCHANGED vars PROVE LiveSessionsAreCurrent'
    BY <2>1, <2>16 DEF vars
  <2> QED
    BY <2>2, <2>3, <2>4, <2>5, <2>6, <2>7, <2>8, <2>9, <2>10, <2>11, <2>12, <2>13, <2>14,
       <2>15, <2>16 DEF Next
<1> QED BY <1>1, <1>2, TypeCorrect, PTL DEF Spec

-----------------------------------------------------------------------------
(* Administrators.                                                         *)

\* Whether an account is an administrator who can act hangs on three fields.
LEMMA SameFieldsSameAdmin ==
  ASSUME NEW u, user'[u].role = user[u].role, user'[u].status = user[u].status,
         user'[u].expiry = user[u].expiry
  PROVE  ActiveAdmin(u)' <=> ActiveAdmin(u)
  BY DEF ActiveAdmin, Active

SomeAdmin == \E u \in Users : ActiveAdmin(u)

\* An update that leaves an administrator out leaves another one in.
LEMMA UpdateKeeps ==
  ASSUME TypeOK, NEW r, NEW u \in Users, NEW c \in Changes, Update(r, u, c), SomeAdmin
  PROVE  SomeAdmin'
<1>1. user' = [user EXCEPT ![u] = Changed(user[u], c)] /\ KeepsAdministrator(u, Changed(user[u], c))
  BY DEF Update
<1>2. user'[u] = Changed(user[u], c) /\ \A w \in Users \ {u} : user'[w] = user[w]
  BY <1>1 DEF TypeOK
<1>3. \A w \in Users \ {u} : ActiveAdmin(w) => ActiveAdmin(w)'
  BY <1>2 DEF ActiveAdmin, Active
<1>4. PICK w \in Users : ActiveAdmin(w)
  BY DEF SomeAdmin
<1>5. CASE w # u
  BY <1>3, <1>4, <1>5 DEF SomeAdmin
<1>6. CASE w = u /\ OthersRemain(u)
  BY <1>3, <1>6 DEF SomeAdmin, OthersRemain
<1>7. CASE w = u /\ ~OthersRemain(u)
  <2>1. /\ user'[u].role = "admin" /\ user'[u].status = "active"
        /\ user'[u].expiry = user[u].expiry \/ user'[u].expiry = "none"
    BY <1>1, <1>2, <1>4, <1>7 DEF KeepsAdministrator
  <2>2. ActiveAdmin(u)'
    BY <1>4, <1>7, <2>1 DEF ActiveAdmin, Active
  <2> QED BY <2>2 DEF SomeAdmin
<1> QED BY <1>5, <1>6, <1>7

\* No request, and no two that cross, take the last active administrator away;
\* only the day on which that account expires does.
THEOREM AdministratorsRemain == Spec => AdministratorRemains
<1>1. TypeOK /\ [Next]_vars => [SomeAdmin => SomeAdmin' \/ \E u \in Users : Expire(u)]_vars
  <2> SUFFICES ASSUME TypeOK, Next, SomeAdmin, ~\E u \in Users : Expire(u) PROVE SomeAdmin'
    BY DEF vars
  <2>1. ASSUME UNCHANGED user PROVE SomeAdmin'
    BY <2>1 DEF SomeAdmin, ActiveAdmin, Active
  <2>2. ASSUME \A u \in Users : ActiveAdmin(u) =>
                 /\ user'[u].role = user[u].role /\ user'[u].status = user[u].status
                 /\ user'[u].expiry = user[u].expiry
        PROVE  SomeAdmin'
    BY <2>2, SameFieldsSameAdmin DEF SomeAdmin
  <2>3. ASSUME NEW r \in requests, ChangePassword(r) PROVE SomeAdmin'
    BY <2>2, <2>3 DEF ChangePassword, Actor, TypeOK, Accounts
  <2>4. ASSUME NEW r \in requests, NEW u \in Users, NEW next \in NewAccounts, Create(r, u, next)
        PROVE SomeAdmin'
    BY <2>2, <2>4 DEF Create, TypeOK, ActiveAdmin, Active
  <2>5. ASSUME NEW r \in requests, NEW u \in Users, NEW c \in Changes, Update(r, u, c)
        PROVE SomeAdmin'
    BY <2>5, UpdateKeeps
  <2>6. ASSUME NEW r \in requests, NEW u \in Users, NEW b \in BOOLEAN, SetPassword(r, u, b)
        PROVE SomeAdmin'
    BY <2>2, <2>6 DEF SetPassword, TypeOK, Accounts
  <2>7. ASSUME NEW r \in requests, NEW u \in Users, NEW b \in BOOLEAN, AdjustQuota(r, u, b)
        PROVE SomeAdmin'
    BY <2>2, <2>7 DEF AdjustQuota, TypeOK, Accounts
  <2> QED
    BY <2>1, <2>3, <2>4, <2>5, <2>6, <2>7
    DEF Next, Compare, Login, Lapse, Admit, Refuse, Logout, Revoke, SaveSetting
<1>2. TypeOK /\ [Next]_vars =>
        [(\E u \in Users : ActiveAdmin(u))
           => (\E u \in Users : ActiveAdmin(u)') \/ (\E u \in Users : Expire(u))]_vars
  BY <1>1 DEF SomeAdmin
<1> QED BY <1>2, TypeCorrect, PTL DEF Spec, AdministratorRemains

\* A request that changes the account of another, or the setting, is made by
\* someone who is an active administrator when it commits.
THEOREM AdministratorsDecide == Spec => OnlyAdministratorsDecide
<1> DEFINE Decides(r) == (\/ setting' # setting
                          \/ \E u \in Users \ {Actor(r)} : user'[u] # user[u])
                           => ActiveAdmin(Actor(r))
<1>1. TypeOK /\ [Next]_vars => [\A r \in requests \ requests' : Decides(r)]_vars
  <2> SUFFICES ASSUME TypeOK, Next, NEW r \in requests \ requests' PROVE Decides(r)
    BY DEF vars
  <2>1. ASSUME UNCHANGED <<user, setting>> PROVE Decides(r)
    BY <2>1
  <2>2. ASSUME NEW q \in requests, ChangePassword(q) PROVE Decides(r)
    <3>1. r = q /\ setting' = setting
      BY <2>2 DEF ChangePassword
    <3>2. \A u \in Users \ {Actor(q)} : user'[u] = user[u]
      BY <2>2 DEF ChangePassword, TypeOK
    <3> QED BY <3>1, <3>2
  <2>3. ASSUME NEW q \in requests, Commits(q), Done(q) PROVE Decides(r)
    BY <2>3 DEF Commits, Done
  <2>4. ASSUME NEW q \in requests, NEW n, SaveSetting(q, n) PROVE Decides(r)
    BY <2>4 DEF SaveSetting
  <2> QED
    BY <2>1, <2>2, <2>3, <2>4
    DEF Next, Compare, Login, Lapse, Expire, Admit, Refuse, Logout, Create, Update, SetPassword,
        AdjustQuota, Revoke
<1> QED BY <1>1, TypeCorrect, PTL DEF Spec, OnlyAdministratorsDecide
=============================================================================
