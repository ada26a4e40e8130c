--------------------------- MODULE AccountsProofs ---------------------------
(***************************************************************************)
(* What the scope operators of TenantScope guarantee for every tenancy     *)
(* tree, and what Accounts keeps for any number of accounts, handlers and  *)
(* sessions.                                                               *)
(***************************************************************************)
EXTENDS Accounts, TLAPS

(***************************************************************************)
(* Scopes.                                                                 *)
(***************************************************************************)

(* A consistent scope with a branch reaches the branch's department.       *)
LEMMA BranchesReach ==
    ASSUME NEW s, s.branches # {}, TenantConsistent(s)
    PROVE  Reach(s) # {}
<1>1. PICK b \in s.branches : TRUE
  OBVIOUS
<1>2. Parent[b] \in s.depts
  BY <1>1 DEF TenantConsistent
<1> QED BY <1>2 DEF Reach

(* Below a narrowed scope that covers another, both reach is narrower and  *)
(* the branches are.                                                       *)
LEMMA CoveredReach ==
    ASSUME NEW c, NEW t, ScopeCovers(c, t), Narrowed(c.scope)
    PROVE  /\ Narrowed(t)
           /\ Reach(c.scope) # {} => Reach(t) # {} /\ Reach(t) \subseteq Reach(c.scope)
           /\ c.scope.branches # {} => t.branches # {} /\ t.branches \subseteq c.scope.branches
<1>1. Narrowed(t)
  BY DEF ScopeCovers
<1>2. t.branches # {} => Reach(t) # {}
  BY BranchesReach DEF ScopeCovers
<1>3. Reach(t) # {}
  BY <1>1, <1>2 DEF Narrowed
<1> QED BY <1>1, <1>3 DEF ScopeCovers

(* A scope shows every row that a scope it covers shows, whatever roles    *)
(* the two are held with: scope_covers, which admits logins and grants,    *)
(* and tenant_filter, which narrows queries, agree.                        *)
THEOREM CoversNarrows ==
    ASSUME NEW c, NEW t, NEW roles, NEW row,
           ScopeCovers(c, t), Sees([roles |-> roles, scope |-> t], row)
    PROVE  Sees(c, row)
<1>1. CASE ~Narrowed(c.scope)
  BY <1>1 DEF ScopeCovers, Sees
<1>2. CASE Narrowed(c.scope)
  <2>1. Narrowed(t)
    BY <1>2, CoveredReach
  <2>2. /\ Reach(t) # {} => row.dept \in Reach(t)
        /\ t.branches # {} => row.branch \in t.branches
    BY <2>1 DEF Sees
  <2> QED BY <1>2, <2>2, CoveredReach DEF Sees
<1> QED BY <1>1, <1>2

(* Delegation composes: what a delegate's scope covers, the delegator's    *)
(* covers too, through however many hands.                                 *)
THEOREM CoversTransitive ==
    ASSUME NEW c, NEW t, NEW roles, NEW u,
           ScopeCovers(c, t), ScopeCovers([roles |-> roles, scope |-> t], u)
    PROVE  ScopeCovers(c, u)
<1> DEFINE d == [roles |-> roles, scope |-> t]
<1>1. u.branches # {} => TenantConsistent(u)
  BY DEF ScopeCovers
<1>2. CASE ~Narrowed(c.scope)
  BY <1>1, <1>2 DEF ScopeCovers
<1>3. CASE Narrowed(c.scope)
  <2>1. /\ Narrowed(t)
        /\ Reach(c.scope) # {} => Reach(t) # {} /\ Reach(t) \subseteq Reach(c.scope)
        /\ c.scope.branches # {} => t.branches # {} /\ t.branches \subseteq c.scope.branches
    BY <1>3, CoveredReach
  <2>2. d.scope = t
    OBVIOUS
  <2>3. ScopeCovers(d, u) /\ Narrowed(d.scope)
    BY <2>1, <2>2
  <2>4. /\ Narrowed(u)
        /\ Reach(d.scope) # {} => Reach(u) # {} /\ Reach(u) \subseteq Reach(d.scope)
        /\ d.scope.branches # {} => u.branches # {} /\ u.branches \subseteq d.scope.branches
    BY <2>3, CoveredReach
  <2> HIDE DEF d
  <2>5. /\ Reach(t) # {} => Reach(u) \subseteq Reach(t)
        /\ t.branches # {} => u.branches # {} /\ u.branches \subseteq t.branches
    BY <2>2, <2>4
  <2> QED BY <1>1, <1>3, <2>1, <2>4, <2>5 DEF ScopeCovers
<1> QED BY <1>2, <1>3

(* An AI report's scope shows exactly the rows its caller is shown: the    *)
(* stand-in roles of get_filter ("100% parity", ai/scope.py:27) lose and   *)
(* add nothing, for any caller with a role of the catalogue.               *)
THEOREM ReportParity ==
    ASSUME NEW c \in Claims, c.roles # {}, NEW row
    PROVE  Sees(ReportClaims(c), row) <=> Sees(c, row)
<1> DEFINE r == ReportClaims(c)
<1>1. /\ r.scope = [c.scope EXCEPT !.depts = Reach(c.scope)]
      /\ r.roles = IF IsNationwide(c) /\ Reach(c.scope) = {} /\ c.scope.branches = {}
                   THEN {"admin"} ELSE {"soc"}
  BY DEF ReportClaims, ReportScope
<1>2. c.scope \in Scope /\ c.roles \subseteq Role
  BY DEF Claims
<1>3. /\ r.scope.depts = Reach(c.scope)
      /\ r.scope.branches = c.scope.branches
      /\ r.scope.provs = c.scope.provs
  BY <1>1, <1>2 DEF Scope
<1>4. Reach(r.scope) = Reach(c.scope)
  BY <1>3 DEF Reach
<1>5. Narrowed(r.scope) <=> Narrowed(c.scope)
  BY <1>3, <1>4 DEF Narrowed
<1> HIDE DEF r
<1>6. CASE Narrowed(c.scope)
  BY <1>3, <1>4, <1>5, <1>6 DEF Sees, r
<1>7. CASE ~Narrowed(c.scope)
  <2>1. r.roles = IF IsNationwide(c) THEN {"admin"} ELSE {"soc"}
    BY <1>1, <1>7 DEF Narrowed
  <2>2. Sees(r, row) <=> IsNationwide(c)
    <3>1. CASE IsNationwide(c)
      BY <1>5, <1>7, <2>1, <3>1 DEF Sees, IsNationwide, NationwideRoles
    <3>2. CASE ~IsNationwide(c)
      BY <1>5, <1>7, <2>1, <3>2
      DEF Sees, IsNationwide, IsDepartmentScoped, NationwideRoles, DepartmentRoles
    <3> QED BY <3>1, <3>2
  <2>3. IsNationwide(c) \/ IsDepartmentScoped(c)
    BY <1>2 DEF IsNationwide, IsDepartmentScoped, Role
  <2>4. Sees(c, row) <=> IsNationwide(c)
    BY <1>7, <2>3 DEF Sees
  <2> QED BY <2>2, <2>4 DEF r
<1> QED BY <1>6, <1>7

(* A department and branch that check_tenancy_access lets a narrowed       *)
(* caller ask for are the caller's: the filter it then runs under shows    *)
(* the rows of that branch.                                                *)
THEOREM AccessIsSeen ==
    ASSUME NEW c, NEW dept, NEW branch, branch # None,
           Narrowed(c.scope), CheckTenancyAccess(c, dept, branch)
    PROVE  Sees(c, [dept |-> Parent[branch], branch |-> branch])
BY DEF CheckTenancyAccess, Sees

(* Only an operator hands out the tiers of the superadmin and above.       *)
THEOREM OnlyOperatorsMakeSuperusers ==
    ASSUME NEW c, c.roles \subseteq Role, NEW roles, NEW s,
           CanManage(c, roles, s), Super(roles)
    PROVE  "operator" \in c.roles
<1>1. PICK r \in roles : AdminTier(r) >= 4
  BY DEF Super
<1>2. PICK mine \in c.roles : r \in Grantable(mine)
  BY <1>1 DEF CanManage
<1>3. r \in {"admin", "operator"}
  BY <1>1 DEF AdminTier
<1>4. mine \in Role
  BY <1>2
<1>5. r \notin Operational
  BY <1>3 DEF Operational, DepartmentRoles, ProvincialRoles
<1> QED BY <1>2, <1>3, <1>5 DEF Grantable

(***************************************************************************)
(* Accounts and sessions.                                                  *)
(***************************************************************************)

(* The part of the type invariant that does not rest on what an HR feed    *)
(* computes; Typing, below, has all of it.                                 *)
Types ==
    /\ users \in [User -> Account \cup {None}]
    /\ retired \subseteq User
    /\ sessions \subseteq Session
    /\ down \in [User -> 0..TTL]
    /\ pending \in [Handler -> Pending \cup {None}]

LEMMA RequestableScopes == Requestable \subseteq Scope
BY TreeAssumption DEF Requestable, Scope

LEMMA TargetScopes == Targets \subseteq Scope
BY RequestableScopes, AccountsAssumption DEF Targets, Whole, Scope

LEMMA StoredClaims ==
    ASSUME NEW a \in Account
    PROVE  Stored(a) \in Claims
BY DEF Stored, Account, Claims

LEMMA FreshAccounts ==
    ASSUME NEW email \in Email, NEW grant, grant.roles \subseteq Role, grant.scope \in Scope,
           NEW emp \in Employee \cup {None}
    PROVE  /\ FreshAccount(email, grant, emp) \in Account
           /\ FreshAccount(email, grant, emp).email = email
           /\ FreshAccount(email, grant, emp).roles = grant.roles
           /\ FreshAccount(email, grant, emp).scope = grant.scope
           /\ FreshAccount(email, grant, emp).active
BY DEF FreshAccount, Account

LEMMA MergedAccounts ==
    ASSUME NEW old \in Account, NEW new, new.roles \subseteq Role, new.scope \in Scope,
           new.active \in BOOLEAN, new.person \in Employee \cup {None}, NEW cols
    PROVE  /\ Merged(old, new, cols) \in Account
           /\ Merged(old, new, cols).email = old.email
           /\ "roles" \in cols => Merged(old, new, cols).roles = new.roles
           /\ "roles" \notin cols => Merged(old, new, cols).roles = old.roles
BY DEF Merged, Account

(* What the start-up does to the accounts.                                 *)
FoundingRoles(a) ==
    \/ a.email = Superadmin /\ a.roles = {"admin"}
    \/ a.email \in DOMAIN Demo /\ a.roles = Demo[a.email].roles

LEMMA AdminGrants == AdminGrant.roles = {"admin"} /\ AdminGrant.scope \in Scope /\ "admin" \in Role
BY DEF AdminGrant, Whole, Scope, Role, NationwideRoles

LEMMA InsertedAccounts ==
    ASSUME NEW us \in [User -> Account \cup {None}],
           NEW f, DOMAIN f \subseteq DOMAIN Demo \cup {Superadmin}
    PROVE  /\ Inserted(us, f) \in [User -> Account \cup {None}]
           /\ \A u \in User :
                 \/ Inserted(us, f)[u] = us[u]
                 \/ /\ \E e \in DOMAIN f : f[e] = u
                    /\ Inserted(us, f)[u] \in Account
                    /\ Inserted(us, f)[u].active
                    /\ FoundingRoles(Inserted(us, f)[u])
<1> DEFINE g(e) == IF e = Superadmin THEN AdminGrant ELSE Demo[e]
           new(e) == FreshAccount(e, g(e), None)
<1>1. ASSUME NEW e \in DOMAIN f
      PROVE  new(e) \in Account /\ new(e).active /\ FoundingRoles(new(e))
  <2>1. e \in Email
    BY DEF Email
  <2>2. g(e).roles \subseteq Role /\ g(e).scope \in Scope
    BY AdminGrants, AccountsAssumption
  <2>3. /\ new(e) \in Account /\ new(e).email = e /\ new(e).roles = g(e).roles
        /\ new(e).active
    BY <2>1, <2>2, FreshAccounts
  <2> HIDE DEF new
  <2> QED BY <2>3, AdminGrants DEF FoundingRoles
<1>2. ASSUME NEW u \in User
      PROVE  \/ Inserted(us, f)[u] = us[u]
             \/ /\ \E e \in DOMAIN f : f[e] = u
                /\ Inserted(us, f)[u] \in Account
                /\ Inserted(us, f)[u].active
                /\ FoundingRoles(Inserted(us, f)[u])
  <2>1. CASE \E e \in DOMAIN f : f[e] = u
    <3> DEFINE e == CHOOSE e \in DOMAIN f : f[e] = u
    <3>1. e \in DOMAIN f
      BY <2>1
    <3>2. Inserted(us, f)[u] = new(e)
      BY <2>1 DEF Inserted
    <3> HIDE DEF e, new
    <3> QED BY <1>1, <2>1, <3>1, <3>2
  <2>2. CASE ~\E e \in DOMAIN f : f[e] = u
    BY <2>2 DEF Inserted
  <2> QED BY <2>1, <2>2
<1>3. Inserted(us, f) = [u \in User |-> Inserted(us, f)[u]]
  BY DEF Inserted
<1>4. \A u \in User : Inserted(us, f)[u] \in Account \cup {None}
  BY <1>2
<1> QED BY <1>2, <1>3, <1>4

LEMMA SeededAccounts ==
    ASSUME NEW us \in [User -> Account \cup {None}]
    PROVE  /\ Seeded(us) \in [User -> Account \cup {None}]
           /\ \A u \in User :
                 \/ Seeded(us)[u] = us[u]
                 \/ /\ us[u] # None /\ Seeded(us)[u] \in Account
                    /\ Seeded(us)[u].email = us[u].email
                    /\ Seeded(us)[u].active
                    /\ FoundingRoles(Seeded(us)[u])
<1>1. ASSUME NEW u \in User
      PROVE  \/ Seeded(us)[u] = us[u]
             \/ /\ us[u] # None /\ Seeded(us)[u] \in Account
                /\ Seeded(us)[u].email = us[u].email
                /\ Seeded(us)[u].active
                /\ FoundingRoles(Seeded(us)[u])
  <2>1. CASE us[u] # None /\ us[u].email \in DOMAIN Demo
    <3> DEFINE d == Demo[us[u].email]
    <3>1. us[u] \in Account
      BY <2>1
    <3>2. Seeded(us)[u] = [us[u] EXCEPT !.roles = d.roles, !.scope = d.scope, !.active = TRUE]
      BY <2>1 DEF Seeded
    <3>3. d.roles \subseteq Role /\ d.scope \in Scope
      BY <2>1, AccountsAssumption
    <3> HIDE DEF d
    <3>4. /\ Seeded(us)[u] \in Account
          /\ Seeded(us)[u].email = us[u].email
          /\ Seeded(us)[u].active
          /\ Seeded(us)[u].roles = d.roles
      BY <3>1, <3>2, <3>3 DEF Account
    <3> QED BY <2>1, <3>4 DEF FoundingRoles, d
  <2>2. CASE ~(us[u] # None /\ us[u].email \in DOMAIN Demo)
    BY <2>2 DEF Seeded
  <2> QED BY <2>1, <2>2
<1>2. Seeded(us) = [u \in User |-> Seeded(us)[u]]
  BY DEF Seeded
<1>3. \A u \in User : Seeded(us)[u] \in Account \cup {None}
  BY <1>1
<1> QED BY <1>1, <1>2, <1>3

LEMMA TypesInit == Init => Types
<1> SUFFICES ASSUME Init PROVE Types
  OBVIOUS
<1>1. [u \in User |-> None] \in [User -> Account \cup {None}]
  OBVIOUS
<1>2. DOMAIN FirstRow = DOMAIN Demo \cup {Superadmin}
  BY AccountsAssumption DEF Injection
<1>3. users \in [User -> Account \cup {None}]
  BY <1>1, <1>2, InsertedAccounts DEF Init
<1>4. 0 \in 0..TTL
  BY AccountsAssumption
<1> QED BY <1>3, <1>4 DEF Init, Types

(* What one step may do to the account in row u.                           *)
Founded(u) ==
    /\ users'[u] \in Account /\ users'[u].active /\ FoundingRoles(users'[u])
    /\ u \in Unused \/ (users[u] # None /\ users'[u].email = users[u].email)

Created(u) ==
    /\ u \in Unused
    /\ \E h \in Handler : /\ pending[h] # None /\ pending[h].op = "create"
                          /\ users'[u] = pending[h].account

Updated(u) ==
    /\ users[u] # None
    /\ \E h \in Handler : /\ pending[h] # None /\ pending[h].op = "update"
                          /\ users'[u] = Merged(users[u], pending[h].account, pending[h].writes)

Deleted(u) == users'[u] = None /\ u \in retired'

Closed(u) == users[u] # None /\ users'[u] = [users[u] EXCEPT !.active = FALSE]

(* What a step that changes the account in row u does to down[u].          *)
Restarted(u) == down'[u] = IF users'[u] # None /\ users'[u].active THEN 0 ELSE down[u]

UserStep(u) ==
    \/ users'[u] = users[u] /\ (down'[u] = down[u] \/ Restarted(u))
    \/ (Founded(u) \/ Created(u) \/ Updated(u)) /\ Restarted(u)
    \/ (Deleted(u) \/ Closed(u)) /\ down'[u] = down[u]

LEMMA Downs ==
    ASSUME NEW u \in User, Types, down' = DownAs(users')
    PROVE  Restarted(u)
BY DEF Restarted, DownAs, Types

LEMMA ClosedAccounts ==
    ASSUME NEW f, FeedCommit(f), NEW u \in User
    PROVE  users'[u] = users[u] \/ Closed(u)
BY DEF FeedCommit, Close, Closed

(* A feed in the making touches nothing else before its commit.            *)
LEMMA FeedsWait ==
    ASSUME NEW f, Feeding(f)
    PROVE  /\ UNCHANGED <<retired, sessions, down, pending>>
           /\ FeedCommit(f) \/ UNCHANGED <<users, persons, ids>>
BY DEF Feeding, FeedStart, FeedSkips, FeedUpserts, FeedCommit, FeedFails

LEMMA PendingAccounts ==
    ASSUME Types, NEW h \in Handler, pending[h] # None
    PROVE  /\ pending[h] \in Pending
           /\ pending[h].op \in {"create", "update", "delete"}
           /\ pending[h].op = "create" => /\ pending[h].account \in Account
                                          /\ pending[h].by \in Claims
           /\ pending[h].op = "update" => pending[h].account \in Account /\ pending[h].user \in User
           /\ pending[h].op = "delete" => pending[h].user \in User
BY DEF Types, Pending

LEMMA UserSteps ==
    ASSUME Types, Next
    PROVE  /\ \A u \in User : UserStep(u) \/ Tick
           /\ Tick => users' = users
           /\ retired \subseteq retired' /\ retired' \subseteq User
           /\ \A u \in retired' : u \in retired \/ Deleted(u)
<1> DEFINE Goal == /\ \A u \in User : UserStep(u) \/ Tick
                   /\ Tick => users' = users
                   /\ retired \subseteq retired' /\ retired' \subseteq User
                   /\ \A u \in retired' : u \in retired \/ Deleted(u)
<1> SUFFICES Goal
  OBVIOUS
<1> USE DEF Types
<1>1. ASSUME UNCHANGED <<users, retired, down>> PROVE Goal
  BY <1>1 DEF UserStep, Tick
<1>2. CASE Tick
  <2>1. UNCHANGED <<users, retired>>
    BY <1>2 DEF Tick
  <2> QED BY <1>2, <2>1
<1>3. ASSUME NEW u \in User, NEW t, Login(u, t) \/ DemoLogin(u, t) PROVE Goal
  <2>1. UNCHANGED <<users, retired, down>>
    BY <1>3 DEF Login, DemoLogin, Issue
  <2> QED BY <1>1, <2>1
<1>4. ASSUME NEW s, NEW t, SwitchTenant(s, t) PROVE Goal
  <2>1. UNCHANGED <<users, retired, down>>
    BY <1>4 DEF SwitchTenant, Issue
  <2> QED BY <1>1, <2>1
<1>5. ASSUME NEW h, NEW s, NEW e, NEW g, CreateRead(h, s, e, g) PROVE Goal
  <2>1. UNCHANGED <<users, retired, down>>
    BY <1>5 DEF CreateRead, Take
  <2> QED BY <1>1, <2>1
<1>6. ASSUME NEW h, NEW s, NEW u, NEW cols, NEW new, UpdateRead(h, s, u, cols, new) PROVE Goal
  <2>1. UNCHANGED <<users, retired, down>>
    BY <1>6 DEF UpdateRead, Take
  <2> QED BY <1>1, <2>1
<1>7. ASSUME NEW h, NEW s, NEW u, DeleteRead(h, s, u) PROVE Goal
  <2>1. UNCHANGED <<users, retired, down>>
    BY <1>7 DEF DeleteRead, Take
  <2> QED BY <1>1, <2>1
<1>8. ASSUME NEW h \in Handler, CreateCommit(h) PROVE Goal
  <2>1. retired' = retired /\ down' = DownAs(users')
    BY <1>8 DEF CreateCommit
  <2>2. ASSUME NEW v \in User PROVE users'[v] = users[v] \/ Created(v)
    <3>1. \/ users' = users
          \/ \E u \in Unused : users' = [users EXCEPT ![u] = pending[h].account]
      BY <1>8 DEF CreateCommit
    <3>2. pending[h] # None /\ pending[h].op = "create"
      BY <1>8 DEF CreateCommit
    <3>3. CASE users' = users
      BY <3>3
    <3>4. ASSUME NEW u \in Unused, users' = [users EXCEPT ![u] = pending[h].account]
          PROVE  users'[v] = users[v] \/ Created(v)
      BY <3>2, <3>4 DEF Created, Unused
    <3> QED BY <3>1, <3>3, <3>4
  <2>3. ASSUME NEW v \in User PROVE UserStep(v)
    BY <2>1, <2>2, Downs DEF UserStep
  <2>4. ~Tick \/ users' = users
    BY DEF Tick
  <2> QED BY <2>1, <2>3, <2>4
<1>9. ASSUME NEW h \in Handler, UpdateCommit(h) PROVE Goal
  <2> DEFINE r == pending[h]
  <2>1. retired' = retired /\ down' = DownAs(users')
    BY <1>9 DEF UpdateCommit
  <2>2. r # None /\ r.op = "update"
    BY <1>9 DEF UpdateCommit
  <2>3. r.user \in User
    BY <2>2, PendingAccounts
  <2>4. users' = IF users[r.user] = None THEN users
                 ELSE [users EXCEPT ![r.user] = Merged(users[r.user], r.account, r.writes)]
    BY <1>9 DEF UpdateCommit
  <2>5. ASSUME NEW v \in User PROVE users'[v] = users[v] \/ Updated(v)
    BY <2>2, <2>3, <2>4 DEF Updated
  <2>6. ASSUME NEW v \in User PROVE UserStep(v)
    BY <2>1, <2>5, Downs DEF UserStep
  <2>7. ~Tick \/ users' = users
    BY DEF Tick
  <2> QED BY <2>1, <2>6, <2>7
<1>10. ASSUME NEW h \in Handler, DeleteCommit(h) PROVE Goal
  <2> DEFINE u == pending[h].user
  <2>1. u \in User
    BY <1>10, PendingAccounts DEF DeleteCommit
  <2>2. /\ users' = [users EXCEPT ![u] = None] /\ retired' = retired \cup {u}
        /\ down' = down
    BY <1>10 DEF DeleteCommit
  <2>3. ASSUME NEW v \in User PROVE UserStep(v)
    BY <2>1, <2>2 DEF UserStep, Deleted
  <2>4. Deleted(u)
    BY <2>1, <2>2 DEF Deleted
  <2>5. ~Tick \/ users' = users
    BY DEF Tick
  <2> HIDE DEF u
  <2> QED BY <2>1, <2>2, <2>3, <2>4, <2>5
<1>11. ASSUME NEW f, Feeding(f) PROVE Goal
  <2>1. UNCHANGED <<retired, down>>
    BY <1>11, FeedsWait
  <2>2. ASSUME NEW v \in User PROVE users'[v] = users[v] \/ Closed(v)
    BY <1>11, FeedsWait, ClosedAccounts
  <2>3. ASSUME NEW v \in User PROVE UserStep(v)
    BY <2>1, <2>2 DEF UserStep
  <2>4. ~Tick \/ users' = users
    BY DEF Tick
  <2> QED BY <2>1, <2>3, <2>4
<1>12. ASSUME NEW s, NEW e, Import(s, e) PROVE Goal
  <2>1. UNCHANGED <<users, retired, down>>
    BY <1>12 DEF Import
  <2> QED BY <1>1, <2>1
<1>13. ASSUME Restart PROVE Goal
  <2>1. retired' = retired /\ down' = DownAs(users')
    BY <1>13 DEF Restart
  <2>2. ASSUME NEW f \in Injection(Missing(users), Unused), users' = Inserted(Seeded(users), f),
               NEW v \in User
        PROVE  users'[v] = users[v] \/ Founded(v)
    <3>1. DOMAIN f = Missing(users) /\ \A e \in DOMAIN f : f[e] \in Unused
      BY DEF Injection
    <3>2. DOMAIN f \subseteq DOMAIN Demo \cup {Superadmin}
      BY <3>1 DEF Missing
    <3>3. /\ Seeded(users) \in [User -> Account \cup {None}]
          /\ \/ Seeded(users)[v] = users[v]
             \/ /\ users[v] # None /\ Seeded(users)[v] \in Account
                /\ Seeded(users)[v].email = users[v].email
                /\ Seeded(users)[v].active
                /\ FoundingRoles(Seeded(users)[v])
      BY SeededAccounts
    <3>4. \/ users'[v] = Seeded(users)[v]
          \/ /\ \E e \in DOMAIN f : f[e] = v
             /\ users'[v] \in Account /\ users'[v].active /\ FoundingRoles(users'[v])
      BY <2>2, <3>2, <3>3, InsertedAccounts
    <3> QED BY <3>1, <3>3, <3>4 DEF Founded
  <2>3. ASSUME NEW v \in User PROVE users'[v] = users[v] \/ Founded(v)
    <3>1. \/ users' = users
          \/ \E f \in Injection(Missing(users), Unused) : users' = Inserted(Seeded(users), f)
      BY <1>13 DEF Restart
    <3> QED BY <2>2, <3>1
  <2>4. ASSUME NEW v \in User PROVE UserStep(v)
    BY <2>1, <2>3, Downs DEF UserStep
  <2>5. ~Tick \/ users' = users
    BY DEF Tick
  <2> QED BY <2>1, <2>4, <2>5
<1> HIDE DEF Goal, Types
<1>14. ASSUME NEW h \in Handler, Handling(h) PROVE Goal
  BY <1>5, <1>6, <1>7, <1>8, <1>9, <1>10, <1>14 DEF Handling
<1>15. CASE \E u \in User, t \in Targets : Login(u, t) \/ DemoLogin(u, t)
  BY <1>3, <1>15
<1>16. CASE \E s \in sessions, t \in Targets : SwitchTenant(s, t)
  BY <1>4, <1>16
<1>17. CASE \E f \in Feeder : Feeding(f)
  BY <1>11, <1>17
<1>18. CASE \E s \in sessions, e \in Employee : Import(s, e)
  BY <1>12, <1>18
<1> QED BY <1>2, <1>13, <1>14, <1>15, <1>16, <1>17, <1>18 DEF Next

(* A session issued now: for an available account, with a scope its        *)
(* entitlement covers.                                                     *)
Issued(s) ==
    \E u \in User, t \in Targets :
       /\ Available(u)
       /\ t = Whole \/ ScopeCovers(Stored(users[u]), t)
       /\ s = [sub |-> u, left |-> TTL, basis |-> Stored(users[u]),
               claims |-> [roles |-> users[u].roles,
                           scope |-> IF t = Whole THEN users[u].scope ELSE t]]

LEMMA IssueSteps ==
    ASSUME NEW u \in User, NEW t \in Targets, Available(u), Issue(u, t),
           t = Whole \/ ScopeCovers(Stored(users[u]), t)
    PROVE  \A s \in sessions' : s \in sessions \/ Issued(s)
<1> DEFINE new == [sub |-> u, left |-> TTL, basis |-> Stored(users[u]),
                   claims |-> [roles |-> users[u].roles,
                               scope |-> IF t = Whole THEN users[u].scope ELSE t]]
<1>1. sessions' = sessions \cup {new}
  BY DEF Issue
<1>2. Issued(new)
  BY DEF Issued
<1> HIDE DEF new
<1> QED BY <1>1, <1>2

LEMMA SessionSteps ==
    ASSUME Types, Next, ~Tick
    PROVE  \A s \in sessions' : s \in sessions \/ Issued(s)
<1> DEFINE Goal == \A s \in sessions' : s \in sessions \/ Issued(s)
<1> SUFFICES Goal
  OBVIOUS
<1>1. ASSUME sessions' = sessions PROVE Goal
  BY <1>1
<1>2. ASSUME NEW u \in User, NEW t \in Targets, Login(u, t) \/ DemoLogin(u, t) PROVE Goal
  BY <1>2, IssueSteps DEF Login, DemoLogin
<1>3. ASSUME NEW s \in sessions, NEW t \in Targets, SwitchTenant(s, t) PROVE Goal
  <2>1. s.sub \in User
    BY DEF Types, Session
  <2> QED BY <1>3, <2>1, IssueSteps DEF SwitchTenant
<1> HIDE DEF Goal
<1>4. ASSUME NEW h \in Handler, Handling(h) PROVE Goal
  <2>1. ASSUME NEW s, NEW e, NEW g, CreateRead(h, s, e, g) PROVE Goal
    BY <1>1, <2>1 DEF CreateRead, Take
  <2>2. ASSUME NEW s, NEW u, NEW cols, NEW new, UpdateRead(h, s, u, cols, new) PROVE Goal
    BY <1>1, <2>2 DEF UpdateRead, Take
  <2>3. ASSUME NEW s, NEW u, DeleteRead(h, s, u) PROVE Goal
    BY <1>1, <2>3 DEF DeleteRead, Take
  <2>4. ASSUME CreateCommit(h) \/ UpdateCommit(h) \/ DeleteCommit(h) PROVE Goal
    BY <1>1, <2>4 DEF CreateCommit, UpdateCommit, DeleteCommit
  <2> QED BY <1>4, <2>1, <2>2, <2>3, <2>4 DEF Handling
<1>5. ASSUME NEW f, Feeding(f) PROVE Goal
  BY <1>1, <1>5, FeedsWait
<1>6. ASSUME NEW s, NEW e, Import(s, e) PROVE Goal
  BY <1>1, <1>6 DEF Import
<1>7. ASSUME Restart PROVE Goal
  BY <1>1, <1>7 DEF Restart
<1>8. ASSUME \E u \in User, t \in Targets : Login(u, t) \/ DemoLogin(u, t) PROVE Goal
  BY <1>2, <1>8
<1>9. ASSUME \E s \in sessions, t \in Targets : SwitchTenant(s, t) PROVE Goal
  BY <1>3, <1>9
<1>10. ASSUME \E f \in Feeder : Feeding(f) PROVE Goal
  BY <1>5, <1>10
<1>11. ASSUME \E s \in sessions, e \in Employee : Import(s, e) PROVE Goal
  BY <1>6, <1>11
<1> QED BY <1>4, <1>7, <1>8, <1>9, <1>10, <1>11 DEF Next

(* What a request may hold once it has been read.                          *)
ReadCreate(r) ==
    \E s \in sessions, e \in Employee, g \in Grant :
       /\ CanManage(s.claims, g.roles, g.scope)
       /\ r = [op |-> "create", by |-> s.claims, account |-> FreshAccount(e, g, e),
               hire |-> Hire(e)]

ReadUpdate(r) ==
    \E s \in sessions, u \in User, cols \in Columns :
       \E new \in Changed(u, cols) :
          /\ users[u] # None
          /\ CanManage(s.claims, new.roles, new.scope)
          /\ r = [op |-> "update", user |-> u, account |-> new,
                  writes |-> {col \in cols : new[col] # users[u][col]}]

ReadDelete(r) == \E u \in User : r = [op |-> "delete", user |-> u]

PendingStep(h) ==
    \/ pending'[h] = pending[h] \/ pending'[h] = None
    \/ ReadCreate(pending'[h]) \/ ReadUpdate(pending'[h]) \/ ReadDelete(pending'[h])

LEMMA TakeSteps ==
    ASSUME Types, NEW h \in Handler, NEW r, Take(h, r),
           ReadCreate(r) \/ ReadUpdate(r) \/ ReadDelete(r)
    PROVE  \A i \in Handler : PendingStep(i)
<1>1. \A i \in Handler : pending'[i] = IF i = h THEN r ELSE pending[i]
  BY DEF Take, Types
<1> HIDE DEF Types
<1>2. ASSUME NEW i \in Handler PROVE PendingStep(i)
  BY <1>1 DEF PendingStep
<1> QED BY <1>2

LEMMA PendingSteps ==
    ASSUME Types, Next
    PROVE  \A h \in Handler : PendingStep(h)
<1> DEFINE Goal == \A i \in Handler : PendingStep(i)
<1> SUFFICES Goal
  OBVIOUS
<1>1. ASSUME pending' = pending PROVE Goal
  BY <1>1 DEF PendingStep
<1>2. ASSUME NEW h \in Handler, pending' = [pending EXCEPT ![h] = None] PROVE Goal
  BY <1>2 DEF PendingStep, Types
<1>3. ASSUME NEW h \in Handler, NEW s \in sessions, NEW e \in Employee, NEW g \in Grant,
             CreateRead(h, s, e, g)
      PROVE  Goal
  <2> DEFINE r == [op |-> "create", by |-> s.claims, account |-> FreshAccount(e, g, e),
                   hire |-> Hire(e)]
  <2>1. Take(h, r) /\ CanManage(s.claims, g.roles, g.scope)
    BY <1>3 DEF CreateRead
  <2>2. ReadCreate(r)
    BY <2>1 DEF ReadCreate
  <2> HIDE DEF r
  <2> QED BY <2>1, <2>2, TakeSteps
<1>4. ASSUME NEW h \in Handler, NEW s \in sessions, NEW u \in User, NEW cols \in Columns,
             NEW new \in Changed(u, cols), UpdateRead(h, s, u, cols, new)
      PROVE  Goal
  <2> DEFINE r == [op |-> "update", user |-> u, account |-> new,
                   writes |-> {col \in cols : new[col] # users[u][col]}]
  <2>1. Take(h, r) /\ CanManage(s.claims, new.roles, new.scope) /\ users[u] # None
    BY <1>4 DEF UpdateRead
  <2>2. ReadUpdate(r)
    BY <2>1 DEF ReadUpdate
  <2> HIDE DEF r
  <2> QED BY <2>1, <2>2, TakeSteps
<1>5. ASSUME NEW h \in Handler, NEW s \in sessions, NEW u \in User, DeleteRead(h, s, u)
      PROVE  Goal
  <2> DEFINE r == [op |-> "delete", user |-> u]
  <2>1. Take(h, r)
    BY <1>5 DEF DeleteRead
  <2>2. ReadDelete(r)
    BY DEF ReadDelete
  <2> HIDE DEF r
  <2> QED BY <2>1, <2>2, TakeSteps
<1>6. ASSUME Restart PROVE Goal
  <2>1. \A h \in Handler : pending'[h] = None
    BY <1>6 DEF Restart
  <2> QED BY <2>1 DEF PendingStep
<1> HIDE DEF Goal
<1>7. ASSUME NEW h \in Handler, Handling(h) PROVE Goal
  <2>1. ASSUME CreateCommit(h) \/ UpdateCommit(h) \/ DeleteCommit(h) PROVE Goal
    BY <1>2, <2>1 DEF CreateCommit, UpdateCommit, DeleteCommit, Drop
  <2>2. ASSUME \E s \in sessions, e \in Employee, g \in Grant : CreateRead(h, s, e, g)
        PROVE Goal
    BY <1>3, <2>2
  <2>3. ASSUME NEW s \in sessions, NEW u \in {v \in User : users[v] # None},
               NEW cols \in Columns,
               NEW new \in (IF pending[h] = None /\ served < MaxRequests THEN Changed(u, cols)
                              ELSE {}),
               UpdateRead(h, s, u, cols, new)
        PROVE  Goal
    BY <1>4, <2>3
  <2>4. ASSUME \E s \in sessions, u \in User : DeleteRead(h, s, u) PROVE Goal
    BY <1>5, <2>4
  <2> QED BY <1>7, <2>1, <2>2, <2>3, <2>4 DEF Handling
<1>8. ASSUME NEW u, NEW t, Login(u, t) \/ DemoLogin(u, t) PROVE Goal
  BY <1>1, <1>8 DEF Login, DemoLogin, Issue
<1>9. ASSUME NEW s, NEW t, SwitchTenant(s, t) PROVE Goal
  BY <1>1, <1>9 DEF SwitchTenant, Issue
<1>10. ASSUME NEW f, Feeding(f) PROVE Goal
  BY <1>1, <1>10, FeedsWait
<1>11. ASSUME NEW s, NEW e, Import(s, e) PROVE Goal
  BY <1>1, <1>11 DEF Import
<1>12. ASSUME Tick PROVE Goal
  BY <1>1, <1>12 DEF Tick
<1>13. ASSUME \E u \in User, t \in Targets : Login(u, t) \/ DemoLogin(u, t) PROVE Goal
  BY <1>8, <1>13
<1>14. ASSUME \E s \in sessions, t \in Targets : SwitchTenant(s, t) PROVE Goal
  BY <1>9, <1>14
<1>15. ASSUME \E f \in Feeder : Feeding(f) PROVE Goal
  BY <1>10, <1>15
<1>16. ASSUME \E s \in sessions, e \in Employee : Import(s, e) PROVE Goal
  BY <1>11, <1>16
<1> QED BY <1>6, <1>7, <1>12, <1>13, <1>14, <1>15, <1>16 DEF Next

(* The tables stay tables.                                                 *)
Tables ==
    /\ users' = [u \in User |-> users'[u]]
    /\ down' = [u \in User |-> down'[u]]
    /\ pending' = [h \in Handler |-> pending'[h]]

LEMMA TableSteps ==
    ASSUME Types, Next
    PROVE  Tables
<1>1. users = [u \in User |-> users[u]] /\ down = [u \in User |-> down[u]]
      /\ pending = [h \in Handler |-> pending[h]]
  BY DEF Types
<1>2. ASSUME UNCHANGED <<users, down, pending>> PROVE Tables
  BY <1>1, <1>2 DEF Tables
<1>3. ASSUME NEW h, NEW r, Take(h, r) PROVE Tables
  BY <1>1, <1>3 DEF Take, Tables
<1>4. ASSUME NEW h, Drop(h) PROVE pending' = [i \in Handler |-> pending'[i]]
  BY <1>1, <1>4 DEF Drop
<1>5. ASSUME down' = DownAs(users') PROVE down' = [u \in User |-> down'[u]]
  BY <1>5 DEF DownAs
<1>6. ASSUME NEW u, NEW a, users' = [users EXCEPT ![u] = a]
      PROVE  users' = [v \in User |-> users'[v]]
  BY <1>1, <1>6
<1>7. ASSUME NEW h \in Handler, Handling(h) PROVE Tables
  <2>1. ASSUME CreateCommit(h) PROVE Tables
    <3>1. \/ users' = users
          \/ \E u \in Unused : users' = [users EXCEPT ![u] = pending[h].account]
      BY <2>1 DEF CreateCommit
    <3>2. Drop(h) /\ down' = DownAs(users')
      BY <2>1 DEF CreateCommit
    <3>3. users' = [v \in User |-> users'[v]]
      BY <1>1, <1>6, <3>1
    <3> QED BY <1>4, <1>5, <3>2, <3>3 DEF Tables
  <2>2. ASSUME UpdateCommit(h) PROVE Tables
    <3> DEFINE r == pending[h]
               m == Merged(users[r.user], r.account, r.writes)
    <3>1. users' = users \/ users' = [users EXCEPT ![r.user] = m]
      BY <2>2 DEF UpdateCommit
    <3>2. Drop(h) /\ down' = DownAs(users')
      BY <2>2 DEF UpdateCommit
    <3> HIDE DEF m
    <3>3. users' = [v \in User |-> users'[v]]
      BY <1>1, <1>6, <3>1
    <3> QED BY <1>4, <1>5, <3>2, <3>3 DEF Tables
  <2>3. ASSUME DeleteCommit(h) PROVE Tables
    <3>1. users' = [users EXCEPT ![pending[h].user] = None] /\ Drop(h) /\ down' = down
      BY <2>3 DEF DeleteCommit
    <3> QED BY <1>1, <1>4, <1>6, <3>1 DEF Tables
  <2>4. ASSUME NEW s, NEW e, NEW g, CreateRead(h, s, e, g) PROVE Tables
    BY <1>3, <2>4 DEF CreateRead
  <2>5. ASSUME NEW s, NEW u, NEW cols, NEW new, UpdateRead(h, s, u, cols, new) PROVE Tables
    BY <1>3, <2>5 DEF UpdateRead
  <2>6. ASSUME NEW s, NEW u, DeleteRead(h, s, u) PROVE Tables
    BY <1>3, <2>6 DEF DeleteRead
  <2> QED BY <1>7, <2>1, <2>2, <2>3, <2>4, <2>5, <2>6 DEF Handling
<1>8. ASSUME NEW u, NEW t, Login(u, t) \/ DemoLogin(u, t) PROVE Tables
  BY <1>2, <1>8 DEF Login, DemoLogin, Issue
<1>9. ASSUME NEW s, NEW t, SwitchTenant(s, t) PROVE Tables
  BY <1>2, <1>9 DEF SwitchTenant, Issue
<1>10. ASSUME NEW f, Feeding(f) PROVE Tables
  <2>1. /\ users' = users \/ users' = Close(users, feed[f].closes)
        /\ UNCHANGED <<down, pending>>
    BY <1>10, FeedsWait DEF FeedCommit
  <2>2. users' = [u \in User |-> users'[u]]
    BY <1>1, <2>1 DEF Close
  <2> QED BY <1>1, <2>1, <2>2 DEF Tables
<1>11. ASSUME NEW s, NEW e, Import(s, e) PROVE Tables
  BY <1>2, <1>11 DEF Import
<1>12. ASSUME Tick PROVE Tables
  BY <1>1, <1>12 DEF Tick, Tables
<1>13. ASSUME Restart PROVE Tables
  <2>1. \/ users' = users
        \/ \E f \in Injection(Missing(users), Unused) : users' = Inserted(Seeded(users), f)
    BY <1>13 DEF Restart
  <2>2. users' = [u \in User |-> users'[u]]
    BY <1>1, <2>1 DEF Inserted
  <2>3. pending' = [h \in Handler |-> pending'[h]] /\ down' = DownAs(users')
    BY <1>13 DEF Restart
  <2> QED BY <1>5, <2>2, <2>3 DEF Tables
<1>14. ASSUME \E u \in User, t \in Targets : Login(u, t) \/ DemoLogin(u, t) PROVE Tables
  BY <1>8, <1>14
<1>15. ASSUME \E s \in sessions, t \in Targets : SwitchTenant(s, t) PROVE Tables
  BY <1>9, <1>15
<1>16. ASSUME \E f \in Feeder : Feeding(f) PROVE Tables
  BY <1>10, <1>16
<1>17. ASSUME \E s \in sessions, e \in Employee : Import(s, e) PROVE Tables
  BY <1>11, <1>17
<1> QED BY <1>7, <1>12, <1>13, <1>14, <1>15, <1>16, <1>17 DEF Next

LEMMA IssuedSessions ==
    ASSUME Types, NEW s, Issued(s)
    PROVE  /\ s \in Session /\ s.left = TTL /\ Available(s.sub) /\ users[s.sub] \in Account
           /\ s.basis = Stored(users[s.sub]) /\ s.claims.roles = users[s.sub].roles
           /\ s.claims.scope = users[s.sub].scope \/ ScopeCovers(s.basis, s.claims.scope)
<1>1. PICK u \in User : \E t \in Targets :
         /\ Available(u)
         /\ t = Whole \/ ScopeCovers(Stored(users[u]), t)
         /\ s = [sub |-> u, left |-> TTL, basis |-> Stored(users[u]),
                 claims |-> [roles |-> users[u].roles,
                             scope |-> IF t = Whole THEN users[u].scope ELSE t]]
  BY DEF Issued
<1>2. PICK t \in Targets :
         /\ Available(u)
         /\ t = Whole \/ ScopeCovers(Stored(users[u]), t)
         /\ s = [sub |-> u, left |-> TTL, basis |-> Stored(users[u]),
                 claims |-> [roles |-> users[u].roles,
                             scope |-> IF t = Whole THEN users[u].scope ELSE t]]
  BY <1>1
<1>3. users[u] \in Account
  BY <1>2 DEF Available, Types
<1>4. t \in Scope
  BY TargetScopes
<1>5. s.claims \in Claims
  BY <1>2, <1>3, <1>4 DEF Claims, Account
<1>6. Stored(users[u]) \in Claims
  BY <1>3, StoredClaims
<1>7. TTL \in 1..TTL
  BY AccountsAssumption
<1>8. s \in Session
  BY <1>2, <1>5, <1>6, <1>7 DEF Session
<1> QED BY <1>2, <1>3, <1>8

LEMMA ReadRequests ==
    ASSUME Types, NEW r, ReadCreate(r) \/ ReadUpdate(r) \/ ReadDelete(r)
    PROVE  r \in Pending
<1>1. CASE ReadCreate(r)
  <2>1. PICK s \in sessions : \E e \in Employee, g \in Grant :
           r = [op |-> "create", by |-> s.claims, account |-> FreshAccount(e, g, e),
                hire |-> Hire(e)]
    BY <1>1 DEF ReadCreate
  <2>2. PICK e \in Employee : \E g \in Grant :
           r = [op |-> "create", by |-> s.claims, account |-> FreshAccount(e, g, e),
                hire |-> Hire(e)]
    BY <2>1
  <2>3. PICK g \in Grant :
           r = [op |-> "create", by |-> s.claims, account |-> FreshAccount(e, g, e),
                hire |-> Hire(e)]
    BY <2>2
  <2>4. s.claims \in Claims
    BY DEF Types, Session
  <2>5. e \in Email /\ g.roles \subseteq Role /\ g.scope \in Scope
    BY AccountsAssumption DEF Email
  <2>6. FreshAccount(e, g, e) \in Account
    BY <2>5, FreshAccounts
  <2>7. Hire(e) \in BOOLEAN
    BY DEF Hire
  <2> QED BY <2>3, <2>4, <2>6, <2>7 DEF Pending
<1>2. CASE ReadUpdate(r)
  <2>1. PICK s \in sessions, u \in User, cols \in Columns :
           \E new \in Changed(u, cols) :
              /\ users[u] # None
              /\ r = [op |-> "update", user |-> u, account |-> new,
                      writes |-> {col \in cols : new[col] # users[u][col]}]
    BY <1>2 DEF ReadUpdate
  <2>2. PICK new \in Changed(u, cols) :
           /\ users[u] # None
           /\ r = [op |-> "update", user |-> u, account |-> new,
                   writes |-> {col \in cols : new[col] # users[u][col]}]
    BY <2>1
  <2> DEFINE M(g, a, e) ==
        Merged(users[u], [roles |-> g.roles, scope |-> g.scope, active |-> a, person |-> e], cols)
  <2>3. PICK g \in Grant : \E a \in BOOLEAN : \E e \in Employee : new = M(g, a, e)
    <3>1. Changed(u, cols) = {M(g, a, e) : g \in Grant, a \in BOOLEAN, e \in Employee}
      BY DEF Changed
    <3> HIDE DEF M
    <3> QED BY <3>1
  <2>4. users[u] \in Account
    BY <2>2 DEF Types
  <2>5. g.roles \subseteq Role /\ g.scope \in Scope
    BY AccountsAssumption
  <2>6. new \in Account
    <3>1. PICK a \in BOOLEAN : \E e \in Employee : new = M(g, a, e)
      BY <2>3
    <3>2. PICK e \in Employee : new = M(g, a, e)
      BY <3>1
    <3> DEFINE n == [roles |-> g.roles, scope |-> g.scope, active |-> a, person |-> e]
    <3>3. /\ n.roles \subseteq Role /\ n.scope \in Scope /\ n.active \in BOOLEAN
          /\ n.person \in Employee \cup {None}
      BY <2>5
    <3> HIDE DEF n
    <3> QED BY <2>4, <3>2, <3>3, MergedAccounts DEF n
  <2> DEFINE writes == {col \in cols : new[col] # users[u][col]}
  <2>7. writes \in {{"roles"}, {"scope"}, {"active"}, {"person"}, {"roles", "scope"}, {}}
    <3> DEFINE P(col) == new[col] # users[u][col]
    <3> HIDE DEF P
    <3>1. \/ cols = {"roles", "scope"}
          \/ \E c \in {"roles", "scope", "active", "person"} : cols = {c}
      BY DEF Columns
    <3>2. {col \in cols : P(col)} \in {{"roles"}, {"scope"}, {"active"}, {"person"}, {"roles", "scope"}, {}}
      <4>1. CASE cols = {"roles", "scope"}
        BY <4>1
      <4>2. ASSUME NEW c \in {"roles", "scope", "active", "person"}, cols = {c}
            PROVE  {col \in cols : P(col)} \in {{"roles"}, {"scope"}, {"active"}, {"person"}, {"roles", "scope"}, {}}
        <5>1. {col \in cols : P(col)} = {} \/ {col \in cols : P(col)} = {c}
          BY <4>2
        <5> QED BY <5>1
      <4> QED BY <3>1, <4>1, <4>2
    <3> QED BY <3>2 DEF P
  <2> HIDE DEF writes
  <2>8. r = [op |-> "update", user |-> u, account |-> new, writes |-> writes]
    BY <2>2 DEF writes
  <2> QED BY <2>6, <2>7, <2>8 DEF Pending
<1>3. CASE ReadDelete(r)
  BY <1>3 DEF ReadDelete, Pending
<1> QED BY <1>1, <1>2, <1>3

LEMMA UpdatedAccounts ==
    ASSUME Types, NEW u \in User, Updated(u)
    PROVE  users'[u] \in Account /\ users'[u].email = users[u].email
<1>1. PICK h \in Handler : /\ pending[h] # None /\ pending[h].op = "update"
                           /\ users'[u] = Merged(users[u], pending[h].account, pending[h].writes)
  BY DEF Updated
<1> DEFINE new == pending[h].account
           cols == pending[h].writes
<1>2. new \in Account
  BY <1>1, PendingAccounts
<1>3. users[u] \in Account
  BY DEF Updated, Types
<1>4. /\ new.roles \subseteq Role /\ new.scope \in Scope
      /\ new.active \in BOOLEAN /\ new.person \in Employee \cup {None}
  BY <1>2 DEF Account
<1>5. users'[u] = Merged(users[u], new, cols)
  BY <1>1
<1> HIDE DEF new, cols
<1> QED BY <1>3, <1>4, <1>5, MergedAccounts

LEMMA UserTypes ==
    ASSUME Types, NEW u \in User, UserStep(u)
    PROVE  /\ users'[u] \in Account \cup {None} /\ down'[u] \in 0..TTL
           /\ users[u] # None /\ users'[u] # None => users'[u].email = users[u].email
<1>1. users[u] \in Account \cup {None} /\ down[u] \in 0..TTL /\ 0 \in 0..TTL
  BY AccountsAssumption DEF Types
<1>2. down'[u] \in 0..TTL
  BY <1>1 DEF UserStep, Restarted
<1>3. CASE users'[u] = users[u]
  BY <1>1, <1>2, <1>3
<1>4. CASE Founded(u)
  BY <1>2, <1>4 DEF Founded, Unused
<1>5. CASE Created(u)
  <2>1. users[u] = None
    BY <1>5 DEF Created, Unused
  <2>2. users'[u] \in Account
    BY <1>5, PendingAccounts DEF Created
  <2> QED BY <1>2, <2>1, <2>2
<1>6. CASE Updated(u)
  BY <1>2, <1>6, UpdatedAccounts
<1>7. CASE Deleted(u)
  BY <1>2, <1>7 DEF Deleted
<1>8. CASE Closed(u)
  BY <1>1, <1>2, <1>8 DEF Closed, Account
<1> QED BY <1>3, <1>4, <1>5, <1>6, <1>7, <1>8 DEF UserStep

LEMMA TypesNext ==
    ASSUME Types, [Next]_vars
    PROVE  Types'
<1>1. CASE UNCHANGED vars
  BY <1>1 DEF vars, Types
<1>2. CASE Next
  <2>1. Tables
    BY <1>2, TableSteps
  <2>2. \A u \in User : users'[u] \in Account \cup {None} /\ down'[u] \in 0..TTL
    <3>1. CASE Tick
      <4>1. users' = users
        BY <3>1 DEF Tick
      <4>2. \A u \in User : down'[u] = IF u \in Gone /\ down[u] < TTL THEN down[u] + 1 ELSE down[u]
        BY <3>1 DEF Tick
      <4>3. \A u \in User : down[u] \in 0..TTL
        BY DEF Types
      <4>4. \A u \in User : down'[u] \in 0..TTL
        BY <4>2, <4>3, AccountsAssumption
      <4> QED BY <4>1, <4>4 DEF Types
    <3>2. CASE ~Tick
      BY <1>2, <3>2, UserSteps, UserTypes
    <3> QED BY <3>1, <3>2
  <2>3. retired' \subseteq User
    BY <1>2, UserSteps
  <2>4. sessions' \subseteq Session
    <3>1. CASE Tick
      <4>1. ASSUME NEW s \in sessions, s.left > 1
            PROVE  [s EXCEPT !.left = @ - 1] \in Session
        <5>1. s \in Session
          BY <4>1 DEF Types
        <5>2. s.left - 1 \in 1..TTL
          BY <4>1, <5>1, AccountsAssumption DEF Session
        <5> QED BY <5>1, <5>2 DEF Session
      <4> QED BY <3>1, <4>1 DEF Tick
    <3>2. CASE ~Tick
      BY <1>2, <3>2, SessionSteps, IssuedSessions DEF Types
    <3> QED BY <3>1, <3>2
  <2>5. \A h \in Handler : pending'[h] \in Pending \cup {None}
    BY <1>2, PendingSteps, ReadRequests DEF PendingStep, Types
  <2> QED BY <2>1, <2>2, <2>3, <2>4, <2>5 DEF Types, Tables
<1> QED BY <1>1, <1>2

(* The rows, the sessions and the requests of any run are well typed.      *)
THEOREM TypesHold == Spec => []Types
<1>1. Init => Types
  BY TypesInit
<1>2. Types /\ [Next]_vars => Types'
  BY TypesNext
<1> QED BY <1>1, <1>2, PTL DEF Spec

(* A session issued by a login, a demonstration login or a tenant switch   *)
(* shows nothing that the account's own authority does not, however many   *)
(* accounts, scopes and sessions there are: SessionWithinEntitlement.      *)
THEOREM SessionsAreNarrower == Spec => []SessionWithinEntitlement
<1>1. Init => SessionWithinEntitlement
  BY DEF Init, SessionWithinEntitlement
<1>2. ASSUME Types, SessionWithinEntitlement, [Next]_vars PROVE SessionWithinEntitlement'
  <2> DEFINE Within(s) == \A row \in Row : Sees(s.claims, row) => Sees(s.basis, row)
  <2>1. CASE UNCHANGED vars
    BY <1>2, <2>1 DEF vars, SessionWithinEntitlement
  <2>2. CASE Tick
    BY <1>2, <2>2 DEF Tick, SessionWithinEntitlement, Types, Session
  <2>3. CASE Next /\ ~Tick
    <3>1. ASSUME NEW s, Issued(s) PROVE Within(s)
      <4>1. /\ s.basis = Stored(users[s.sub]) /\ users[s.sub] \in Account
            /\ s.claims.roles = users[s.sub].roles /\ s \in Session
            /\ s.claims.scope = users[s.sub].scope \/ ScopeCovers(s.basis, s.claims.scope)
        BY <1>2, <3>1, IssuedSessions
      <4>2. s.claims = [roles |-> s.claims.roles, scope |-> s.claims.scope]
        BY <4>1 DEF Session, Claims
      <4>3. CASE s.claims.scope = users[s.sub].scope
        BY <4>1, <4>2, <4>3 DEF Stored
      <4>4. CASE ScopeCovers(s.basis, s.claims.scope)
        BY <4>2, <4>4, CoversNarrows
      <4> QED BY <4>1, <4>3, <4>4
    <3>2. \A s \in sessions : Within(s)
      BY <1>2 DEF SessionWithinEntitlement
    <3>3. \A s \in sessions' : s \in sessions \/ Issued(s)
      BY <1>2, <2>3, SessionSteps
    <3>4. \A s \in sessions' : Within(s)
      BY <3>1, <3>2, <3>3
    <3> QED BY <3>4 DEF SessionWithinEntitlement
  <2> QED BY <1>2, <2>1, <2>2, <2>3
<1> QED BY <1>1, <1>2, TypesHold, PTL DEF Spec

(* StaleAuthorityExpires rests on what a session's row may become: a row   *)
(* is unavailable for as long as it has been counted down, and a deleted   *)
(* row is never filled again.                                              *)
Aging ==
    /\ \A u \in User : Available(u) => down[u] = 0
    /\ \A u \in retired : users[u] = None
    /\ \A s \in sessions : users[s.sub] # None \/ s.sub \in retired
    /\ \A s \in sessions : s.left + down[s.sub] <= TTL

LEMMA AgingNext ==
    ASSUME Types, Aging, Next
    PROVE  Aging'
<1>0. /\ \A s \in sessions : s.sub \in User /\ s.left \in 1..TTL
      /\ \A u \in User : down[u] \in 0..TTL
      /\ TTL \in Nat
  BY AccountsAssumption DEF Types, Session
<1>1. CASE Tick
  <2>1. /\ UNCHANGED <<users, retired>>
        /\ sessions' = {[s EXCEPT !.left = @ - 1] : s \in {t \in sessions : t.left > 1}}
        /\ \A u \in User : down'[u] = IF u \in Gone /\ down[u] < TTL THEN down[u] + 1 ELSE down[u]
    BY <1>1 DEF Tick
  <2>2. \A u \in User : Available(u) => u \notin Gone
    BY DEF Aging, Available, Gone
  <2>3. \A u \in User : Available(u)' => down'[u] = 0
    BY <2>1, <2>2 DEF Aging, Available
  <2>4. ASSUME NEW s \in sessions'
        PROVE  /\ users'[s.sub] # None \/ s.sub \in retired'
               /\ s.left + down'[s.sub] <= TTL
    <3>1. PICK t \in sessions : t.left > 1 /\ s = [t EXCEPT !.left = @ - 1]
      BY <2>1
    <3>2. s.sub = t.sub /\ s.left = t.left - 1
      BY <3>1 DEF Types, Session
    <3>3. t.left + down[t.sub] <= TTL /\ (users[t.sub] # None \/ t.sub \in retired)
      BY DEF Aging
    <3>4. t.sub \in User /\ t.left \in 1..TTL /\ down[t.sub] \in 0..TTL
      BY <1>0
    <3>5. down'[t.sub] <= down[t.sub] + 1 /\ down'[t.sub] \in Int
      BY <2>1, <3>4
    <3>6. s.left + down'[s.sub] <= TTL
      BY <1>0, <3>2, <3>3, <3>4, <3>5
    <3> QED BY <2>1, <3>2, <3>3, <3>6
  <2> QED BY <2>1, <2>3, <2>4 DEF Aging
<1>2. CASE ~Tick
  <2>1. \A u \in User : UserStep(u)
    BY <1>2, UserSteps
  <2>2. ASSUME NEW u \in User
        PROVE  /\ Available(u)' => down'[u] = 0
               /\ down'[u] = 0 \/ down'[u] = down[u]
    <3>1. UserStep(u)
      BY <2>1
    <3>2. CASE Restarted(u)
      BY <3>2 DEF Restarted, Available
    <3>3. CASE users'[u] = users[u] /\ down'[u] = down[u]
      BY <3>3 DEF Aging, Available
    <3>4. CASE (Deleted(u) \/ Closed(u)) /\ down'[u] = down[u]
      BY <3>4 DEF Deleted, Closed, Available, Types, Account
    <3> QED BY <3>1, <3>2, <3>3, <3>4 DEF UserStep
  <2>3. ASSUME NEW u \in User, u \in retired PROVE users'[u] = None
    <3>1. users[u] = None
      BY <2>3 DEF Aging
    <3> QED BY <2>1, <2>3, <3>1 DEF UserStep, Founded, Created, Updated, Deleted, Closed, Unused
  <2>4. \A u \in retired' : users'[u] = None
    <3>1. \A u \in retired' : (u \in retired /\ u \in User) \/ Deleted(u)
      BY UserSteps DEF Types
    <3> QED BY <2>3, <3>1 DEF Deleted
  <2>5. ASSUME NEW u \in User, users[u] # None PROVE users'[u] # None \/ u \in retired'
    <3>1. CASE Founded(u)
      BY <3>1, NoneAssumption DEF Founded
    <3>2. CASE Created(u)
      BY <2>5, <3>2 DEF Created, Unused
    <3>3. CASE Updated(u)
      BY <2>5, <3>3, UpdatedAccounts, NoneAssumption
    <3>4. CASE Closed(u)
      <4>1. users'[u] \in Account
        BY <3>4 DEF Closed, Types, Account
      <4> QED BY <4>1, NoneAssumption
    <3> QED BY <2>1, <2>5, <3>1, <3>2, <3>3, <3>4 DEF UserStep, Deleted
  <2>6. retired \subseteq retired'
    BY UserSteps
  <2>7. ASSUME NEW s \in sessions'
        PROVE  /\ users'[s.sub] # None \/ s.sub \in retired'
               /\ s.left + down'[s.sub] <= TTL
    <3>1. s \in sessions \/ Issued(s)
      BY <1>2, SessionSteps
    <3>2. CASE s \in sessions
      <4>1. /\ s.sub \in User /\ s.left \in 1..TTL /\ down[s.sub] \in 0..TTL
            /\ s.left + down[s.sub] <= TTL /\ (users[s.sub] # None \/ s.sub \in retired)
        BY <1>0, <3>2 DEF Aging
      <4>2. s.left + down'[s.sub] <= TTL
        BY <1>0, <2>2, <4>1
      <4> QED BY <2>5, <2>6, <4>1, <4>2
    <3>3. CASE Issued(s)
      <4>1. s.sub \in User /\ s.left = TTL /\ Available(s.sub)
        BY <3>3, IssuedSessions DEF Session
      <4>2. down[s.sub] = 0 /\ users[s.sub] # None
        BY <4>1 DEF Aging, Available
      <4>3. s.left + down'[s.sub] <= TTL
        BY <1>0, <2>2, <4>1, <4>2
      <4> QED BY <2>5, <4>1, <4>2, <4>3
    <3> QED BY <3>1, <3>2, <3>3
  <2>8. \A u \in User : Available(u)' => down'[u] = 0
    BY <2>2
  <2> QED BY <2>4, <2>7, <2>8 DEF Aging
<1> QED BY <1>1, <1>2

(* Once an account has been closed or deleted for a token's lifetime, no   *)
(* session of it is left, and none was renewed in between, for any         *)
(* lifetime and any number of sessions: StaleAuthorityExpires.             *)
THEOREM ClosedAccountsLapse == Spec => []StaleAuthorityExpires
<1>1. Init => Aging
  BY DEF Init, Aging, Available
<1>2. ASSUME Types, Aging, [Next]_vars PROVE Aging'
  <2>1. CASE UNCHANGED vars
    BY <1>2, <2>1 DEF vars, Aging, Available
  <2> QED BY <1>2, <2>1, AgingNext
<1>3. Aging => StaleAuthorityExpires
  BY DEF Aging, StaleAuthorityExpires
<1> QED BY <1>1, <1>2, <1>3, TypesHold, PTL DEF Spec

(* NoNewSuperusers rests on what administrators hold: without a seeded     *)
(* operator nobody is one, no request grants the superadmin's tier, and    *)
(* the row of a session keeps its email.                                   *)
NoSeededOperator == \A e \in DOMAIN Demo : "operator" \notin Demo[e].roles

NoSuperRequests ==
    \A h \in Handler :
       /\ pending[h] # None
       /\ \/ pending[h].op = "create"
          \/ pending[h].op = "update" /\ "roles" \in pending[h].writes
       => ~Super(pending[h].account.roles)

Ranks ==
    /\ \A u \in User : users[u] # None =>
          /\ "operator" \notin users[u].roles
          /\ Super(users[u].roles) => users[u].email \in Founders
    /\ \A s \in sessions :
          /\ "operator" \notin s.claims.roles
          /\ users[s.sub] # None /\ Super(s.claims.roles) => users[s.sub].email \in Founders
    /\ NoSuperRequests

LEMMA OperatorsAreSuper ==
    ASSUME NEW roles, ~Super(roles)
    PROVE  "operator" \notin roles
BY DEF Super, AdminTier

LEMMA FoundersRank ==
    ASSUME NoSeededOperator, NEW a, FoundingRoles(a)
    PROVE  "operator" \notin a.roles /\ (Super(a.roles) => a.email \in Founders)
BY DEF FoundingRoles, NoSeededOperator, Founders

LEMMA ReadsRank ==
    ASSUME Types, Ranks, NEW r, ReadCreate(r) \/ ReadUpdate(r)
    PROVE  ~Super(r.account.roles)
<1>1. ASSUME NEW s \in sessions, NEW roles, NEW t, CanManage(s.claims, roles, t)
      PROVE  ~Super(roles)
  <2>1. s.claims.roles \subseteq Role /\ "operator" \notin s.claims.roles
    BY DEF Types, Session, Claims, Ranks
  <2> QED BY <1>1, <2>1, OnlyOperatorsMakeSuperusers
<1>2. CASE ReadCreate(r)
  <2>1. PICK s \in sessions : \E e \in Employee, g \in Grant :
           /\ CanManage(s.claims, g.roles, g.scope)
           /\ r = [op |-> "create", by |-> s.claims, account |-> FreshAccount(e, g, e),
                   hire |-> Hire(e)]
    BY <1>2 DEF ReadCreate
  <2>2. PICK e \in Employee : \E g \in Grant :
           /\ CanManage(s.claims, g.roles, g.scope)
           /\ r = [op |-> "create", by |-> s.claims, account |-> FreshAccount(e, g, e),
                   hire |-> Hire(e)]
    BY <2>1
  <2>3. PICK g \in Grant :
           /\ CanManage(s.claims, g.roles, g.scope)
           /\ r = [op |-> "create", by |-> s.claims, account |-> FreshAccount(e, g, e),
                   hire |-> Hire(e)]
    BY <2>2
  <2>4. r.account.roles = g.roles
    BY <2>3 DEF FreshAccount
  <2> QED BY <1>1, <2>3, <2>4
<1>3. CASE ReadUpdate(r)
  <2>1. PICK s \in sessions, u \in User, cols \in Columns :
           \E new \in Changed(u, cols) :
              /\ CanManage(s.claims, new.roles, new.scope)
              /\ r = [op |-> "update", user |-> u, account |-> new,
                      writes |-> {col \in cols : new[col] # users[u][col]}]
    BY <1>3 DEF ReadUpdate
  <2>2. PICK new \in Changed(u, cols) :
           /\ CanManage(s.claims, new.roles, new.scope)
           /\ r = [op |-> "update", user |-> u, account |-> new,
                   writes |-> {col \in cols : new[col] # users[u][col]}]
    BY <2>1
  <2>3. r.account = new
    BY <2>2
  <2> QED BY <1>1, <2>2, <2>3
<1> QED BY <1>2, <1>3

LEMMA RanksUsers ==
    ASSUME NoSeededOperator, Types, Ranks, NEW u \in User, UserStep(u), users'[u] # None
    PROVE  /\ "operator" \notin users'[u].roles
           /\ Super(users'[u].roles) => users'[u].email \in Founders
<1>1. CASE users'[u] = users[u]
  BY <1>1 DEF Ranks
<1>2. CASE Founded(u)
  BY <1>2, FoundersRank DEF Founded
<1>3. CASE Created(u)
  <2>1. ~Super(users'[u].roles)
    BY <1>3 DEF Created, Ranks, NoSuperRequests
  <2> QED BY <2>1, OperatorsAreSuper
<1>4. CASE Updated(u)
  <2>1. PICK h \in Handler : /\ pending[h] # None /\ pending[h].op = "update"
                             /\ users'[u] = Merged(users[u], pending[h].account, pending[h].writes)
    BY <1>4 DEF Updated
  <2>2. users[u] \in Account /\ users[u] # None
    BY <1>4 DEF Updated, Types
  <2> DEFINE new == pending[h].account
             cols == pending[h].writes
  <2>3. new \in Account
    BY <2>1, PendingAccounts
  <2>4. "roles" \in cols => ~Super(new.roles)
    BY <2>1 DEF Ranks, NoSuperRequests
  <2>5. users'[u] = Merged(users[u], new, cols)
    BY <2>1
  <2> HIDE DEF new, cols
  <2>6. /\ new.roles \subseteq Role /\ new.scope \in Scope
        /\ new.active \in BOOLEAN /\ new.person \in Employee \cup {None}
    BY <2>3 DEF Account
  <2>7. /\ users'[u].email = users[u].email
        /\ "roles" \in cols => users'[u].roles = new.roles
        /\ "roles" \notin cols => users'[u].roles = users[u].roles
    BY <2>2, <2>5, <2>6, MergedAccounts
  <2>8. CASE "roles" \in cols
    BY <2>4, <2>7, <2>8, OperatorsAreSuper
  <2>9. CASE "roles" \notin cols
    BY <2>2, <2>7, <2>9 DEF Ranks
  <2> QED BY <2>8, <2>9
<1>5. CASE Closed(u)
  <2>1. users[u] # None /\ users[u] \in Account /\ users'[u] = [users[u] EXCEPT !.active = FALSE]
    BY <1>5 DEF Closed, Types
  <2>2. users'[u].roles = users[u].roles /\ users'[u].email = users[u].email
    BY <2>1 DEF Account
  <2> QED BY <2>1, <2>2 DEF Ranks
<1> QED BY <1>1, <1>2, <1>3, <1>4, <1>5 DEF UserStep, Deleted

LEMMA RanksNext ==
    ASSUME NoSeededOperator, Types, Aging, Ranks, Next
    PROVE  Ranks'
<1>1. ASSUME NEW u \in User, users'[u] # None
      PROVE  /\ "operator" \notin users'[u].roles
             /\ Super(users'[u].roles) => users'[u].email \in Founders
  <2>1. CASE Tick
    BY <1>1, <2>1 DEF Tick, Ranks
  <2>2. CASE ~Tick
    BY <1>1, <2>2, UserSteps, RanksUsers
  <2> QED BY <2>1, <2>2
<1>2. ASSUME NEW u \in User, users'[u] # None, users[u] # None \/ u \in retired
      PROVE  users[u] # None /\ users'[u].email = users[u].email
  <2>1. CASE Tick
    BY <1>2, <2>1 DEF Tick, Aging
  <2>2. CASE ~Tick
    <3>1. UserStep(u)
      BY <2>2, UserSteps
    <3>2. users[u] # None
      BY <1>2, <3>1 DEF Aging, UserStep, Founded, Created, Updated, Deleted, Closed, Unused
    <3> QED BY <1>2, <3>1, <3>2, UserTypes
  <2> QED BY <2>1, <2>2
<1>3. ASSUME NEW s \in sessions'
      PROVE  /\ "operator" \notin s.claims.roles
             /\ users'[s.sub] # None /\ Super(s.claims.roles) => users'[s.sub].email \in Founders
  <2>1. ASSUME NEW t \in sessions, s.sub = t.sub, s.claims = t.claims
        PROVE  /\ "operator" \notin s.claims.roles
               /\ users'[s.sub] # None /\ Super(s.claims.roles) => users'[s.sub].email \in Founders
    <3>1. t.sub \in User /\ (users[t.sub] # None \/ t.sub \in retired)
      BY DEF Types, Session, Aging
    <3>2. /\ "operator" \notin t.claims.roles
          /\ users[t.sub] # None /\ Super(t.claims.roles) => users[t.sub].email \in Founders
      BY DEF Ranks
    <3> QED BY <1>2, <2>1, <3>1, <3>2
  <2>2. CASE Tick
    <3>1. PICK t \in sessions : s = [t EXCEPT !.left = @ - 1]
      BY <2>2 DEF Tick
    <3>2. s.sub = t.sub /\ s.claims = t.claims
      BY <3>1 DEF Types, Session
    <3> QED BY <2>1, <3>2
  <2>3. CASE s \in sessions
    BY <2>1, <2>3
  <2>4. CASE Issued(s)
    <3>1. s.sub \in User /\ Available(s.sub) /\ s.claims.roles = users[s.sub].roles
      BY <2>4, IssuedSessions DEF Session
    <3>2. users[s.sub] # None
      BY <3>1 DEF Available
    <3>3. /\ "operator" \notin s.claims.roles
          /\ Super(s.claims.roles) => users[s.sub].email \in Founders
      BY <3>1, <3>2 DEF Ranks
    <3> QED BY <1>2, <3>1, <3>2, <3>3
  <2> QED BY <2>2, <2>3, <2>4, SessionSteps
<1>4. ASSUME NEW h \in Handler, pending'[h] # None,
             \/ pending'[h].op = "create"
             \/ pending'[h].op = "update" /\ "roles" \in pending'[h].writes
      PROVE  ~Super(pending'[h].account.roles)
  <2>1. PendingStep(h)
    BY PendingSteps
  <2>2. CASE pending'[h] = pending[h]
    BY <1>4, <2>2 DEF Ranks, NoSuperRequests
  <2>3. CASE ReadCreate(pending'[h]) \/ ReadUpdate(pending'[h])
    BY <2>3, ReadsRank
  <2>4. CASE ReadDelete(pending'[h])
    BY <1>4, <2>4 DEF ReadDelete
  <2> QED BY <1>4, <2>1, <2>2, <2>3, <2>4 DEF PendingStep
<1> QED BY <1>1, <1>3, <1>4 DEF Ranks, NoSuperRequests

(* Whatever administrators, however many, grant one another, nobody        *)
(* reaches the superadmin's tier unless the start-up put him there or      *)
(* seeded an operator: NoNewSuperusers.                                    *)
THEOREM SuperusersAreFounders == Spec => []NoNewSuperusers
<1>1. ASSUME Init, NoSeededOperator PROVE Ranks
  <2>1. DOMAIN FirstRow = DOMAIN Demo \cup {Superadmin}
    BY AccountsAssumption DEF Injection
  <2>2. [u \in User |-> None] \in [User -> Account \cup {None}]
    OBVIOUS
  <2>3. \A u \in User : users[u] = None \/ FoundingRoles(users[u])
    BY <1>1, <2>1, <2>2, InsertedAccounts DEF Init
  <2> QED BY <1>1, <2>3, FoundersRank DEF Init, Ranks, NoSuperRequests
<1>2. ASSUME Types, Aging, NoSeededOperator => Ranks, [Next]_vars
      PROVE  (NoSeededOperator => Ranks)'
  <2>1. CASE UNCHANGED vars
    BY <1>2, <2>1 DEF vars, Ranks, NoSuperRequests, NoSeededOperator
  <2>2. CASE Next
    BY <1>2, <2>2, RanksNext DEF NoSeededOperator
  <2> QED BY <1>2, <2>1, <2>2
<1>3. Init => Aging
  BY DEF Init, Aging, Available
<1>4. ASSUME Types, Aging, [Next]_vars PROVE Aging'
  <2>1. CASE UNCHANGED vars
    BY <1>4, <2>1 DEF vars, Aging, Available
  <2> QED BY <1>4, <2>1, AgingNext
<1>5. (NoSeededOperator => Ranks) => NoNewSuperusers
  BY DEF Ranks, NoNewSuperusers, NoSeededOperator
<1>6. Init => (NoSeededOperator => Ranks)
  BY <1>1
<1> QED BY <1>2, <1>3, <1>4, <1>5, <1>6, TypesHold, PTL DEF Spec

(* CreatedWithinCreator rests on what a creation was checked against: the  *)
(* claims it was asked with, which the request carries to its commit.      *)
Delegated ==
    \A h \in Handler : pending[h] # None /\ pending[h].op = "create" =>
       ScopeCovers(pending[h].by, pending[h].account.scope)

LEMMA DelegatedNext ==
    ASSUME Types, Delegated, Next
    PROVE  Delegated'
<1>1. ASSUME NEW h \in Handler, pending'[h] # None, pending'[h].op = "create"
      PROVE  ScopeCovers(pending'[h].by, pending'[h].account.scope)
  <2>1. PendingStep(h)
    BY PendingSteps
  <2>2. CASE pending'[h] = pending[h]
    BY <1>1, <2>2 DEF Delegated
  <2>3. CASE ReadCreate(pending'[h])
    <3>1. PICK s \in sessions : \E e \in Employee : \E g \in Grant :
             /\ CanManage(s.claims, g.roles, g.scope)
             /\ pending'[h] = [op |-> "create", by |-> s.claims,
                               account |-> FreshAccount(e, g, e), hire |-> Hire(e)]
      BY <2>3 DEF ReadCreate
    <3>2. PICK e \in Employee : \E g \in Grant :
             /\ CanManage(s.claims, g.roles, g.scope)
             /\ pending'[h] = [op |-> "create", by |-> s.claims,
                               account |-> FreshAccount(e, g, e), hire |-> Hire(e)]
      BY <3>1
    <3>3. PICK g \in Grant :
             /\ CanManage(s.claims, g.roles, g.scope)
             /\ pending'[h] = [op |-> "create", by |-> s.claims,
                               account |-> FreshAccount(e, g, e), hire |-> Hire(e)]
      BY <3>2
    <3>4. ScopeCovers(s.claims, g.scope)
      BY <3>3 DEF CanManage
    <3>5. pending'[h].by = s.claims /\ pending'[h].account.scope = g.scope
      BY <3>3 DEF FreshAccount
    <3> QED BY <3>4, <3>5
  <2>4. CASE ReadUpdate(pending'[h])
    <3>1. PICK s \in sessions, u \in User, cols \in Columns :
             \E new \in Changed(u, cols) :
                pending'[h] = [op |-> "update", user |-> u, account |-> new,
                               writes |-> {col \in cols : new[col] # users[u][col]}]
      BY <2>4 DEF ReadUpdate
    <3>2. PICK new \in Changed(u, cols) :
             pending'[h] = [op |-> "update", user |-> u, account |-> new,
                            writes |-> {col \in cols : new[col] # users[u][col]}]
      BY <3>1
    <3>3. pending'[h].op = "update"
      BY <3>2
    <3> QED BY <1>1, <3>3
  <2>5. CASE ReadDelete(pending'[h])
    BY <1>1, <2>5 DEF ReadDelete
  <2> QED BY <1>1, <2>1, <2>2, <2>3, <2>4, <2>5 DEF PendingStep
<1> QED BY <1>1 DEF Delegated

(* An account that a commit creates shows no row that its creator's        *)
(* session did not, whatever happened to the creator between the check and *)
(* the commit: CreatedWithinCreator.                                       *)
THEOREM CreationsAreDelegated == Spec => CreatedWithinCreator
<1>1. Init => Delegated
  BY DEF Init, Delegated
<1>2. ASSUME Types, Delegated, [Next]_vars PROVE Delegated'
  <2>1. CASE UNCHANGED vars
    BY <1>2, <2>1 DEF vars, Delegated
  <2> QED BY <1>2, <2>1, DelegatedNext
<1> DEFINE Covered ==
       \A u \in User : users[u] = None /\ users'[u] # None /\ users'[u].email \in Employee =>
          \E h \in Handler :
             /\ pending[h] # None /\ pending[h].op = "create"
             /\ \A row \in Row : Sees(Stored(users'[u]), row) => Sees(pending[h].by, row)
<1>3. ASSUME Types, Delegated, Next PROVE Covered
  <2>1. ASSUME NEW u \in User, users[u] = None, users'[u] # None, users'[u].email \in Employee
        PROVE  \E h \in Handler :
                  /\ pending[h] # None /\ pending[h].op = "create"
                  /\ \A row \in Row : Sees(Stored(users'[u]), row) => Sees(pending[h].by, row)
    <3>1. ~Tick /\ UserStep(u)
      BY <1>3, <2>1, UserSteps DEF Tick
    <3>2. ~Founded(u)
      BY <2>1, AccountsAssumption DEF Founded, FoundingRoles
    <3>3. Created(u)
      BY <2>1, <3>1, <3>2 DEF UserStep, Updated, Deleted, Closed
    <3>4. PICK h \in Handler : /\ pending[h] # None /\ pending[h].op = "create"
                               /\ users'[u] = pending[h].account
      BY <3>3 DEF Created
    <3>5. ScopeCovers(pending[h].by, users'[u].scope)
      BY <1>3, <3>4 DEF Delegated
    <3>6. \A row : Sees(Stored(users'[u]), row) => Sees(pending[h].by, row)
      BY <3>5, CoversNarrows DEF Stored
    <3> QED BY <3>4, <3>6
  <2> QED BY <2>1
<1>4. Types /\ Delegated /\ [Next]_vars => [Covered]_vars
  BY <1>3
<1> HIDE DEF Covered
<1>5. Spec => [][Covered]_vars
  BY <1>1, <1>2, <1>4, TypesHold, PTL DEF Spec
<1> QED BY <1>5 DEF Covered, CreatedWithinCreator

(***************************************************************************)
(* The HR feed.                                                            *)
(***************************************************************************)

LEMMA OwnIds ==
    ASSUME NEW r \in SyncRecord
    PROVE  OwnId(r) \in Identifier
<1>1. r.emp \in Number
  BY PersonnelAssumption DEF SyncRecord
<1>2. Classify(r.emp) \in {"persal", "internal_hr", None}
  BY DEF Classify
<1> QED BY <1>1, <1>2 DEF OwnId, Identifier, Scheme

LEMMA Bound ==
    ASSUME NEW is, NEW binds \in [Identifier -> Employee \cup {None}], NEW id, NEW emp \in Employee
    PROVE  Bind(is, binds, id, emp) \in [Identifier -> Employee \cup {None}]
BY DEF Bind

LEMMA WithPersals ==
    ASSUME NEW is, NEW binds \in [Identifier -> Employee \cup {None}], NEW r \in SyncRecord
    PROVE  WithPersal(is, binds, r) \in [Identifier -> Employee \cup {None}]
<1>1. r.emp \in Employee
  BY DEF SyncRecord
<1> QED BY <1>1, Bound DEF WithPersal

(* A feed stays one with the next record dealt with.                       *)
LEMMA UpsertedFeeds ==
    ASSUME NEW w \in Feed, w.rest # <<>>, NEW ps \in [Employee -> Person \cup {None}], NEW is,
           NEW linked \in SUBSET User
    PROVE  /\ Head(w.rest) \in SyncRecord
           /\ Upsert(w, Head(w.rest), ps, is, linked) \in Feed
<1> DEFINE r == Head(w.rest)
           v == Upsert(w, r, ps, is, linked)
<1>1. w.rest \in Seq(SyncRecord) /\ Len(w.rest) > 0
  BY DEF Feed
<1>2. r \in SyncRecord /\ Tail(w.rest) \in Seq(SyncRecord)
  BY <1>1
<1> HIDE DEF r
<1>3. /\ r.emp \in Employee /\ r.leaver \in BOOLEAN
      /\ RowOf(r) \in Person
  BY <1>2 DEF SyncRecord, RowOf, Person
<1> DEFINE bs == Bind(is, WithPersal(is, w.binds, r), OwnId(r), r.emp)
           old == [w.old EXCEPT ![r.emp] = ps[r.emp]]
           rows == [w.rows EXCEPT ![r.emp] = RowOf(r)]
           closes == IF r.leaver THEN w.closes \cup linked ELSE w.closes
<1>4. bs \in [Identifier -> Employee \cup {None}]
  <2>1. w.binds \in [Identifier -> Employee \cup {None}]
    BY DEF Feed
  <2> QED BY <1>2, <1>3, <2>1, WithPersals, Bound
<1>5. /\ old \in [Employee -> Person \cup {None}] /\ rows \in [Employee -> Person \cup {None}]
      /\ closes \subseteq User /\ w.seen \cup {r.emp} \subseteq Employee
  BY <1>3 DEF Feed
<1>6. v = [w EXCEPT !.rest = Tail(w.rest), !.seen = w.seen \cup {r.emp}, !.old = old,
                    !.rows = rows, !.binds = bs, !.closes = closes]
  BY DEF Upsert, Feed
<1> HIDE DEF bs, old, rows, closes, v
<1>7. v \in Feed
  BY <1>2, <1>4, <1>5, <1>6 DEF Feed
<1> QED BY <1>2, <1>7 DEF r, v

(* What one step may do to the feed f.                                     *)
RacedBy(f, u) == feed[f] # None /\ feed'[f] = [feed[f] EXCEPT !.raced = @ \cup {u}]

Upserted(f) ==
    /\ feed[f] # None /\ feed[f].rest # <<>>
    /\ feed'[f] = Upsert(feed[f], Head(feed[f].rest), persons, ids, Linked(Head(feed[f].rest).emp))
    /\ UNCHANGED users

FeedStep(f) ==
    \/ feed'[f] = None \/ feed'[f] = feed[f]
    \/ \E u \in User : RacedBy(f, u)
    \/ \E s \in sessions, b \in Batch : feed'[f] = NewFeed(s.claims, b)
    \/ /\ feed[f] # None /\ feed[f].rest # <<>>
       /\ feed'[f] = [feed[f] EXCEPT !.rest = Tail(@), !.seen = @ \cup {Head(feed[f].rest).emp}]
    \/ Upserted(f)

(* An account is opened or linked under the eyes of every feed.            *)
AccountStep(u) ==
    \/ users'[u] = users[u] \/ users'[u] = None \/ ~users'[u].active
    \/ \A f \in Feeder : feed'[f] = None \/ RacedBy(f, u)

Feeds == feed' = [f \in Feeder |-> feed'[f]]

LEMMA FeedSteps ==
    ASSUME TypeOK, Next
    PROVE  Feeds /\ (\A f \in Feeder : FeedStep(f)) /\ (\A u \in User : AccountStep(u))
<1> DEFINE Goal == Feeds /\ (\A f \in Feeder : FeedStep(f)) /\ (\A u \in User : AccountStep(u))
<1> SUFFICES Goal
  OBVIOUS
<1>0. Types /\ feed = [f \in Feeder |-> feed[f]]
  BY DEF TypeOK, Types
<1>1. ASSUME UNCHANGED <<users, feed>> PROVE Goal
  BY <1>0, <1>1 DEF Feeds, FeedStep, AccountStep
<1>2. ASSUME NEW f \in Feeder, NEW w, feed' = [feed EXCEPT ![f] = w], UNCHANGED users,
             feed'[f] = w => FeedStep(f)
      PROVE  Goal
  <2>1. Feeds /\ \A g \in Feeder \ {f} : feed'[g] = feed[g]
    BY <1>0, <1>2 DEF Feeds
  <2>2. feed'[f] = w
    BY <1>0, <1>2
  <2> QED BY <1>2, <2>1, <2>2 DEF FeedStep, AccountStep
<1>3. ASSUME NEW u \in User, Race(u), \A v \in User \ {u} : users'[v] = users[v] PROVE Goal
  <2>1. Feeds /\ \A f \in Feeder : feed'[f] = None \/ RacedBy(f, u)
    BY <1>3 DEF Race, Feeds, RacedBy
  <2> QED BY <1>3, <2>1 DEF FeedStep, AccountStep
<1>4. ASSUME NEW h \in Handler, CreateCommit(h) PROVE Goal
  <2>1. \/ UNCHANGED <<users, feed>>
        \/ \E u \in Unused : users' = [users EXCEPT ![u] = pending[h].account] /\ Race(u)
    BY <1>4 DEF CreateCommit
  <2>2. ASSUME NEW u \in Unused, users' = [users EXCEPT ![u] = pending[h].account], Race(u)
        PROVE  Goal
    <3>1. u \in User /\ \A v \in User \ {u} : users'[v] = users[v]
      BY <1>0, <2>2 DEF Unused, Types
    <3> HIDE DEF Goal
    <3> QED BY <1>3, <2>2, <3>1
  <2> HIDE DEF Goal
  <2> QED BY <1>1, <2>1, <2>2
<1>5. ASSUME NEW h \in Handler, UpdateCommit(h) PROVE Goal
  <2> DEFINE r == pending[h]
             m == Merged(users[r.user], r.account, r.writes)
  <2>1. r.user \in User
    BY <1>0, <1>5, PendingAccounts DEF UpdateCommit
  <2>2. Race(r.user) /\ (users' = users \/ users' = [users EXCEPT ![r.user] = m])
    BY <1>5 DEF UpdateCommit
  <2>3. \A v \in User \ {r.user} : users'[v] = users[v]
    BY <1>0, <2>1, <2>2 DEF Types
  <2> HIDE DEF r, m, Goal
  <2> QED BY <1>3, <2>1, <2>2, <2>3
<1>6. ASSUME NEW h \in Handler, DeleteCommit(h) PROVE Goal
  <2> DEFINE x == pending[h].user
  <2>1. users' = [users EXCEPT ![x] = None] /\ feed' = feed
    BY <1>6 DEF DeleteCommit
  <2>2. x \in User
    BY <1>0, <1>6, PendingAccounts DEF DeleteCommit
  <2> HIDE DEF x
  <2>3. \A u \in User : users'[u] = users[u] \/ users'[u] = None
    BY <2>1, <2>2
  <2> QED BY <1>0, <2>1, <2>3 DEF Feeds, FeedStep, AccountStep
<1>7. ASSUME Restart PROVE Goal
  BY <1>7 DEF Restart, Feeds, FeedStep, AccountStep
<1>8. ASSUME NEW f \in Feeder, FeedCommit(f) PROVE Goal
  <2>1. feed' = [feed EXCEPT ![f] = None] /\ users' = Close(users, feed[f].closes)
           /\ \A u \in feed[f].closes : users[u] # None
    BY <1>8 DEF FeedCommit
  <2>2. ASSUME NEW u \in User PROVE users'[u] = users[u] \/ ~users'[u].active
    BY <1>0, <2>1 DEF Close, Types, Account
  <2> QED BY <1>0, <2>1, <2>2 DEF Feeds, FeedStep, AccountStep
<1>9. ASSUME NEW f \in Feeder, Feeding(f) PROVE Goal
  <2>1. CASE \E s \in sessions, b \in Batch : FeedStart(f, s, b)
    BY <1>2, <2>1 DEF FeedStart, FeedStep
  <2>2. CASE FeedSkips(f)
    <3> DEFINE w == [feed[f] EXCEPT !.rest = Tail(@), !.seen = @ \cup {Head(feed[f].rest).emp}]
    <3>1. feed' = [feed EXCEPT ![f] = w] /\ UNCHANGED users
      BY <1>0, <2>2 DEF FeedSkips
    <3>2. feed[f] # None /\ feed[f].rest # <<>>
      BY <2>2 DEF FeedSkips
    <3>3. feed'[f] = w => FeedStep(f)
      BY <3>2 DEF FeedStep
    <3> HIDE DEF w
    <3> QED BY <1>2, <3>1, <3>3
  <2>3. CASE FeedUpserts(f)
    <3> DEFINE w == Upsert(feed[f], Head(feed[f].rest), persons, ids,
                           Linked(Head(feed[f].rest).emp))
    <3>1. feed' = [feed EXCEPT ![f] = w] /\ UNCHANGED users
      BY <2>3 DEF FeedUpserts
    <3>2. feed[f] # None /\ feed[f].rest # <<>>
      BY <2>3 DEF FeedUpserts
    <3>3. feed'[f] = w => FeedStep(f)
      BY <3>1, <3>2 DEF FeedStep, Upserted
    <3> HIDE DEF w
    <3> QED BY <1>2, <3>1, <3>3
  <2>4. CASE FeedFails(f)
    BY <1>2, <2>4 DEF FeedFails, FeedStep
  <2> QED BY <1>8, <1>9, <2>1, <2>2, <2>3, <2>4 DEF Feeding
<1> HIDE DEF Goal
<1>10. ASSUME NEW h \in Handler, Handling(h) PROVE Goal
  <2>1. ASSUME NEW s, NEW e, NEW g, CreateRead(h, s, e, g) PROVE Goal
    BY <1>1, <2>1 DEF CreateRead, Take
  <2>2. ASSUME NEW s, NEW u, NEW cols, NEW new, UpdateRead(h, s, u, cols, new) PROVE Goal
    BY <1>1, <2>2 DEF UpdateRead, Take
  <2>3. ASSUME NEW s, NEW u, DeleteRead(h, s, u) PROVE Goal
    BY <1>1, <2>3 DEF DeleteRead, Take
  <2> QED BY <1>4, <1>5, <1>6, <1>10, <2>1, <2>2, <2>3 DEF Handling
<1>11. CASE \E u \in User, t \in Targets : Login(u, t) \/ DemoLogin(u, t)
  BY <1>1, <1>11 DEF Login, DemoLogin, Issue
<1>12. CASE \E s \in sessions, t \in Targets : SwitchTenant(s, t)
  BY <1>1, <1>12 DEF SwitchTenant, Issue
<1>13. CASE Tick
  BY <1>1, <1>13 DEF Tick
<1>14. CASE \E s \in sessions, e \in Employee : Import(s, e)
  BY <1>1, <1>14 DEF Import
<1> QED BY <1>7, <1>9, <1>10, <1>11, <1>12, <1>13, <1>14 DEF Next

LEMMA FeedTypes ==
    ASSUME TypeOK, NEW f \in Feeder, FeedStep(f)
    PROVE  feed'[f] \in Feed \cup {None}
<1>1. feed[f] \in Feed \cup {None}
  BY DEF TypeOK
<1>2. CASE feed'[f] = None \/ feed'[f] = feed[f]
  BY <1>1, <1>2
<1>3. ASSUME NEW u \in User, RacedBy(f, u) PROVE feed'[f] \in Feed
  BY <1>1, <1>3 DEF RacedBy, Feed
<1>4. ASSUME NEW s \in sessions, NEW b \in Batch, feed'[f] = NewFeed(s.claims, b)
      PROVE  feed'[f] \in Feed
  <2>1. s.claims \in Claims /\ b \in Seq(SyncRecord)
    BY AccountsAssumption DEF TypeOK, Session
  <2> QED BY <1>4, <2>1 DEF NewFeed, Feed
<1>5. CASE /\ feed[f] # None /\ feed[f].rest # <<>>
           /\ feed'[f] = [feed[f] EXCEPT !.rest = Tail(@),
                                         !.seen = @ \cup {Head(feed[f].rest).emp}]
  <2>1. feed[f] \in Feed /\ feed[f].rest \in Seq(SyncRecord)
    BY <1>1, <1>5 DEF Feed
  <2>2. Head(feed[f].rest) \in SyncRecord /\ Tail(feed[f].rest) \in Seq(SyncRecord)
    BY <1>5, <2>1
  <2> DEFINE x == Tail(feed[f].rest)
             y == feed[f].seen \cup {Head(feed[f].rest).emp}
  <2>3. Head(feed[f].rest).emp \in Employee
    BY <2>2 DEF SyncRecord
  <2>4. x \in Seq(SyncRecord) /\ y \in SUBSET Employee
    BY <2>1, <2>2, <2>3 DEF Feed
  <2>5. feed'[f] = [feed[f] EXCEPT !.rest = x, !.seen = y]
    BY <1>5
  <2> HIDE DEF x, y
  <2>6. [feed[f] EXCEPT !.rest = x, !.seen = y] \in Feed
    BY <2>1, <2>4 DEF Feed
  <2> QED BY <2>5, <2>6
<1>6. CASE Upserted(f)
  <2>1. Linked(Head(feed[f].rest).emp) \in SUBSET User
    BY DEF Linked
  <2>2. feed[f] \in Feed /\ feed[f].rest # <<>>
    BY <1>1, <1>6 DEF Upserted
  <2>3. persons \in [Employee -> Person \cup {None}]
    BY DEF TypeOK
  <2>4. feed'[f] = Upsert(feed[f], Head(feed[f].rest), persons, ids,
                          Linked(Head(feed[f].rest).emp))
    BY <1>6 DEF Upserted
  <2> DEFINE linked == Linked(Head(feed[f].rest).emp)
             v == Upsert(feed[f], Head(feed[f].rest), persons, ids, linked)
  <2>5. linked \in SUBSET User /\ feed'[f] = v
    BY <2>1, <2>4
  <2> HIDE DEF linked
  <2>6. v \in Feed
    BY <2>2, <2>3, <2>5, UpsertedFeeds
  <2> HIDE DEF v
  <2> QED BY <2>5, <2>6
<1> QED BY <1>2, <1>3, <1>4, <1>5, <1>6 DEF FeedStep

LEMMA Recorded ==
    ASSUME NEW is \in [Identifier -> Employee \cup {None}],
           NEW id \in Identifier, NEW emp \in Employee
    PROVE  /\ Record(is, id, emp) \in [Identifier -> Employee \cup {None}]
           /\ Recordable(is, id, emp) =>
                 \A i \in Identifier : is[i] # None => Record(is, id, emp)[i] = is[i]
BY DEF Record, Recordable

LEMMA HiredPersons ==
    ASSUME NEW e \in Employee, External[e] # None, NEW grant, grant.scope \in Scope
    PROVE  Hired(e, grant) \in Person /\ <<External[e].scheme, e>> \in Identifier
<1>1. /\ External[e].scheme \in {"persal", "sap_personnel"}
      /\ External[e].dept \in Department
      /\ External[e].branch \in Branch \cup {None}
  BY PersonnelAssumption
<1>2. e \in Number
  BY PersonnelAssumption
<1>3. /\ grant.scope.depts # {} => (CHOOSE d \in grant.scope.depts : TRUE) \in Department
      /\ grant.scope.branches # {} => (CHOOSE b \in grant.scope.branches : TRUE) \in Branch
  BY DEF Scope
<1> QED BY <1>1, <1>2, <1>3 DEF Hired, Person, Identifier, Scheme

(* What one step may do to the directory and to the identifiers.           *)
Engaged(e, grant) ==
    /\ Hire(e) /\ grant.scope \in Scope
    /\ persons' = [persons EXCEPT ![e] = Hired(e, grant)]
    /\ ids' = Record(ids, <<External[e].scheme, e>>, e)

DirectoryStep ==
    \/ UNCHANGED <<persons, ids>>
    \/ \E e \in Employee : \E grant : Engaged(e, grant)
    \/ \E f \in Feeder : FeedCommit(f)

LEMMA DirectorySteps ==
    ASSUME TypeOK, Next
    PROVE  DirectoryStep /\ served' \in 0 .. MaxRequests
<1> DEFINE Goal == DirectoryStep /\ served' \in 0 .. MaxRequests
<1> SUFFICES Goal
  OBVIOUS
<1>a. Types /\ served \in 0 .. MaxRequests /\ MaxRequests \in Nat
  BY AccountsAssumption DEF TypeOK, Types
<1>b. served < MaxRequests => served + 1 \in 0 .. MaxRequests
  BY <1>a
<1>1. ASSUME UNCHANGED <<persons, ids, served>> PROVE Goal
  BY <1>1, <1>a DEF DirectoryStep
<1>2. ASSUME UNCHANGED <<persons, ids>>, served < MaxRequests, served' = served + 1 PROVE Goal
  BY <1>2, <1>b DEF DirectoryStep
<1>3. ASSUME NEW u, NEW t, Login(u, t) \/ DemoLogin(u, t) PROVE Goal
  BY <1>1, <1>3 DEF Login, DemoLogin, Issue
<1>4. ASSUME NEW s, NEW t, SwitchTenant(s, t) PROVE Goal
  BY <1>1, <1>4 DEF SwitchTenant, Issue
<1>5. ASSUME Tick PROVE Goal
  BY <1>1, <1>5 DEF Tick
<1>6. ASSUME NEW h, NEW s, NEW r, Authorised(s), Take(h, r) PROVE Goal
  BY <1>2, <1>6 DEF Authorised, Take
<1>7. ASSUME NEW h \in Handler, CreateCommit(h) PROVE Goal
  <2> DEFINE new == pending[h].account
             e == new.person
             g == Stored(new)
  <2>1. new \in Account
    BY <1>7, <1>a, PendingAccounts DEF CreateCommit
  <2>2. e \in Employee \cup {None} /\ g.scope \in Scope
    BY <2>1 DEF Account, Stored
  <2>3. served' = served
    BY <1>7 DEF CreateCommit
  <2>4. \/ UNCHANGED <<persons, ids>>
        \/ /\ Hire(e)
           /\ persons' = [persons EXCEPT ![e] = Hired(e, g)]
           /\ ids' = Record(ids, <<External[e].scheme, e>>, e)
    BY <1>7 DEF CreateCommit
  <2>5. CASE e \in Employee
    <3> HIDE DEF e, g
    <3> QED BY <1>1, <1>a, <2>2, <2>3, <2>4, <2>5 DEF DirectoryStep, Engaged
  <2>6. CASE e = None
    <3>1. None \notin Employee /\ ~\E x : <<x, None>> \in Identifier
      BY PersonnelAssumption DEF Identifier
    <3>2. DOMAIN persons = Employee /\ DOMAIN ids = Identifier
      BY DEF TypeOK
    <3>3. [persons EXCEPT ![e] = Hired(e, g)] = persons
      <4> HIDE DEF g
      <4> QED BY <2>6, <3>1 DEF TypeOK
    <3>4. Record(ids, <<External[e].scheme, e>>, e) = ids
      <4> DEFINE i == <<External[e].scheme, e>>
      <4>1. i \notin Identifier
        BY <2>6, <3>1
      <4> HIDE DEF i, e
      <4>2. [ids EXCEPT ![i] = e] = ids
        BY <4>1 DEF TypeOK
      <4> QED BY <4>2 DEF Record, i
    <3> HIDE DEF e, g
    <3> QED BY <1>1, <2>3, <2>4, <3>3, <3>4
  <2> QED BY <2>2, <2>5, <2>6
<1>8. ASSUME NEW h, UpdateCommit(h) \/ DeleteCommit(h) PROVE Goal
  BY <1>1, <1>8 DEF UpdateCommit, DeleteCommit
<1>9. ASSUME NEW f \in Feeder, Feeding(f) PROVE Goal
  <2>1. CASE \E s \in sessions, b \in Batch : FeedStart(f, s, b)
    BY <1>2, <2>1 DEF FeedStart, Authorised
  <2>2. CASE FeedSkips(f) \/ FeedUpserts(f) \/ FeedFails(f)
    BY <1>1, <2>2 DEF FeedSkips, FeedUpserts, FeedFails
  <2>3. CASE FeedCommit(f)
    BY <1>a, <2>3 DEF FeedCommit, DirectoryStep
  <2> QED BY <1>9, <2>1, <2>2, <2>3 DEF Feeding
<1>10. ASSUME NEW s, NEW e \in Employee, Import(s, e) PROVE Goal
  <2> DEFINE g == [roles |-> {}, scope |-> Whole]
  <2>1. served' = served + 1 /\ served < MaxRequests
    BY <1>10 DEF Import, Authorised
  <2>2. g.scope \in Scope
    BY DEF Whole, Scope
  <2>3. Engaged(e, g)
    BY <1>10, <2>2 DEF Import, Engaged
  <2> HIDE DEF g
  <2> QED BY <1>b, <2>1, <2>3 DEF DirectoryStep
<1>11. ASSUME Restart PROVE Goal
  BY <1>2, <1>11 DEF Restart
<1> HIDE DEF Goal
<1>12. ASSUME NEW h \in Handler, Handling(h) PROVE Goal
  <2>1. ASSUME NEW s, NEW e, NEW g, CreateRead(h, s, e, g) PROVE Goal
    BY <1>6, <2>1 DEF CreateRead
  <2>2. ASSUME NEW s, NEW u, NEW cols, NEW new, UpdateRead(h, s, u, cols, new) PROVE Goal
    BY <1>6, <2>2 DEF UpdateRead
  <2>3. ASSUME NEW s, NEW u, DeleteRead(h, s, u) PROVE Goal
    BY <1>6, <2>3 DEF DeleteRead
  <2> QED BY <1>7, <1>8, <1>12, <2>1, <2>2, <2>3 DEF Handling
<1>13. CASE \E u \in User, t \in Targets : Login(u, t) \/ DemoLogin(u, t)
  BY <1>3, <1>13
<1>14. CASE \E s \in sessions, t \in Targets : SwitchTenant(s, t)
  BY <1>4, <1>14
<1>15. CASE \E f \in Feeder : Feeding(f)
  BY <1>9, <1>15
<1>16. CASE \E s \in sessions, e \in Employee : Import(s, e)
  BY <1>10, <1>16
<1> QED BY <1>5, <1>11, <1>12, <1>13, <1>14, <1>15, <1>16 DEF Next

LEMMA HiredDirectory ==
    ASSUME TypeOK, NEW e \in Employee, NEW grant, Engaged(e, grant)
    PROVE  /\ persons' \in [Employee -> Person \cup {None}]
           /\ ids' \in [Identifier -> Employee \cup {None}]
           /\ \A i \in Identifier : ids[i] # None => ids'[i] = ids[i]
           /\ persons[e] = None
           /\ \A f \in Employee \ {e} : persons'[f] = persons[f]
<1> DEFINE id == <<External[e].scheme, e>>
<1>1. /\ persons[e] = None /\ External[e] # None /\ Recordable(ids, id, e)
      /\ grant.scope \in Scope
  BY DEF Engaged, Hire
<1>2. Hired(e, grant) \in Person /\ id \in Identifier
  BY <1>1, HiredPersons
<1>3. ids' = Record(ids, id, e) /\ persons' = [persons EXCEPT ![e] = Hired(e, grant)]
  BY DEF Engaged
<1> HIDE DEF id
<1>4. /\ ids' \in [Identifier -> Employee \cup {None}]
      /\ \A i \in Identifier : ids[i] # None => ids'[i] = ids[i]
  BY <1>1, <1>2, <1>3, Recorded DEF TypeOK
<1> QED BY <1>1, <1>2, <1>3, <1>4 DEF TypeOK

LEMMA FedDirectory ==
    ASSUME TypeOK, NEW f \in Feeder, FeedCommit(f)
    PROVE  /\ persons' \in [Employee -> Person \cup {None}]
           /\ ids' \in [Identifier -> Employee \cup {None}]
           /\ \A i \in Identifier : ids[i] # None => ids'[i] = ids[i]
           /\ \A e \in Employee : persons[e] # None /\ persons'[e] # persons[e] =>
                 /\ feed[f].rows[e] # None
                 /\ ~persons'[e].active => ~persons[e].active \/ ~feed[f].rows[e].active
<1> DEFINE w == feed[f]
<1>1. /\ w \in Feed /\ Fits(persons, ids, w)
      /\ persons' = Written(persons, w) /\ ids' = Overlaid(ids, w.binds)
  BY DEF FeedCommit, TypeOK
<1> HIDE DEF w
<1>2. /\ w.rows \in [Employee -> Person \cup {None}] /\ w.old \in [Employee -> Person \cup {None}]
      /\ w.binds \in [Identifier -> Employee \cup {None}]
  BY <1>1 DEF Feed
<1>3. /\ ids' \in [Identifier -> Employee \cup {None}]
      /\ \A i \in Identifier : ids[i] # None => ids'[i] = ids[i]
  BY <1>1, <1>2 DEF Overlaid, Fits, TypeOK
<1>4. ASSUME NEW e \in Employee
      PROVE  /\ Written(persons, w)[e] \in Person \cup {None}
             /\ persons[e] # None /\ Written(persons, w)[e] # persons[e] =>
                   /\ w.rows[e] # None
                   /\ ~Written(persons, w)[e].active => ~persons[e].active \/ ~w.rows[e].active
  <2>1. /\ persons[e] \in Person \cup {None} /\ w.rows[e] \in Person \cup {None}
        /\ w.old[e] \in Person \cup {None}
    BY <1>2 DEF TypeOK
  <2>2. CASE w.rows[e] = None
    <3>1. Written(persons, w)[e] = persons[e]
      BY <2>2 DEF Written
    <3> QED BY <2>1, <3>1
  <2>3. CASE w.rows[e] # None /\ w.old[e] = None
    <3>1. Written(persons, w)[e] = w.rows[e]
      BY <2>3 DEF Written
    <3> QED BY <2>1, <2>3, <3>1
  <2>4. CASE w.rows[e] # None /\ w.old[e] # None
    <3> DEFINE row == Rewritten(persons[e], w.old[e], w.rows[e])
    <3>1. Written(persons, w)[e] = row
      BY <2>4 DEF Written
    <3>2. persons[e] # None
      BY <1>1, <2>4 DEF Fits
    <3>3. persons[e] \in Person => row \in Person /\ row.active \in {persons[e].active, w.rows[e].active}
      BY <2>1, <2>4 DEF Rewritten, Person
    <3> HIDE DEF row
    <3> QED BY <2>1, <2>4, <3>1, <3>2, <3>3
  <2> QED BY <2>2, <2>3, <2>4
<1>5. persons' \in [Employee -> Person \cup {None}]
  BY <1>1, <1>4 DEF Written
<1> QED BY <1>1, <1>3, <1>4, <1>5 DEF w

LEMMA TypeOKInit == Init => TypeOK
<1> SUFFICES ASSUME Init PROVE TypeOK
  OBVIOUS
<1>1. Types
  BY TypesInit
<1>2. /\ persons \in [Employee -> Person \cup {None}]
      /\ ids \in [Identifier -> Employee \cup {None}]
      /\ feed \in [Feeder -> Feed \cup {None}]
      /\ served \in 0 .. MaxRequests
  BY AccountsAssumption DEF Init
<1> QED BY <1>1, <1>2 DEF Types, TypeOK

LEMMA TypeOKNext ==
    ASSUME TypeOK, [Next]_vars
    PROVE  TypeOK'
<1>1. Types
  BY DEF TypeOK, Types
<1>2. Types'
  BY <1>1, TypesNext
<1>3. CASE UNCHANGED vars
  BY <1>3 DEF vars, TypeOK
<1>4. CASE Next
  <2>1. DirectoryStep /\ served' \in 0 .. MaxRequests
    BY <1>4, DirectorySteps
  <2>2. /\ persons' \in [Employee -> Person \cup {None}]
        /\ ids' \in [Identifier -> Employee \cup {None}]
    <3>1. CASE UNCHANGED <<persons, ids>>
      BY <3>1 DEF TypeOK
    <3>2. CASE \E e \in Employee : \E grant : Engaged(e, grant)
      BY <3>2, HiredDirectory
    <3>3. CASE \E f \in Feeder : FeedCommit(f)
      BY <3>3, FedDirectory
    <3> QED BY <2>1, <3>1, <3>2, <3>3 DEF DirectoryStep
  <2>3. feed' \in [Feeder -> Feed \cup {None}]
    BY <1>4, FeedSteps, FeedTypes DEF Feeds
  <2> QED BY <1>2, <2>1, <2>2, <2>3 DEF Types, TypeOK
<1> QED BY <1>3, <1>4

(* Rows, tokens, requests, people and identifiers of any run are well      *)
(* typed, after any sequence of feeds, imports and hires: TypeOK.          *)
THEOREM Typing == Spec => []TypeOK
<1>1. Init => TypeOK
  BY TypeOKInit
<1>2. TypeOK /\ [Next]_vars => TypeOK'
  BY TypeOKNext
<1> QED BY <1>1, <1>2, PTL DEF Spec

(* A number that is bound to a person stays that person's, whatever feeds, *)
(* imports and hires meet it again: IdentifiersNeverMove.                  *)
THEOREM IdentifiersStay == Spec => IdentifiersNeverMove
<1>1. ASSUME TypeOK, [Next]_vars
      PROVE  [\A i \in Identifier : ids[i] # None => ids'[i] = ids[i]]_vars
  <2>1. CASE UNCHANGED vars
    BY <2>1
  <2>2. CASE Next
    <3> SUFFICES \A i \in Identifier : ids[i] # None => ids'[i] = ids[i]
      OBVIOUS
    <3>1. DirectoryStep
      BY <1>1, <2>2, DirectorySteps
    <3>2. CASE UNCHANGED <<persons, ids>>
      BY <3>2
    <3>3. CASE \E e \in Employee : \E grant : Engaged(e, grant)
      BY <1>1, <3>3, HiredDirectory
    <3>4. CASE \E f \in Feeder : FeedCommit(f)
      BY <1>1, <3>4, FedDirectory
    <3> QED BY <3>1, <3>2, <3>3, <3>4 DEF DirectoryStep
  <2> QED BY <1>1, <2>1, <2>2
<1>2. TypeOK /\ [Next]_vars => [\A i \in Identifier : ids[i] # None => ids'[i] = ids[i]]_vars
  BY <1>1
<1> QED BY <1>2, Typing, PTL DEF Spec, IdentifiersNeverMove

(* SyncClosesLeavers rests on what a feed knows of the leavers it has      *)
(* dealt with: each of their open accounts it is going to close, or        *)
(* another request has written it since the feed began.                    *)
Caught ==
    \A f \in Feeder : feed[f] # None =>
       \A e \in Employee : feed[f].rows[e] # None /\ ~feed[f].rows[e].active =>
          Linked(e) \subseteq feed[f].closes \cup feed[f].raced

LEMMA CaughtNext ==
    ASSUME TypeOK, Caught, Next
    PROVE  Caught'
<1> SUFFICES ASSUME NEW f \in Feeder, feed'[f] # None,
                    NEW e \in Employee, feed'[f].rows[e] # None, ~feed'[f].rows[e].active,
                    NEW u \in User, u \in Linked(e)'
             PROVE  u \in feed'[f].closes \cup feed'[f].raced
  BY DEF Caught, Linked
<1>1. FeedStep(f) /\ AccountStep(u)
  BY FeedSteps
<1>2. users'[u] # None /\ users'[u].active /\ users'[u].person = e
  BY DEF Linked, Available
<1>3. feed[f] # None => feed[f] \in Feed
  BY DEF TypeOK
<1>4. CASE users'[u] # users[u]
  <2>1. feed[f] # None /\ feed'[f] = [feed[f] EXCEPT !.raced = @ \cup {u}]
    BY <1>1, <1>2, <1>4 DEF AccountStep, RacedBy
  <2> QED BY <1>3, <2>1 DEF Feed
<1>5. CASE users'[u] = users[u]
  <2>1. u \in Linked(e)
    BY <1>2, <1>5 DEF Linked, Available
  <2>2. CASE Upserted(f)
    <3> DEFINE r == Head(feed[f].rest)
               v == Upsert(feed[f], r, persons, ids, Linked(r.emp))
    <3>1. feed[f] # None /\ feed[f] \in Feed /\ feed[f].rest # <<>> /\ feed'[f] = v
      BY <1>3, <2>2 DEF Upserted
    <3>2. Linked(r.emp) \in SUBSET User
      BY DEF Linked
    <3>3. r \in SyncRecord
      <4>1. persons \in [Employee -> Person \cup {None}]
        BY DEF TypeOK
      <4> QED BY <3>1, <3>2, <4>1, UpsertedFeeds
    <3> DEFINE linked == Linked(r.emp)
    <3> HIDE DEF r, linked
    <3>4. feed[f] \in Feed /\ v = Upsert(feed[f], r, persons, ids, linked)
      BY <3>1 DEF r, linked
    <3> HIDE DEF v
    <3>5. /\ v.raced = feed[f].raced
          /\ v.closes = IF r.leaver THEN feed[f].closes \cup linked ELSE feed[f].closes
          /\ v.rows[e] = IF e = r.emp THEN RowOf(r) ELSE feed[f].rows[e]
      BY <3>3, <3>4 DEF Upsert, Feed, SyncRecord
    <3>6. CASE e = r.emp
      <4>1. ~RowOf(r).active /\ r.leaver \in BOOLEAN
        BY <3>1, <3>3, <3>5, <3>6 DEF SyncRecord
      <4>2. r.leaver
        BY <4>1 DEF RowOf
      <4>3. u \in linked
        BY <2>1, <3>6 DEF linked
      <4> QED BY <3>1, <3>5, <4>2, <4>3
    <3>7. CASE e # r.emp
      <4>1. u \in feed[f].closes \cup feed[f].raced
        BY <2>1, <3>1, <3>5, <3>7 DEF Caught
      <4> QED BY <3>1, <3>5, <4>1
    <3> QED BY <3>6, <3>7
  <2>3. ASSUME NEW s \in sessions, NEW b \in Batch, feed'[f] = NewFeed(s.claims, b) PROVE FALSE
    BY <2>3 DEF NewFeed
  <2>4. CASE ~Upserted(f)
    <3>1. /\ feed[f] # None /\ feed'[f].rows = feed[f].rows /\ feed'[f].closes = feed[f].closes
          /\ feed[f].raced \subseteq feed'[f].raced
      BY <1>1, <1>3, <2>3, <2>4 DEF FeedStep, RacedBy, Feed
    <3>2. u \in feed[f].closes \cup feed[f].raced
      BY <2>1, <3>1 DEF Caught
    <3> QED BY <3>1, <3>2
  <2> QED BY <2>2, <2>4
<1> QED BY <1>4, <1>5

(* In the commit that ends an employment every account of that person is   *)
(* closed that no other request has written since the feed began, whatever *)
(* the length of the feed and the record's place in it, and however many   *)
(* feeds and requests are in flight: SyncClosesLeavers.                    *)
THEOREM LeaversAreClosed == Spec => SyncClosesLeavers
<1> DEFINE Leaves(e) == /\ persons[e] # None /\ persons[e].active
                        /\ persons'[e] # None /\ ~persons'[e].active
           Shut(f, e) == /\ feed[f] # None /\ feed'[f] = None
                         /\ feed[f].rows[e] # None /\ ~feed[f].rows[e].active
                         /\ \A u \in User : users'[u] # None /\ users'[u].person = e
                                                 /\ users'[u].active => u \in feed[f].raced
           Held == \A e \in Employee : Leaves(e) => \E f \in Feeder : Shut(f, e)
<1>1. ASSUME TypeOK, Caught, [Next]_vars, ~UNCHANGED vars, NEW e \in Employee, Leaves(e)
      PROVE  \E f \in Feeder : Shut(f, e)
  <2>1. DirectoryStep
    BY <1>1, DirectorySteps
  <2>2. ~UNCHANGED <<persons, ids>>
    BY <1>1
  <2>3. ASSUME NEW x \in Employee, NEW grant, Engaged(x, grant) PROVE FALSE
    <3>1. persons[x] = None /\ \A y \in Employee \ {x} : persons'[y] = persons[y]
      BY <1>1, <2>3, HiredDirectory
    <3> QED BY <1>1, <3>1
  <2>4. PICK f \in Feeder : FeedCommit(f)
    BY <2>1, <2>2, <2>3 DEF DirectoryStep
  <2>5. feed[f].rows[e] # None /\ ~feed[f].rows[e].active
    <3>1. persons'[e] # persons[e]
      BY <1>1
    <3> QED BY <1>1, <2>4, <3>1, FedDirectory
  <2>6. /\ feed[f] # None /\ feed'[f] = None
        /\ users' = Close(users, feed[f].closes) /\ \A u \in feed[f].closes : users[u] # None
    BY <1>1, <2>4 DEF FeedCommit, TypeOK
  <2>7. ASSUME NEW u \in User, users'[u] # None, users'[u].person = e, users'[u].active
        PROVE  u \in feed[f].raced
    <3>1. u \notin feed[f].closes /\ users'[u] = users[u]
      <4>1. users[u] \in Account \cup {None}
        BY <1>1 DEF TypeOK
      <4> QED BY <2>6, <2>7, <4>1 DEF Close, Account
    <3>2. u \in Linked(e)
      BY <2>7, <3>1 DEF Linked, Available
    <3> QED BY <1>1, <2>5, <2>6, <3>1, <3>2 DEF Caught
  <2> QED BY <2>5, <2>6, <2>7
<1>2. Init => Caught
  BY DEF Init, Caught
<1>3. TypeOK /\ Caught /\ [Next]_vars => Caught'
  <2>1. CASE UNCHANGED vars
    BY <2>1 DEF vars, Caught, Linked, Available
  <2> QED BY <2>1, CaughtNext
<1>4. TypeOK /\ Caught /\ [Next]_vars => [Held]_vars
  BY <1>1
<1>5. SyncClosesLeavers <=> [][Held]_vars
  BY PTL DEF SyncClosesLeavers
<1> HIDE DEF Held
<1> QED BY <1>2, <1>3, <1>4, <1>5, Typing, PTL DEF Spec
=============================================================================
