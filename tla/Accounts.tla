------------------------------ MODULE Accounts ------------------------------
(***************************************************************************)
(* Accounts, sessions and the HR feed of the API process: the handlers of  *)
(* app/api/routers/auth.py and admin.py on identity.users, identity.persons*)
(* and identity.employment_identifier.                                     *)
(*                                                                         *)
(* A session is a signed token: nothing reads the account again while it   *)
(* is presented, so what an account may do and what its sessions may do    *)
(* drift apart until the token expires.  An administrator's request reads  *)
(* and checks, then commits: other requests commit in between.             *)
(***************************************************************************)
EXTENDS Personnel, FiniteSets, FiniteSetsExt

CONSTANTS
    Superadmin,         \* the email of the bootstrapped account
    Demo,               \* the seeded demonstration accounts: email -> [roles, scope]
    Grant,              \* the roles and scopes administrators ask for
    FirstRow,           \* the rows of the accounts of the first start
    Staff,              \* the directory at the first start: employee -> person or None
    StaffNumbers,       \* its identifiers: <<scheme, value>> -> employee or None
    Batch,              \* the HR feeds pushed
    Asked,              \* the scopes asked for at login and tenant switch
    Handler,            \* requests of administrators in flight
    Feeder,             \* HR feeds in flight
    TTL,                \* ticks a token lives
    MaxSessions,        \* bound: tokens alive at once
    MaxRequests         \* bound: administrator requests, feeds and restarts

Email == Employee \cup DOMAIN Demo \cup {Superadmin}

ASSUME AccountsAssumption ==
    /\ TTL \in Nat \ {0}
    /\ MaxSessions \in Nat /\ MaxRequests \in Nat
    /\ Grant \subseteq [roles : SUBSET Role, scope : Scope]
    /\ \A e \in DOMAIN Demo : Demo[e].roles \subseteq Role /\ Demo[e].scope \in Scope
    /\ Asked \subseteq Requestable
    /\ Staff \in [Employee -> Person \cup {None}]
    /\ StaffNumbers \in [Identifier -> Employee \cup {None}]
    /\ Batch \subseteq Seq(SyncRecord)
    /\ FirstRow \in Injection(DOMAIN Demo \cup {Superadmin}, User)
    /\ Employee \cap (DOMAIN Demo \cup {Superadmin}) = {}

Account == [email : Email, roles : SUBSET Role, scope : Scope, active : BOOLEAN,
            person : Employee \cup {None}]

(* A pending request: who asks, and what its commit will write.            *)
Pending ==
    [op : {"create"}, by : Claims, account : Account, hire : BOOLEAN]
    \cup [op : {"update"}, user : User, writes : {{"roles"}, {"scope"}, {"active"},
              {"person"}, {"roles", "scope"}, {}}, account : Account]
    \cup [op : {"delete"}, user : User]

ASSUME NoneAssumption == None \notin User \cup Person \cup Account \cup Pending \cup Feed

VARIABLES
    users,              \* identity.users: row id -> account, None when absent
    retired,            \* the row ids that were deleted (ids are never reused)
    persons,            \* identity.persons: employee number -> person or None
    ids,                \* identity.employment_identifier: <<scheme, value>> -> employee or None
    sessions,           \* the tokens alive: account, claims, ticks left, claims at issue
    down,               \* ticks each row has been unavailable, up to TTL
    pending,            \* the request each handler has read and not committed
    feed,               \* the HR feed each feeder has not committed
    served              \* administrator requests, feeds and restarts so far

vars == <<users, retired, persons, ids, sessions, down, pending, feed, served>>

Session == [sub : User, claims : Claims, left : 1..TTL, basis : Claims]

TypeOK ==
    /\ users \in [User -> Account \cup {None}]
    /\ retired \subseteq User
    /\ persons \in [Employee -> Person \cup {None}]
    /\ ids \in [Identifier -> Employee \cup {None}]
    /\ sessions \subseteq Session
    /\ down \in [User -> 0..TTL]
    /\ pending \in [Handler -> Pending \cup {None}]
    /\ feed \in [Feeder -> Feed \cup {None}]
    /\ served \in 0..MaxRequests

----------------------------------------------------------------------------
Available(u) == users[u] # None /\ users[u].active

(* Accounts closed or deleted.                                             *)
Gone == {u \in User : u \in retired \/ (users[u] # None /\ ~users[u].active)}

(* _scope_claims: an account's stored authority.                           *)
Stored(account) == [roles |-> account.roles, scope |-> account.scope]

(* The ticks each row has been unavailable, after the accounts become us.  *)
DownAs(us) == [u \in User |-> IF us[u] # None /\ us[u].active THEN 0 ELSE down[u]]

Holder(email) == {u \in User : users[u] # None /\ users[u].email = email}

Unused == {u \in User : users[u] = None /\ u \notin retired}

FreshAccount(email, grant, emp) ==
    [email |-> email, roles |-> grant.roles, scope |-> grant.scope, active |-> TRUE,
     person |-> emp]

(* An account with the columns cols of another.                            *)
Merged(old, new, cols) ==
    [old EXCEPT !.roles = IF "roles" \in cols THEN new.roles ELSE @,
                !.scope = IF "scope" \in cols THEN new.scope ELSE @,
                !.active = IF "active" \in cols THEN new.active ELSE @,
                !.person = IF "person" \in cols THEN new.person ELSE @]

AdminGrant == [roles |-> {"admin"}, scope |-> Whole]

(* bootstrap_superadmin: the superadmin, when there is no account at all.  *)
(* seed_demo_users: the demonstration accounts that are missing; those     *)
(* that are there are reset.                                               *)
Missing(us) ==
    LET emails == {us[u].email : u \in {v \in User : us[v] # None}}
    IN  (DOMAIN Demo \ emails) \cup (IF emails = {} THEN {Superadmin} ELSE {})

Seeded(us) ==
    [u \in User |->
        IF us[u] # None /\ us[u].email \in DOMAIN Demo
        THEN [us[u] EXCEPT !.roles = Demo[us[u].email].roles, !.scope = Demo[us[u].email].scope,
                           !.active = TRUE]
        ELSE us[u]]

(* The accounts us with the missing ones inserted, in the rows f.          *)
Inserted(us, f) ==
    [u \in User |-> IF \E e \in DOMAIN f : f[e] = u
                    THEN LET e == CHOOSE e \in DOMAIN f : f[e] = u
                         IN  FreshAccount(e, IF e = Superadmin THEN AdminGrant ELSE Demo[e], None)
                    ELSE us[u]]

Init ==
    /\ users = Inserted([u \in User |-> None], FirstRow)
    /\ retired = {}
    /\ persons = Staff
    /\ ids = StaffNumbers
    /\ sessions = {}
    /\ down = [u \in User |-> 0]
    /\ pending = [h \in Handler |-> None]
    /\ feed = [f \in Feeder |-> None]
    /\ served = 0

----------------------------------------------------------------------------
(* Sessions.                                                               *)

Issue(u, target) ==
    /\ sessions' = sessions \cup
           {[sub |-> u, left |-> TTL, basis |-> Stored(users[u]),
             claims |-> [roles |-> users[u].roles,
                         scope |-> IF target = Whole THEN users[u].scope ELSE target]]}
    /\ UNCHANGED <<users, retired, persons, ids, down, pending, feed, served>>

(* login: the account is active, and the scope asked for is the account's  *)
(* own or within it.                                                       *)
Login(u, target) ==
    /\ Cardinality(sessions) < MaxSessions
    /\ Available(u)
    /\ target = Whole \/ ScopeCovers(Stored(users[u]), target)
    /\ Issue(u, target)

(* demo_login: the same for a demonstration account, without a password.   *)
DemoLogin(u, target) ==
    /\ Cardinality(sessions) < MaxSessions
    /\ Available(u) /\ users[u].email \in DOMAIN Demo
    /\ target = Whole \/ ScopeCovers(Stored(users[u]), target)
    /\ Issue(u, target)

(* switch_tenant: a new token for a new scope.  The role is the token's;   *)
(* the entitlement and the new token's roles are the account's.            *)
SwitchTenant_TrustsToken(s, target) ==
    /\ Cardinality(sessions) < MaxSessions
    /\ s.claims.roles \cap {"admin", "transversal-admin", "operator"} # {}
    /\ users[s.sub] # None
    /\ target = Whole \/ ScopeCovers(Stored(users[s.sub]), target)
    /\ Issue(s.sub, target)

SwitchTenant(s, target) ==
    /\ Cardinality(sessions) < MaxSessions
    /\ s.claims.roles \cap {"admin", "transversal-admin", "operator"} # {}
    /\ Available(s.sub)
    /\ target = Whole \/ ScopeCovers(Stored(users[s.sub]), target)
    /\ Issue(s.sub, target)

(* A tick of the clock: a token whose time is up is refused from now on.   *)
Tick_OffByOne ==
    /\ (sessions # {} \/ \E u \in Gone : down[u] < TTL)
    /\ sessions' = {[s EXCEPT !.left = @ - 1] : s \in {t \in sessions : t.left >= 1}}
    /\ down' = [u \in User |-> IF u \in Gone /\ down[u] < TTL THEN down[u] + 1 ELSE down[u]]
    /\ UNCHANGED <<users, retired, persons, ids, pending, feed, served>>

Tick_NeverExpires ==
    /\ (sessions # {} \/ \E u \in Gone : down[u] < TTL)
    /\ sessions' = {[s EXCEPT !.left = IF @ > 1 THEN @ - 1 ELSE @] : s \in sessions}
    /\ down' = [u \in User |-> IF u \in Gone /\ down[u] < TTL THEN down[u] + 1 ELSE down[u]]
    /\ UNCHANGED <<users, retired, persons, ids, pending, feed, served>>

Tick ==
    /\ (sessions # {} \/ \E u \in Gone : down[u] < TTL)
    /\ sessions' = {[s EXCEPT !.left = @ - 1] : s \in {t \in sessions : t.left > 1}}
    /\ down' = [u \in User |-> IF u \in Gone /\ down[u] < TTL THEN down[u] + 1 ELSE down[u]]
    /\ UNCHANGED <<users, retired, persons, ids, pending, feed, served>>

----------------------------------------------------------------------------
(* Administration.  A request needs a session whose roles may write.       *)

Authorised(s) == served < MaxRequests /\ Allowed(s.claims, "admin_write")

Take(h, request) ==
    /\ served' = served + 1
    /\ pending' = [pending EXCEPT ![h] = request]
    /\ UNCHANGED <<users, retired, persons, ids, sessions, down, feed>>

Drop(h) == pending' = [pending EXCEPT ![h] = None]

(* For every feed in the making, account u has been written.               *)
Race(u) ==
    feed' = [f \in Feeder |-> IF feed[f] = None THEN None
                              ELSE [feed[f] EXCEPT !.raced = @ \cup {u}]]

(* The person an account is created for: a known one, or one an external   *)
(* HR system knows and the platform does not.                              *)
Hired(e, grant) ==
    [active |-> TRUE,
     dept |-> IF External[e].dept # None \/ grant.scope.depts = {} THEN External[e].dept
              ELSE CHOOSE d \in grant.scope.depts : TRUE,
     branch |-> IF External[e].branch # None \/ grant.scope.branches = {} THEN External[e].branch
                ELSE CHOOSE b \in grant.scope.branches : TRUE]

(* _resolve_provisioning_target for employee e, by record key, by a local  *)
(* identifier, or through the external systems.                            *)
Hire(e) == persons[e] = None /\ External[e] # None
             /\ Recordable(ids, <<External[e].scheme, e>>, e)

Target(e, grant) == IF Hire(e) THEN Hired(e, grant) ELSE persons[e]

(* create_user up to its commit: delegation, a free email, a current       *)
(* employee of the caller's tenancy in a department the account is for.    *)
CreateRead(h, s, e, grant) ==
    /\ pending[h] = None
    /\ Authorised(s)
    /\ grant.roles # {} /\ ValidBranches(grant.scope) /\ ValidScope(grant.roles, grant.scope)
    /\ CanManage(s.claims, grant.roles, grant.scope)
    /\ Holder(e) = {}
    /\ Target(e, grant) # None
    /\ Target(e, grant).active
    /\ PersonWithinScope(s.claims, Target(e, grant))
    /\ Target(e, grant).dept # None /\ grant.scope.depts \cup grant.scope.provs # {} =>
          Target(e, grant).dept \in grant.scope.depts
    /\ Take(h, [op |-> "create", by |-> s.claims, account |-> FreshAccount(e, grant, e),
                hire |-> Hire(e)])

(* The commit: the email, and a hired person's number, must still be free. *)
CreateCommit(h) ==
    /\ pending[h] # None /\ pending[h].op = "create"
    /\ LET new == pending[h].account
           e == new.person
           free == /\ Holder(new.email) = {}
                   /\ pending[h].hire => Hire(e)
       IN  IF free
           THEN /\ \E u \in Unused : users' = [users EXCEPT ![u] = new] /\ Race(u)
                /\ IF pending[h].hire
                   THEN /\ persons' = [persons EXCEPT ![e] = Hired(e, Stored(new))]
                        /\ ids' = Record(ids, <<External[e].scheme, e>>, e)
                   ELSE UNCHANGED <<persons, ids>>
           ELSE UNCHANGED <<users, persons, ids, feed>>
    /\ Drop(h)
    /\ down' = DownAs(users')
    /\ UNCHANGED <<retired, sessions, served>>

(* update_user up to its commit.  The request names some of the columns;   *)
(* authority is checked on the account as it would become, which is new.   *)
(* Only columns whose value differs from the one read are written.         *)
UpdateRead(h, s, u, cols, new) ==
    /\ pending[h] = None
    /\ Authorised(s)
    /\ users[u] # None
    /\ CanManage(s.claims, new.roles, new.scope)
    /\ "roles" \in cols => new.roles # {} /\ ValidScope(new.roles, new.scope)
    /\ ValidBranches(new.scope)
    /\ u = s.sub => new.active \/ "active" \notin cols
    /\ "person" \in cols => new.person # None /\ persons[new.person] # None
    /\ Take(h, [op |-> "update", user |-> u, account |-> new,
                writes |-> {col \in cols : new[col] # users[u][col]}])

UpdateCommit(h) ==
    /\ pending[h] # None /\ pending[h].op = "update"
    /\ LET r == pending[h]
       IN  /\ users' = IF users[r.user] = None THEN users
                       ELSE [users EXCEPT ![r.user] = Merged(@, r.account, r.writes)]
           /\ Race(r.user)
    /\ Drop(h)
    /\ down' = DownAs(users')
    /\ UNCHANGED <<retired, persons, ids, sessions, served>>

(* delete_user.                                                            *)
DeleteRead(h, s, u) ==
    /\ pending[h] = None
    /\ Authorised(s)
    /\ users[u] # None
    /\ u # s.sub
    /\ CanManage(s.claims, users[u].roles, users[u].scope)
    /\ Take(h, [op |-> "delete", user |-> u])

DeleteCommit(h) ==
    /\ pending[h] # None /\ pending[h].op = "delete"
    /\ users' = [users EXCEPT ![pending[h].user] = None]
    /\ retired' = retired \cup {pending[h].user}
    /\ Drop(h)
    /\ UNCHANGED <<persons, ids, sessions, down, feed, served>>

----------------------------------------------------------------------------
(* The HR feed: hr_sync and hr_sim_sync.  One transaction, which reads     *)
(* what has been committed record by record and commits once at the end.   *)
(* The locks and unique indexes of PostgreSQL make some of these           *)
(* interleavings wait for each other; they add none.                       *)

FeedStart(f, s, batch) ==
    /\ feed[f] = None
    /\ Authorised(s)
    /\ served' = served + 1
    /\ feed' = [feed EXCEPT ![f] = NewFeed(s.claims, batch)]
    /\ UNCHANGED <<users, retired, persons, ids, sessions, down, pending>>

FeedSkips(f) ==
    /\ feed[f] # None /\ feed[f].rest # <<>>
    /\ ~Accepted(feed[f].by, feed[f].seen, Head(feed[f].rest))
    /\ feed' = [feed EXCEPT ![f].rest = Tail(@), ![f].seen = @ \cup {Head(feed[f].rest).emp}]
    /\ UNCHANGED <<users, retired, persons, ids, sessions, down, pending, served>>

(* The open accounts of employee e.                                        *)
Linked(e) == {u \in User : Available(u) /\ users[u].person = e}

FeedUpserts_DropsRejected(f) ==
    /\ feed[f] # None /\ feed[f].rest # <<>>
    /\ LET w == feed[f]
           r == Head(w.rest)
           rejected == /\ r.persal # None
                       /\ ~Recordable(Overlaid(ids, w.binds), <<"persal", r.persal>>, r.emp)
       IN  /\ Accepted(w.by, w.seen, r)
           /\ Recordable(Overlaid(ids, WithPersal(ids, w.binds, r)), OwnId(r), r.emp)
           /\ feed' = [feed EXCEPT ![f] = Upsert(w, r, persons, ids,
                                                 IF rejected THEN {} ELSE Linked(r.emp))]
    /\ UNCHANGED <<users, retired, persons, ids, sessions, down, pending, served>>

(* An accepted record whose own number can be recorded.                    *)
FeedUpserts(f) ==
    /\ feed[f] # None /\ feed[f].rest # <<>>
    /\ LET w == feed[f]
           r == Head(w.rest)
       IN  /\ Accepted(w.by, w.seen, r)
           /\ Recordable(Overlaid(ids, WithPersal(ids, w.binds, r)), OwnId(r), r.emp)
           /\ feed' = [feed EXCEPT ![f] = Upsert(w, r, persons, ids, Linked(r.emp))]
    /\ UNCHANGED <<users, retired, persons, ids, sessions, down, pending, served>>

Close(us, rows) ==
    [u \in User |-> IF u \in rows THEN [us[u] EXCEPT !.active = FALSE] ELSE us[u]]

FeedCommit(f) ==
    /\ feed[f] # None /\ feed[f].rest = <<>>
    /\ Fits(persons, ids, feed[f])
    /\ \A u \in feed[f].closes : users[u] # None
    /\ persons' = Written(persons, feed[f])
    /\ ids' = Overlaid(ids, feed[f].binds)
    /\ users' = Close(users, feed[f].closes)
    /\ feed' = [feed EXCEPT ![f] = None]
    /\ UNCHANGED <<retired, sessions, down, pending, served>>

(* The batch fails, at any record or at the commit, and leaves nothing: an *)
(* own number that cannot be recorded is not caught, a number or a row has *)
(* been taken by another request, an account deleted, or the database is   *)
(* away.                                                                   *)
FeedFails(f) ==
    /\ feed[f] # None
    /\ feed' = [feed EXCEPT ![f] = None]
    /\ UNCHANGED <<users, retired, persons, ids, sessions, down, pending, served>>

(* import_external_hr_identity: a new person is inserted as active; of one *)
(* already here only the name and the position are updated.                *)
Import(s, e) ==
    /\ Authorised(s)
    /\ served' = served + 1
    /\ Hire(e)
    /\ persons' = [persons EXCEPT ![e] = Hired(e, [roles |-> {}, scope |-> Whole])]
    /\ ids' = Record(ids, <<External[e].scheme, e>>, e)
    /\ UNCHANGED <<users, retired, sessions, down, pending, feed>>

(* The API process restarts: requests in flight are lost, tokens are not,  *)
(* and the start-up seeds run; a failure there is logged and start-up goes *)
(* on.                                                                     *)
Restart ==
    /\ served < MaxRequests /\ served' = served + 1
    /\ pending' = [h \in Handler |-> None]
    /\ feed' = [f \in Feeder |-> None]
    /\ \/ UNCHANGED users
       \/ \E f \in Injection(Missing(users), Unused) : users' = Inserted(Seeded(users), f)
    /\ down' = DownAs(users')
    /\ UNCHANGED <<retired, persons, ids, sessions>>

----------------------------------------------------------------------------
Targets == Asked \cup {Whole}

Columns == {{"roles"}, {"scope"}, {"roles", "scope"}, {"active"}, {"person"}}

(* The account u would become with these columns of grant g.               *)
Changed(u, cols) ==
    {Merged(users[u], [roles |-> g.roles, scope |-> g.scope, active |-> a, person |-> e], cols) :
        g \in Grant, a \in BOOLEAN, e \in Employee}

Handling(h) ==
    \/ \E s \in sessions, e \in Employee, g \in Grant : CreateRead(h, s, e, g)
    \/ CreateCommit(h)
    \/ \E s \in sessions, u \in {v \in User : users[v] # None}, cols \in Columns :
          \E new \in (IF pending[h] = None /\ served < MaxRequests THEN Changed(u, cols)
                         ELSE {}) : UpdateRead(h, s, u, cols, new)
    \/ UpdateCommit(h)
    \/ \E s \in sessions, u \in User : DeleteRead(h, s, u)
    \/ DeleteCommit(h)

Feeding(f) ==
    \/ \E s \in sessions, b \in Batch : FeedStart(f, s, b)
    \/ FeedSkips(f) \/ FeedUpserts(f) \/ FeedCommit(f) \/ FeedFails(f)

Next ==
    \/ \E u \in User, t \in Targets : Login(u, t)
    \/ \E u \in User, t \in Targets : DemoLogin(u, t)
    \/ \E s \in sessions, t \in Targets : SwitchTenant(s, t)
    \/ Tick
    \/ \E h \in Handler : Handling(h)
    \/ \E f \in Feeder : Feeding(f)
    \/ \E s \in sessions, e \in Employee : Import(s, e)
    \/ Restart

Spec == Init /\ [][Next]_vars /\ WF_vars(Tick)
----------------------------------------------------------------------------
(* A session never shows a row its account's own authority, as it stood    *)
(* when the session was issued, does not show: whatever chain of logins    *)
(* and tenant switches led to it, a narrowed session is narrower.          *)
SessionWithinEntitlement ==
    \A s \in sessions, row \in Row : Sees(s.claims, row) => Sees(s.basis, row)

(* Nothing keeps a session of a closed or deleted account alive: once the  *)
(* account has been unavailable for a token's lifetime, none is left, and  *)
(* before that none can have been renewed.                                 *)
StaleAuthorityExpires ==
    \A s \in sessions : ~Available(s.sub) => s.left + down[s.sub] <= TTL

(* Delegation runs one way down: unless an operator was seeded, no         *)
(* sequence of grants, of any number of administrators, gives an account a *)
(* role at the superadmin's tier or above, or a session that has one; only *)
(* the accounts the start-up creates have it.                              *)
Super(roles) == \E r \in roles : AdminTier(r) >= 4

Founders == {Superadmin} \cup {e \in DOMAIN Demo : Super(Demo[e].roles)}

NoNewSuperusers ==
    (\A e \in DOMAIN Demo : "operator" \notin Demo[e].roles) =>
       /\ \A u \in User : users[u] # None /\ Super(users[u].roles) => users[u].email \in Founders
       /\ \A s \in sessions : users[s.sub] # None /\ Super(s.claims.roles) =>
             users[s.sub].email \in Founders

(* An account that appears at a commit shows no row its creator's session  *)
(* did not show, although the session may have expired and the creator     *)
(* been demoted or closed since the request was checked.                   *)
CreatedWithinCreator ==
    [][\A u \in User : users[u] = None /\ users'[u] # None /\ users'[u].email \in Employee =>
          \E h \in Handler :
             /\ pending[h] # None /\ pending[h].op = "create"
             /\ \A row \in Row : Sees(Stored(users'[u]), row) => Sees(pending[h].by, row)]_vars

(* A feed that ends somebody's employment closes in the same commit every  *)
(* account of theirs, wherever in the batch the record stands, but those   *)
(* that another request's commit created, reopened or linked while the     *)
(* batch was in the making.                                                *)
SyncClosesLeavers ==
    [][\A e \in Employee :
          /\ persons[e] # None /\ persons[e].active
          /\ persons'[e] # None /\ ~persons'[e].active
          => \E f \in Feeder :
                /\ feed[f] # None /\ feed'[f] = None
                /\ feed[f].rows[e] # None /\ ~feed[f].rows[e].active
                /\ \A u \in User : users'[u] # None /\ users'[u].person = e /\ users'[u].active
                                     => u \in feed[f].raced]_vars

(* A government number never moves from one person to another, whichever   *)
(* of the feed, the import and account creation meets it again.            *)
IdentifiersNeverMove ==
    [][\A i \in Identifier : ids[i] # None => ids'[i] = ids[i]]_vars

(* An account that stays unavailable ends up without a session.            *)
AuthorityDrains ==
    \A u \in User : <>[](~Available(u)) => <>[](\A s \in sessions : s.sub # u)
=============================================================================
