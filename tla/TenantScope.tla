---------------------------- MODULE TenantScope ----------------------------
(***************************************************************************)
(* Who may see and grant what: the operators of app/api/auth.py on claims, *)
(* with the role catalogue of app/tenant.py and the scope checks of the    *)
(* routers.  A scope is [depts, branches, provs]; claims are a scope with  *)
(* roles.  The tenancy tree (which branch is under which department, which *)
(* departments a province has) is a parameter.                             *)
(*                                                                         *)
(* An operator named X_Y is X with the bug Y; nothing uses it but mutation *)
(* tests of the properties.                                                *)
(***************************************************************************)
EXTENDS Integers

CONSTANTS
    Department, Branch, Province,
    Parent,             \* BRANCHES[b][1]: the department of a branch
    ProvinceDepts,      \* PROVINCE_DEPARTMENTS: the departments of a province
    None                \* an absent identifier

ASSUME TreeAssumption ==
    /\ Parent \in [Branch -> Department]
    /\ ProvinceDepts \in [Province -> SUBSET Department]
    /\ None \notin Department \cup Branch \cup Province

----------------------------------------------------------------------------
(* The role catalogue.                                                     *)

NationwideRoles == {"exec", "compliance", "sre", "admin", "transversal-admin", "operator"}

ProvincialRoles == {"province-soc-lead", "province-dept-admin", "local-appsec"}

DepartmentRoles == {"soc", "appsec", "dbsec", "dept-admin", "branch-admin"}
                       \cup ProvincialRoles

Role == NationwideRoles \cup DepartmentRoles

AdminTier(role) ==
    CASE role = "operator" -> 5
      [] role = "admin" -> 4
      [] role = "transversal-admin" -> 3
      [] role \in {"dept-admin", "province-dept-admin"} -> 2
      [] role = "branch-admin" -> 1
      [] OTHER -> 0

Operational == {r \in DepartmentRoles : AdminTier(r) = 0}

Grantable(role) ==
    CASE role = "operator" -> {"admin", "operator"}
      [] role \in {"sre", "province-dept-admin", "branch-admin"} -> Operational
      [] role = "dept-admin" -> Operational \cup {"branch-admin"}
      [] role \in {"admin", "transversal-admin"} ->
            Operational \cup {"transversal-admin", "dept-admin", "province-dept-admin",
                              "branch-admin", "exec", "compliance", "sre"}
      [] OTHER -> {}

(* ROLES_HIERARCHY: the permissions the modelled routes ask for.           *)
Permissions(role) ==
    CASE role \in {"admin", "operator"} -> {"admin_read", "admin_write", "compliance", "alerts_write"}
      [] role \in {"sre", "transversal-admin", "dept-admin", "branch-admin", "province-dept-admin"} ->
            {"admin_read", "admin_write"}
      [] role = "exec" -> {"compliance", "alerts_write"}
      [] role = "compliance" -> {"compliance"}
      [] role \in {"soc", "province-soc-lead"} -> {"alerts_write"}
      [] OTHER -> {}

----------------------------------------------------------------------------
Scope == [depts : SUBSET Department, branches : SUBSET Branch, provs : SUBSET Province]

Whole == [depts |-> {}, branches |-> {}, provs |-> {}]

Claims == [roles : SUBSET Role, scope : Scope]

Allowed(c, perm) == \E r \in c.roles : perm \in Permissions(r)

IsNationwide(c) == c.roles \cap NationwideRoles # {}

IsDepartmentScoped(c) == c.roles \cap DepartmentRoles # {}

(* The departments of a scope, its provinces expanded.                     *)
Reach(s) == s.depts \cup UNION {ProvinceDepts[p] : p \in s.provs}

Narrowed(s) == Reach(s) # {} \/ s.branches # {}

TenantConsistent(s) == \A b \in s.branches : Parent[b] \in s.depts

----------------------------------------------------------------------------
(* scope_covers: does the scope of claims c cover the target scope t?      *)
ScopeCovers_IgnoresBranches(c, t) ==
    /\ t.branches # {} => TenantConsistent(t)
    /\ IF ~Narrowed(c.scope) THEN IsNationwide(c)
       ELSE /\ Narrowed(t)
            /\ Reach(c.scope) # {} => Reach(t) \subseteq Reach(c.scope)

ScopeCovers_RoleFirst(c, t) == TenantConsistent(t) /\ (IsNationwide(c) \/ Narrowed(t))

ScopeCovers(c, t) ==
    /\ t.branches # {} => TenantConsistent(t)
    /\ IF ~Narrowed(c.scope) THEN IsNationwide(c)
       ELSE /\ Narrowed(t)
            /\ Reach(c.scope) # {} => Reach(t) \subseteq Reach(c.scope)
            /\ c.scope.branches # {} =>
                  t.branches # {} /\ t.branches \subseteq c.scope.branches

(* tenant_filter: the rows a query made with claims c can return.  A row   *)
(* carries a department and a branch, either of which may be absent (and   *)
(* an absent one is in no list).                                           *)
Row == [dept : Department \cup {None}, branch : Branch \cup {None}]

Sees(c, row) ==
    IF Narrowed(c.scope)
    THEN /\ Reach(c.scope) # {} => row.dept \in Reach(c.scope)
         /\ c.scope.branches # {} => row.branch \in c.scope.branches
    ELSE IsNationwide(c) \/ ~IsDepartmentScoped(c)

(* check_tenancy_access: may claims c ask for this department and branch?  *)
CheckTenancyAccess(c, dept, branch) ==
    \/ dept = None /\ branch = None
    \/ IsNationwide(c) /\ ~Narrowed(c.scope)
    \/ /\ dept # None /\ Reach(c.scope) # {} => dept \in Reach(c.scope)
       /\ branch # None =>
             /\ Reach(c.scope) # {} => Parent[branch] \in Reach(c.scope)
             /\ c.scope.branches # {} => branch \in c.scope.branches
             /\ dept # None => dept = Parent[branch]

OptionalSet(x) == IF x = None THEN {} ELSE {x}

(* person_within_scope: is this employee inside the tenancy of claims c?   *)
PersonWithinScope(c, person) ==
    IF person.dept = None /\ person.branch = None
    THEN IsNationwide(c) /\ c.scope = Whole
    ELSE ScopeCovers(c, [depts |-> OptionalSet(person.dept),
                         branches |-> OptionalSet(person.branch), provs |-> {}])

(* can_manage: may claims c create, change or delete an account with these *)
(* roles and this scope?                                                   *)
CanManage_PeersAllowed(c, roles, s) ==
    /\ roles \subseteq UNION {Grantable(r) : r \in c.roles} \cup c.roles
    /\ ScopeCovers(c, s)

CanManage(c, roles, s) ==
    /\ \A r \in roles :
          \/ r \in {"operator", "transversal-admin"} /\ r \in c.roles
          \/ AdminTier(r) = 0
          \/ \E mine \in c.roles : AdminTier(mine) > AdminTier(r)
    /\ roles \subseteq UNION {Grantable(r) : r \in c.roles}
    /\ ScopeCovers(c, s)

----------------------------------------------------------------------------
(* _resolve_scope: the scope asked for at login or tenant switch.  The     *)
(* requests it accepts are a department, a department with one of its      *)
(* branches, or a province; an empty request means the account's own.      *)
Requestable ==
    {[depts |-> {d}, branches |-> {}, provs |-> {}] : d \in Department}
    \cup {[depts |-> {Parent[b]}, branches |-> {b}, provs |-> {}] : b \in Branch}
    \cup {[depts |-> {}, branches |-> {}, provs |-> {p}] : p \in Province}

(* _validate_branches and _validate_scope of the administration API.       *)
ValidBranches(s) == TenantConsistent(s)

ValidScope(roles, s) ==
    /\ roles \cap DepartmentRoles # {} => s.depts \cup s.provs # {}
    /\ "branch-admin" \in roles => s.branches # {}
    /\ s.branches # {} => s.depts # {}

(* resolve_report_scope: the scope of an AI report, provinces expanded,    *)
(* and the claims its get_filter stands in for the caller's.               *)
ReportScope(c) ==
    LET depts == Reach(c.scope)
    IN  [scope |-> [c.scope EXCEPT !.depts = depts],
         nationwide |-> IsNationwide(c) /\ depts = {} /\ c.scope.branches = {}]

ReportClaims(c) ==
    [roles |-> IF ReportScope(c).nationwide THEN {"admin"} ELSE {"soc"},
     scope |-> ReportScope(c).scope]
=============================================================================
