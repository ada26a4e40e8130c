---------------------------- MODULE MCAccounts ----------------------------
(* The instance of Accounts that TLC checks.                               *)
EXTENDS Accounts, TLC

MCParent == [b \in Branch |-> "dha"]

MCProvinceDepts == [p \in Province |-> {"gp-health"}]

At(depts, branches, provs) == [depts |-> depts, branches |-> branches, provs |-> provs]

MCDemo == ("demo" :> [roles |-> {"dept-admin"}, scope |-> At({"dha"}, {}, {})])

MCFirstRow == ("root" :> 1 @@ "demo" :> 2)

MCGrant == {[roles |-> {"admin"}, scope |-> Whole],
            [roles |-> {"transversal-admin"}, scope |-> Whole],
            [roles |-> {"soc"}, scope |-> At({"dha"}, {"dha-digital"}, {})]}

(* A department and a province.                                            *)
MCAsked == {At({"dha"}, {}, {}), At({}, {}, {"gp"})}

MCShapeOf == [n \in Number |-> IF n = "emp1" THEN "emp_prefixed" ELSE "eight_digits"]

(* The employee 80000003 is known to PERSAL.                               *)
MCExternal == [e \in Employee |->
    IF e = "80000003" THEN [scheme |-> "persal", dept |-> "dha", branch |-> None] ELSE None]

Rec(emp, persal, leaver) ==
    [emp |-> emp, persal |-> persal, dept |-> "dha", branch |-> None, leaver |-> leaver]

(* The directory: emp1.                                                    *)
MCStaff == [e \in Employee |->
    IF e = "emp1" THEN [active |-> TRUE, dept |-> "dha", branch |-> None] ELSE None]

MCStaffNumbers == [i \in Identifier |-> IF i = <<"internal_hr", "emp1">> THEN "emp1" ELSE None]

(* Feeds that end emp1's employment.  The PERSAL number of the first is    *)
(* malformed and skipped; that of the second is another employee's, so     *)
(* that it is skipped if taken, and otherwise the first feed, or that      *)
(* employee's hire, finds it taken.                                        *)
MCBatch == {<<Rec("emp1", "emp1", TRUE), Rec("80000003", None, FALSE)>>,
            <<Rec("emp1", "80000003", TRUE)>>}
===========================================================================
