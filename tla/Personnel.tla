----------------------------- MODULE Personnel -----------------------------
(***************************************************************************)
(* Employment identifiers (app/employment.py) and one record's journey     *)
(* through the HR pipeline of app/api/routers/admin.py.  A person is named *)
(* by its employee number, the key of the pipeline; an identifier is a     *)
(* pair <<scheme, value>> bound to at most one person.                     *)
(***************************************************************************)
EXTENDS TenantScope, Sequences

CONSTANTS
    Employee,           \* employee numbers
    Number,             \* identifier values: employee and personnel numbers
    ShapeOf,            \* the written form of each value
    External,           \* what the external HR systems know of an employee
    User                \* row ids of accounts

Shape == {"eight_digits", "emp_prefixed", "long", "alphanumeric", "sa_id", "malformed"}

Scheme == {"persal", "sap_personnel", "internal_hr"}

ASSUME PersonnelAssumption ==
    /\ Employee \subseteq Number
    /\ ShapeOf \in [Number -> Shape]
    /\ None \notin Number
    /\ External \in [Employee -> [scheme : {"persal", "sap_personnel"},
                                  dept : Department, branch : Branch \cup {None}] \cup {None}]

----------------------------------------------------------------------------
(* The schemes whose pattern a value of this shape matches.                *)
Matches(shape) ==
    CASE shape = "eight_digits" -> Scheme
      [] shape \in {"emp_prefixed", "alphanumeric", "sa_id"} -> {"sap_personnel", "internal_hr"}
      [] shape = "long" -> {"internal_hr"}
      [] OTHER -> {}

(* validate: an identity number is never an employment identifier.         *)
Valid(scheme, value) == scheme \in Matches(ShapeOf[value]) /\ ShapeOf[value] # "sa_id"

(* classify: the scheme read off the shape, None when it is ambiguous.     *)
Classify(value) ==
    CASE ShapeOf[value] = "eight_digits" -> "persal"
      [] ShapeOf[value] \in {"emp_prefixed", "long"} -> "internal_hr"
      [] OTHER -> None

Identifier == Scheme \X Number

(* _record_employment_identifier: bind, or find bound to the same person;  *)
(* a malformed value or another person's is an error.                      *)
Recordable_Reassigns(ids, id, emp) == Valid(id[1], id[2])

Recordable(ids, id, emp) == Valid(id[1], id[2]) /\ ids[id] \in {None, emp}

Record(ids, id, emp) == [ids EXCEPT ![id] = emp]

----------------------------------------------------------------------------
Person == [active : BOOLEAN, dept : Department \cup {None}, branch : Branch \cup {None}]

SyncRecord == [emp : Employee, persal : Number \cup {None},
               dept : Department \cup {None}, branch : Branch \cup {None}, leaver : BOOLEAN]

(* A feed in the making: the transaction of _upsert_hr_records.  For each  *)
(* person it has dealt with, the row it read and the row it writes, and    *)
(* the numbers it binds; closes are the accounts it disables.  raced is no *)
(* part of the code: the accounts other requests have written since the    *)
(* feed began.                                                             *)
Feed == [by : Claims, rest : Seq(SyncRecord), seen : SUBSET Employee,
         old : [Employee -> Person \cup {None}], rows : [Employee -> Person \cup {None}],
         binds : [Identifier -> Employee \cup {None}],
         closes : SUBSET User, raced : SUBSET User]

NewFeed(c, batch) ==
    [by |-> c, rest |-> batch, seen |-> {}, closes |-> {}, raced |-> {},
     old |-> [e \in Employee |-> None], rows |-> [e \in Employee |-> None],
     binds |-> [i \in Identifier |-> None]]

(* The records the pipeline takes, of caller c; the rest it counts skipped. *)
Accepted(c, seen, r) ==
    /\ r.emp \notin seen
    /\ r.dept # None /\ r.branch # None => Parent[r.branch] = r.dept
    /\ ScopeCovers(c, [depts |-> OptionalSet(r.dept),
                       branches |-> OptionalSet(r.branch), provs |-> {}])

(* The feed's own number: always recorded.                                 *)
OwnId(r) == <<IF Classify(r.emp) = None THEN "internal_hr" ELSE Classify(r.emp), r.emp>>

(* The identifiers as a transaction that binds some sees them.             *)
Overlaid(ids, binds) == [i \in Identifier |-> IF binds[i] # None THEN binds[i] ELSE ids[i]]

Bind(ids, binds, id, emp) ==
    IF Overlaid(ids, binds)[id] = None THEN [binds EXCEPT ![id] = emp] ELSE binds

(* The PERSAL number of a record is recorded if it can be, and skipped if  *)
(* not.                                                                    *)
WithPersal(ids, binds, r) ==
    LET id == <<"persal", r.persal>>
    IN  IF r.persal # None /\ Recordable(Overlaid(ids, binds), id, r.emp)
        THEN Bind(ids, binds, id, r.emp) ELSE binds

(* The row a record makes of a person.                                     *)
RowOf(r) == [active |-> ~r.leaver, dept |-> r.dept, branch |-> r.branch]

(* One accepted record on the feed w; linked are the person's accounts     *)
(* that are open.                                                          *)
Upsert(w, r, persons, ids, linked) ==
    [w EXCEPT !.rest = Tail(@), !.seen = @ \cup {r.emp},
              !.old = [@ EXCEPT ![r.emp] = persons[r.emp]],
              !.rows = [@ EXCEPT ![r.emp] = RowOf(r)],
              !.binds = Bind(ids, WithPersal(ids, @, r), OwnId(r), r.emp),
              !.closes = IF r.leaver THEN @ \cup linked ELSE @]

(* A row now, after an update of the columns that differ between old, the  *)
(* row as it was read, and new.                                            *)
Rewritten(now, old, new) ==
    [active |-> IF new.active # old.active THEN new.active ELSE now.active,
     dept |-> IF new.dept # old.dept THEN new.dept ELSE now.dept,
     branch |-> IF new.branch # old.branch THEN new.branch ELSE now.branch]

(* The directory once the feed w has written its rows.                     *)
Written(persons, w) ==
    [e \in Employee |->
        CASE w.rows[e] = None                      -> persons[e]
          [] w.rows[e] # None /\ w.old[e] = None   -> w.rows[e]
          [] w.rows[e] # None /\ w.old[e] # None   -> Rewritten(persons[e], w.old[e], w.rows[e])]

(* What the feed inserts is still not there, and what it updates still is. *)
Fits(persons, ids, w) ==
    /\ \A e \in Employee : w.rows[e] # None => (w.old[e] = None <=> persons[e] = None)
    /\ \A i \in Identifier : w.binds[i] # None => ids[i] = None
=============================================================================
