----------------------------- MODULE Analytics ------------------------------
(***************************************************************************)
(* The aggregate rules job of the analytics service (run_aggregate_rules   *)
(* of app/entrypoints/analytics.py): the rows an aggregate rule's query    *)
(* returns are put through the throttle one by one, what was let through   *)
(* is stored in one transaction, and then published for dispatch.  The set *)
(* that AlertThrottle models is an aggregate rule's here, which nothing    *)
(* but this job charges; several processes run it while one deployment     *)
(* replaces another.  An alert is named by the time it was let through.    *)
(***************************************************************************)
EXTENDS AlertThrottle

CONSTANT MaxFound       \* bound: rows of one query that share a throttle key

ASSUME AnalyticsAssumption == MaxFound \in Nat

VARIABLES
    rows,         \* rows[e]: rows of the query the run has yet to evaluate
    found,        \* found[e]: alerts the run holds in memory
    stage,        \* stage[e]: where the run stands
    desk,         \* alerts stored in core.alerts
    paged,        \* alerts on the alerts stream
    lost          \* alerts that went with their run

jobVars == <<rows, found, stage, desk, paged, lost>>

allVars == <<vars, jobVars>>

Stage == {"none", "evaluate", "publish"}

JobTypeOK ==
    /\ TypeOK
    /\ rows \in [Evaluator -> 0..MaxFound]
    /\ found \in [Evaluator -> SUBSET Time]
    /\ stage \in [Evaluator -> Stage]
    /\ desk \subseteq Time /\ paged \subseteq Time /\ lost \subseteq Time

JobInit ==
    /\ Init
    /\ rows = [e \in Evaluator |-> 0]
    /\ found = [e \in Evaluator |-> {}]
    /\ stage = [e \in Evaluator |-> "none"]
    /\ desk = {} /\ paged = {} /\ lost = {}

----------------------------------------------------------------------------
(* The scheduler starts the job, one instance at a time, and the query     *)
(* answers.  One that fails is rolled back and counts as no rows.          *)
StartRun(e, n) ==
    /\ stage[e] = "none"
    /\ stage' = [stage EXCEPT ![e] = "evaluate"]
    /\ rows' = [rows EXCEPT ![e] = n]
    /\ UNCHANGED <<vars, found, desk, paged, lost>>

Evaluating(e) == stage[e] = "evaluate" /\ rows[e] > 0

(* is_suppressed for the next row, in its round trips.                     *)
Ask(e) ==
    /\ Evaluating(e)
    /\ Begin(e) \/ Trim(e) \/ Pass(e)
    /\ UNCHANGED jobVars

Withhold(e) ==
    /\ Evaluating(e)
    /\ Suppress(e)
    /\ rows' = [rows EXCEPT ![e] = @ - 1]
    /\ UNCHANGED <<found, stage, desk, paged, lost>>

LetThrough(e) ==
    /\ Evaluating(e)
    /\ Add(e)
    /\ rows' = [rows EXCEPT ![e] = @ - 1]
    /\ found' = [found EXCEPT ![e] = @ \cup {now[e]}]
    /\ UNCHANGED <<stage, desk, paged, lost>>

Evaluated(e) == stage[e] = "evaluate" /\ rows[e] = 0

NothingFound(e) ==
    /\ Evaluated(e) /\ found[e] = {}
    /\ stage' = [stage EXCEPT ![e] = "none"]
    /\ UNCHANGED <<vars, rows, found, desk, paged, lost>>

(* upsert_alerts: one statement, one commit.                               *)
Store_KeepsLatest(e) ==
    /\ Evaluated(e) /\ found[e] # {}
    /\ desk' = desk \cup {t \in found[e] : \A u \in found[e] : u <= t}
    /\ stage' = [stage EXCEPT ![e] = "publish"]
    /\ UNCHANGED <<vars, rows, found, paged, lost>>

Store_AfterPublishing(e) ==
    /\ Evaluated(e) /\ found[e] # {}
    /\ paged' = paged \cup found[e]
    /\ stage' = [stage EXCEPT ![e] = "publish"]
    /\ UNCHANGED <<vars, rows, found, desk, lost>>

Store(e) ==
    /\ Evaluated(e) /\ found[e] # {}
    /\ desk' = desk \cup found[e]
    /\ stage' = [stage EXCEPT ![e] = "publish"]
    /\ UNCHANGED <<vars, rows, found, paged, lost>>

(* publish_batch: a pipeline without a transaction, of which the server    *)
(* has taken the first few when the connection breaks.                     *)
Publish(e) ==
    /\ stage[e] = "publish"
    /\ \E last \in found[e] \cup {0} : paged' = paged \cup {t \in found[e] : t <= last}
    /\ found' = [found EXCEPT ![e] = {}]
    /\ stage' = [stage EXCEPT ![e] = "none"]
    /\ UNCHANGED <<vars, rows, desk, lost>>

(* A Redis or database error ends the run, as the death of the process     *)
(* does; what it held is gone, and stays charged.                          *)
EndRun(e) ==
    /\ stage[e] # "none"
    /\ pc' = [pc EXCEPT ![e] = "idle"]
    /\ rows' = [rows EXCEPT ![e] = 0]
    /\ found' = [found EXCEPT ![e] = {}]
    /\ stage' = [stage EXCEPT ![e] = "none"]
    /\ lost' = lost \cup (found[e] \ desk)
    /\ UNCHANGED <<clock, now, zset, admitted, suppressed, desk, paged>>

Run(e) ==
    \/ \E n \in 0..MaxFound : StartRun(e, n)
    \/ Ask(e) \/ Withhold(e) \/ LetThrough(e)
    \/ NothingFound(e) \/ Store(e) \/ Publish(e)
    \/ EndRun(e)

JobNext == (\E e \in Evaluator : Run(e)) \/ (Tick /\ UNCHANGED jobVars)

JobSpec == JobInit /\ [][JobNext]_allVars
----------------------------------------------------------------------------
(* Nobody is paged for an alert the alert desk does not show: whatever dies*)
(* between the transaction and the stream, the row was there first.        *)
PagedIsOnTheDesk == paged \subseteq desk

(* A rule is quiet only if the desk shows why: when an alert was withheld, *)
(* the limit's worth of alerts of that window or since is on the desk, or  *)
(* some of them are with a run that has not finished or that was lost.     *)
QuietHasACause ==
    \A t \in suppressed :
       LET recent == {u \in Time : u > t - Window}
       IN  \/ Cardinality(desk \cap recent) >= MaxAlerts
           \/ recent \cap (lost \cup UNION {found[e] : e \in Evaluator}) # {}
=============================================================================
