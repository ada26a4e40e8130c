--------------------------- MODULE AlertThrottle ----------------------------
(***************************************************************************)
(* The alert throttle (app/processing/alert_dedup.py): a Redis sorted set  *)
(* per rule, source, target and severity holds the times at which alerts   *)
(* were let through.  is_suppressed reads its clock and then trims, counts *)
(* and adds in three round trips, while the processing consumers' up to    *)
(* processing_max_concurrent_evals evaluations each, and the analytics     *)
(* service, do the same on the same set.                                   *)
(*                                                                         *)
(* One such set is modelled.  Its members are named by their score, so two *)
(* equal clock readings would share a member; readings are microseconds    *)
(* apart and the model makes them distinct.                                *)
(*                                                                         *)
(* An operator named X_Y is X with the bug Y; nothing uses it but mutation *)
(* tests of the properties.                                                *)
(***************************************************************************)
EXTENDS Integers, FiniteSets

CONSTANTS
    Evaluator,    \* coroutines that may evaluate at the same time
    Window,       \* window_minutes, in clock readings
    MaxAlerts,    \* max_alerts of the rule
    MaxTime       \* bound: clock readings

ASSUME ThrottleAssumption ==
    /\ IsFiniteSet(Evaluator) /\ Evaluator # {}
    /\ Window \in Nat \ {0}
    /\ MaxAlerts \in Nat \ {0}
    /\ MaxTime \in Nat

VARIABLES
    clock,        \* the time
    pc,           \* pc[e]: the round trip evaluator e is about to make
    now,          \* now[e]: what it read on its clock
    zset,         \* the sorted set
    admitted,     \* times of all alerts added to it so far
    suppressed    \* times of all alerts suppressed so far

vars == <<clock, pc, now, zset, admitted, suppressed>>

Time  == 1 .. MaxTime
Phase == {"idle", "trim", "count", "add"}

TypeOK ==
    /\ clock \in 0 .. MaxTime
    /\ pc \in [Evaluator -> Phase]
    /\ now \in [Evaluator -> 0 .. MaxTime]
    /\ zset \subseteq admitted
    /\ admitted \in SUBSET Time /\ suppressed \in SUBSET Time

Init ==
    /\ clock = 0
    /\ pc = [e \in Evaluator |-> "idle"]
    /\ now = [e \in Evaluator |-> 0]
    /\ zset = {} /\ admitted = {} /\ suppressed = {}

----------------------------------------------------------------------------
(* Time passes, but not a whole window during one evaluation: windows are  *)
(* 15 minutes and more, an evaluation is four round trips.                 *)
ClockAdvances ==
    /\ clock < MaxTime
    /\ \A e \in Evaluator : pc[e] # "idle" => clock + 1 < now[e] + Window
    /\ clock' = clock + 1

(* A rule matched: now = time.time().                                      *)
Begin(e) ==
    /\ pc[e] = "idle"
    /\ ClockAdvances
    /\ now' = [now EXCEPT ![e] = clock + 1]
    /\ pc' = [pc EXCEPT ![e] = "trim"]
    /\ UNCHANGED <<zset, admitted, suppressed>>

Trim_Never(e) ==
    /\ pc[e] = "trim"
    /\ pc' = [pc EXCEPT ![e] = "count"]
    /\ UNCHANGED <<clock, now, zset, admitted, suppressed>>

(* ZREMRANGEBYSCORE 0 .. now - window_seconds                              *)
Trim(e) ==
    /\ pc[e] = "trim"
    /\ zset' = {t \in zset : t > now[e] - Window}
    /\ pc' = [pc EXCEPT ![e] = "count"]
    /\ UNCHANGED <<clock, now, admitted, suppressed>>

(* ZCARD                                                                   *)
Full_OffByOne == Cardinality(zset) > MaxAlerts
Full == Cardinality(zset) >= MaxAlerts

Suppress_Counted(e) ==
    /\ pc[e] = "count" /\ Full
    /\ zset' = zset \cup {now[e]}
    /\ suppressed' = suppressed \cup {now[e]}
    /\ pc' = [pc EXCEPT ![e] = "idle"]
    /\ UNCHANGED <<clock, now, admitted>>

Suppress(e) ==
    /\ pc[e] = "count" /\ Full
    /\ suppressed' = suppressed \cup {now[e]}
    /\ pc' = [pc EXCEPT ![e] = "idle"]
    /\ UNCHANGED <<clock, now, zset, admitted>>

Pass(e) ==
    /\ pc[e] = "count" /\ ~Full
    /\ pc' = [pc EXCEPT ![e] = "add"]
    /\ UNCHANGED <<clock, now, zset, admitted, suppressed>>

(* ZADD now.  The EXPIRE that follows removes a set only when everything   *)
(* in it has left the window, as the next Trim would.                      *)
Add(e) ==
    /\ pc[e] = "add"
    /\ zset' = zset \cup {now[e]}
    /\ admitted' = admitted \cup {now[e]}
    /\ pc' = [pc EXCEPT ![e] = "idle"]
    /\ UNCHANGED <<clock, now, suppressed>>

(* A Redis error or the death of the container ends the evaluation.        *)
Abandon(e) ==
    /\ pc[e] # "idle"
    /\ pc' = [pc EXCEPT ![e] = "idle"]
    /\ UNCHANGED <<clock, now, zset, admitted, suppressed>>

Tick ==
    /\ ClockAdvances
    /\ UNCHANGED <<pc, now, zset, admitted, suppressed>>

Next ==
    \/ \E e \in Evaluator :
         Begin(e) \/ Trim(e) \/ Suppress(e) \/ Pass(e) \/ Add(e) \/ Abandon(e)
    \/ Tick

Spec == Init /\ [][Next]_vars
----------------------------------------------------------------------------
(* The alerts let through in the window that ends at time t.               *)
AdmittedInWindow(t) == {u \in admitted : t - Window < u /\ u <= t}

(* However the round trips interleave, the overshoot is bounded.  Each     *)
(* evaluator but one can slip twice into a window with an alert too many:  *)
(* past a count that others are about to make out of date, and, begun in   *)
(* the window, past a count made after somebody later trimmed it.          *)
OvershootBounded ==
    \A t \in Time :
        Cardinality(AdmittedInWindow(t)) <= MaxAlerts + 2 * (Cardinality(Evaluator) - 1)

(* No alert is suppressed for ones that are too old: when one is, at least *)
(* MaxAlerts were let through in the window before it or since.            *)
SuppressedOnlyWhenFull ==
    \A t \in suppressed : Cardinality({u \in admitted : u > t - Window}) >= MaxAlerts

(* tests/test_alert_engine.py:46: "critical_record allows max 5 alerts per *)
(* 60min window, then suppresses"; alert_dedup.py:7 says that the throttle *)
(* is shared across consumers.                                             *)
NeverMoreThanMaxAlerts ==
    \A t \in Time : Cardinality(AdmittedInWindow(t)) <= MaxAlerts
=============================================================================
