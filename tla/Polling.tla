------------------------------ MODULE Polling -------------------------------
(***************************************************************************)
(* The ingestion service (app/ingestion/scheduler.py, retry.py): APScheduler *)
(* runs poll_connector for a connector on an interval, never twice at once *)
(* (max_instances = 1).  A poll asks the circuit breaker, calls the vendor *)
(* with retries, publishes what it got to the raw stream and records the   *)
(* connector as healthy; any exception sends it to the error path.         *)
(* Connectors fetch in two ways: in one go, or, as AppScan does            *)
(* (connectors/appscan.py), page by page, where a page that cannot be had  *)
(* is skipped and the next one asked for.                                  *)
(*                                                                         *)
(* Connectors share nothing the code below reads, so the module is about   *)
(* one of them.  Its token bucket is left out: it starts full and refills  *)
(* by one poll's token within a minute, and no interval is shorter, so it  *)
(* never refuses a scheduled poll.                                         *)
(***************************************************************************)
EXTENDS CircuitBreaker

CONSTANTS
    Poll,           \* poll_connector coroutines that could exist at once
    MaxAttempts,    \* RetryHandler.max_attempts
    MaxBatch        \* bound: records a poll returns

ASSUME PollingAssumption ==
    /\ MaxAttempts \in Nat \ {0}
    /\ MaxBatch \in Nat

VARIABLES
    breaker,    \* the connector's circuit breaker
    since,      \* time since last_failure_time, up to RecoveryTimeout
    up,         \* whether the vendor answers
    streak,     \* vendor calls that failed in a row, up to FailureThreshold
    pc,         \* pc[p]: where poll p is
    attempt,    \* attempt[p]: the attempt it is making
    size,       \* size[p]: the records it fetched
    sent,       \* sent[p]: those of them in the raw stream
    missed,     \* missed[p]: whether it has skipped a page
    health,     \* the connector's row in warehouse.connector_health
    last        \* how the latest poll to finish ended, its size and sent

vars == <<breaker, since, up, streak, pc, attempt, size, sent, missed, health, last>>

Phase   == {"idle", "attempt", "backoff", "paging", "publish", "health", "error"}
Healthy(n) == [status |-> "healthy", records |-> n]
Result(p, how) == [how |-> how, size |-> size[p], sent |-> sent[p]]

TypeOK ==
    /\ breaker \in Breaker
    /\ since \in 0 .. RecoveryTimeout
    /\ up \in BOOLEAN
    /\ streak \in 0 .. FailureThreshold
    /\ pc \in [Poll -> Phase]
    /\ attempt \in [Poll -> 1 .. MaxAttempts]
    /\ size \in [Poll -> 0 .. MaxBatch] /\ sent \in [Poll -> 0 .. MaxBatch]
    /\ missed \in [Poll -> BOOLEAN]
    /\ health \in [status : {"unknown", "healthy"}, records : 0 .. MaxBatch]
    /\ last \in [how : {"none", "success", "dead_lettered", "unreported"},
                 size : 0 .. MaxBatch, sent : 0 .. MaxBatch]

Init ==
    /\ breaker = Closed
    /\ since = RecoveryTimeout      \* last_failure_time = 0
    /\ up \in BOOLEAN
    /\ streak = 0
    /\ pc = [p \in Poll |-> "idle"]
    /\ attempt = [p \in Poll |-> 1]
    /\ size = [p \in Poll |-> 0] /\ sent = [p \in Poll |-> 0]
    /\ missed = [p \in Poll |-> FALSE]
    /\ health = [status |-> "unknown", records |-> 0]
    /\ last = [how |-> "none", size |-> 0, sent |-> 0]

----------------------------------------------------------------------------
(* The interval fires; a fire while a poll is running is dropped.          *)
Idle == \A p \in Poll : pc[p] = "idle"

Start_Concurrent(p) ==
    /\ pc[p] = "idle"
    /\ attempt' = [attempt EXCEPT ![p] = 1]
    /\ size' = [size EXCEPT ![p] = 0] /\ sent' = [sent EXCEPT ![p] = 0]
    /\ missed' = [missed EXCEPT ![p] = FALSE]
    /\ Admits(breaker, since)
    /\ breaker' = Admitted(breaker)
    /\ pc' = [pc EXCEPT ![p] = "attempt"]
    /\ UNCHANGED <<since, up, streak, health, last>>

Start(p) ==
    /\ Idle
    /\ attempt' = [attempt EXCEPT ![p] = 1]
    /\ size' = [size EXCEPT ![p] = 0] /\ sent' = [sent EXCEPT ![p] = 0]
    /\ missed' = [missed EXCEPT ![p] = FALSE]
    /\ Admits(breaker, since)
    /\ breaker' = Admitted(breaker)
    /\ pc' = [pc EXCEPT ![p] = "attempt"]
    /\ UNCHANGED <<since, up, streak, health, last>>

Refused_Counted(p) ==
    /\ Idle
    /\ size' = [size EXCEPT ![p] = 0] /\ sent' = [sent EXCEPT ![p] = 0]
    /\ missed' = [missed EXCEPT ![p] = FALSE]
    /\ ~Admits(breaker, since)
    /\ since' = 0
    /\ pc' = [pc EXCEPT ![p] = "error"]
    /\ UNCHANGED <<breaker, up, streak, attempt, health, last>>

(* The breaker raises; its own refusal does not count as a failure.        *)
Refused(p) ==
    /\ Idle
    /\ size' = [size EXCEPT ![p] = 0] /\ sent' = [sent EXCEPT ![p] = 0]
    /\ missed' = [missed EXCEPT ![p] = FALSE]
    /\ ~Admits(breaker, since)
    /\ pc' = [pc EXCEPT ![p] = "error"]
    /\ UNCHANGED <<breaker, since, up, streak, attempt, health, last>>

AttemptSucceeds_HealthFirst(p) ==
    /\ pc[p] = "attempt" /\ up
    /\ \E n \in 0 .. MaxBatch : size' = [size EXCEPT ![p] = n]
    /\ pc' = [pc EXCEPT ![p] = "health"]
    /\ breaker' = OnSuccess(breaker)
    /\ streak' = 0
    /\ UNCHANGED <<since, up, attempt, sent, missed, health, last>>

(* connector.run returns n records: the breaker sees the success at once,  *)
(* before anything is published.                                           *)
Returns(p, n) ==
    /\ size' = [size EXCEPT ![p] = n]
    /\ pc' = [pc EXCEPT ![p] = IF n = 0 THEN "health" ELSE "publish"]
    /\ breaker' = OnSuccess(breaker)
    /\ streak' = 0
    /\ UNCHANGED <<since, up, attempt, sent, missed, health, last>>

AttemptSucceeds(p) ==
    /\ pc[p] = "attempt" /\ up
    /\ \E n \in 0 .. MaxBatch : Returns(p, n)

(* AppScan: authenticate() succeeds and poll() starts paging.              *)
StartPaging(p) ==
    /\ pc[p] = "attempt" /\ up
    /\ size' = [size EXCEPT ![p] = 0]
    /\ pc' = [pc EXCEPT ![p] = "paging"]
    /\ UNCHANGED <<breaker, since, up, streak, attempt, sent, missed, health, last>>

(* _fetch_issues_page: a page with more to come, or the last one.          *)
PageArrives(p) ==
    /\ pc[p] = "paging" /\ up
    /\ size[p] < MaxBatch
    /\ size' = [size EXCEPT ![p] = @ + 1]
    /\ UNCHANGED <<breaker, since, up, streak, pc, attempt, sent, missed, health, last>>

LastPage(p) ==
    /\ pc[p] = "paging" /\ up
    /\ \E n \in size[p] .. MaxBatch : Returns(p, n)

(* Whatever goes wrong with a page, it counts as empty with more to come:  *)
(* poll() neither raises nor returns while the vendor is away.             *)
PageLost(p) ==
    /\ pc[p] = "paging" /\ ~up
    /\ missed' = [missed EXCEPT ![p] = TRUE]
    /\ UNCHANGED <<breaker, since, up, streak, pc, attempt, size, sent, health, last>>

(* connector.run raises: RetryHandler sleeps and tries again.              *)
AttemptFails_OneTooMany(p) ==
    /\ pc[p] = "attempt" /\ ~up
    /\ attempt[p] <= MaxAttempts
    /\ attempt' = [attempt EXCEPT ![p] = @ + 1]
    /\ pc' = [pc EXCEPT ![p] = "backoff"]
    /\ UNCHANGED <<breaker, since, up, streak, size, sent, missed, health, last>>

AttemptFails(p) ==
    /\ pc[p] = "attempt" /\ ~up
    /\ attempt[p] < MaxAttempts
    /\ attempt' = [attempt EXCEPT ![p] = @ + 1]
    /\ pc' = [pc EXCEPT ![p] = "backoff"]
    /\ UNCHANGED <<breaker, since, up, streak, size, sent, missed, health, last>>

Retry(p) ==
    /\ pc[p] = "backoff"
    /\ pc' = [pc EXCEPT ![p] = "attempt"]
    /\ UNCHANGED <<breaker, since, up, streak, attempt, size, sent, missed, health, last>>

(* The last attempt raises: one failure for the breaker.                   *)
CallFails(p) ==
    /\ pc[p] = "attempt" /\ ~up
    /\ attempt[p] = MaxAttempts
    /\ breaker' = OnFailure(breaker)
    /\ since' = 0
    /\ streak' = IF streak < FailureThreshold THEN streak + 1 ELSE streak
    /\ pc' = [pc EXCEPT ![p] = "error"]
    /\ UNCHANGED <<up, attempt, size, sent, missed, health, last>>

----------------------------------------------------------------------------
(* publish_batch: XADDs pipelined one after another.                       *)
Publish(p) ==
    /\ pc[p] = "publish"
    /\ sent' = [sent EXCEPT ![p] = @ + 1]
    /\ pc' = [pc EXCEPT ![p] = IF sent[p] + 1 = size[p] THEN "health" ELSE @]
    /\ UNCHANGED <<breaker, since, up, streak, attempt, size, missed, health, last>>

(* The pipeline raises, with some records in the stream.                   *)
PublishFails(p) ==
    /\ pc[p] = "publish"
    /\ pc' = [pc EXCEPT ![p] = "error"]
    /\ UNCHANGED <<breaker, since, up, streak, attempt, size, sent, missed, health, last>>

(* update_connector_health(..., "healthy", records = count)                *)
WriteHealth(p) ==
    /\ pc[p] = "health"
    /\ health' = Healthy(size[p])
    /\ last' = Result(p, "success")
    /\ pc' = [pc EXCEPT ![p] = "idle"]
    /\ UNCHANGED <<breaker, since, up, streak, attempt, size, sent, missed>>

(* It raises, before or after the commit took effect.                      *)
WriteHealthFails(p) ==
    /\ pc[p] = "health"
    /\ health' \in {health, Healthy(size[p])}
    /\ pc' = [pc EXCEPT ![p] = "error"]
    /\ UNCHANGED <<breaker, since, up, streak, attempt, size, sent, missed, last>>

(* The error path dead-letters the poll, or raises because Redis is away.  *)
(* The call that should then mark the connector degraded passes a keyword, *)
(* error_count, that update_connector_health does not take: it raises      *)
(* TypeError and the row stays as it was.                                  *)
HandleError(p) ==
    /\ pc[p] = "error"
    /\ last' \in {Result(p, "dead_lettered"), Result(p, "unreported")}
    /\ pc' = [pc EXCEPT ![p] = "idle"]
    /\ UNCHANGED <<breaker, since, up, streak, attempt, size, sent, missed, health>>

(* The environment: time passes, the vendor goes away and comes back.      *)
Tick ==
    /\ since < RecoveryTimeout
    /\ since' = since + 1
    /\ UNCHANGED <<breaker, up, streak, pc, attempt, size, sent, missed, health, last>>

VendorFlips ==
    /\ up' = ~up
    /\ UNCHANGED <<breaker, since, streak, pc, attempt, size, sent, missed, health, last>>

Step(p) ==
    \/ AttemptSucceeds(p) \/ AttemptFails(p) \/ Retry(p) \/ CallFails(p)
    \/ StartPaging(p) \/ PageArrives(p) \/ LastPage(p) \/ PageLost(p)
    \/ Publish(p) \/ PublishFails(p)
    \/ WriteHealth(p) \/ WriteHealthFails(p) \/ HandleError(p)

Next ==
    \/ \E p \in Poll : Start(p) \/ Refused(p) \/ Step(p)
    \/ Tick \/ VendorFlips

Spec == Init /\ [][Next]_vars

(* The interval keeps firing, calls and sleeps end, time passes.           *)
Fairness ==
    /\ WF_vars(\E p \in Poll : Start(p) \/ Refused(p))
    /\ \A p \in Poll : WF_vars(Step(p))
    /\ WF_vars(Tick)

FairSpec == Spec /\ Fairness
----------------------------------------------------------------------------
(* A vendor that failed FailureThreshold calls in a row is left alone for  *)
(* RecoveryTimeout: no call starts before.                                 *)
BacksOff ==
    [][\A p \in Poll :
         pc[p] = "idle" /\ pc'[p] = "attempt" /\ streak = FailureThreshold
           => since >= RecoveryTimeout]_vars

(* A vendor that fails now and then is not cut off: a closed breaker opens *)
(* only after FailureThreshold failed calls with no success between them.  *)
OpensOnlyAfterStreak ==
    [][breaker.state = "closed" /\ breaker'.state # "closed" =>
         streak' = FailureThreshold]_vars

(* The breaker never opens for good.  The state exists in the code, and a  *)
(* second call in flight while the breaker opens would reach it; nothing   *)
(* but a restart leaves it, since reset() is never called.                 *)
NeverPermanentlyOpen == breaker.state # "permanent_open"

(* A poll that reports success has put every record it fetched into the    *)
(* raw stream, and left a healthy row that counts them and stands until    *)
(* the next poll.  (Pages it skipped it did not fetch.)                    *)
SuccessIsComplete ==
    last.how = "success" =>
       last.sent = last.size /\ (Idle => health = Healthy(last.size))

(* Once the vendor stays up, the breaker closes, whatever becomes of the   *)
(* records in Redis or of the health row, also where a poll was in the     *)
(* middle of its pages when the vendor went away.                          *)
Recovers == <>[]up => []<>(breaker.state = "closed")

(* docs/REQUIREMENTS.md FR-CONN-02: connector status is tracked.  So       *)
(* between polls, a connector whose latest vendor call failed is not shown *)
(* as healthy.                                                             *)
FailureIsVisible ==
    streak > 0 /\ Idle => health.status # "healthy"
=============================================================================
