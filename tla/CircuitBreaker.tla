--------------------------- MODULE CircuitBreaker ---------------------------
(***************************************************************************)
(* app/ingestion/circuit_breaker.py, as operators on a breaker's value.    *)
(* Counting beyond FailureThreshold changes no comparison, so the failure  *)
(* count stops there.                                                      *)
(*                                                                         *)
(* An operator named X_Y is X with the bug Y; nothing uses it but mutation *)
(* tests of the properties.                                                *)
(***************************************************************************)
EXTENDS Integers

CONSTANTS
    FailureThreshold,      \* failed calls in a row that open it
    RecoveryTimeout,       \* how long it then refuses calls
    HalfOpenMaxAttempts    \* successful probes that close it again

ASSUME BreakerAssumption ==
    /\ FailureThreshold \in Nat \ {0}
    /\ RecoveryTimeout \in Nat
    /\ HalfOpenMaxAttempts \in Nat \ {0}

Breaker == [state     : {"closed", "open", "half_open", "permanent_open"},
            failures  : 0 .. FailureThreshold,
            successes : 0 .. HalfOpenMaxAttempts - 1]

Closed == [state |-> "closed", failures |-> 0, successes |-> 0]

(* call, before the function runs: an open breaker lets a call through,    *)
(* half open, once RecoveryTimeout has passed since the last failure.      *)
Admits_Always(b, since) == b.state # "permanent_open"
Admits(b, since) ==
    \/ b.state \in {"closed", "half_open"}
    \/ b.state = "open" /\ since >= RecoveryTimeout

Admitted(b) ==
    IF b.state = "open" THEN [b EXCEPT !.state = "half_open", !.successes = 0] ELSE b

OnSuccess_KeepsCount(b) ==
    IF b.state # "half_open" THEN b
    ELSE IF b.successes + 1 >= HalfOpenMaxAttempts THEN Closed
    ELSE [b EXCEPT !.successes = @ + 1]

OnSuccess(b) ==
    IF b.state # "half_open" THEN [b EXCEPT !.failures = 0]
    ELSE IF b.successes + 1 >= HalfOpenMaxAttempts THEN Closed
    ELSE [b EXCEPT !.successes = @ + 1]

OnFailure(b) ==
    LET n == IF b.failures < FailureThreshold THEN b.failures + 1 ELSE FailureThreshold
    IN  [b EXCEPT !.failures = n,
                  !.state = IF @ = "half_open" THEN "open"
                            ELSE IF n < FailureThreshold THEN @
                            ELSE IF @ = "open" THEN "permanent_open"
                            ELSE "open"]
=============================================================================
