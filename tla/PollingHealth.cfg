\* The smallest breaker: one failed poll after a good one.
SPECIFICATION Spec
CONSTANTS
    p1 = p1
    p2 = p2
    Poll = {p1, p2}
    FailureThreshold = 2
    RecoveryTimeout = 2
    HalfOpenMaxAttempts = 2
    MaxAttempts = 2
    MaxBatch = 2
INVARIANT FailureIsVisible
CHECK_DEADLOCK FALSE
