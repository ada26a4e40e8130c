\* Two failures open the breaker, two probes close it, two attempts per call,
\* recovery after two ticks, up to two records per poll.
SPECIFICATION FairSpec
CONSTANTS
    p1 = p1
    p2 = p2
    Poll = {p1, p2}
    FailureThreshold = 2
    RecoveryTimeout = 2
    HalfOpenMaxAttempts = 2
    MaxAttempts = 2
    MaxBatch = 2
INVARIANTS
    TypeOK
    NeverPermanentlyOpen
    SuccessIsComplete
PROPERTIES
    BacksOff
    OpensOnlyAfterStreak
    Recovers
CHECK_DEADLOCK FALSE
