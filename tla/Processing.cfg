\* Two consumers in two containers, batches of two, a stream of three
\* records over two findings that may be trimmed, one crash.
SPECIFICATION Spec
CONSTANTS
    c1 = c1
    c2 = c2
    r1 = r1
    r2 = r2
    Consumer = {c1, c2}
    Replica = {r1, r2}
    Home <- MCHome
    k1 = k1
    k2 = k2
    Key = {k1, k2}
    Record <- MCRecord
    BatchSize = 2
    MaxLen = 2
    MaxMsgs = 3
    MaxCrashes = 1
INVARIANTS
    TypeOK
    AckedIsAccounted
    OneHolder
    PublishedAlertIsBacked
    StoredAlertIsPublishedOnce
    VersionCountsWrites
PROPERTIES
    ImplementsConsumerGroup
CHECK_DEADLOCK FALSE
