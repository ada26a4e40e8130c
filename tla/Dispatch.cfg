\* Two consumers, batches of two, two alerts, one crash.
SPECIFICATION FairSpec
CONSTANTS
    c1 = c1
    c2 = c2
    Consumer = {c1, c2}
    Alert <- MCAlert
    BatchSize = 2
    MaxLen = 1
    MaxMsgs = 2
    MaxCrashes = 1
INVARIANTS
    TypeOK
    SentOnceBeforeAck
    LogIsTruthful
    LogIsComplete
PROPERTIES
    ImplementsConsumerGroup
    EventuallySettled
CHECK_DEADLOCK FALSE
