\* One consumer, one record, one crash: enough to lose it.
SPECIFICATION Spec
CONSTANTS
    c1 = c1
    c2 = c2
    r1 = r1
    r2 = r2
    Consumer = {c1, c2}
    Replica = {r1, r2}
    Home <- MCHome
    k1 = k1
    k2 = k2
    Key = {k1, k2}
    Record <- MCRecord
    BatchSize = 2
    MaxLen = 2
    MaxMsgs = 2
    MaxCrashes = 1
INVARIANT LostWorkIsDeadLettered
CHECK_DEADLOCK FALSE
