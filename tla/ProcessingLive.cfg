\* Progress, on a stream of two records with both containers able to die.
SPECIFICATION FairSpec
CONSTANTS
    c1 = c1
    c2 = c2
    r1 = r1
    r2 = r2
    Consumer = {c1, c2}
    Replica = {r1, r2}
    Home <- MCHome
    k1 = k1
    k2 = k2
    Key = {k1, k2}
    Record <- MCRecord
    BatchSize = 2
    MaxLen = 1
    MaxMsgs = 2
    MaxCrashes = 2
PROPERTY EventuallySettled
CHECK_DEADLOCK FALSE
