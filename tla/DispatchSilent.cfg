\* One alert is enough.
SPECIFICATION Spec
CONSTANTS
    c1 = c1
    c2 = c2
    Consumer = {c1, c2}
    Alert <- MCAlert
    BatchSize = 2
    MaxLen = 1
    MaxMsgs = 2
    MaxCrashes = 1
INVARIANT NoSilentDrop
CHECK_DEADLOCK FALSE
