\* Two processes, two rows per query, two alerts per window of five, seven
\* clock readings.
SPECIFICATION JobSpec
CONSTANTS
    e1 = e1
    e2 = e2
    Evaluator = {e1, e2}
    Window = 5
    MaxAlerts = 2
    MaxTime = 7
    MaxFound = 2
SYMMETRY Symmetry
INVARIANTS
    JobTypeOK
    OvershootBounded
    SuppressedOnlyWhenFull
    PagedIsOnTheDesk
    QuietHasACause
