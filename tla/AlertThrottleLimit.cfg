\* Two evaluators race for one window.
SPECIFICATION Spec
CONSTANTS
    e1 = e1
    e2 = e2
    Evaluator = {e1, e2}
    Window = 6
    MaxAlerts = 2
    MaxTime = 10
INVARIANT NeverMoreThanMaxAlerts
CHECK_DEADLOCK FALSE
