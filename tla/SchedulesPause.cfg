\* Three runs in a row fail, and no check is lost to a restart.
SPECIFICATION Spec
CONSTANTS
    Collector = {c1}
    Planner = {p1}
    PauseAfter = 3
    MaxTime = 1
    MaxRevision = 2
    MaxManual = 3
    MaxRestarts = 0
    Manual = Manual
INVARIANT PausedAfterFailures
CHECK_DEADLOCK FALSE
