\* One schedule with two edits, two control planes, two instants, one restart; two
\* collectors on one host, a seed and up to two attempts, one more run, one change,
\* cancellation or lost worker; a catalog of three rows on one or two hosts, given
\* twice; ten commands, two processes and one that dies.
SPECIFICATION MCSpec
CONSTANTS
    Collector = {c1}
    Planner = {p1, p2}
    PauseAfter = 2
    MaxTime = 2
    MaxRevision = 3
    MaxManual = 1
    MaxRestarts = 1
    Manual = Manual
    Source = {c1, c2}
    Started = {c1}
    MaxOrdinary = 2
    MaxChanges = 1
    Horizon = 4
    Delays <- GrowingDelays
    Waits = {0, 2}
    Lifetime = 3
    MaxAttempts = 2
    JobAttempts = 2
    RequestLimit = 1
    None = None
    Entry = {1, 2, 3}
    Host = {1, 2}
    BatchRequests = 3
    MainRequests = 2
    ReviewRequests = 1
    Slots = 2
    MaxInvocations = 2
    Process = {p1, p2}
    Command <- SomeCommands
    Idle = Idle
    MaxCollections = 2
    MaxSources = 2
    MaxSinks = 1
    MaxCrashes = 1
INVARIANTS AllTypesOK BudgetsHold NoDoubleRun CommandsSound
PROPERTIES SourcesRespected NoRevival EventuallyDecided
CHECK_DEADLOCK FALSE
