\* Two collectors, two operations, two workers, two claims per job.
SPECIFICATION Spec
CONSTANTS
    Collector = {c1, c2}
    Op <- TwoOps
    Worker = {w1, w2}
    MaxAttempts = 2
    MaxRevision = 1
    NoCollector = NoCollector
SYMMETRY Interchangeable
INVARIANTS TypeOK SingleOwner CancelHonoured JobFollowsOperation AttemptsBounded
PROPERTIES FencedCommit TerminalStable
CHECK_DEADLOCK FALSE
