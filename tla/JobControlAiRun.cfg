\* One collector, two operations, two workers, two claims per job.
SPECIFICATION Spec
CONSTANTS
    Collector = {c1}
    Op <- TwoOps
    Worker = {w1, w2}
    MaxAttempts = 2
    MaxRevision = 0
    NoCollector = NoCollector

INVARIANT AiRunFollowsOperation

CHECK_DEADLOCK FALSE
