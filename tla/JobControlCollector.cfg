\* One collector, two operations, two workers, two claims per job, one archive
\* or restore; every job is served.
SPECIFICATION FairSpec
CONSTANTS
    Collector = {c1}
    Op <- TwoOps
    Worker = {w1, w2}
    MaxAttempts = 2
    MaxRevision = 1
    NoCollector = NoCollector
INVARIANTS OneTaskPerCollector JobContextStable OneCandidateUnderReview
PROPERTY KeepsPromise
CHECK_DEADLOCK FALSE
