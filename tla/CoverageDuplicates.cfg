\* The instance of Coverage.cfg: two pages of one run show the same entity.
SPECIFICATION MCSpec
CONSTANTS
    PageSize = 2
    MaxPages = 2
    MaxItems = 1
    OlderPages = 1
    InitialWindow = 2
    Lookback = 1
    FirstDates <- ThreeRecords
    StartsObserved = TRUE
    MaxDay = 5
    MaxPublished = 5
    MaxSlow = 1
    MaxFaults = 1
    None = None
    Collector = {c1, c2}
    First = c1
    Url = {1, 2}
    NoCode = 0
    Shows <- TwoPages
    ReaderPage = 1
    MaxRuns = 3
    MaxClaims = 2
    MaxReads = 3
    MaxMinutes = 1
INVARIANT DuplicatesMerged
CHECK_DEADLOCK FALSE
