\* Up to five records on three pages, two pages and one detail a run, and one thing
\* that goes wrong or changes in between, with an initial window that a slow command
\* lets fall short of the look-back; two collectors whose pages change, three
\* runs, two of one collector within a minute, and a reader that turns pages.
SPECIFICATION MCSpec
CONSTANTS
    PageSize = 2
    MaxPages = 2
    MaxItems = 1
    OlderPages = 1
    InitialWindow = 1
    Lookback = 1
    FirstDates <- ThreeRecords
    StartsObserved = TRUE
    MaxDay = 5
    MaxPublished = 5
    MaxSlow = 1
    MaxFaults = 1
    None = None
    Collector = {c1, c2}
    First = c1
    Url = {1, 2}
    NoCode = 0
    Shows <- TwoPages
    ReaderPage = 1
    MaxRuns = 3
    MaxClaims = 2
    MaxReads = 3
    MaxMinutes = 1
INVARIANTS AllTypesOK CheckpointCovers RevisionsChain FeedComplete WalkExact
PROPERTY NewRecordsCovered
CHECK_DEADLOCK FALSE
