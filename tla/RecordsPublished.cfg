\* The instance of Records.cfg with a second field version, fewer phases and
\* calls: a migration that generated a candidate is
\* cancelled and the candidate from before it is published.
SPECIFICATION MCSpec
CONSTANTS
    Collections = {k1, k2}
    Home = k1
    Definitions = {d1, d2}
    First = d1
    MaxVersions = 2
    MaxJobs = 3
    MaxEdits = 1
    MaxCommands = 2
    None = None
    Process = {q1, q2}
    MaxScript = 2
    MaxOp = 2
    BatchSize = 1
    Nobody = Nobody
    Page = {p1, p2}
    MaxTries = 2
    NoManifest = NoManifest
    Phase = {h1}
    MaxClaims = 1
    MaxEntries = 3
    MaxCalls = 1
    Service = {s1}
    KeyId = {i1, i2}
    FirstKey = i1
    Secret = {c1}
    MaxMaterial = 2
    MaxGeneration = 2
    MaxOffline = 2
    MaxLosses = 1
INVARIANT PublishedItsOwn
CHECK_DEADLOCK FALSE
