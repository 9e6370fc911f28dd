\* Two collections, two definitions, a published field version, up to three explorations or
\* runs, one edit and two management commands; two scripts, one of them new, two
\* operations in batches of one and two processes; two claims that read two pages;
\* two claims of an exploration with two phases, six entries and four calls; two key
\* IDs, two commands or backups and a loss.
SPECIFICATION MCSpec
CONSTANTS
    Collections = {k1, k2}
    Home = k1
    Definitions = {d1, d2}
    First = d1
    MaxVersions = 1
    MaxJobs = 3
    MaxEdits = 1
    MaxCommands = 2
    None = None
    Process = {q1, q2}
    MaxScript = 2
    MaxOp = 2
    BatchSize = 1
    Nobody = Nobody
    Page = {p1, p2}
    MaxTries = 2
    NoManifest = NoManifest
    Phase = {h1, h2}
    MaxClaims = 2
    MaxEntries = 6
    MaxCalls = 4
    Service = {s1}
    KeyId = {i1, i2}
    FirstKey = i1
    Secret = {c1}
    MaxMaterial = 2
    MaxGeneration = 2
    MaxOffline = 2
    MaxLosses = 1
INVARIANTS AllTypesOK RuleFits MigrationAgrees HistoryAttributed UpgradeSound TrailTruthful InstanceSound
PROPERTY KeysSound
CHECK_DEADLOCK FALSE
