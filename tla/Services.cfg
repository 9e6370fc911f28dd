\* One delivery to a sink that changes twice, two dispatchers, two attempts in a
\* round, one redelivery, two faults; two clients and two users; two workers and
\* two suggestions; an exploration of four calls whose job is claimed twice.
SPECIFICATION MCSpec
CONSTANTS
    Sink = {s1}
    Delivery = {d1}
    Dispatcher = {w1, w2}
    MaxDeliveryAttempts = 2
    MaxVersion = 3
    MaxRedelivery = 1
    MaxFaults = 2
    Nobody = Nobody
    NoDelivery = NoDelivery
    NoSink = NoSink
    Client = {c1, c2}
    User = {u1, u2}
    MaxPassword = 2
    Worker = {w1, w2}
    Idle = Idle
    MaxAttempts = 3
    MaxSuggestions = 2
    MaxRevision = 3
    MaxStalls = 3
    MaxCalls = 4
    MaxClaims = 2
    Fixed = {f1, f2}
    OldContract = f1
    Reading = {r1}
INVARIANTS AllTypesOK RequestsJustified OutcomeTruthful AccountsSound CandidateProven LateCallsBounded
PROPERTIES OutcomeFenced AllEnd
CHECK_DEADLOCK FALSE
