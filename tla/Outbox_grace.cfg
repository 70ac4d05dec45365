SPECIFICATION FairSpec
CONSTANTS
    Decisions = {d1, d2}
    Relays = {r1, r2}
    NoDecision = NoDecision
    MaxAttempts = 2
    Batch = 2
    GraceCoversInline = TRUE
    MaxFaults = 2
INVARIANTS
    TypeOK
    AckedIsFinal
PROPERTIES
    LifecycleForward
    MeetsPromise
CHECK_DEADLOCK FALSE
