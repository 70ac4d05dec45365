SPECIFICATION FairSpec
CONSTANTS
    Decisions = {d1}
    Relays = {r1, r2}
    NoDecision = NoDecision
    MaxAttempts = 3
    Batch = 1
    GraceCoversInline = FALSE
    MaxFaults = 3
INVARIANTS
    AttemptsAreLogged
    HeldRowIsStable
    PostsAreAccounted
    TerminalIsEarned
PROPERTIES
    OutboxDrains
CHECK_DEADLOCK FALSE
