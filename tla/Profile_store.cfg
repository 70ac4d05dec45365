SPECIFICATION Spec
CONSTANTS
    Ccys = {ngn, usd}
    TxnsPerCcy = 1
    Retrainers = {r1, r2}
    NoRetrainer = NoRetrainer
    MinTenure = 1
    MinTxns = 1
    MaxFraud = 0
    Window = 3
    MaxTime = 3
    MaxBuilds = 3
    MaxRollbacks = 1
    MaxFaults = 1
SYMMETRY Symmetry
INVARIANTS
    TypeOK
    VersionsInOrder
    LockHasOwner
    TrustIsClean
    FiguresAreEarned
CHECK_DEADLOCK FALSE
