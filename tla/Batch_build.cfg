SPECIFICATION Spec
CONSTANTS
    a1 = a1
    a2 = a2
    ngn = ngn
    usd = usd
    Accounts = {a1, a2}
    Ccys = {ngn, usd}
    Default = ngn
    MaxTxns = 3
    Acct <- MCAcct
    Ccy <- MCCcy
    MinNew = 1
    MaxAge = 1
    MinTxns = 1
    MaxFraud = 0
    MaxRuns = 2
    MaxRetrains = 1
    MaxFaults = 1
    MaxChanges = 1
CONSTRAINT Bounded
INVARIANTS
    TypeOK
    TableIsPopulation
    DoneRunsAreSnapshotted
    SkippedBarelyChanged
CHECK_DEADLOCK FALSE
