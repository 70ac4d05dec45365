SPECIFICATION MCSpec
CONSTANTS
    Txns = {t1, t2}
    MinSample = 1
    MinLabels = 1
    FlagMin = 10
    FlagMax = 50
    Floor = 50
    MinNew = 1
    MaxLog = 2
    MaxNew = 2
    MaxFaults = 1
    TrainTxns = {x, y}
    Customers = {c1, c2}
    Span = 1
    MinTxns = 2
    MinDays = 1
    MaxRows = 3
    Messages = {a, b, c}
    Cooldown = 2
    QueueSize = 1
    MapSize = 1
    MaxErrors = 4
    MaxClock = 3
INVARIANTS VerdictsDecide ErrorsKeepComing
PROPERTIES AnnouncedOnce AlertsSettle
