SPECIFICATION FairSpec
CONSTANTS
    MaxId = 1
    Syncers = {s1, s2}
    BadRows = {}
    ChunkSize = 1
    RowCap = 0
    FullAllowed = FALSE
    MaxFaults = 1
PROPERTY FlipsSettle
