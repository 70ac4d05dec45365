SPECIFICATION FairSpec
CONSTANTS
    MaxId = 2
    Syncers = {s1}
    BadRows = {}
    ChunkSize = 1
    RowCap = 0
    FullAllowed = FALSE
    MaxFaults = 2
PROPERTIES
    LateRowsCaught
