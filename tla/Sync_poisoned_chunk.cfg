SPECIFICATION Spec
CONSTANTS
    MaxId = 3
    Syncers = {s1}
    BadRows = {2}
    ChunkSize = 2
    RowCap = 0
    FullAllowed = FALSE
    MaxFaults = 0
INVARIANT WatermarkCovered
