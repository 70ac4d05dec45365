SPECIFICATION Spec
CONSTANTS
    MaxId = 2
    Syncers = {s1, s2}
    BadRows = {}
    ChunkSize = 1
    RowCap = 1
    FullAllowed = TRUE
    MaxFaults = 1
SYMMETRY Symmetry
INVARIANTS
    WatermarkCovered
    FlipsCaught
