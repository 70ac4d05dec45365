SPECIFICATION Spec
CONSTANTS
    j1 = j1
    j2 = j2
    w1 = w1
    Jobs = {j1, j2}
    Trainers = {j1, j2}
    Workers = {w1}
    MaxVersions = 2
    Scores <- MCScores
    MaxFaults = 1
INVARIANTS
    IndexIsSound
    ServedPassedGate
    ReloadTakesEffect
PROPERTY NeverPushedWorse
SYMMETRY Symmetry
CHECK_DEADLOCK FALSE
