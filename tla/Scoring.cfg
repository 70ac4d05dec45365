SPECIFICATION MCSpec
CONSTANTS
    Requests = {r1, r2}
    Txns = {"A", "B"}
    TimesOf <- MCTimesOf
    Before <- MCBefore
    PointOf <- MCPointOf
    Window = 2
    Day = 2
    Retain = 3
    MaxFaults = 1
    Detectors = {"isoforest", "autoencoder", "gnn"}
    Weight <- MCWeight
    Top = 4
    DetectorHigh = 3
    Cuts <- MCCuts
    Base = 3
    PairDigits = 3
    GridDigits = 1
    Cities = {"ikeja", "lagos"}
    States = {"lagos", "kano"}
CHECK_DEADLOCK FALSE
INVARIANTS TypeOK GeoIsHonest AgreementDecides DescriptionMatchesSignals RecoversNearest DetailAgrees
PROPERTIES VelocityIsExact Answered
