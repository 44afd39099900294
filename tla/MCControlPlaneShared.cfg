SPECIFICATION Spec
CONSTANTS
    None = None
    jde = jde
    ebs = ebs
    Canonical <- MCSingle
    Instances = {i1, i2}
    RunIds = {m1, m2}
    Names = {p1}
    Digests = {d1, d2}
    FailureCodes = {F}
    Counts = {0, 1}
    EventLimit = 11
    PageLimit = 2
    MaxLog = 14
    MaxFaults = 1
    MaxLosses = 1
INVARIANTS
    AckDurable StreamGapless
PROPERTY HistoryStands
SYMMETRY MCSymmetry
