SPECIFICATION Spec
CONSTANTS
    None = None
    jde = jde
    ebs = ebs
    Canonical <- MCPortfolio
    Instances = {i1}
    RunIds = {m1}
    Names = {p1}
    Digests = {d1}
    FailureCodes = {F}
    Counts = {}
    EventLimit = 18
    PageLimit = 2
    MaxLog = 18
    MaxFaults = 1
    MaxLosses = 1
INVARIANTS
    NeverSelfRefused ExecutionApproved LogSound
SYMMETRY MCSymmetry
