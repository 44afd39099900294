SPECIFICATION MCSpec
CONSTANTS
    None = None
    Digests = {d1, d2}
    Sources = {s1, s2}
    Nonces = {n1, n2}
    ApprovalIds = {a1, a2}
    Releases = {r1}
    LaunchKeys = {k1}
    MaxRevision = 8
    Absent = Absent
    Callers = {c1, c2}
    RunIds = {u1}
    Plans = {d1, d2}
    Requests = {a1, a2}
    NonceIds = {n1, n2}
    Tokens = {t1}
    Quorum = 1
    MaxApprovers = 1
    Lifetime = 1
    MaxTime = 1
INVARIANTS
    SealSound RecordsAgree StagesInOrder DecidedOnce
PROPERTIES
    FactsStand DecisionsStand
SYMMETRY Symmetry
CHECK_DEADLOCK FALSE
