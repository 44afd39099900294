SPECIFICATION Spec
CONSTANTS
    None = None
    Digests = {d1, d2}
    Sources = {s1}
    Nonces = {n1, n2}
    ApprovalIds = {a1, a2}
    Releases = {r1}
    LaunchKeys = {k1}
    MaxRevision = 8
INVARIANTS LaunchRetryAnswered
CHECK_DEADLOCK FALSE
