SPECIFICATION Spec
CONSTANTS
    None = None
    broken = broken
    denied = denied
    unverified = unverified
    good = good
    other = other
    Payloads <- MCPayloads
    PlanPayload = broken
    Valid <- MCValid
    Allowed <- MCAllowed
    Verified <- MCVerified
    Answers = {a1, a2}
    MaxRepairs = 3
    ModelBudgets = {2, 3}
    ReaderIdempotent = FALSE
    MaxCrashes = 3
INVARIANTS TypeOK EffectsAuthorised JournalSound ResultFaithful
PROPERTIES SealIrreversible SealedRunEnds
