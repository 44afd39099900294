SPECIFICATION Spec
CONSTANTS
    None = None
    Tasks = {t1}
    Workers = {w1, w2}
    EffectKeys = {k1}
    Requests = {q1, q2}
    Results = {r1, r2}
    MaxAttempts = 3
    RecoverLimit = 1
INVARIANTS
    TypeOK OneRunningAttempt BudgetKept EventsTell OneRequestPerKey
PROPERTIES HistoryImmutable LateWorkerPowerless TasksEnd
CHECK_DEADLOCK FALSE
