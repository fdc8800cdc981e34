SPECIFICATION MCSpec
CONSTANTS
    EnvIds = {1}
    ClearEnvs = {1}
    Names = {n1, n2}
    MaxDeploys = 2
    MaxRestarts = 1
    Requests = {q1, q2}
SYMMETRY Alike
INVARIANTS
    ClearedPageIsNew
    ClearedOnce
    ServedAtRest
CHECK_DEADLOCK FALSE
