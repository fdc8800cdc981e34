SPECIFICATION Spec
CONSTANTS
    EnvIds = {1}
    ClearEnvs = {}
    Names = {n1}
    MaxDeploys = 2
    MaxRestarts = 0
INVARIANTS
    EveryDeployIsRecorded
CHECK_DEADLOCK FALSE
