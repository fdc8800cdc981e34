SPECIFICATION MCSpec
CONSTANTS
    EnvIds = {1}
    ClearEnvs = {1}
    Names = {n1, n2}
    MaxDeploys = 2
    MaxRestarts = 1
INVARIANTS
    OnePipelinePerEnv
    NoOrphanedRow
    NoStuckEnvironment
    SuccessIsServed
PROPERTIES
    RowsAreJobs
    EveryDeploySettles
CHECK_DEADLOCK FALSE
