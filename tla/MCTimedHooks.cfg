SPECIFICATION MCSpec
CONSTANTS
    HookIds = {1}
    Schedules <- MCSchedules
    MaxRuns = 2
    MaxTime = 4
    MaxRestarts = 1
INVARIANTS
    TypeOK
    ScriptShowsRunning
    NoStuckHook
PROPERTIES
    SpacedFirings
    RunsAreJobs
    DueHooksAreServed
CHECK_DEADLOCK FALSE
