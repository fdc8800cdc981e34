SPECIFICATION FairSpec
CONSTANTS
    Envs = {e1, e2}
    Clients = {c1}
    Capacity = 1
    WireSize = 1
    Unread = Unread
    Unknown = Unknown
    MaxChanges = 3
INVARIANTS
    StaleIsExplained
PROPERTIES
    DashboardsCatchUp
CHECK_DEADLOCK FALSE
