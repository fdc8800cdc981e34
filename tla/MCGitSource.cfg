SPECIFICATION FairSpec
CONSTANTS
    r1 = r1
    r2 = r2
    feature = feature
    v1 = v1
    Rows <- MCRows
    Repos = {r1, r2}
    Branches = {main, feature}
    Tags = {v1}
    Main = main
    Default = default
    None = none
    MaxCommits = 4
    MaxEdits = 2
INVARIANTS
    TypeOK
    DeployedIsTheRef
PROPERTIES
    KeepsDeploying
CHECK_DEADLOCK FALSE
