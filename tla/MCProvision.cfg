SPECIFICATION FairSpec
CONSTANTS
    web = web
    api = api
    h1 = h1
    h2 = h2
    Clients = {c1, c2}
    Bundles <- MCBundles
    Declared <- MCDeclared
    NewNames <- MCNewNames
    Boot = boot
    Imported = imported
    MaxRequests = 2
    MaxEdits = 1
    MaxRestarts = 1
INVARIANTS
    TypeOK
    MadeIsComplete
    DeclaredOnce
    DeclaredIsThere
PROPERTIES
    EveryRequestEnds
CHECK_DEADLOCK FALSE
