SPECIFICATION MCSpec
CONSTANTS
    here = here
    there = there
    Instances = {here, there}
    MaxEnvs = 2
    web = web
    api = api
    Web = Web
    fwd = fwd
    Names = {web, api, Web, fwd}
    Ports = {80}
    ContainerName <- MCContainerName
    ForwarderName <- MCForwarderName
    Rows <- MCRows
    None = None
    MaxEdits = 4
    MaxStarts = 1
INVARIANTS
    TypeOK
    ReapIsThorough
    OneContainerEach
PROPERTIES
    ForwardersConverge
    ContainersConverge
CHECK_DEADLOCK FALSE
