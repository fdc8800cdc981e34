SPECIFICATION Spec
CONSTANTS
    here = here
    there = there
    Instances = {here, there}
    MaxEnvs = 1
    web = web
    api = api
    Web = Web
    fwd = fwd
    Names = {web, api, Web, fwd}
    Ports = {80}
    ContainerName <- MCContainerName
    ForwarderName <- MCForwarderName
    Rows <- Forwarded
    None = None
    MaxEdits = 2
    MaxStarts = 0
PROPERTY ReapLeavesTheOthers
CHECK_DEADLOCK FALSE
