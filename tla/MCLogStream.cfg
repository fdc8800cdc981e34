SPECIFICATION MCSpec
CONSTANTS
    second = second
    Clients = {c1, second}
    MaxChunks = 3
    BufferSize = 1
    MaxCommands = 2
    PipeSize = 2
INVARIANTS
    RegisteredIsOpen
    NothingLostSilently
    OneRepeatAtMost
    DoneIsFinal
PROPERTIES
    OutputIsWhole
    PipelineEnds
    SubscribersAreReleased
CHECK_DEADLOCK FALSE
