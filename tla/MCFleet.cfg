SPECIFICATION MCSpec
CONSTANTS
    a = a
    b = b
    x = x
    y = y
    first = first
    second = second
    MaxIds = 2
    Labels = {a, b}
    Bases = {x, y}
    Tokens = {first, second}
    NoToken = NoToken
    Omitted = Omitted
    None = None
    Config <- MCConfig
    Creations <- MCCreations
    Bodies <- MCBodies
    Envs = {web}
    Clients = {c1, c2}
    Requests = {q1}
    MaxRestarts = 1
SYMMETRY Interchangeable
INVARIANTS
    AnswerAccountsForAll
    ActsWhereShown
PROPERTIES
    OmittedTokenIsKept
CHECK_DEADLOCK FALSE
