SPECIFICATION Spec
CONSTANTS
    Nets = {p, o}
    PdaNets = {p}
    Other = cellular
    MaxCallbacks = 3
    MaxInstances = 2
    CallsMayFail = TRUE
INVARIANTS
    TypeOK
    FlagTellsTheRequest
    RequestFollowsNetwork
