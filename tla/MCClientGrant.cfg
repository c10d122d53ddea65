SPECIFICATION ClientSpec
CONSTANTS
    Nets = {p}
    PdaNets = {p}
    Other = cellular
    MaxCallbacks = 1
    MaxInstances = 2
    CallsMayFail = FALSE
    MaxOrders = 3
    Launches = {"main", "permission"}
INVARIANT
    GrantConnects
