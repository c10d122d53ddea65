SPECIFICATION ClientSpec
CONSTANTS
    Nets = {p}
    PdaNets = {p}
    Other = cellular
    MaxCallbacks = 2
    MaxInstances = 2
    CallsMayFail = TRUE
    MaxOrders = 3
    Launches = {"main", "permission"}
INVARIANTS
    TunnelOnlyOnPdaNet
    ConnectedOnPdaNet
PROPERTY
    EventuallyConnected
