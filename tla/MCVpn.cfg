SPECIFICATION FairSpec
CONSTANTS
    Tunnels = {t1, t2}
    None = none
    MaxInbox = 3
    CallsMayFail = TRUE
    MayRevoke = TRUE
INVARIANTS
    TypeOK
    DescriptorInUse
    ResourcesWhole
    TunnelAsAsked
PROPERTIES
    CommandsInOrder
    EventuallyServed
    EventuallyStopped
