SPECIFICATION FairSpec
CONSTANTS
    Ptrs = {p1, p2}
    Flows = {dns, udp}
    DnsFlows = {dns}
    Pairs = {pair}
    Ids = {i}
    Data = data
    NoSession = none
    NoEcho = noecho
    MaxSessions = 2
    UdpTimeout53 = 1
    UdpTimeoutAny = 2
    IcmpTimeout = 1
    UdpKeepTimeout = 1
    Fwd53 = FALSE
    MaxTcp = 1
    MaxRx = 1
    CallsMayFail = TRUE
INVARIANTS
    OneSessionPerFlow
    EventHasSession
    UnwatchedEnds
PROPERTIES
    SessionsKeepTheirShare
    EventuallyFreed
