SPECIFICATION Spec
CONSTANTS
    Ports = {"https", "http"}
    N = 2
    Segments <- MCSegments
    SynLens = {0, 1}
    ServerBytes = 1
    Windows = {0, 5}
    Mss = 1
    LocalIsn = 3
    SendBuf = 3
    SendErrors = {"EPIPE"}
    TunResults = {TRUE, FALSE}
INVARIANTS
    EstablishedSkipsNothing
    ConnectFirst
PROPERTIES
    ClosedStaysClosed
    RelaysBytes
