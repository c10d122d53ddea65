SPECIFICATION Spec
CONSTANTS
    Ports = {"direct"}
    N = 3
    Segments <- MCThreeBytes
    SynLens = {0, 1}
    ServerBytes = 2
    Windows = {0, 1}
    Mss = 1
    LocalIsn = 3
    SendBuf = 3
    SendErrors = {"EPIPE"}
    TunResults = {TRUE, FALSE}
INVARIANTS
    SocketSafety
    AckedBytesAccounted
    QueueInOrder
PROPERTIES
    FlowControl
