SPECIFICATION Spec
CONSTANTS
    Ports = {"direct"}
    N = 1
    Segments <- MCOneByte
    SynLens = {0}
    ServerBytes = 0
    Windows = {4}
    Mss = 1
    LocalIsn = 2
    SendBuf = 2
    SendErrors = {"EAGAIN"}
    TunResults = {TRUE}
PROPERTIES
    RetryLater
