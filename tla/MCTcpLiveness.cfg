SPECIFICATION FairSpec
CONSTANTS
    Ports = {"direct", "https", "http"}
    N = 1
    Segments <- MCOneByte
    SynLens = {0}
    ServerBytes = 1
    Windows = {0, 4}
    Mss = 1
    LocalIsn = 2
    SendBuf = 2
    SendErrors = {}
    TunResults = {TRUE, FALSE}
PROPERTIES
    EventuallyFreed
