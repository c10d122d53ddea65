SPECIFICATION Spec
CONSTANTS
    Threads = {t1, t2}
    Fds = {0, 1, 2, 3, 4}
    None = None
    MaxBytes = 2
    MaxProcess = 1
INVARIANTS
    DescriptorsAccounted
    SessionsHaveOneUser
    EngineAsAsked
PROPERTY
    StopReturns
