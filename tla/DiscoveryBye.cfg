\* A task that is stopped while it announces itself.
CONSTANTS
    Addresses = {home}
    NoAddress = NoAddress
    Garbled = Garbled
    Datagrams = {}
    Texts = {}
    Watch = FALSE
    HeapMayFail = FALSE
    ScopesFit = TRUE
    RecvTimeout = 2
    HelloEvery = 2
    RetrySleep = 3
    Slice = 1
    TwdtTimeout = 3
    MaxTasks = 1
SPECIFICATION Spec
INVARIANT ByeIsLast
