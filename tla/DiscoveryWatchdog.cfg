\* A watched task, started and stopped.
CONSTANTS
    Addresses = {home}
    NoAddress = NoAddress
    Garbled = Garbled
    Datagrams = {}
    Texts = {}
    Watch = TRUE
    HeapMayFail = FALSE
    ScopesFit = TRUE
    RecvTimeout = 2
    HelloEvery = 2
    RetrySleep = 3
    Slice = 1
    TwdtTimeout = 3
    MaxTasks = 1
SPECIFICATION Spec
INVARIANT UnsubscribedOnExit
