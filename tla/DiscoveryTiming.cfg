\* The periods of the code but for the TWDT timeout, no datagrams but empty ones, one task.
CONSTANTS
    Addresses = {home}
    NoAddress = NoAddress
    Garbled = Garbled
    Datagrams <- Timeouts
    Texts = {}
    Watch = TRUE
    HeapMayFail = TRUE
    ScopesFit = TRUE
    RecvTimeout = 5
    HelloEvery = 6
    RetrySleep = 10
    Slice = 1
    TwdtTimeout = 6
    MaxTasks = 1
SPECIFICATION FairSpec
INVARIANT HelloOnTime
PROPERTY Recovers
