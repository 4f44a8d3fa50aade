\* Datagrams of other devices keep arriving.
CONSTANTS
    Addresses = {home}
    NoAddress = NoAddress
    Garbled = Garbled
    Datagrams <- Announcements
    Texts = {"other"}
    Watch = FALSE
    HeapMayFail = FALSE
    ScopesFit = TRUE
    RecvTimeout = 2
    HelloEvery = 2
    RetrySleep = 3
    Slice = 1
    TwdtTimeout = 3
    MaxTasks = 1
SPECIFICATION FairSpec
PROPERTY HelloRecurs
