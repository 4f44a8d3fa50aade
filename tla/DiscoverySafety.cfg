\* Every kind of datagram, an interface that gains and loses its address while
\* another task rewrites the host's string, every network call failing, two tasks
\* one after the other. The periods are scaled down; two receive timeouts between
\* Hellos, a sleep of three slices.
CONSTANTS
    Addresses = {home}
    NoAddress = NoAddress
    Garbled = Garbled
    Datagrams <- Traffic
    Texts = {"just fits", "too long", "own", "other"}
    Watch = TRUE
    HeapMayFail = TRUE
    ScopesFit = TRUE
    RecvTimeout = 2
    HelloEvery = 2
    RetrySleep = 3
    Slice = 1
    TwdtTimeout = 3
    MaxTasks = 2
SPECIFICATION Spec
INVARIANTS
    TypeOK
    FedInTime
    OneTask
    RetriesLoseNoSocket
PROPERTIES
    AnswersTheRequest
    NamesTheAddress
