\* Dates at every kind of boundary and two seconds to pass; servers for a list of
\* three; answers that fit a buffer of 20 bytes and that do not.
CONSTANTS
    ServerSlots = 3
    Oversized = {"long"}
    Stump <- MCStump
    Configs <- MCConfigs
    Requests <- MCRequests
    RespMax = 20
    Markup <- MCMarkup
    SyncDates <- MCSync
    BootZone = "UTC"
    MaxTicks = 2
SPECIFICATION Spec
INVARIANTS
    TypeOK
    DateShown
    ClockIsCalendar
    AsAsked
    NoServerLost
    InBuffer
    ScopesListed
    WholeOrFault
