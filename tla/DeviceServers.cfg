\* SetNTP requests, written on one line and one element to a line.
CONSTANTS
    ServerSlots = 3
    Oversized = {"long"}
    Stump <- MCStump
    Configs <- MCConfigs
    Requests <- NtpOnly
    RespMax = 20
    Markup <- MCMarkup
    SyncDates = {}
    BootZone = "UTC"
    MaxTicks = 0
SPECIFICATION Spec
INVARIANT OnlyServers
