\* Boot at the epoch, one subscription, and an NTP synchronisation.
CONSTANTS
    QueueMax = 1
    NoEvent = NoEvent
    Producers = {p1}
    PullMax = 1
    Lifetime = 2
    IdleTimeout = 1
    RespMax = 4096
    OpenLen = 278
    EventLen = 428
    CloseLen = 167
    Bodies <- SubscriptionBodies
    MessageLimits = {0}
    ClockSteps = {9}
    MaxUptime = 3
    MaxMotions = 1
    MaxSubs = 1
SPECIFICATION Spec
PROPERTY ExpiryTakesTime
