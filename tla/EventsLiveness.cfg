\* Two producers and one subscription, with every kind of request, a wall clock
\* somebody sets, and a response that holds a pull of no events, cannot be closed
\* after one, and is truncated by a second.
CONSTANTS
    QueueMax = 2
    NoEvent = NoEvent
    Producers = {p1, p2}
    PullMax = 2
    Lifetime = 2
    IdleTimeout = 1
    RespMax = 870
    OpenLen = 278
    EventLen = 428
    CloseLen = 167
    Bodies <- AllBodies
    MessageLimits = {0}
    ClockSteps = {5}
    MaxUptime = 1
    MaxMotions = 3
    MaxSubs = 1
SPECIFICATION ProducerSpec
INVARIANT NoLeak
PROPERTIES
    MotionReturns
    RequestsAnswered
