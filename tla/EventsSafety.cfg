\* Two producers, a ring of three slots, pulls of one or two events: enough calls
\* of onvif_c_motion to overflow the ring, two subscriptions so that one replaces
\* or follows the other, and time to outlive both deadlines. The sizes are the
\* code's but for RespMax, which holds PullMax events and not QueueMax.
CONSTANTS
    QueueMax = 3
    NoEvent = NoEvent
    Producers = {p1, p2}
    PullMax = 2
    Lifetime = 2
    IdleTimeout = 1
    RespMax = 1400
    OpenLen = 278
    EventLen = 428
    CloseLen = 167
    Bodies <- SubscriptionBodies
    MessageLimits = {1, 3}
    ClockSteps = {}
    MaxUptime = 3
    MaxMotions = 4
    MaxSubs = 2
SPECIFICATION Spec
SYMMETRY ProducerSymmetry
INVARIANTS
    TypeOK
    LockDiscipline
    RingIsRecent
    DeliveredInOrder
    TimestampsInOrder
    PullNeverOverflows
PROPERTIES
    ServedWhileAlive
    ExpiryTakesTime
    ImplementsPullPoint
