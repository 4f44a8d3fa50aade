CONSTANTS
    QueueMax = 3
    Event = {rise, fall}
    NoEvent = NoEvent
    MaxGenerated = 7
SPECIFICATION Spec
INVARIANT TypeOK
PROPERTY ImplementsQueue
