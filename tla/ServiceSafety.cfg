\* Two starts with any two of three configurations, two cache slots for three
\* nonces, tokens created at two times.
CONSTANTS
    n1 = n1
    n2 = n2
    n3 = n3
    Nonces = {n1, n2, n3}
    NoNonce = NoNonce
    NonceSlots = 2
    Window = 1
    Configs <- MCConfigs
    Bodies <- MCBodies
    NoBody = NoBody
    MaxStarts = 2
    MaxAccepted = 4
    Times = {0, 2}
SPECIFICATION Spec
INVARIANTS
    TypeOK
    FirstStartIsSafe
    OwnHandler
    ApplyOrFault
    NonceOnce
PROPERTY AdvertisedIsServed
