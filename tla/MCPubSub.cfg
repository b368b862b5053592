\* One publisher, five subscribers; the publisher and one subscriber are dropped.
SPECIFICATION Spec
CONSTANTS
    talker = talker
    shared = shared
    second = second
    owned = owned
    alien = alien
    far = far
    Pubs = {talker}
    Subs = {shared, second, owned, alien, far}
    Key <- MCKey
    Type <- MCType
    Origin <- MCOrigin
    Sink <- MCSink
    Threads = {"main"}
    None = None
    MaxDeliveryDepth = 1
    Builds <- MCBuilds
    Mortal = {talker, shared}
CONSTRAINT OneByOne
INVARIANTS
    SameChannel
    NoDoubleDelivery
    ServedOrRefused
    RetrySafe
CHECK_DEADLOCK FALSE
