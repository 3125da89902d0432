SPECIFICATION FairSpec
CONSTANTS
    HalThreads = {h1, h2}
    AppThreads = {a1}
    MaxInstances = 1
    NoThread = NoThread
    Hole = Hole
    Factory = Factory
    Uuids = {u1}
    ClientIfs = {c1}
    NoClientIf = NoClientIf
    Payloads = {empty, data, bad}
    InvalidPayloads = {bad}
    EmptyPayloads = {empty}
    MaxCalls = 2
INVARIANTS
    ObserversAreAlive
PROPERTIES
    DispatchImplementsDelivery
    AcceptedCallCompletes
