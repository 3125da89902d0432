SPECIFICATION BtSpec
CONSTANTS
    HalThreads = {h1}
    AppThreads = {a1}
    Observers = {o1}
    Properties = {p1}
    MaxInstances = 1
    NoThread = NoThread
INVARIANTS
    FailedInitializeReturns
