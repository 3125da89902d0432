SPECIFICATION BtSpec
CONSTANTS
    HalThreads = {h1, h2}
    AppThreads = {a1, a2}
    Observers = {o1, o2}
    Properties = {p1}
    MaxInstances = 2
    NoThread = NoThread
SYMMETRY BtSymmetry
INVARIANTS
    BtTypeOK
    DispatchIsSafe
    HalFollowsInstance
