SPECIFICATION FairSpec
CONSTANTS
    HalThreads = {h1, h2}
    AppThreads = {a1}
    ClientObservers = {c1, c2}
    ServerObservers = {s1}
    MaxInstances = 1
    NoThread = NoThread
    Hole = Hole
PROPERTIES
    CallbackReturns
