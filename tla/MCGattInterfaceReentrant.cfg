SPECIFICATION ReentrantSpec
CONSTANTS
    HalThreads = {h1}
    AppThreads = {a1}
    ClientObservers = {c1}
    ServerObservers = {s1}
    MaxInstances = 1
    NoThread = NoThread
    Hole = Hole
CHECK_DEADLOCK FALSE
INVARIANTS
    NoSelfDeadlock
