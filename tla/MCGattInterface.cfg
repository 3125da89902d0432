SPECIFICATION Spec
CONSTANTS
    HalThreads = {h1, h2}
    AppThreads = {a1, a2}
    ClientObservers = {c1, c2}
    ServerObservers = {s1}
    MaxInstances = 2
    NoThread = NoThread
    Hole = Hole
SYMMETRY Symmetry
INVARIANTS
    TypeOK
    NotifiedOnlyWhileRegistered
    WalkOnLiveInstance
    InOrderExactlyOnce
    HandleFollowsInstance
    ListsMatchLifecycle
