SPECIFICATION Spec
CONSTANTS
    HalThreads = {h1, h2}
    AppThreads = {a1, a2}
    PowerThreads = {a1}
    TheAdapter = TheAdapter
    AdapterObservers = {w1}
    Names = {n1, long}
    LongNames = {long}
    Addresses = {addr}
    Revisions = {"earlier", "later"}
    AdvInstanceCounts = {4, 5}
    MaxInstances = 1
    MaxQueued = 2
    MaxProperties = 2
    NoThread = NoThread
INVARIANTS
    TypeOK
    StateTracksHal
    SettledStateIsTrue
    HandlerOnLiveAdapter
    ObserversKnowSettledState
PROPERTIES
    ImplementsAdapterPower
