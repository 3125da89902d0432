SPECIFICATION Spec
CONSTANTS
    HalThreads = {h1}
    AppThreads = {a1, a2}
    PowerThreads = {a1, a2}
    TheAdapter = TheAdapter
    AdapterObservers = {w1}
    Names = {n1}
    LongNames = {}
    Addresses = {addr}
    Revisions = {"later"}
    AdvInstanceCounts = {5}
    MaxInstances = 1
    MaxQueued = 1
    MaxProperties = 1
    NoThread = NoThread
INVARIANTS
    StateTracksHal
