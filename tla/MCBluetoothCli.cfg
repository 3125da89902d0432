SPECIFICATION CliFairSpec
CONSTANTS
    HalThreads = {h1}
    AppThreads = {d1, b1}
    PowerThreads = {b1}
    TheAdapter = TheAdapter
    AdapterObservers = {w1}
    Names = {n1, long}
    LongNames = {long}
    Addresses = {addr}
    Revisions = {"later"}
    AdvInstanceCounts = {5}
    MaxInstances = 1
    MaxQueued = 1
    MaxProperties = 1
    NoThread = NoThread
INVARIANTS
    CliTypeOK
PROPERTIES
    PowerRequestCompletes
    CommandCompletes
