SPECIFICATION GkiSpec
CONSTANTS
    Threads = {t1, t2, t3, t4}
    NoThread = NoThread
    MaxDepth = 3
INVARIANTS
    GkiTypeOK
    SectionsExclude
    NestedDisableReturns
