SPECIFICATION Spec
CONSTANTS
    Uuids = {u1, u2}
    ClientIfs = {c1, c2}
    NoClientIf = NoClientIf
    Payloads = {empty, data, bad}
    InvalidPayloads = {bad}
    EmptyPayloads = {empty}
    MaxCalls = 2
INVARIANTS
    TypeOK
    OneCompletionPerAcceptedCall
    OwedIsAwaited
PROPERTIES
    ImplementsSession
SYMMETRY Symmetry
