SPECIFICATION MCFairSpec
CONSTANTS
    Callers = {Run, App}
    Other = Other
    Nobody = Nobody
    NoNamespace = NoNamespace
    Runner = Run
    MaxEvents = 2
INVARIANTS
    TypeOK
    LoginsInOrder
    OneDefaultNamespace
PROPERTIES
    SessionHeals
    CallReturns
