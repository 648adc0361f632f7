\* Two handlers in flight, the deletes and the activation, in memory mode.
CONSTANTS
    Client = {"c1", "c2"}
    Value = {"v1", "v2"}
    Persistence = "memory"
    MaxId = 3
SPECIFICATION Spec
INVARIANTS
    TypeOK
PROPERTIES
    NothingLost
    NothingReturns
    NoChangeUndone
    ActivationCompletes
