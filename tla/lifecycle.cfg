\* Two instances, two action requests in flight.
CONSTANTS
    InstanceId = {"i1", "i2"}
    Client = {"c1", "c2"}
    Persistence = "memory"
    MaxLag = 0
SPECIFICATION Spec
INVARIANTS
    TypeOK
    SingleDriver
PROPERTIES
    ContractSpec
