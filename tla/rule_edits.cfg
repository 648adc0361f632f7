\* Two handlers and the deletes, on groups of up to three rules.
CONSTANTS
    Client = {"c1", "c2"}
    Field = {"protocol", "port_min"}
    Value = {"default", "given"}
    Default = "default"
    MaxId = 4
SPECIFICATION Spec
INVARIANTS
    TypeOK
    RuleIdsUnique
    OrderKept
PROPERTIES
    TableSpec
