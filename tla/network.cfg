\* Two or three resources of each kind, with whole resets and resets of one namespace.
CONSTANTS
    Cidr <- Blocks
    Zone = {"z1"}
    Client = {"c1"}
    MaxId = 5
SPECIFICATION Spec
INVARIANTS
    TypeOK
    SubnetsDisjoint
    OneGatewayPerZone
    SubnetsInVpc
    AttachmentsKept
    
PROPERTIES
    NothingReturns
