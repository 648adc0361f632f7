\* Disk mode: requests and resets, crashes, stops that save and starts that restore.
CONSTANTS
    Client = {"c1"}
    Name = {"n1"}
    Persistence = "disk"
    MaxId = 4
SPECIFICATION Spec
INVARIANTS
    TypeOK
    MetadataAgrees
    GroupsWritable
    FreshVpcHasDefaultGroup
PROPERTIES
    NoResurrection
    RestartServesSaved
