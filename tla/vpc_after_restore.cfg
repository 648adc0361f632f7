\* Disk mode: a VPC is created after a restore.
CONSTANTS
    Client = {"c1"}
    Name = {"n1"}
    Persistence = "disk"
    MaxId = 4
SPECIFICATION Spec
INVARIANTS
    VpcHasDefaultGroup
