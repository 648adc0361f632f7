\* Disk mode: a save without the default group, and a start from it.
CONSTANTS
    Client = {"c1"}
    Name = {"n1"}
    Persistence = "disk"
    MaxId = 4
SPECIFICATION Spec
PROPERTIES
    DefaultGroupAtStartup
