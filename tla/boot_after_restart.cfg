\* One instance: a save and a restart while it boots.
CONSTANTS
    InstanceId = {"i1"}
    Client = {"c1"}
    Persistence = "disk"
    MaxLag = 0
SPECIFICATION Spec
PROPERTIES
    BootCompletes
