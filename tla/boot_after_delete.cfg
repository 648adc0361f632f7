\* One instance: a boot task wakes after the delete.
CONSTANTS
    InstanceId = {"i1"}
    Client = {"c1"}
    Persistence = "memory"
    MaxLag = 0
SPECIFICATION Spec
PROPERTIES
    BootStopsOnDelete
