\* One resource more than a list shows.
CONSTANTS
    Client = {"c1"}
    Limit = 2
    MaxId = 3
SPECIFICATION Spec
INVARIANTS
    ListComplete
