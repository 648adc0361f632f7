\* Two processes in any mode, tokens that outlive them, and a file that changes.
CONSTANTS
    Client = {"c1"}
    Identity = {"ann"}
    Policy <- Policies
    Lifetime = 1
    MaxTime = 2
    MaxProcess = 2
SPECIFICATION Spec
INVARIANTS
    TypeOK
    StrictMeansConfirmed
    FreshTokensWork
    StrictIsStricter
    EnforcedByRank
    ViewersChangeNothing
    StrangersSeeNothing
