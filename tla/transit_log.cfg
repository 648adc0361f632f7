\* Four resources with whole resets and resets of one namespace, while twice as many
\* requests as the log holds are made, two at a time.
CONSTANTS
    Name = {n1, n2}
    Network = {w1, w2}
    MaxId = 4
    Client = {c1, c2}
    MaxLog = 2
    Limit = {0, 1, 2, 3}
    MaxRequest = 4
SYMMETRY Symmetry
SPECIFICATION ProcessSpec
INVARIANTS
    TypeOK
    ConnectionsOwned
    NetworkAttachedOnce
    LogTypeOK
    LogIsLatest
    FeedNewestFirst
