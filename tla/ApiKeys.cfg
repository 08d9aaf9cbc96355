CONSTANTS
    Hashes = {h1, h2}
    Consumers = {c1}
    Processes = {p1, p2}
    Admins = {a1}
    Models = {m1}
    Nothing = Nothing
    MaxEdits = 2
    MaxFaults = 1
SPECIFICATION FairSpec
INVARIANTS
    OneLiveKey
PROPERTIES
    RevocationPropagates
    SnapshotsConverge
