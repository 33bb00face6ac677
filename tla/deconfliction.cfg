SPECIFICATION Spec
CONSTANTS
    MaxVersion = 2
    MaxLon = 4
    MaxLat = 3
    LocalIntents = {i1, i2}
    Peers = {p1}
    Checkers = {h1, h2}
    VolumeSets <- MCVolumeSets
    ChangedSets <- MCChangedSets
    AddedVolumes <- MCAddedVolumes
    PeerIntents <- MCPeerIntents
    MaxPeerVersion = 1
    MaxReadFaults = 1
    MaxChecks = 2
    MaxChanges = 1
    Setups <- MCSetups
    i1 = i1
    i2 = i2
    p1 = p1
    h1 = h1
    h2 = h2
SYMMETRY Renamings
INVARIANTS
    NoConflictingActives
    ClearMissesNothing
CHECK_DEADLOCK FALSE
