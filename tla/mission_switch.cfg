SPECIFICATION Spec
CONSTANTS
    Flights = {f1, f2}
    Intents = {i1}
    Keys = {k1, k2, k3}
    Handlers = {h1, h2}
    None = None
    MaxIntentVersion = 1
    MaxMission = 1
    MaxRequests = 3
    MaxFaults = 1
    f1 = f1
    f2 = f2
    i1 = i1
    k1 = k1
    k2 = k2
    k3 = k3
    h1 = h1
    h2 = h2
SYMMETRY Interchange
INVARIANTS
    TypeOK
    ActiveFlightHasItsMission
    OneOpenDeployment
    ShownIsSo
CHECK_DEADLOCK FALSE
