SPECIFICATION Spec
CONSTANTS
    Flights = {f1}
    Intents = {i1}
    Keys = {k1}
    Handlers = {h1, h2}
    None = None
    MaxIntentVersion = 1
    MaxMission = 1
    MaxRequests = 2
    MaxFaults = 0
    f1 = f1
    i1 = i1
    k1 = k1
    h1 = h1
    h2 = h2
INVARIANTS
    ReadbackWasDispatched
CHECK_DEADLOCK FALSE
