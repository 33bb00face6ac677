SPECIFICATION FairSpec
CONSTANTS
    Flights = {f1}
    Intents = {i1}
    Keys = {k1}
    Handlers = {h1, h2}
    None = None
    MaxIntentVersion = 2
    MaxMission = 2
    MaxRequests = 2
    MaxFaults = 1
    f1 = f1
    i1 = i1
    k1 = k1
    h1 = h1
    h2 = h2
PROPERTIES
    EffectIsAuthorized
    EvidenceIsKept
    KnownOutcomeIsRecorded
    RequestsReturn
    ImplementsMissionStore
CHECK_DEADLOCK FALSE
