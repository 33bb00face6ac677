SPECIFICATION CaseSpec
CONSTANTS
    MaxVersion = 2
    Intents = {i1}
    Handlers = {h1, h2}
    MaxTime = 2
    MayBlock = {1, 2}
    i1 = i1
    h1 = h1
    h2 = h2
PROPERTIES
    VolumesLocked
CHECK_DEADLOCK FALSE
