SPECIFICATION CaseSpec
CONSTANTS
    MaxVersion = 2
    Intents = {i1, i2}
    Handlers = {h1, h2}
    MaxTime = 4
    MayBlock = {1, 2}
    i1 = i1
    i2 = i2
    h1 = h1
    h2 = h2
SYMMETRY Renamings
INVARIANTS
    TypeOK
    OneReservation
    OneActivePerAircraft
PROPERTIES
    SupersededByAccepted
    VolumesLockedInTurn
    ActivatedWasEvaluated
CHECK_DEADLOCK FALSE
