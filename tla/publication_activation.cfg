SPECIFICATION Spec
CONSTANTS
    MaxVersion = 2
    Workers = {w1}
    Activators = {a1}
    MaxFaults = 1
    MaxLate = 0
    MaxEdits = 1
    MaxActivations = 1
    w1 = w1
    a1 = a1
INVARIANTS
    TypeOK
    ActiveIsActivated
    EndedIsWithdrawn
    WithdrawnIsAbsent
PROPERTIES
    ImplementsStore
CHECK_DEADLOCK FALSE
