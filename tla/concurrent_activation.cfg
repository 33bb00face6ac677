SPECIFICATION Spec
CONSTANTS
    MaxVersion = 1
    Workers = {w1}
    Activators = {a1, a2}
    MaxFaults = 0
    MaxLate = 0
    MaxEdits = 0
    MaxActivations = 2
    w1 = w1
    a1 = a1
    a2 = a2
INVARIANTS
    ActiveIsActivated
CHECK_DEADLOCK FALSE
