SPECIFICATION Spec
CONSTANTS
    MaxVersion = 2
    Workers = {w1}
    Activators = {}
    MaxFaults = 0
    MaxLate = 0
    MaxEdits = 0
    MaxActivations = 0
    w1 = w1
INVARIANTS
    ServedIsPublished
CHECK_DEADLOCK FALSE
