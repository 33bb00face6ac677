SPECIFICATION Spec
CONSTANTS
    MaxVersion = 2
    Workers = {w1, w2}
    Activators = {}
    MaxFaults = 2
    MaxLate = 1
    MaxEdits = 0
    MaxActivations = 0
    w1 = w1
    w2 = w2
SYMMETRY Replicas
INVARIANTS
    OneMutator
    ConfirmedMatchesDSS
    ChangesAreAnnounced
PROPERTIES
    StaleResultsRejected
CHECK_DEADLOCK FALSE
