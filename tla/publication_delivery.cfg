SPECIFICATION CaseSpec
CONSTANTS
    MaxVersion = 1
    Workers = {w1, w2}
    Activators = {a1}
    MaxFaults = 1
    MaxLate = 0
    MaxEdits = 0
    MaxActivations = 1
    a1 = a1
    w1 = w1
    w2 = w2
PROPERTIES
    EventuallySettled
    EventuallyWithdrawn
    DeliveredForGood
    EventuallyTold
CHECK_DEADLOCK FALSE
