SPECIFICATION Spec
CONSTANTS
    j1 = j1
    j2 = j2
    w1 = w1
    w2 = w2
    Joiner = {j1, j2}
    Waiter = {w1, w2}
    MaxAttempts = 2
    MaxReplies = 3
    MaxWaits = 3
    MaxFaults = 1
INVARIANTS TypeOK AgreeOnSingleAnswer NoSilentHalfPairing
PROPERTIES AnswerFinal
SYMMETRY Interchangeable
CHECK_DEADLOCK FALSE
