SPECIFICATION Spec
CONSTANTS
    Inviter = Inviter
    Joiner = Joiner
    MaxSkipGap = 2
    MaxSkippedKeys = 2
    Restoring <- JoinerOnly
    MaxTexts = 2
    MaxReceipts = 1
    MaxAux = 0
INVARIANTS OnlyLimitsRefuse
CHECK_DEADLOCK FALSE
