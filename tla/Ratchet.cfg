SPECIFICATION Spec
CONSTANTS
    Inviter = Inviter
    Joiner = Joiner
    MaxSkipGap = 1
    MaxSkippedKeys = 2
    Restoring <- Peer
    MaxTexts = 2
    MaxReceipts = 1
    MaxAux = 2
INVARIANTS TypeOK OnlyLimitsRefuse TextKeysDistinct SkippedOfCurrentChain
CHECK_DEADLOCK FALSE
