SPECIFICATION Spec
CONSTANTS
    m1 = m1
    p = p
    Messenger = {m1}
    Publisher = p
    GrantTtl = 1
    Overlap = 2
    Margin = 0
    Offset <- Clocks
    MaxSalts = 3
    MaxTime = 2
INVARIANTS TypeOK HeldGrantsRegistered SessionPermits StoredFollowsProfile
PROPERTIES GenerationNeverFalls
CHECK_DEADLOCK FALSE
