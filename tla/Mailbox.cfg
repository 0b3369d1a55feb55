SPECIFICATION Spec
CONSTANTS
    n1 = n1
    n2 = n2
    t1 = t1
    t2 = t2
    Nonce = {n1, n2}
    Tag = {t1, t2}
    plain = plain
    respelt = respelt
    Spelling = {plain, respelt}
    Skew = 2
    NonceTtl = 4
    MessageTtl = 5
    MaxBlobs = 1
    Offset <- Clocks
    Handling = 1
    Lag = 1
    MaxTime = 6
INVARIANTS TypeOK NoReplay AckedBlobServed MailboxBounded
SYMMETRY Interchangeable
CHECK_DEADLOCK FALSE
