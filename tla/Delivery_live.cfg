SPECIFICATION FairSpec
CONSTANTS
    Alice = Alice
    Bob = Bob
    Terminal = {Alice, Bob}
    At <- Owner
    MaxTexts <- OneEach
    MaxAux <- NoAux
    MaxSeq = 8
    FurtherTags = 1
    MaxTyped <- Endless
    MaxCrashes = 0
    ReceiptPosts = {"ok"}
    CommandPosts = {"ok", "fail"}
    MaxExpired = 0
INVARIANTS SenderAhead DistinctSeqs NoSequenceHole
PROPERTIES TextsArrive ReceiptsArrive
