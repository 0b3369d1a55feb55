SPECIFICATION Spec
CONSTANTS
    Alice = Alice
    Bob = Bob
    Terminal = {Alice, Bob}
    At <- Owner
    MaxTexts <- OneEach
    MaxAux <- NoAux
    MaxSeq = 6
    FurtherTags = 0
    MaxTyped <- Endless
    MaxCrashes = 0
    ReceiptPosts = {"ok", "fail"}
    CommandPosts = {"ok"}
    MaxExpired = 0
INVARIANTS SenderAhead
