SPECIFICATION Spec
CONSTANTS
    Alice = Alice
    Bob = Bob
    Terminal = {Alice, Bob}
    At <- Owner
    MaxTexts <- TwoTexts
    MaxAux <- OneAux
    MaxSeq = 5
    FurtherTags = 0
    MaxTyped <- Endless
    MaxCrashes = 1
    ReceiptPosts = {"ok", "fail"}
    CommandPosts = {"lost"}
    MaxExpired = 1
INVARIANTS AckedWasStored NoSequenceHole
PROPERTIES ImplementsChannel
CHECK_DEADLOCK FALSE
