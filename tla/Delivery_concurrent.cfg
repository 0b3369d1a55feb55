SPECIFICATION Spec
CONSTANTS
    Alice = Alice
    Bob = Bob
    A1 = A1
    A2 = A2
    Terminal = {Bob, A1, A2}
    At <- Owner
    MaxTexts <- TwoAndOne
    MaxAux <- NoAux
    MaxSeq = 3
    FurtherTags = 0
    MaxTyped <- Five
    MaxCrashes = 0
    ReceiptPosts = {"ok", "fail", "lost"}
    CommandPosts = {"ok"}
    MaxExpired = 0
INVARIANTS TypeOK ReceiptNeverLost ReadOnce
CHECK_DEADLOCK FALSE
