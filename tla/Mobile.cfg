SPECIFICATION Spec
CONSTANTS
    Mobile = Mobile
    Peer = Peer
    window = window
    worker = worker
    Thread = {window, worker}
    Window = window
    MaxSends = 1
    Pushes = {"presence"}
    MaxMessages = 2
    MaxSeq = 2
    MaxKills = 1
    Posts = {"ok", "fail"}
INVARIANTS TypeOK ReceivedIsStored ReceiptQueuedOrPosted
PROPERTIES InboxIsChannel
CHECK_DEADLOCK FALSE
