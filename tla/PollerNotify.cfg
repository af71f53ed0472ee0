\* What the manual says of mailboxes with a notify of their own.
CONSTANTS
    NoText = NoText
    NumBoxes = 3
    Labelled <- Remotes
    Unusable <- Second
    Imap <- First
    Remote <- Remotes
    Blocking <- Remotes
    LoopInterval <- LoopEvery
    FetchInterval <- FetchThird
    FetchCmd <- Third
    NotifyCmd <- First
    Counts <- MailCounts
    Texts <- PlainTexts
    Classic = TRUE
    BlinkTimes = 2
    Backoff = 1
    IntBits = 3
    ShiftWraps = TRUE
    MaxLag = 2
SPECIFICATION Spec
INVARIANT OwnNotifyOverrides
