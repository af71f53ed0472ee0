\* Two remote mailboxes that interleave checks, blinking and fetching, are pushed
\* into the future, lose their checks or never return, also inside each other's
\* checks; one without a label between them.
CONSTANTS
    NoText = NoText
    NumBoxes = 3
    Labelled <- Remotes
    Unusable <- Second
    Imap <- First
    Remote <- Remotes
    Blocking <- Remotes
    LoopInterval <- LoopEvery
    FetchInterval <- FetchThird
    FetchCmd <- Third
    NotifyCmd <- First
    Counts <- MailCounts
    Texts <- PlainTexts
    Classic = TRUE
    BlinkTimes = 2
    Backoff = 1
    IntBits = 3
    ShiftWraps = TRUE
    MaxLag = 2
SPECIFICATION Spec
INVARIANTS TypeOK RowCurrent NoRowLeftDark GlobalNotifyOnce
PROPERTIES BlinkRunsItsCourse NewMailAnnounced Rechecked BlinkingEnds
