\* An IMAP and a POP3 mailbox; presses that do not meet a fetch of the same
\* mailbox.
CONSTANTS
    im = im
    po = po
    NoBox = NoBox
    m1 = m1
    m2 = m2
    m3 = m3
    m4 = m4
    ImapBoxes <- OneImap
    PopBoxes <- OnePop
    Nodes <- FourNodes
    MaxMsgs = 2
    Depth = 3
    Setups <- NotInAFetch
SPECIFICATION Spec
SYMMETRY Heap
INVARIANTS TypeOK ShownIsLiveApart CacheIsLive NothingLost
