\* Three mailboxes on two accounts, without popups, or with popups that nest
\* three deep.  The program may end: an overflow of fdmap, a NULL closed.
CONSTANTS
    b1 = b1
    b2 = b2
    b3 = b3
    work = work
    home = home
    c1 = c1
    c2 = c2
    c3 = c3
    c4 = c4
    NULL = NULL
    Boxes <- ThreeBoxes
    Accounts <- TwoAccounts
    Setups <- AllSetups
    FDMAP_SIZE = 2
    Conns <- FourConns
SPECIFICATION Spec
SYMMETRY Heap
CHECK_DEADLOCK FALSE
INVARIANTS SlotsHoldOpenConnections NothingLeaks OneSocketPerAccount
